------------------------------ MODULE RowProofs ------------------------------
(***************************************************************************)
(* What rows, rules, bills and suggestions name, and what is reported of   *)
(* the rows, proved of every behaviour of Desk.                            *)
(*                                                                         *)
(* LabelsFit is not inductive: a late answer stores what its question read,*)
(* a thread of the agent writes over what it read, and a parser's slug     *)
(* fits only while slugs are unique. LabelInv adds those three, and weakens*)
(* what holds of a stored suggestion to what survives a deletion: its      *)
(* subcategory stands under its category or is gone.                       *)
(*                                                                         *)
(* The reports are sums, and a sum is defined by recursion over the parts  *)
(* of a set. In place of an induction each fact about sums is proved of a  *)
(* least part for which it fails (LeastPart). What is reported then agrees *)
(* wherever every row's label is there, which LabelInv says.               *)
(***************************************************************************)
EXTENDS DeskProofs

-----------------------------------------------------------------------------
(* The labels.                                                             *)

\* The tables and what is in them.
Tables ==
  /\ cats \in [Category -> CategoryRow \cup {None, Gone}]
  /\ subs \in [Subcategory -> SubcategoryRow \cup {None, Gone}]
  /\ rules \in [Name -> Rule \cup {None}]
  /\ tx \in [Tx -> Row \cup {None}]
  /\ dues \in [Due -> DueRow \cup {None}]

\* A slug names one living category.
OneSlug == \A c, d \in Categories : cats[c].slug = cats[d].slug => c = d

\* What was once a category and its subcategory: the subcategory may be gone, it can not
\* have moved.
Stands(c, s) == Fits(c, s) \/ subs[s] = Gone

OpOf(contexts) ==
  [context : contexts, category : Category \cup {None}, subcategory : Subcategory \cup {None},
   model : Model, status : {"suggested", "accepted", "corrected", "failed", "invalid"}]

OpsStand ==
  /\ ops = [t \in Tx |-> ops[t]]
  /\ \A t \in Tx :
       /\ \E contexts : ops[t] \in Seq(OpOf(contexts))
       /\ \A i \in DOMAIN ops[t] : Stands(ops[t][i].category, ops[t][i].subcategory)

QuestionStands(q) ==
  /\ q \in [context : {q.context}, cats : SUBSET Category, trying : Model, under : {q.under}]
  /\ DOMAIN q.under \subseteq Subcategory
  /\ \A s \in DOMAIN q.under : Stands(q.under[s], s)

AskingStands ==
  DOMAIN asking = Tx /\ \A t \in Tx : asking[t] # None => QuestionStands(asking[t])

RowsFit  == \A t \in Present : LabelFits(tx[t])
RulesFit == \A n \in Name : rules[n] # None => LabelFits(rules[n])
DuesFit  == \A d \in Due : dues[d] # None => dues[d].category \in Categories \cup {None}

\* What the agent's thread read before it writes was a row.
ReadsSound ==
  \A k \in Call :
    InPhase(k, "resolved") /\ calls[k].request.tx \in Tx =>
      calls[k].read \in Row /\ tx[calls[k].request.tx] \in Row

LabelInv ==
  /\ Tables /\ OneSlug /\ RowsFit /\ RulesFit /\ DuesFit
  /\ OpsStand /\ AskingStands /\ ReadsSound

LEMMA Ids ==
  /\ None # Gone /\ None \notin Category /\ Gone \notin Category
  /\ None \notin Subcategory /\ Gone \notin Subcategory
  /\ None \notin CategoryRow /\ Gone \notin CategoryRow
  /\ None \notin SubcategoryRow /\ Gone \notin SubcategoryRow
BY TaxonomyAssumption

LEMMA ReadRow ==
  ASSUME NEW t \in Tx
  PROVE  /\ Data[t].direction \in {"debit", "credit"} /\ Data[t].type \in Type
         /\ Data[t].name \in Name \cup {None} /\ Data[t].review \in BOOLEAN
BY TaxonomyAssumption

\* The last of the first so many numbers.
LEMMA LastIsThere ==
  ASSUME NEW n \in Nat, NEW S, S \subseteq 1..n, S # {}
  PROVE  (CHOOSE i \in S : \A j \in S : j <= i) \in S
<1> DEFINE T == {k \in Nat : \E i \in S : k = n - i}
<1>1. T \subseteq Nat /\ T # {}
  <2>1. PICK i \in S : TRUE
    OBVIOUS
  <2>2. n - i \in T
    BY <2>1
  <2> QED BY <2>2
<1>2. Min(T) \in T /\ \A k \in T : Min(T) <= k
  BY <1>1, LeastIsThere
<1>3. PICK i \in S : Min(T) = n - i
  BY <1>2
<1>4. \A j \in S : n - j \in T
  BY DEF T
<1>5. \A j \in S : j <= i
  <2> SUFFICES ASSUME NEW j \in S
               PROVE  j <= i
    OBVIOUS
  <2>1. n - i <= n - j
    BY <1>2, <1>3, <1>4
  <2> QED BY <2>1
<1> QED BY <1>5

\* Nothing but the taxonomy decides whether labels fit.
LEMMA SameTaxonomy ==
  ASSUME UNCHANGED taxonomy
  PROVE  /\ Categories' = Categories /\ Subcategories' = Subcategories
         /\ \A c, s : Fits(c, s)' <=> Fits(c, s)
         /\ \A c, s : Stands(c, s)' <=> Stands(c, s)
         /\ OneSlug' <=> OneSlug
<1>1. cats' = cats /\ subs' = subs
  BY DEF taxonomy
<1>2. Categories' = Categories /\ Subcategories' = Subcategories
  BY <1>1 DEF Categories, Subcategories
<1>3. \A c : SubsOf(c)' = SubsOf(c)
  BY <1>1, <1>2 DEF SubsOf
<1>4. \A c, s : Fits(c, s)' <=> Fits(c, s)
  BY <1>3 DEF Fits
<1> QED BY <1>1, <1>2, <1>4 DEF Stands, OneSlug

LEMMA OpKinds ==
  ASSUME OpsStand, NEW t \in Tx, NEW i \in DOMAIN ops[t]
  PROVE  /\ ops[t][i].subcategory \in Subcategory \cup {None}
         /\ ops[t][i].category \in Category \cup {None}
<1>1. PICK contexts : ops[t] \in Seq(OpOf(contexts))
  BY DEF OpsStand
<1>2. ops[t][i] \in OpOf(contexts)
  BY <1>1
<1> QED BY <1>2 DEF OpOf

-----------------------------------------------------------------------------
(* Categories and subcategories.                                           *)

\* A change of the taxonomy that keeps what is referred to and moves no subcategory.
LEMMA Rearranged ==
  ASSUME LabelInv, Tables', OneSlug',
         UNCHANGED <<rules, tx, dues, ops, asking, calls>>,
         \A c \in Categories : Referred(c) => c \in Categories',
         \A s \in Subcategories : Referred(s) => subs'[s] = subs[s],
         \A s \in Subcategory : subs'[s] = subs[s] \/ subs[s] = None \/ subs'[s] = Gone
  PROVE  LabelInv'
<1>1. \A c, s : Stands(c, s) /\ s \in Subcategory \cup {None} => Stands(c, s)'
  BY Ids DEF Stands, Fits, SubsOf, Subcategories
<1>2. \A s \in Subcategories : Referred(s) => s \in Subcategories' /\ \A c : Fits(c, s) => Fits(c, s)'
  BY DEF Subcategories, Fits, SubsOf
<1>3. ASSUME NEW l, LabelFits(l),
             l.category \in Categories => Referred(l.category),
             l.subcategory \in Subcategories => Referred(l.subcategory)
      PROVE  LabelFits(l)'
  <2>1. l.category \in Categories' \cup {None}
    BY <1>3 DEF LabelFits
  <2>2. l.subcategory \in Subcategories' \cup {None}
    BY <1>2, <1>3 DEF LabelFits
  <2>3. Fits(l.category, l.subcategory) => Fits(l.category, l.subcategory)'
    BY <1>2, <1>3 DEF LabelFits, Fits
  <2> QED BY <1>3, <2>1, <2>2, <2>3 DEF LabelFits
<1>4. RowsFit'
  <2> SUFFICES ASSUME NEW t \in Present
               PROVE  LabelFits(tx[t])'
    BY DEF RowsFit, Present, LabelFits, Fits
  <2>1. LabelFits(tx[t])
    BY DEF LabelInv, RowsFit
  <2>2. Referred(tx[t].category) /\ Referred(tx[t].subcategory)
    BY DEF Referred
  <2> QED BY <1>3, <2>1, <2>2
<1>5. RulesFit'
  <2> SUFFICES ASSUME NEW n \in Name, rules[n] # None
               PROVE  LabelFits(rules[n])'
    BY DEF RulesFit, LabelFits, Fits
  <2>1. LabelFits(rules[n])
    BY DEF LabelInv, RulesFit
  <2>2. Referred(rules[n].category) /\ Referred(rules[n].subcategory)
    BY DEF Referred
  <2> QED BY <1>3, <2>1, <2>2
<1>6. DuesFit'
  <2> SUFFICES ASSUME NEW d \in Due, dues[d] # None
               PROVE  dues[d].category \in Categories' \cup {None}
    BY DEF DuesFit
  <2>1. Referred(dues[d].category)
    BY DEF Referred
  <2> QED BY <2>1 DEF LabelInv, DuesFit
<1>7. OpsStand'
  <2> SUFFICES ASSUME NEW t \in Tx, NEW i \in DOMAIN ops[t]
               PROVE  Stands(ops[t][i].category, ops[t][i].subcategory)'
    BY DEF LabelInv, OpsStand
  <2>1. ops[t][i].subcategory \in Subcategory \cup {None}
    BY OpKinds DEF LabelInv
  <2> QED BY <1>1, <2>1 DEF LabelInv, OpsStand
<1>8. AskingStands'
  <2> SUFFICES ASSUME NEW t \in Tx, asking[t] # None
               PROVE  QuestionStands(asking[t])'
    BY DEF LabelInv, AskingStands
  <2>1. QuestionStands(asking[t])
    BY DEF LabelInv, AskingStands
  <2> QED BY <1>1, <2>1 DEF QuestionStands
<1>9. ReadsSound'
  BY DEF LabelInv, ReadsSound, InPhase
<1> QED BY <1>4, <1>5, <1>6, <1>7, <1>8, <1>9 DEF LabelInv

LEMMA CreateCategoryLabels ==
  ASSUME LabelInv, NEW c \in Category, NEW slug \in Typed, CreateCategory(c, slug),
         UNCHANGED <<dues, ops, asking, calls>>
  PROVE  LabelInv'
<1> DEFINE row == [slug |-> slug, expense |-> "discretionary", system |-> FALSE]
<1>1. /\ cats[c] = None /\ \A d \in Categories : cats[d].slug # slug
      /\ cats' = [cats EXCEPT ![c] = row] /\ UNCHANGED <<subs, rules, tx>>
  BY DEF CreateCategory
<1>2. row \in CategoryRow /\ row.slug = slug
  BY TaxonomyAssumption DEF CategoryRow
<1> HIDE DEF row
<1>3. cats \in [Category -> CategoryRow \cup {None, Gone}]
  BY DEF LabelInv, Tables
<1>4. Tables'
  BY <1>1, <1>2 DEF LabelInv, Tables
<1>5. Categories' = Categories \cup {c} /\ \A d \in Categories : cats'[d] = cats[d]
  BY <1>1, <1>2, <1>3, Ids DEF Categories
<1>6. OneSlug'
  BY <1>1, <1>2, <1>3, <1>5 DEF LabelInv, OneSlug
<1> QED BY <1>1, <1>4, <1>5, <1>6, Rearranged

LEMMA ChangeCategoryLabels ==
  ASSUME LabelInv, NEW c \in Categories, NEW row \in CategoryRow,
         cats' = [cats EXCEPT ![c] = row], \A d \in Categories \ {c} : cats[d].slug # row.slug,
         UNCHANGED <<subs, rules, tx, dues, ops, asking, calls>>
  PROVE  LabelInv'
<1>1. cats \in [Category -> CategoryRow \cup {None, Gone}] /\ c \in Category
  BY DEF LabelInv, Tables, Categories
<1>2. Tables'
  BY <1>1 DEF LabelInv, Tables
<1>3. Categories' = Categories /\ cats'[c] = row /\ \A d \in Categories : d # c => cats'[d] = cats[d]
  BY <1>1, Ids DEF Categories
<1>4. OneSlug'
  BY <1>3 DEF LabelInv, OneSlug
<1> QED BY <1>2, <1>3, <1>4, Rearranged

LEMMA RenameCategoryLabels ==
  ASSUME LabelInv, NEW c \in Category, NEW slug \in Typed, RenameCategory(c, slug),
         UNCHANGED <<dues, ops, asking, calls>>
  PROVE  LabelInv'
<1> DEFINE row == [cats[c] EXCEPT !.slug = slug]
<1>1. /\ c \in Categories /\ \A d \in Categories \ {c} : cats[d].slug # slug
      /\ cats' = [cats EXCEPT ![c] = row] /\ UNCHANGED <<subs, rules, tx>>
  BY DEF RenameCategory
<1>2. cats[c] \in CategoryRow
  BY <1>1 DEF LabelInv, Tables, Categories
<1>3. row \in CategoryRow /\ row.slug = slug
  BY <1>2, TaxonomyAssumption DEF CategoryRow
<1> HIDE DEF row
<1> QED BY <1>1, <1>3, ChangeCategoryLabels

LEMMA SetExpenseTypeLabels ==
  ASSUME LabelInv, NEW c \in Category, NEW expense \in Expense, SetExpenseType(c, expense),
         UNCHANGED <<dues, ops, asking, calls>>
  PROVE  LabelInv'
<1> DEFINE row == [cats[c] EXCEPT !.expense = expense]
<1>1. /\ c \in Categories
      /\ cats' = [cats EXCEPT ![c] = row] /\ UNCHANGED <<subs, rules, tx>>
  BY DEF SetExpenseType
<1>2. cats[c] \in CategoryRow
  BY <1>1 DEF LabelInv, Tables, Categories
<1>3. row \in CategoryRow /\ row.slug = cats[c].slug
  BY <1>2 DEF CategoryRow
<1>4. \A d \in Categories \ {c} : cats[d].slug # row.slug
  BY <1>1, <1>3 DEF LabelInv, OneSlug
<1> HIDE DEF row
<1> QED BY <1>1, <1>3, <1>4, ChangeCategoryLabels

LEMMA DeleteCategoryLabels ==
  ASSUME LabelInv, NEW c \in Category, DeleteCategory(c), UNCHANGED <<dues, ops, asking, calls>>
  PROVE  LabelInv'
<1>1. /\ c \in Categories /\ ~Referred(c) /\ \A s \in SubsOf(c) : ~Referred(s)
      /\ cats' = [cats EXCEPT ![c] = Gone]
      /\ subs' = [s \in Subcategory |-> IF s \in SubsOf(c) THEN Gone ELSE subs[s]]
      /\ UNCHANGED <<rules, tx>>
  BY DEF DeleteCategory
<1>2. cats \in [Category -> CategoryRow \cup {None, Gone}]
  BY DEF LabelInv, Tables
<1>3. Tables'
  BY <1>1 DEF LabelInv, Tables
<1>4. Categories' = Categories \ {c} /\ \A d \in Categories' : cats'[d] = cats[d]
  BY <1>1, <1>2 DEF Categories
<1>5. OneSlug'
  BY <1>4 DEF LabelInv, OneSlug
<1>6. \A s \in Subcategory : subs'[s] = subs[s] \/ subs'[s] = Gone
  BY <1>1
<1>7. \A s \in Subcategories : Referred(s) => subs'[s] = subs[s]
  BY <1>1 DEF Subcategories
<1> QED BY <1>1, <1>3, <1>4, <1>5, <1>6, <1>7, Rearranged

LEMMA SubcategoryLabels ==
  ASSUME LabelInv, NEW s \in Subcategory, UNCHANGED <<dues, ops, asking, calls>>,
         \/ \E c \in Category, slug \in Typed : CreateSubcategory(s, c, slug)
         \/ DeleteSubcategory(s)
  PROVE  LabelInv'
<1>1. UNCHANGED <<cats, rules, tx, dues>>
  BY DEF CreateSubcategory, DeleteSubcategory
<1>2. Categories' = Categories /\ OneSlug'
  BY <1>1 DEF Categories, LabelInv, OneSlug
<1>3. subs \in [Subcategory -> SubcategoryRow \cup {None, Gone}]
  BY DEF LabelInv, Tables
<1>4. ASSUME NEW c \in Category, NEW slug \in Typed, CreateSubcategory(s, c, slug)
      PROVE  LabelInv'
  <2> DEFINE row == [of |-> c, slug |-> slug]
  <2>1. subs[s] = None /\ subs' = [subs EXCEPT ![s] = row]
    BY <1>4 DEF CreateSubcategory
  <2>2. row \in SubcategoryRow
    BY TaxonomyAssumption DEF SubcategoryRow
  <2> HIDE DEF row
  <2>3. Tables'
    BY <1>1, <2>1, <2>2 DEF LabelInv, Tables
  <2>4. \A r \in Subcategory : subs'[r] = subs[r] \/ subs[r] = None
    BY <1>3, <2>1
  <2>5. \A r \in Subcategories : subs'[r] = subs[r]
    BY <2>4 DEF Subcategories
  <2> QED BY <1>1, <1>2, <2>3, <2>4, <2>5, Rearranged
<1>5. CASE DeleteSubcategory(s)
  <2>1. ~Referred(s) /\ subs' = [subs EXCEPT ![s] = Gone]
    BY <1>5 DEF DeleteSubcategory
  <2>2. Tables'
    BY <1>1, <2>1 DEF LabelInv, Tables
  <2>3. \A r \in Subcategory : subs'[r] = subs[r] \/ subs'[r] = Gone
    BY <1>3, <2>1
  <2>4. \A r \in Subcategories : Referred(r) => subs'[r] = subs[r]
    BY <1>3, <2>1 DEF Subcategories
  <2> QED BY <1>1, <1>2, <2>2, <2>3, <2>4, Rearranged
<1> QED BY <1>4, <1>5

-----------------------------------------------------------------------------
(* Rules and rows.                                                         *)

\* What the labels of bills, suggestions and questions, and the threads, take from a step
\* that leaves the taxonomy alone.
LEMMA TaxonomyKept ==
  ASSUME LabelInv, UNCHANGED taxonomy
  PROVE  /\ OneSlug'
         /\ UNCHANGED dues => DuesFit'
         /\ UNCHANGED rules => RulesFit'
         /\ UNCHANGED tx => RowsFit'
         /\ UNCHANGED ops => OpsStand'
         /\ UNCHANGED asking => AskingStands'
         /\ \A l : LabelFits(l)' <=> LabelFits(l)
<1>1. \A l : LabelFits(l)' <=> LabelFits(l)
  BY SameTaxonomy DEF LabelFits
<1>2. OneSlug'
  BY SameTaxonomy DEF LabelInv
<1>3. UNCHANGED dues => DuesFit'
  BY SameTaxonomy DEF LabelInv, DuesFit
<1>4. UNCHANGED rules => RulesFit'
  BY SameTaxonomy DEF LabelInv, RulesFit, LabelFits
<1>5. UNCHANGED tx => RowsFit'
  BY SameTaxonomy DEF LabelInv, RowsFit, LabelFits, Present
<1>6. UNCHANGED ops => OpsStand'
  BY SameTaxonomy DEF LabelInv, OpsStand
<1>7. UNCHANGED asking => AskingStands'
  BY SameTaxonomy DEF LabelInv, AskingStands, QuestionStands
<1> QED BY <1>1, <1>2, <1>3, <1>4, <1>5, <1>6, <1>7

LEMMA RulesLabels ==
  ASSUME LabelInv, NEW n \in Name, UpdateRule(n) \/ DeleteRule(n),
         UNCHANGED <<dues, ops, asking, calls>>
  PROVE  LabelInv'
<1>1. UNCHANGED <<taxonomy, tx>> /\ rules[n] # None
  BY DEF UpdateRule, DeleteRule, taxonomy
<1>2. rules \in [Name -> Rule \cup {None}] /\ rules[n] \in Rule /\ LabelFits(rules[n])
  BY <1>1 DEF LabelInv, Tables, RulesFit
<1> SUFFICES rules' \in [Name -> Rule \cup {None}] /\ \A m \in Name : rules'[m] # None => LabelFits(rules'[m])
  <2>1. Tables'
    BY <1>1 DEF LabelInv, Tables, taxonomy
  <2>2. RulesFit'
    BY <1>1, TaxonomyKept DEF RulesFit, LabelFits
  <2>3. ReadsSound'
    BY <1>1 DEF LabelInv, ReadsSound, InPhase
  <2> QED BY <1>1, <2>1, <2>2, <2>3, TaxonomyKept DEF LabelInv
<1>3. ASSUME NEW rule \in Rule, LabelFits(rule), rules' = [rules EXCEPT ![n] = rule]
      PROVE  rules' \in [Name -> Rule \cup {None}] /\ \A m \in Name : rules'[m] # None => LabelFits(rules'[m])
  <2>1. rules' \in [Name -> Rule \cup {None}] /\ rules'[n] = rule
        /\ \A m \in Name : m # n => rules'[m] = rules[m]
    BY <1>2, <1>3
  <2>2. \A m \in Name : rules'[m] # None => LabelFits(rules'[m])
    <3> SUFFICES ASSUME NEW m \in Name, rules'[m] # None
                 PROVE  LabelFits(rules'[m])
      OBVIOUS
    <3>1. CASE m = n
      BY <1>3, <2>1, <3>1
    <3>2. CASE m # n
      <4>1. rules'[m] = rules[m]
        BY <2>1, <3>2
      <4>2. LabelFits(rules[m])
        BY <4>1 DEF LabelInv, RulesFit
      <4> QED BY <4>1, <4>2
    <3> QED BY <3>1, <3>2
  <2> QED BY <2>1, <2>2
<1>4. ASSUME NEW on \in BOOLEAN, rules' = [rules EXCEPT ![n].active = on]
      PROVE  rules' \in [Name -> Rule \cup {None}] /\ \A m \in Name : rules'[m] # None => LabelFits(rules'[m])
  <2> DEFINE rule == [rules[n] EXCEPT !.active = on]
  <2>1. rules' = [rules EXCEPT ![n] = rule]
    BY <1>4
  <2>2. rule \in Rule /\ rule.category = rules[n].category /\ rule.subcategory = rules[n].subcategory
        /\ rule.strayed = rules[n].strayed
    BY <1>2 DEF Rule
  <2> HIDE DEF rule
  <2>3. LabelFits(rule)
    BY <1>2, <2>2 DEF LabelFits, Rule
  <2> QED BY <1>3, <2>1, <2>2, <2>3
<1>5. ASSUME NEW c \in Categories, rules' = [rules EXCEPT ![n].category = c, ![n].strayed = TRUE]
      PROVE  rules' \in [Name -> Rule \cup {None}] /\ \A m \in Name : rules'[m] # None => LabelFits(rules'[m])
  <2> DEFINE rule == [rules[n] EXCEPT !.category = c, !.strayed = TRUE]
  <2>1. rules' = [rules EXCEPT ![n] = rule]
    BY <1>2, <1>5
  <2>2. rule \in Rule /\ rule.category = c /\ rule.subcategory = rules[n].subcategory
        /\ rule.strayed = TRUE
    BY <1>2 DEF Rule, Categories
  <2> HIDE DEF rule
  <2>3. LabelFits(rule)
    BY <1>2, <2>2 DEF LabelFits
  <2> QED BY <1>3, <2>1, <2>2, <2>3
<1>6. ASSUME NEW c \in Categories, NEW s \in SubsOf(c) \cup {None},
             rules' = [rules EXCEPT ![n].category = c, ![n].subcategory = s, ![n].strayed = FALSE]
      PROVE  rules' \in [Name -> Rule \cup {None}] /\ \A m \in Name : rules'[m] # None => LabelFits(rules'[m])
  <2> DEFINE rule == [rules[n] EXCEPT !.category = c, !.subcategory = s, !.strayed = FALSE]
  <2>1. rules' = [rules EXCEPT ![n] = rule]
    BY <1>2, <1>6
  <2>2. rule \in Rule /\ rule.category = c /\ rule.subcategory = s
    BY <1>2 DEF Rule, Categories, SubsOf, Subcategories
  <2> HIDE DEF rule
  <2>3. LabelFits(rule)
    BY <2>2 DEF LabelFits, Fits, SubsOf
  <2> QED BY <1>3, <2>1, <2>2, <2>3
<1>7. CASE DeleteRule(n)
  BY <1>2, <1>7 DEF DeleteRule, LabelInv, RulesFit
<1> QED BY <1>4, <1>5, <1>6, <1>7 DEF UpdateRule

\* What the parser's slugs name today fits, for a slug names one category.
LEMMA HintedFits ==
  ASSUME LabelInv, NEW slug, NEW sub
  PROVE  LET label == Hinted(slug, sub)
         IN  /\ label.category \in Categories \cup {None}
             /\ label.subcategory \in Subcategories \cup {None}
             /\ Fits(label.category, label.subcategory)
<1> DEFINE label == Hinted(slug, sub)
           c == {d \in Categories : cats[d].slug = slug}
           s == {r \in Subcategories : subs[r].of \in c /\ subs[r].slug = sub}
<1>1. /\ label.category = IF c = {} THEN None ELSE CHOOSE d \in c : TRUE
      /\ label.subcategory = IF s = {} THEN None ELSE CHOOSE r \in s : TRUE
  BY DEF Hinted
<1>2. label.category \in c \cup {None} /\ (c # {} => label.category \in c)
  BY <1>1
<1>3. label.subcategory \in s \cup {None}
  BY <1>1
<1>4. \A d, e \in c : d = e
  BY DEF LabelInv, OneSlug
<1>5. label.subcategory \in s => subs[label.subcategory].of = label.category
  BY <1>2, <1>4
<1>6. Fits(label.category, label.subcategory)
  BY <1>3, <1>5 DEF Fits, SubsOf
<1> QED BY <1>2, <1>3, <1>6

\* A step that writes rows whose labels fit, and that no thread reads for.
LEMMA RowsWritten ==
  ASSUME LabelInv, UNCHANGED taxonomy, tx' \in [Tx -> Row \cup {None}],
         \A p \in Tx : tx'[p] = tx[p] \/ (tx'[p] \in Row /\ LabelFits(tx'[p])),
         \A k \in Call : InPhase(k, "resolved")' =>
                           /\ InPhase(k, "resolved")
                           /\ calls'[k].request = calls[k].request /\ calls'[k].read = calls[k].read
  PROVE  RowsFit' /\ ReadsSound'
<1>1. RowsFit'
  <2> SUFFICES ASSUME NEW p \in Tx, tx'[p] # None
               PROVE  LabelFits(tx'[p])
    BY TaxonomyKept DEF RowsFit, Present, LabelFits
  <2>1. CASE tx'[p] = tx[p]
    <3>1. LabelFits(tx[p])
      BY <2>1 DEF LabelInv, RowsFit, Present
    <3> QED BY <2>1, <3>1
  <2> QED BY <2>1
<1>2. ReadsSound'
  <2> SUFFICES ASSUME NEW k \in Call, InPhase(k, "resolved")', calls'[k].request.tx \in Tx
               PROVE  calls'[k].read \in Row /\ tx'[calls'[k].request.tx] \in Row
    BY DEF ReadsSound
  <2>1. calls[k].read \in Row /\ tx[calls[k].request.tx] \in Row
    BY DEF LabelInv, ReadsSound
  <2> QED BY <2>1
<1> QED BY <1>1, <1>2

\* A step that changes nothing but a row.
LEMMA RowLabels ==
  ASSUME LabelInv, UNCHANGED <<taxonomy, rules, dues, ops, asking, calls>>,
         NEW t \in Tx, NEW row \in Row, LabelFits(row), tx' = [tx EXCEPT ![t] = row]
  PROVE  LabelInv'
<1>1. tx \in [Tx -> Row \cup {None}]
  BY DEF LabelInv, Tables
<1>2. tx' \in [Tx -> Row \cup {None}] /\ tx'[t] = row /\ \A p \in Tx : p # t => tx'[p] = tx[p]
  BY <1>1
<1>3. \A k \in Call : InPhase(k, "resolved")' =>
                           /\ InPhase(k, "resolved")
                           /\ calls'[k].request = calls[k].request /\ calls'[k].read = calls[k].read
  BY DEF InPhase
<1>4. \A p \in Tx : tx'[p] = tx[p] \/ (tx'[p] \in Row /\ LabelFits(tx'[p]))
  BY <1>2
<1>5. RowsFit' /\ ReadsSound'
  BY <1>2, <1>3, <1>4, RowsWritten
<1>6. Tables'
  BY <1>2 DEF LabelInv, Tables, taxonomy
<1> QED BY <1>5, <1>6, TaxonomyKept DEF LabelInv

LEMMA ArriveLabels ==
  ASSUME LabelInv, NEW t \in Tx, Arrive(t), UNCHANGED <<dues, ops, asking, calls>>
  PROVE  LabelInv'
<1> DEFINE d == Data[t]
           rule == RuleOf(t)
           ruled == rule # None /\ rule.active
           label == IF ruled THEN rule ELSE Hinted(d.category, d.subcategory)
           row == [category |-> label.category, subcategory |-> label.subcategory, type |-> d.type,
                   by |-> IF ruled THEN "user" ELSE "parser", verified |-> ruled,
                   review |-> d.review /\ ~ruled,
                   transfer |-> d.type = "transfer", refund |-> d.type = "refund",
                   excluded |-> d.type \in {"transfer", "income"},
                   duplicate |-> FALSE, flagged |-> FALSE, strayed |-> ruled /\ rule.strayed]
<1>1. tx' = [tx EXCEPT ![t] = row] /\ UNCHANGED <<taxonomy, rules>>
  BY DEF Arrive, taxonomy
<1>2. d.type \in Type /\ d.review \in BOOLEAN /\ rule \in Rule \cup {None}
  BY ReadRow DEF LabelInv, Tables, RuleOf
<1>3. rule # None => rule.strayed \in BOOLEAN /\ rule.active \in BOOLEAN /\ LabelFits(rule)
  <2>1. rule # None => rule \in Rule
    BY <1>2
  <2>2. rule # None => LabelFits(rule)
    BY ReadRow DEF LabelInv, RulesFit, RuleOf
  <2> HIDE DEF rule
  <2> QED BY <2>1, <2>2 DEF Rule
<1>4. ruled \in BOOLEAN /\ (ruled /\ rule.strayed) \in BOOLEAN /\ (ruled => rule # None)
  BY <1>3
<1>5. /\ label.category \in Categories \cup {None} /\ label.subcategory \in Subcategories \cup {None}
      /\ ~(ruled /\ rule.strayed) => Fits(label.category, label.subcategory)
  <2>1. CASE ruled
    <3>1. label = rule /\ LabelFits(rule)
      BY <1>3, <2>1
    <3> HIDE DEF label, rule, ruled
    <3> QED BY <2>1, <3>1 DEF LabelFits
  <2>2. CASE ~ruled
    <3> DEFINE hinted == Hinted(d.category, d.subcategory)
    <3>1. label = hinted
      BY <2>2
    <3>2. /\ hinted.category \in Categories \cup {None}
          /\ hinted.subcategory \in Subcategories \cup {None}
          /\ Fits(hinted.category, hinted.subcategory)
      BY HintedFits
    <3> HIDE DEF hinted, label
    <3> QED BY <3>1, <3>2
  <2> QED BY <2>1, <2>2
<1> HIDE DEF d, rule, ruled, label
<1>6. /\ row \in Row /\ row.category = label.category /\ row.subcategory = label.subcategory
      /\ row.strayed = (ruled /\ rule.strayed)
  <2> DEFINE strayed == ruled /\ rule.strayed
             row2 == [category |-> label.category, subcategory |-> label.subcategory, type |-> d.type,
                   by |-> IF ruled THEN "user" ELSE "parser", verified |-> ruled,
                   review |-> d.review /\ ~ruled,
                   transfer |-> d.type = "transfer", refund |-> d.type = "refund",
                   excluded |-> d.type \in {"transfer", "income"},
                   duplicate |-> FALSE, flagged |-> FALSE, strayed |-> strayed]
  <2>1. row = row2
    OBVIOUS
  <2>2. strayed \in BOOLEAN /\ label.category \in Category \cup {None}
        /\ label.subcategory \in Subcategory \cup {None}
    BY <1>4, <1>5 DEF Categories, Subcategories
  <2> HIDE DEF strayed
  <2>3. row2 \in Row /\ row2.category = label.category /\ row2.subcategory = label.subcategory
        /\ row2.strayed = strayed
    BY <1>2, <1>4, <2>2 DEF Row
  <2> QED BY <2>1, <2>3 DEF strayed
<1> HIDE DEF row
<1>7. LabelFits(row)
  BY <1>5, <1>6 DEF LabelFits
<1> QED BY <1>1, <1>6, <1>7, RowLabels

LEMMA MarkLabels ==
  ASSUME LabelInv, NEW t \in Tx, Mark(t), UNCHANGED <<dues, ops, asking, calls>>
  PROVE  LabelInv'
<1>1. tx[t] # None /\ UNCHANGED <<taxonomy, rules>>
  BY DEF Mark, taxonomy
<1>2. tx[t] \in Row /\ LabelFits(tx[t])
  BY <1>1 DEF LabelInv, Tables, RowsFit, Present
<1>3. CASE tx' = [tx EXCEPT ![t].duplicate = TRUE, ![t].excluded = TRUE]
  <2> DEFINE row == [tx[t] EXCEPT !.duplicate = TRUE, !.excluded = TRUE]
  <2>1. tx' = [tx EXCEPT ![t] = row]
    BY <1>3
  <2>2. row \in Row /\ row.category = tx[t].category /\ row.subcategory = tx[t].subcategory
        /\ row.strayed = tx[t].strayed
    BY <1>2 DEF Row
  <2> HIDE DEF row
  <2>3. LabelFits(row)
    BY <1>2, <2>2 DEF LabelFits, Row
  <2> QED BY <1>1, <2>1, <2>2, <2>3, RowLabels
<1>4. CASE tx' = [tx EXCEPT ![t].flagged = TRUE]
  <2> DEFINE row == [tx[t] EXCEPT !.flagged = TRUE]
  <2>1. tx' = [tx EXCEPT ![t] = row]
    BY <1>4
  <2>2. row \in Row /\ row.category = tx[t].category /\ row.subcategory = tx[t].subcategory
        /\ row.strayed = tx[t].strayed
    BY <1>2 DEF Row
  <2> HIDE DEF row
  <2>3. LabelFits(row)
    BY <1>2, <2>2 DEF LabelFits, Row
  <2> QED BY <1>1, <2>1, <2>2, <2>3, RowLabels
<1> QED BY <1>3, <1>4 DEF Mark

\* What a label and its side effects make of a row.
LEMMA LabelledRow ==
  ASSUME NEW t, NEW row \in Row, NEW label, label.category \in Category,
         label.subcategory \in Subcategory \cup {None}
  PROVE  LET new == Labelled(t, row, label)
         IN  /\ new \in Row /\ new.strayed = FALSE
             /\ new.category = label.category /\ new.subcategory = label.subcategory
<1> DEFINE base == [row EXCEPT !.category = label.category, !.subcategory = label.subcategory,
                               !.verified = TRUE, !.review = FALSE, !.by = "user",
                               !.strayed = FALSE]
           new == SideEffects(t, base, label)
           Kept(r) == /\ r \in Row /\ r.strayed = FALSE
                      /\ r.category = label.category /\ r.subcategory = label.subcategory
<1>1. Kept(base)
  BY DEF Row
<1> HIDE DEF base
<1>2. Kept([base EXCEPT !.transfer = TRUE, !.refund = FALSE, !.excluded = TRUE,
                        !.type = IF @ \in {"income", "refund"} THEN @ ELSE "transfer"])
  <2> DEFINE type == IF base.type \in {"income", "refund"} THEN base.type ELSE "transfer"
  <2>1. type \in Type
    BY <1>1 DEF Row, Type
  <2> SUFFICES Kept([base EXCEPT !.transfer = TRUE, !.refund = FALSE, !.excluded = TRUE,
                                 !.type = type])
    OBVIOUS
  <2> HIDE DEF type
  <2> QED BY <1>1, <2>1 DEF Row
<1>3. Kept([base EXCEPT !.transfer = FALSE, !.excluded = TRUE, !.refund = label.sub = "refund",
                        !.type = IF label.sub = "refund" THEN "refund" ELSE "income"])
  <2> DEFINE type   == IF label.sub = "refund" THEN "refund" ELSE "income"
             refund == label.sub = "refund"
  <2>1. type \in Type /\ refund \in BOOLEAN
    BY DEF Type
  <2> SUFFICES Kept([base EXCEPT !.transfer = FALSE, !.excluded = TRUE, !.refund = refund,
                                 !.type = type])
    OBVIOUS
  <2> HIDE DEF type, refund
  <2> QED BY <1>1, <2>1 DEF Row
<1>4. Kept([base EXCEPT !.transfer = FALSE, !.excluded = FALSE,
                        !.type = IF @ \in {"transfer", "other", "income"} THEN "purchase" ELSE @])
  <2> DEFINE type == IF base.type \in {"transfer", "other", "income"} THEN "purchase" ELSE base.type
  <2>1. type \in Type
    BY <1>1 DEF Row, Type
  <2> SUFFICES Kept([base EXCEPT !.transfer = FALSE, !.excluded = FALSE, !.type = type])
    OBVIOUS
  <2> HIDE DEF type
  <2> QED BY <1>1, <2>1 DEF Row
<1>5. Kept([base EXCEPT !.transfer = FALSE])
  BY <1>1 DEF Row
<1> HIDE DEF Kept
<1>6. Kept(new)
  BY <1>2, <1>3, <1>4, <1>5 DEF SideEffects
<1>7. Labelled(t, row, label) = new
  BY DEF Labelled, base
<1> HIDE DEF new
<1> QED BY <1>6, <1>7 DEF Kept

\* What a session writes of a row it read.
LEMMA WrittenRow ==
  ASSUME NEW now \in Row, NEW read \in Row, NEW new \in Row
  PROVE  LET row == Written(now, read, new)
         IN  /\ row \in Row
             /\ row.category = IF new.category = read.category THEN now.category ELSE new.category
             /\ row.subcategory
                  = IF new.subcategory = read.subcategory THEN now.subcategory ELSE new.subcategory
             /\ row.strayed = TRUE <=> \/ now.category # read.category
                                       \/ now.subcategory # read.subcategory
<1> DEFINE Column(f) == IF new[f] = read[f] THEN now[f] ELSE new[f]
           category == Column("category")
           subcategory == Column("subcategory")
           type == Column("type")
           by == Column("by")
           verified == Column("verified")
           review == Column("review")
           transfer == Column("transfer")
           refund == Column("refund")
           excluded == Column("excluded")
           strayed == now.category # read.category \/ now.subcategory # read.subcategory
           row == [now EXCEPT !.category = category, !.subcategory = subcategory, !.type = type,
                              !.by = by, !.verified = verified, !.review = review,
                              !.transfer = transfer, !.refund = refund, !.excluded = excluded,
                              !.strayed = strayed]
<1>1. /\ category \in Category \cup {None} /\ subcategory \in Subcategory \cup {None}
      /\ type \in Type /\ by \in {"parser", "user"} /\ strayed \in BOOLEAN
  BY DEF Row
<1>2. verified \in BOOLEAN /\ review \in BOOLEAN /\ transfer \in BOOLEAN
      /\ refund \in BOOLEAN /\ excluded \in BOOLEAN
  BY DEF Row
<1>3. Written(now, read, new) = row
  BY DEF Written
<1>4. /\ category = IF new.category = read.category THEN now.category ELSE new.category
      /\ subcategory = IF new.subcategory = read.subcategory THEN now.subcategory ELSE new.subcategory
      /\ strayed = TRUE <=> now.category # read.category \/ now.subcategory # read.subcategory
  BY DEF Row
<1> HIDE DEF category, subcategory, type, by, verified, review, transfer, refund, excluded, strayed
<1>5. row \in Row /\ row.category = category /\ row.subcategory = subcategory
      /\ row.strayed = strayed
  <2> DEFINE first == [now EXCEPT !.category = category, !.subcategory = subcategory,
                                  !.type = type, !.by = by, !.verified = verified]
             second == [first EXCEPT !.review = review, !.transfer = transfer]
             third == [second EXCEPT !.refund = refund, !.excluded = excluded]
             last == [third EXCEPT !.strayed = strayed]
  <2>1. row = last
    BY Zenon
  <2>2. first \in Row /\ first.category = category /\ first.subcategory = subcategory
    BY <1>1, <1>2, ZenonT(60) DEF Row
  <2> HIDE DEF first, row
  <2>3. second \in Row /\ second.category = category /\ second.subcategory = subcategory
    BY <1>2, <2>2, ZenonT(60) DEF Row
  <2> HIDE DEF second
  <2>4. third \in Row /\ third.category = category /\ third.subcategory = subcategory
    BY <1>2, <2>3, ZenonT(60) DEF Row
  <2> HIDE DEF third
  <2>5. last \in Row /\ last.category = category /\ last.subcategory = subcategory
        /\ last.strayed = strayed
    BY <1>1, <2>4 DEF Row
  <2> HIDE DEF last
  <2> QED BY <2>1, <2>5
<1> HIDE DEF row
<1> QED BY <1>3, <1>4, <1>5

LEMMA LabelFitsNow ==
  ASSUME NEW l, l.category \in Categories, Fits(l.category, l.subcategory)
  PROVE  LabelFits(l)
BY DEF LabelFits, Fits, SubsOf

\* A row that two sessions label at once may come out between them, and is marked so.
LEMMA RelabelRows ==
  ASSUME LabelInv, NEW t, NEW read, NEW label, NEW teach, NEW past,
         Relabel(t, read, label, teach, past), t \in Tx => read \in Row /\ tx[t] \in Row
  PROVE  /\ tx' \in [Tx -> Row \cup {None}]
         /\ \A p \in Tx : tx'[p] = tx[p] \/ (tx'[p] \in Row /\ LabelFits(tx'[p]))
<1>1. /\ label.category \in Categories /\ Fits(label.category, label.subcategory)
      /\ tx' = [p \in Tx |-> CASE p = t -> Written(tx[t], read, Labelled(t, read, label))
                             [] p \in PastRows(t) /\ past -> Labelled(p, tx[p], label)
                             [] OTHER -> tx[p]]
  BY DEF Relabel
<1>2. label.category \in Category /\ label.subcategory \in Subcategory \cup {None}
  BY <1>1 DEF Categories, Fits, SubsOf, Subcategories
<1>3. \A p \in Tx : tx[p] \in Row \cup {None} /\ (tx[p] # None => LabelFits(tx[p]))
  BY DEF LabelInv, Tables, RowsFit, Present
<1>4. ASSUME NEW p \in Tx
      PROVE  \/ tx'[p] = tx[p]
             \/ tx'[p] \in Row /\ LabelFits(tx'[p])
  <2>1. CASE p = t
    <3> DEFINE new == Labelled(t, read, label)
               row == Written(tx[t], read, new)
    <3>1. tx'[p] = row
      <4>1. p \notin PastRows(t)
        BY <2>1 DEF PastRows
      <4> QED BY <1>1, <2>1, <4>1
    <3>2. read \in Row /\ tx[t] \in Row
      BY <2>1
    <3>3. new \in Row /\ new.category = label.category /\ new.subcategory = label.subcategory
      BY <1>2, <3>2, LabelledRow
    <3> HIDE DEF new
    <3>4. /\ row \in Row
          /\ row.category = IF new.category = read.category THEN tx[t].category ELSE new.category
          /\ row.subcategory
               = IF new.subcategory = read.subcategory THEN tx[t].subcategory ELSE new.subcategory
          /\ row.strayed = TRUE <=> \/ tx[t].category # read.category
                                    \/ tx[t].subcategory # read.subcategory
      BY <3>2, <3>3, WrittenRow, ZenonT(60)
    <3> HIDE DEF row
    <3>5. CASE row.strayed # TRUE
      <4>1. row.category = label.category /\ row.subcategory = label.subcategory
        BY <3>3, <3>4, <3>5
      <4>2. LabelFits(row)
        BY <1>1, <4>1, LabelFitsNow
      <4> QED BY <3>1, <3>4, <4>2
    <3>6. CASE row.strayed = TRUE
      <4>1. tx[t].category \in Categories \cup {None}
            /\ tx[t].subcategory \in Subcategories \cup {None}
        <5>1. LabelFits(tx[t])
          BY <1>3, <2>1, <3>2, RowAssumption
        <5> QED BY <5>1 DEF LabelFits
      <4>2. new.category \in Categories /\ new.subcategory \in Subcategories \cup {None}
        BY <1>1, <3>3 DEF Fits, SubsOf
      <4>3. LabelFits(row)
        BY <3>4, <3>6, <4>1, <4>2 DEF LabelFits
      <4> QED BY <3>1, <3>4, <4>3
    <3> QED BY <3>5, <3>6
  <2>2. CASE p # t /\ p \in PastRows(t) /\ past
    <3> DEFINE new == Labelled(p, tx[p], label)
    <3>1. tx'[p] = new
      BY <1>1, <2>2
    <3>2. tx[p] \in Row
      BY <1>3, <2>2 DEF PastRows, Present
    <3>3. new \in Row /\ new.category = label.category /\ new.subcategory = label.subcategory
      BY <1>2, <3>2, LabelledRow
    <3> HIDE DEF new
    <3>4. LabelFits(new)
      BY <1>1, <3>3, LabelFitsNow
    <3> QED BY <3>1, <3>3, <3>4
  <2>3. CASE p # t /\ ~(p \in PastRows(t) /\ past)
    BY <1>1, <2>3
  <2> QED BY <2>1, <2>2, <2>3
<1>5. tx' = [p \in Tx |-> tx'[p]]
  BY <1>1
<1> HIDE DEF LabelInv
<1> QED BY <1>3, <1>4, <1>5

\* The judgement of a suggestion leaves what it suggested.
LEMMA JudgedOps ==
  ASSUME OpsStand, NEW t, NEW label, ops' = Judged(t, label), UNCHANGED taxonomy
  PROVE  OpsStand'
<1> DEFINE i == CHOOSE j \in Open(t) : \A k \in Open(t) : k <= j
           op == ops[t][i]
           status == IF op.category = label.category /\ op.subcategory = label.subcategory
                     THEN "accepted" ELSE "corrected"
<1>1. CASE ops' = ops
  BY <1>1, SameTaxonomy DEF OpsStand
<1>2. CASE Open(t) # {} /\ t \in Tx
  <2>1. PICK contexts : ops[t] \in Seq(OpOf(contexts))
    BY <1>2 DEF OpsStand
  <2>2. Open(t) \subseteq 1..Len(ops[t]) /\ Len(ops[t]) \in Nat
    BY <2>1 DEF Open
  <2>3. i \in Open(t)
    BY <1>2, <2>2, LastIsThere
  <2>4. ops' = [ops EXCEPT ![t][i].status = status]
    BY <1>2 DEF Judged
  <2> HIDE DEF i
  <2>5. i \in 1..Len(ops[t]) /\ op \in OpOf(contexts)
    BY <2>1, <2>2, <2>3
  <2> DEFINE new == [op EXCEPT !.status = status]
             all == [ops[t] EXCEPT ![i] = new]
  <2>6. ops' = [ops EXCEPT ![t] = all]
    BY <2>4
  <2>7. status \in {"accepted", "corrected"}
    OBVIOUS
  <2>8. new \in OpOf(contexts) /\ new.category = op.category /\ new.subcategory = op.subcategory
    <3> HIDE DEF op, status
    <3> QED BY <2>5, <2>7 DEF OpOf
  <2> HIDE DEF new
  <2>9. all \in Seq(OpOf(contexts)) /\ DOMAIN all = DOMAIN ops[t]
    BY <2>1, <2>5, <2>8
  <2>10. \A j \in DOMAIN ops[t] : /\ all[j].category = ops[t][j].category
                                  /\ all[j].subcategory = ops[t][j].subcategory
    BY <2>1, <2>5, <2>8
  <2> HIDE DEF all
  <2>11. ops'[t] = all /\ DOMAIN ops' = Tx /\ \A u \in Tx : u # t => ops'[u] = ops[u]
    BY <1>2, <2>6 DEF OpsStand
  <2>14. ops' = [u \in Tx |-> ops'[u]]
    BY <2>6 DEF OpsStand
  <2> SUFFICES ASSUME NEW u \in Tx
               PROVE  /\ \E c : ops'[u] \in Seq(OpOf(c))
                      /\ \A j \in DOMAIN ops'[u] :
                           Stands(ops'[u][j].category, ops'[u][j].subcategory)
    BY <2>11, <2>14, SameTaxonomy DEF OpsStand
  <2>12. CASE u = t
    <3>1. \A j \in DOMAIN ops[t] : Stands(ops[t][j].category, ops[t][j].subcategory)
      BY <1>2 DEF OpsStand
    <3> QED BY <2>9, <2>10, <2>11, <2>12, <3>1
  <2>13. CASE u # t
    BY <2>11, <2>13 DEF OpsStand
  <2> QED BY <2>12, <2>13
<1>3. CASE t \notin Tx /\ Open(t) # {}
  <2>1. ops' = [ops EXCEPT ![t] = [ops[t] EXCEPT ![i].status = status]]
    BY <1>3 DEF Judged
  <2>2. ops' = ops
    BY <1>3, <2>1 DEF OpsStand
  <2> QED BY <1>1, <2>2
<1>4. Open(t) = {} => ops' = ops
  BY DEF Judged
<1> QED BY <1>1, <1>2, <1>3, <1>4

LEMMA TaughtRules ==
  ASSUME LabelInv, UNCHANGED taxonomy, NEW n, NEW c \in Categories, NEW s, Fits(c, s),
         rules' = Taught(n, c, s)
  PROVE  rules' \in [Name -> Rule \cup {None}] /\ RulesFit'
<1> DEFINE rule == [category |-> c, subcategory |-> s, active |-> TRUE, strayed |-> FALSE]
<1>1. rules' = [rules EXCEPT ![n] = rule]
  BY DEF Taught
<1>2. rules \in [Name -> Rule \cup {None}]
  BY DEF LabelInv, Tables
<1>3. rule \in Rule /\ rule.category = c /\ rule.subcategory = s
  BY DEF Rule, Categories, Fits, SubsOf, Subcategories
<1> HIDE DEF rule
<1>4. LabelFits(rule)
  BY <1>3, LabelFitsNow
<1>5. rules' \in [Name -> Rule \cup {None}]
      /\ \A m \in Name : rules'[m] = IF m = n THEN rule ELSE rules[m]
  BY <1>1, <1>2, <1>3
<1>6. \A m \in Name : rules'[m] # None => LabelFits(rules'[m])
  <2> SUFFICES ASSUME NEW m \in Name, rules'[m] # None
               PROVE  LabelFits(rules'[m])
    OBVIOUS
  <2>1. CASE m = n
    BY <1>4, <1>5, <2>1
  <2>2. CASE m # n
    <3>1. rules'[m] = rules[m]
      BY <1>5, <2>2
    <3>2. LabelFits(rules[m])
      BY <3>1 DEF LabelInv, RulesFit
    <3> QED BY <3>1, <3>2
  <2> QED BY <2>1, <2>2
<1> QED BY <1>5, <1>6, TaxonomyKept DEF RulesFit

LEMMA ClassifiedLabels ==
  ASSUME LabelInv, NEW t, NEW read, NEW label, NEW teach, NEW past,
         Classified(t, read, label, teach, past), t \in Tx => read \in Row /\ tx[t] \in Row,
         UNCHANGED <<dues, asking>>,
         \A k \in Call : InPhase(k, "resolved")' =>
                           /\ InPhase(k, "resolved")
                           /\ calls'[k].request = calls[k].request /\ calls'[k].read = calls[k].read
  PROVE  LabelInv'
<1>1. Relabel(t, read, label, teach, past) /\ ops' = Judged(t, label)
  BY DEF Classified
<1>2. UNCHANGED taxonomy /\ label.category \in Categories /\ Fits(label.category, label.subcategory)
      /\ rules' = (IF teach /\ Data[t].name # None
                   THEN Taught(Data[t].name, label.category, label.subcategory) ELSE rules)
  BY <1>1 DEF Relabel, taxonomy
<1>3. /\ tx' \in [Tx -> Row \cup {None}]
      /\ \A p \in Tx : tx'[p] = tx[p] \/ (tx'[p] \in Row /\ LabelFits(tx'[p]))
  BY <1>1, RelabelRows
<1>4. RowsFit' /\ ReadsSound'
  BY <1>2, <1>3, RowsWritten
<1>5. OpsStand'
  BY <1>1, <1>2, JudgedOps DEF LabelInv
<1>6. rules' \in [Name -> Rule \cup {None}] /\ RulesFit'
  <2>1. CASE teach /\ Data[t].name # None
    BY <1>2, <2>1, TaughtRules
  <2>2. CASE ~(teach /\ Data[t].name # None)
    BY <1>2, <2>2, TaxonomyKept DEF LabelInv, Tables
  <2> QED BY <2>1, <2>2
<1>7. Tables'
  BY <1>2, <1>3, <1>6 DEF LabelInv, Tables, taxonomy
<1> QED BY <1>2, <1>4, <1>5, <1>6, <1>7, TaxonomyKept DEF LabelInv

LEMMA ClassifyLabels ==
  ASSUME LabelInv, NEW t \in Tx, NEW c \in Category, NEW s \in Subcategory \cup {None},
         Classify(t, c, s), UNCHANGED <<dues, calls>>
  PROVE  LabelInv'
<1>1. PICK teach, past \in BOOLEAN : Classified(t, tx[t], Label(c, s), teach, past)
  BY DEF Classify
<1>2. tx[t] \in Row /\ UNCHANGED asking
  BY DEF Classify, LabelInv, Tables
<1>3. \A k \in Call : InPhase(k, "resolved")' =>
                           /\ InPhase(k, "resolved")
                           /\ calls'[k].request = calls[k].request /\ calls'[k].read = calls[k].read
  BY DEF InPhase
<1> QED BY <1>1, <1>2, <1>3, ClassifiedLabels

-----------------------------------------------------------------------------
(* Suggestions, and subscriptions and bills.                               *)

LEMMA AskedLabels ==
  ASSUME LabelInv, UNCHANGED <<taxonomy, rules, tx, dues, ops, calls>>, NEW t \in Tx, NEW q,
         asking' = [asking EXCEPT ![t] = q], q # None => QuestionStands(q)
  PROVE  LabelInv'
<1>1. \A u \in Tx : asking'[u] # None => QuestionStands(asking'[u])
  <2> SUFFICES ASSUME NEW u \in Tx, asking'[u] # None
               PROVE  QuestionStands(asking'[u])
    OBVIOUS
  <2>1. CASE u = t
    <3>1. asking'[u] = q
      BY <2>1 DEF LabelInv, AskingStands
    <3> QED BY <3>1
  <2>2. CASE u # t
    <3>1. asking'[u] = asking[u]
      BY <2>2 DEF LabelInv, AskingStands
    <3>2. QuestionStands(asking[u])
      BY <3>1 DEF LabelInv, AskingStands
    <3> QED BY <3>1, <3>2
  <2> QED BY <2>1, <2>2
<1>2. DOMAIN asking' = Tx
  BY DEF LabelInv, AskingStands
<1>3. AskingStands'
  BY <1>1, <1>2, SameTaxonomy DEF AskingStands, QuestionStands
<1>4. Tables' /\ ReadsSound'
  BY DEF LabelInv, Tables, ReadsSound, InPhase, taxonomy
<1> QED BY <1>3, <1>4, TaxonomyKept DEF LabelInv

\* What is asked is asked of the taxonomy as it is.
LEMMA AskLabels ==
  ASSUME LabelInv, NEW t \in Tx, Ask(t), UNCHANGED <<dues, calls>>
  PROVE  LabelInv'
<1> DEFINE context == Context(t)
           under == [s \in Subcategories |-> subs[s].of]
           q == [context |-> context, cats |-> Categories, trying |-> "configured", under |-> under]
<1>1. UNCHANGED <<taxonomy, rules, tx, ops>>
  BY DEF Ask, taxonomy
<1>2. CASE UNCHANGED asking
  BY <1>1, <1>2, TaxonomyKept DEF LabelInv, Tables, ReadsSound, InPhase, taxonomy
<1>3. CASE asking' = [asking EXCEPT ![t] = q]
  <2>1. \A s \in DOMAIN under : Stands(under[s], s)
    BY DEF Stands, Fits, SubsOf
  <2>2. DOMAIN under \subseteq Subcategory /\ Categories \subseteq Category
    BY DEF Subcategories, Categories
  <2> HIDE DEF context, under
  <2>3. /\ q.under = under /\ q.context = context
        /\ q \in [context : {context}, cats : SUBSET Category, trying : Model, under : {under}]
    BY <2>2 DEF Model
  <2> HIDE DEF q
  <2>4. QuestionStands(q)
    BY <2>1, <2>2, <2>3 DEF QuestionStands
  <2> QED BY <1>1, <1>3, <2>4, AskedLabels
<1> QED BY <1>2, <1>3 DEF Ask

LEMMA FallBackLabels ==
  ASSUME LabelInv, NEW t \in Tx, FallBack(t), UNCHANGED <<dues, calls>>
  PROVE  LabelInv'
<1> DEFINE q == [asking[t] EXCEPT !.trying = "other"]
<1>1. asking[t] # None /\ asking' = [asking EXCEPT ![t] = q] /\ UNCHANGED <<taxonomy, rules, tx, ops>>
  BY DEF FallBack, taxonomy
<1>2. QuestionStands(asking[t])
  BY <1>1 DEF LabelInv, AskingStands
<1>3. /\ q.under = asking[t].under /\ q.context = asking[t].context
      /\ q \in [context : {asking[t].context}, cats : SUBSET Category, trying : Model,
                under : {asking[t].under}]
  BY <1>2 DEF QuestionStands, Model
<1> HIDE DEF q
<1>4. QuestionStands(q)
  BY <1>2, <1>3 DEF QuestionStands
<1> QED BY <1>1, <1>4, AskedLabels

LEMMA MoreMembers ==
  ASSUME NEW S, NEW T, S \subseteq T, NEW seq \in Seq(S)
  PROVE  seq \in Seq(T)
<1>1. Len(seq) \in Nat /\ seq \in [1..Len(seq) -> S]
  OBVIOUS
<1>2. seq \in [1..Len(seq) -> T]
  BY <1>1
<1> QED BY <1>1, <1>2

\* An answer names what the question read, however late it comes.
LEMMA AnswerLabels ==
  ASSUME LabelInv, NEW t \in Tx, Answer(t), UNCHANGED <<dues, calls>>
  PROVE  LabelInv'
<1> DEFINE q == asking[t]
           stored == {"suggested", "failed", "invalid"}
<1>1. /\ q # None /\ asking' = [asking EXCEPT ![t] = None] /\ UNCHANGED <<taxonomy, rules, tx>>
  BY DEF Answer, taxonomy
<1>2. QuestionStands(q)
  BY <1>1 DEF LabelInv, AskingStands
<1> DEFINE Stores(label, model, status) ==
             /\ label.category \in Category \cup {None}
             /\ label.subcategory \in Subcategory \cup {None}
             /\ Stands(label.category, label.subcategory)
             /\ model \in Model /\ status \in stored
             /\ ops' = [ops EXCEPT ![t] = Append(@, Op(q, label, model, status))]
<1>3. \E label, model, status : Stores(label, model, status)
  <2>1. ASSUME NEW status \in {"failed", "invalid"},
               ops' = [ops EXCEPT ![t] = Append(@, Op(q, [category |-> None, subcategory |-> None],
                                                      "configured", status))]
        PROVE  \E label : Stores(label, "configured", status)
    <3> DEFINE label == [category |-> None, subcategory |-> None]
    <3>1. label.category = None /\ label.subcategory = None
      OBVIOUS
    <3>2. Stands(label.category, label.subcategory)
      BY <3>1 DEF Stands, Fits
    <3>3. ops' = [ops EXCEPT ![t] = Append(@, Op(q, label, "configured", status))]
      BY <2>1
    <3> HIDE DEF label, q
    <3> QED BY <3>1, <3>2, <3>3 DEF Model
  <2>2. ASSUME NEW label \in Acceptable(q), NEW model \in {q.trying, "other"},
               ops' = [ops EXCEPT ![t] = Append(@, Op(q, label, model, "suggested"))]
        PROVE  Stores(label, model, "suggested")
    <3>1. /\ label.category \in q.cats /\ label.subcategory \in DOMAIN q.under \cup {None}
          /\ label.subcategory # None => q.under[label.subcategory] = label.category
      BY <2>2 DEF Acceptable
    <3>2. label.category \in Category /\ label.subcategory \in Subcategory \cup {None}
          /\ model \in Model
      BY <1>2, <3>1 DEF QuestionStands, Model
    <3>3. Stands(label.category, label.subcategory)
      <4>1. CASE label.subcategory = None
        BY <4>1 DEF Stands, Fits
      <4>2. CASE label.subcategory # None
        BY <1>2, <3>1, <4>2 DEF QuestionStands
      <4> QED BY <4>1, <4>2
    <3> HIDE DEF q
    <3> QED BY <2>2, <3>2, <3>3
  <2> HIDE DEF Stores
  <2> QED BY <2>1, <2>2 DEF Answer
<1>4. PICK label, model, status : Stores(label, model, status)
  BY <1>3
<1> DEFINE op == Op(q, label, model, status)
           all == Append(ops[t], op)
<1>5. PICK contexts : ops[t] \in Seq(OpOf(contexts))
  BY DEF LabelInv, OpsStand
<1>6. ops[t] \in Seq(OpOf(contexts \cup {q.context}))
  <2>1. OpOf(contexts) \subseteq OpOf(contexts \cup {q.context})
    BY DEF OpOf
  <2> HIDE DEF q
  <2> QED BY <1>5, <2>1, MoreMembers
<1>7. /\ op \in OpOf(contexts \cup {q.context})
      /\ op.category = label.category /\ op.subcategory = label.subcategory
  <2> HIDE DEF q
  <2> QED BY <1>4 DEF Op, OpOf
<1> HIDE DEF op
<1>8. /\ all \in Seq(OpOf(contexts \cup {q.context}))
      /\ \A i \in DOMAIN all : all[i] = op \/ (i \in DOMAIN ops[t] /\ all[i] = ops[t][i])
  <2> HIDE DEF q
  <2> QED BY <1>6, <1>7
<1>9. \A i \in DOMAIN all : Stands(all[i].category, all[i].subcategory)
  <2>1. \A i \in DOMAIN ops[t] : Stands(ops[t][i].category, ops[t][i].subcategory)
    BY DEF LabelInv, OpsStand
  <2> HIDE DEF all
  <2> QED BY <1>4, <1>7, <1>8, <2>1
<1>10. ops' = [ops EXCEPT ![t] = all]
  BY <1>4 DEF op
<1> HIDE DEF all
<1>11. ops' = [u \in Tx |-> ops'[u]] /\ ops'[t] = all /\ \A u \in Tx : u # t => ops'[u] = ops[u]
  BY <1>10 DEF LabelInv, OpsStand
<1>12. OpsStand'
  <2> SUFFICES ASSUME NEW u \in Tx
               PROVE  /\ \E c : ops'[u] \in Seq(OpOf(c))
                      /\ \A j \in DOMAIN ops'[u] :
                           Stands(ops'[u][j].category, ops'[u][j].subcategory)
    BY <1>1, <1>11, SameTaxonomy DEF OpsStand
  <2>1. CASE u = t
    BY <1>8, <1>9, <1>11, <2>1
  <2>2. CASE u # t
    BY <1>11, <2>2 DEF LabelInv, OpsStand
  <2> QED BY <2>1, <2>2
<1>13. AskingStands'
  BY <1>1, SameTaxonomy DEF LabelInv, AskingStands, QuestionStands
<1>14. Tables' /\ ReadsSound'
  BY <1>1 DEF LabelInv, Tables, ReadsSound, InPhase, taxonomy
<1> QED BY <1>1, <1>12, <1>13, <1>14, TaxonomyKept DEF LabelInv

LEMMA DuesLabels ==
  ASSUME LabelInv, KeepDues, UNCHANGED <<ops, asking, calls>>
  PROVE  LabelInv'
<1>1. UNCHANGED <<taxonomy, rules, tx>>
  BY DEF KeepDues
<1>2. dues \in [Due -> DueRow \cup {None}] /\ DuesFit
  BY DEF LabelInv, Tables
<1> DEFINE Sound(row) == row \in DueRow /\ row.category \in Categories \cup {None}
<1>3. ASSUME NEW kind \in {"subscription", "bill"}, NEW fee \in Fee, NEW f \in Frequency,
             NEW c \in Categories \cup {None}, NEW t \in Present \cup {None}
      PROVE  Sound(NewDue(kind, fee, f, c, t))
  <2>1. {t} \ {None} \in SUBSET Tx /\ c \in Category \cup {None}
    BY DEF Present, Categories
  <2> DEFINE linked == {t} \ {None}
  <2> HIDE DEF linked
  <2> QED BY <2>1 DEF NewDue, DueRow, DueStatus, linked
<1>4. PICK d \in Due :
        \/ CreateSubscription(d) \/ CreateBill(d) \/ UpdateRecurring(d) \/ DeleteRecurring(d)
        \/ Decide(d, "active") \/ Decide(d, "ignored")
  BY DEF KeepDues
<1>5. dues[d] # None => Sound(dues[d])
  BY <1>2 DEF DuesFit
<1>6. \/ dues' = [dues EXCEPT ![d] = None]
      \/ \E row : Sound(row) /\ dues' = [dues EXCEPT ![d] = row]
  <2>1. CASE CreateSubscription(d)
    <3>1. PICK fee \in Fee, f \in Frequency, c \in Categories \cup {None},
               t \in Present \cup {None}, a \in Fee \cup {None} :
            dues' = [dues EXCEPT ![d] =
              [NewDue("subscription", fee, f, c, t) EXCEPT !.amount = fee, !.annual = a]]
      BY <2>1 DEF CreateSubscription
    <3> DEFINE new == NewDue("subscription", fee, f, c, t)
               row == [new EXCEPT !.amount = fee, !.annual = a]
    <3>2. Sound(new)
      BY <1>3
    <3> HIDE DEF new
    <3>3. Sound(row)
      BY <3>2 DEF DueRow
    <3>4. dues' = [dues EXCEPT ![d] = row]
      BY <3>1 DEF new
    <3> HIDE DEF row, Sound
    <3> QED BY <3>3, <3>4
  <2>2. CASE CreateBill(d)
    <3>1. PICK fee \in Fee, f \in Frequency, c \in Categories \cup {None}, t \in Present \cup {None} :
            dues' = [dues EXCEPT ![d] = NewDue("bill", fee, f, c, t)]
      BY <2>2 DEF CreateBill
    <3>2. Sound(NewDue("bill", fee, f, c, t))
      BY <1>3
    <3> HIDE DEF Sound
    <3> QED BY <3>1, <3>2
  <2>3. CASE UpdateRecurring(d)
    <3>1. PICK fee \in Fee, f \in Frequency, s \in DueStatus :
            dues' = [dues EXCEPT ![d].expected = fee, ![d].frequency = f, ![d].status = s]
      BY <2>3 DEF UpdateRecurring
    <3> DEFINE row == [dues[d] EXCEPT !.expected = fee, !.frequency = f, !.status = s]
    <3>2. Sound(dues[d])
      BY <1>5, <2>3 DEF UpdateRecurring
    <3>3. Sound(row)
      BY <3>2 DEF DueRow
    <3>4. dues' = [dues EXCEPT ![d] = row]
      BY <1>2, <3>1
    <3> HIDE DEF row, Sound
    <3> QED BY <3>3, <3>4
  <2>4. ASSUME NEW status \in {"active", "ignored"}, Decide(d, status)
        PROVE  \E row : Sound(row) /\ dues' = [dues EXCEPT ![d] = row]
    <3> DEFINE row == [dues[d] EXCEPT !.status = status, !.shown = status]
    <3>1. dues' = [dues EXCEPT ![d] = row]
      BY <1>2, <2>4 DEF Decide
    <3>2. Sound(dues[d])
      BY <1>5, <2>4 DEF Decide
    <3>3. Sound(row)
      BY <3>2 DEF DueRow, DueStatus
    <3> HIDE DEF row, Sound
    <3> QED BY <3>1, <3>3
  <2>5. CASE DeleteRecurring(d)
    BY <2>5 DEF DeleteRecurring
  <2> QED BY <1>4, <2>1, <2>2, <2>3, <2>4, <2>5
<1>7. dues' \in [Due -> DueRow \cup {None}] /\ DuesFit'
  <2>1. CASE dues' = [dues EXCEPT ![d] = None]
    BY <1>1, <1>2, <2>1, SameTaxonomy DEF DuesFit
  <2>2. ASSUME NEW row, Sound(row), dues' = [dues EXCEPT ![d] = row]
        PROVE  dues' \in [Due -> DueRow \cup {None}] /\ DuesFit'
    BY <1>1, <1>2, <2>2, SameTaxonomy DEF DuesFit
  <2> QED BY <1>6, <2>1, <2>2
<1>8. Tables' /\ ReadsSound'
  BY <1>1, <1>7 DEF LabelInv, Tables, ReadsSound, InPhase, taxonomy
<1> QED BY <1>1, <1>7, <1>8, TaxonomyKept DEF LabelInv

-----------------------------------------------------------------------------
(* The server, and every step.                                             *)

\* What a thread is about to write it was about to write before.
Resumes ==
  \A k \in Call : InPhase(k, "resolved")' =>
                    /\ InPhase(k, "resolved")
                    /\ calls'[k].request = calls[k].request /\ calls'[k].read = calls[k].read

LEMMA ResumesLabels ==
  ASSUME LabelInv, Resumes, UNCHANGED <<taxonomy, rules, tx, dues, ops, asking>>
  PROVE  LabelInv'
<1>1. Tables'
  BY DEF LabelInv, Tables, taxonomy
<1>2. ReadsSound'
  BY DEF LabelInv, ReadsSound, Resumes
<1> QED BY <1>1, <1>2, TaxonomyKept DEF LabelInv

LEMMA CallResumes ==
  ASSUME RateInv, NEW k \in Call, NEW c, calls' = [calls EXCEPT ![k] = c],
         c.phase = "resolved" =>
           InPhase(k, "resolved") /\ c.request = calls[k].request /\ c.read = calls[k].read
  PROVE  Resumes
<1>1. calls'[k] = c /\ \A j \in Call : j # k => calls'[j] = calls[j]
  BY DEF RateInv, ShapesHold
<1> QED BY <1>1 DEF Resumes, InPhase

LEMMA DoneResumes ==
  ASSUME RateInv, NEW k \in Call, calls[k] # None, NEW page, Done(k, page)
  PROVE  Resumes
<1> DEFINE c == [calls[k] EXCEPT !.phase = "done", !.page = page]
<1>1. Shape(calls[k])
  BY ShapeOf
<1>2. c.phase = "done" /\ calls' = [calls EXCEPT ![k] = c]
  BY <1>1 DEF Shape, CallOf, Done
<1> HIDE DEF c
<1> QED BY <1>2, CallResumes

LEMMA OverResumes ==
  ASSUME RateInv, NEW k \in Call, calls[k] # None, calls' = Over(k)
  PROVE  Resumes
<1> DEFINE c == [calls[k] EXCEPT !.phase = "over", !.read = None, !.label = None, !.page = None]
<1>1. c.phase = "over" /\ calls' = [calls EXCEPT ![k] = c]
  BY ShapeOf, OverKept DEF Over
<1> HIDE DEF c
<1> QED BY <1>1, CallResumes

LEMMA ServerResumes ==
  ASSUME RateInv, NEW k \in Call,
         \/ Request(k) \/ StartWalk(k) \/ NextPage(k) \/ Enter(k) \/ CheckRate(k) \/ CountCall(k)
         \/ ReadPage(k) \/ ReadReport(k) \/ Reply(k) \/ Cancel(k)
  PROVE  Resumes /\ UNCHANGED <<taxonomy, rules, tx, ops, asking>>
<1>1. UNCHANGED <<taxonomy, rules, tx, ops, asking>>
  BY DEF Request, StartWalk, NextPage, Send, Enter, CheckRate, CountCall, ReadPage, ReadReport,
         Reply, Cancel, advice
<1> SUFFICES Resumes
  BY <1>1
<1>2. ASSUME NEW request, calls' = [calls EXCEPT ![k] = Arrived(request)]
      PROVE  Resumes
  BY <1>2, CallResumes DEF Arrived
<1>3. CASE Request(k) \/ StartWalk(k) \/ NextPage(k)
  BY <1>2, <1>3 DEF Request, StartWalk, NextPage, Send
<1>4. CASE Enter(k)
  <2> DEFINE c == [calls[k] EXCEPT !.phase = "entered"]
  <2>1. Shape(calls[k]) /\ calls' = [calls EXCEPT ![k] = c]
    BY <1>4, ShapeOf DEF Enter, InPhase
  <2>2. c.phase = "entered"
    BY <2>1 DEF Shape, CallOf
  <2> HIDE DEF c
  <2> QED BY <2>1, <2>2, CallResumes
<1>5. CASE CheckRate(k)
  <2> DEFINE phase == IF Len(Recent) >= Limit THEN "done" ELSE "checked"
             c == [calls[k] EXCEPT !.at = clock, !.phase = phase]
  <2>1. Shape(calls[k]) /\ calls' = [calls EXCEPT ![k] = c]
    BY <1>5, ShapeOf DEF CheckRate, InPhase
  <2>2. phase # "resolved"
    OBVIOUS
  <2> HIDE DEF phase
  <2>3. c.phase = phase
    BY <2>1 DEF Shape, CallOf
  <2> HIDE DEF c
  <2> QED BY <2>1, <2>2, <2>3, CallResumes
<1>6. CASE CountCall(k)
  <2> DEFINE c == [calls[k] EXCEPT !.phase = "counted", !.counted = TRUE]
  <2>1. Shape(calls[k]) /\ calls' = [calls EXCEPT ![k] = c]
    BY <1>6, ShapeOf DEF CountCall, InPhase
  <2>2. c.phase = "counted"
    BY <2>1 DEF Shape, CallOf
  <2> HIDE DEF c
  <2> QED BY <2>1, <2>2, CallResumes
<1>7. CASE ReadPage(k) \/ ReadReport(k)
  BY <1>7, DoneResumes DEF ReadPage, ReadReport, InPhase
<1>8. CASE Reply(k)
  BY <1>8, OverResumes DEF Reply, InPhase
<1>9. CASE Cancel(k)
  <2>1. CASE calls' = Over(k)
    BY <1>9, <2>1, OverResumes DEF Cancel
  <2>2. CASE calls' = [calls EXCEPT ![k].orphan = TRUE]
    <3> DEFINE c == [calls[k] EXCEPT !.orphan = TRUE]
    <3>1. calls[k] # None /\ Shape(calls[k]) /\ calls' = [calls EXCEPT ![k] = c]
      BY <1>9, <2>2, ShapeOf DEF Cancel
    <3>2. c.phase = calls[k].phase /\ c.request = calls[k].request /\ c.read = calls[k].read
      BY <3>1 DEF Shape, CallOf
    <3> HIDE DEF c
    <3> QED BY <3>1, <3>2, CallResumes DEF InPhase
  <2> QED BY <1>9, <2>1, <2>2 DEF Cancel
<1> QED BY <1>3, <1>4, <1>5, <1>6, <1>7, <1>8, <1>9

\* A label is resolved with the row it is for.
LEMMA ResolveLabels ==
  ASSUME LabelInv, RateInv, NEW k \in Call, Resolve(k), UNCHANGED dues
  PROVE  LabelInv'
<1> DEFINE r == calls[k].request
           found == Hinted(r.slug, r.sub)
           read == tx[r.tx]
           label == Label(found.category, found.subcategory)
           c == [calls[k] EXCEPT !.phase = "resolved", !.read = read, !.label = label]
<1>1. calls[k] # None /\ UNCHANGED <<taxonomy, rules, tx, ops, asking>>
      /\ \/ tx[r.tx] # None /\ calls' = [calls EXCEPT ![k] = c]
         \/ Done(k, None)
  BY DEF Resolve, InPhase, advice
<1>2. CASE Done(k, None)
  BY <1>1, <1>2, DoneResumes, ResumesLabels
<1>3. CASE tx[r.tx] # None /\ calls' = [calls EXCEPT ![k] = c]
  <2>1. Shape(calls[k])
    BY <1>1, ShapeOf
  <2> HIDE DEF label
  <2>2. c.request = r /\ c.read = read
    <3> HIDE DEF read
    <3> QED BY <2>1 DEF Shape, CallOf
  <2>3. r.tx \in Tx => read \in Row
    BY <1>3 DEF LabelInv, Tables
  <2> HIDE DEF c
  <2>4. calls'[k] = c /\ \A j \in Call : j # k => calls'[j] = calls[j]
    BY <1>3 DEF RateInv, ShapesHold
  <2>5. ReadsSound'
    <3> SUFFICES ASSUME NEW j \in Call, InPhase(j, "resolved")', calls'[j].request.tx \in Tx
                 PROVE  calls'[j].read \in Row /\ tx'[calls'[j].request.tx] \in Row
      BY DEF ReadsSound
    <3>1. CASE j = k
      BY <1>1, <2>2, <2>3, <2>4, <3>1
    <3>2. CASE j # k
      <4>1. calls'[j] = calls[j] /\ InPhase(j, "resolved")
        BY <2>4, <3>2 DEF InPhase
      <4> QED BY <1>1, <4>1 DEF LabelInv, ReadsSound
    <3> QED BY <3>1, <3>2
  <2>6. Tables'
    BY <1>1 DEF LabelInv, Tables, taxonomy
  <2> QED BY <1>1, <2>5, <2>6, TaxonomyKept DEF LabelInv
<1> QED BY <1>1, <1>2, <1>3

LEMMA CommitLabels ==
  ASSUME LabelInv, RateInv, NEW k \in Call, Commit(k), UNCHANGED dues
  PROVE  LabelInv'
<1> DEFINE c == calls[k]
<1>1. /\ InPhase(k, "resolved") /\ Done(k, None) /\ UNCHANGED asking
      /\ \/ Classified(c.request.tx, c.read, c.label, c.request.teach, FALSE)
         \/ UNCHANGED <<taxonomy, rules, tx, ops>>
  BY DEF Commit
<1>2. Resumes
  BY <1>1, DoneResumes DEF InPhase
<1>3. CASE UNCHANGED <<taxonomy, rules, tx, ops>>
  BY <1>1, <1>2, <1>3, ResumesLabels
<1>4. CASE Classified(c.request.tx, c.read, c.label, c.request.teach, FALSE)
  <2>1. c.request.tx \in Tx => c.read \in Row /\ tx[c.request.tx] \in Row
    BY <1>1 DEF LabelInv, ReadsSound
  <2> HIDE DEF c
  <2> QED BY <1>1, <1>2, <1>4, <2>1, ClassifiedLabels DEF Resumes
<1> QED BY <1>1, <1>3, <1>4

LEMMA LabelStep ==
  ASSUME LabelInv, RateInv, [Next]_vars
  PROVE  LabelInv'
<1>1. CASE UNCHANGED vars
  BY <1>1, ResumesLabels DEF vars, advice, server, Resumes, InPhase
<1>2. CASE Settings /\ UNCHANGED <<dues, advice, server>>
  BY <1>2, CreateCategoryLabels, RenameCategoryLabels, SetExpenseTypeLabels, DeleteCategoryLabels,
     SubcategoryLabels, RulesLabels DEF Settings, advice, server
<1>3. CASE Reading /\ UNCHANGED <<dues, advice, server>>
  BY <1>3, ArriveLabels, MarkLabels DEF Reading, advice, server
<1>4. ASSUME NEW t \in Tx, Ask(t) \/ FallBack(t) \/ Answer(t), UNCHANGED <<dues, server>>
      PROVE  LabelInv'
  BY <1>4, AskLabels, FallBackLabels, AnswerLabels DEF server
<1>5. ASSUME NEW t \in Tx, NEW c \in Category, NEW s \in Subcategory \cup {None},
             Classify(t, c, s), UNCHANGED <<dues, server>>
      PROVE  LabelInv'
  BY <1>5, ClassifyLabels DEF server
<1>6. CASE KeepDues /\ UNCHANGED <<advice, server>>
  BY <1>6, DuesLabels DEF advice, server
<1>7. CASE Calls /\ UNCHANGED dues
  <2>1. CASE Tick
    BY <1>7, <2>1, ResumesLabels DEF Tick, advice, Resumes, InPhase
  <2>2. ASSUME NEW k \in Call,
               \/ Request(k) \/ StartWalk(k) \/ NextPage(k) \/ Enter(k) \/ CheckRate(k)
               \/ CountCall(k) \/ ReadPage(k) \/ ReadReport(k) \/ Reply(k) \/ Cancel(k)
        PROVE  LabelInv'
    BY <1>7, <2>2, ServerResumes, ResumesLabels
  <2> QED BY <1>7, <2>1, <2>2, ResolveLabels, CommitLabels DEF Calls
<1> QED BY <1>1, <1>2, <1>3, <1>4, <1>5, <1>6, <1>7 DEF Next

LEMMA LabelInit ==
  ASSUME Init
  PROVE  LabelInv
<1>1. /\ cats = SeededCategories /\ subs = SeededSubcategories
      /\ rules = [n \in Name |-> None] /\ tx = [t \in Tx |-> None] /\ dues = [d \in Due |-> None]
      /\ ops = [t \in Tx |-> <<>>] /\ asking = [t \in Tx |-> None]
      /\ calls = [k \in Call |-> None]
  BY DEF Init, TaxonomyInit, AdviceInit, AgentInit
<1>2. Tables
  BY <1>1, TaxonomyAssumption DEF Tables
<1>3. OneSlug
  BY <1>1, TaxonomyAssumption DEF OneSlug, Categories
<1>4. RowsFit /\ RulesFit /\ DuesFit
  BY <1>1 DEF RowsFit, RulesFit, DuesFit, Present
<1>5. OpsStand
  BY <1>1 DEF OpsStand
<1>6. AskingStands /\ ReadsSound
  BY <1>1 DEF AskingStands, ReadsSound, InPhase
<1> QED BY <1>2, <1>3, <1>4, <1>5, <1>6 DEF LabelInv

\* What is served of a suggestion is the last of what was stored.
LEMMA ServedStands ==
  ASSUME LabelInv, NEW t \in Tx, Served(t) # None
  PROVE  ServedFits(Served(t))
<1> DEFINE i == CHOOSE i \in Cached(t) : \A j \in Cached(t) : j <= i
<1>1. Cached(t) # {} /\ Served(t) = ops[t][i]
  BY DEF Served
<1>2. PICK contexts : ops[t] \in Seq(OpOf(contexts))
  BY DEF LabelInv, OpsStand
<1>3. Len(ops[t]) \in Nat /\ Cached(t) \subseteq 1..Len(ops[t]) /\ DOMAIN ops[t] = 1..Len(ops[t])
  BY <1>2 DEF Cached
<1>4. i \in Cached(t)
  BY <1>1, <1>3, LastIsThere
<1> HIDE DEF i
<1>5. Stands(ops[t][i].category, ops[t][i].subcategory)
  BY <1>3, <1>4 DEF LabelInv, OpsStand
<1> QED BY <1>1, <1>5 DEF ServedFits, Stands

\* Whoever labels, teaches, suggests or deletes, and in whatever order: what a row, a rule,
\* a bill or a served suggestion names is there and fits.
THEOREM LabelsStand == Spec => []LabelsFit
<1>1. Init => RateInv /\ LabelInv
  BY RateInit, LabelInit
<1>2. (RateInv /\ LabelInv) /\ [Next]_vars => (RateInv /\ LabelInv)'
  BY RateStep, LabelStep
<1>3. RateInv /\ LabelInv => LabelsFit
  <2> SUFFICES ASSUME LabelInv
               PROVE  LabelsFit
    OBVIOUS
  <2>1. \A t \in Present : Served(t) # None => ServedFits(Served(t))
    BY ServedStands DEF Present
  <2> QED BY <2>1 DEF LabelsFit, LabelInv, RowsFit, RulesFit, DuesFit
<1> QED BY <1>1, <1>2, <1>3, PTL DEF Spec

-----------------------------------------------------------------------------
(* Sums.                                                                   *)

\* A sum takes one element after another; these are the sums of all parts of a set.
Chosen(s) == CHOOSE x \in s : TRUE
OneLess(w, g, s) == IF s = {} THEN 0 ELSE w[Chosen(s)] + g[s \ {Chosen(s)}]
Adds(w, U, g) == g = [s \in SUBSET U |-> OneLess(w, g, s)]
Adder(w, U) == CHOOSE g : Adds(w, U, g)

LEMMA TotalIs ==
  ASSUME NEW f
  PROVE  Total(f) = Adder(f, DOMAIN f)[DOMAIN f]
BY Zenon DEF Total, MapThenSumSet, MapThenFoldSet, Adder, Adds, OneLess, Chosen

\* Among parts of a finite set there is one that contains no other.
LEMMA LeastPart ==
  ASSUME NEW U, IsFiniteSet(U), NEW B \in SUBSET (SUBSET U), B # {}
  PROVE  \E s \in B : \A t \in B : t \subseteq s => t = s
<1> DEFINE sizes == {Cardinality(s) : s \in B}
           R == OpToRel(<, Nat)
<1>1. \A s \in SUBSET U : IsFiniteSet(s) /\ Cardinality(s) \in Nat
  BY FS_Subset, FS_CardinalityType
<1>2. sizes \subseteq Nat /\ sizes # {}
  BY <1>1
<1>3. \A x, y \in Nat : y < x => <<y, x>> \in R
  BY DEF OpToRel
<1>4. IsWellFoundedOn(R, Nat)
  BY NatLessThanWellFounded
<1> HIDE DEF R, sizes
<1>5. PICK n \in sizes : \A m \in sizes : ~(<<m, n>> \in R)
  BY <1>2, <1>4, WFMin
<1>6. PICK s \in B : Cardinality(s) = n
  BY <1>5 DEF sizes
<1>7. ASSUME NEW t \in B, t \subseteq s PROVE t = s
  <2>1. t \in SUBSET s /\ IsFiniteSet(s) /\ Cardinality(s) \in Nat /\ Cardinality(t) \in Nat
    BY <1>1, <1>7
  <2>2. ~(Cardinality(t) < Cardinality(s))
    BY <1>2, <1>3, <1>5, <1>6 DEF sizes
  <2>3. Cardinality(t) <= Cardinality(s) /\ (Cardinality(s) = Cardinality(t) => s = t)
    BY <2>1, FS_Subset
  <2> QED BY <2>1, <2>2, <2>3
<1> QED BY <1>7

LEMMA Choosing ==
  ASSUME NEW s, s # {}
  PROVE  Chosen(s) \in s
BY DEF Chosen

\* There is such a function: up to a size, by the least size without one.
LEMMA AdderExists ==
  ASSUME NEW U, IsFiniteSet(U), NEW w \in [U -> Nat]
  PROVE  \E g : Adds(w, U, g) /\ g \in [SUBSET U -> Nat]
<1> DEFINE Small(n) == {s \in SUBSET U : Cardinality(s) <= n}
           Computes(n, g) == g = [s \in Small(n) |-> OneLess(w, g, s)] /\ g \in [Small(n) -> Nat]
           Bad == {n \in Nat : \A g : ~Computes(n, g)}
           R == OpToRel(<, Nat)
<1>1. \A s \in SUBSET U : IsFiniteSet(s) /\ Cardinality(s) \in Nat
  BY FS_Subset, FS_CardinalityType
<1>2. ASSUME NEW s \in SUBSET U, s # {}
      PROVE  /\ Chosen(s) \in U /\ s \ {Chosen(s)} \in SUBSET U
             /\ Cardinality(s \ {Chosen(s)}) = Cardinality(s) - 1
  BY <1>1, <1>2, Choosing, FS_RemoveElement
<1>3. \E g : Computes(0, g)
  <2>1. \A s \in Small(0) : s = {}
    BY <1>1, FS_EmptySet
  <2> DEFINE g == [s \in Small(0) |-> 0]
  <2>2. g = [s \in Small(0) |-> OneLess(w, g, s)]
    BY <2>1 DEF OneLess
  <2> QED BY <2>2
<1>4. ASSUME NEW n \in Nat, NEW g, Computes(n, g)
      PROVE  \E h : Computes(n + 1, h)
  <2> DEFINE h == [s \in Small(n + 1) |-> OneLess(w, g, s)]
  <2>1. \A s \in Small(n) : s \in Small(n + 1) /\ h[s] = g[s]
    BY <1>1, <1>4
  <2>2. ASSUME NEW s \in Small(n + 1)
        PROVE  OneLess(w, g, s) = OneLess(w, h, s) /\ OneLess(w, g, s) \in Nat
    <3>1. CASE s = {}
      BY <3>1 DEF OneLess
    <3>2. CASE s # {}
      <4> DEFINE r == s \ {Chosen(s)}
      <4>1. r \in Small(n) /\ Chosen(s) \in U
        BY <1>1, <1>2, <3>2
      <4>2. h[r] = g[r] /\ g[r] \in Nat /\ w[Chosen(s)] \in Nat
        BY <1>4, <2>1, <4>1
      <4>3. OneLess(w, g, s) = w[Chosen(s)] + g[r] /\ OneLess(w, h, s) = w[Chosen(s)] + h[r]
        BY <3>2 DEF OneLess
      <4> HIDE DEF h, r
      <4> QED BY <4>2, <4>3
    <3> QED BY <3>1, <3>2
  <2>3. h = [s \in Small(n + 1) |-> OneLess(w, h, s)]
    BY <2>2
  <2>4. h \in [Small(n + 1) -> Nat]
    BY <2>2
  <2> QED BY <2>3, <2>4
<1>5. Bad = {}
  <2> SUFFICES ASSUME Bad # {} PROVE FALSE
    OBVIOUS
  <2>1. \A x, y \in Nat : y < x => <<y, x>> \in R
    BY DEF OpToRel
  <2>2. IsWellFoundedOn(R, Nat)
    BY NatLessThanWellFounded
  <2>3. Bad \subseteq Nat
    OBVIOUS
  <2> HIDE DEF R, Bad
  <2>4. PICK n \in Bad : \A m \in Bad : ~(<<m, n>> \in R)
    BY <2>2, <2>3, WFMin
  <2>5. n # 0
    BY <1>3 DEF Bad
  <2>6. n - 1 \in Nat /\ n - 1 < n /\ n \in Nat
    BY <2>3, <2>5
  <2>7. n - 1 \notin Bad
    BY <2>1, <2>4, <2>6
  <2>8. PICK g : Computes(n - 1, g)
    BY <2>6, <2>7 DEF Bad
  <2>9. \E h : Computes((n - 1) + 1, h)
    BY <1>4, <2>6, <2>8
  <2>10. (n - 1) + 1 = n
    BY <2>6
  <2>11. \E h : Computes(n, h)
    BY <2>9, <2>10
  <2> QED BY <2>4, <2>11 DEF Bad
<1>6. Small(Cardinality(U)) = SUBSET U /\ Cardinality(U) \in Nat
  BY FS_Subset, FS_CardinalityType
<1> DEFINE n == Cardinality(U)
<1>7. PICK g : Computes(n, g)
  BY <1>5, <1>6
<1>8. Adds(w, U, g) /\ g \in [SUBSET U -> Nat]
  BY <1>6, <1>7 DEF Adds
<1> QED BY <1>8

LEMMA AdderIs ==
  ASSUME NEW U, IsFiniteSet(U), NEW w \in [U -> Nat]
  PROVE  /\ Adder(w, U) \in [SUBSET U -> Nat]
         /\ \A s \in SUBSET U : Adder(w, U)[s] = OneLess(w, Adder(w, U), s)
<1> DEFINE G == Adder(w, U)
<1>1. Adds(w, U, G)
  BY AdderExists DEF Adder
<1>2. \A s \in SUBSET U : G[s] = OneLess(w, G, s)
  BY <1>1 DEF Adds
<1>3. PICK h : Adds(w, U, h) /\ h \in [SUBSET U -> Nat]
  BY AdderExists
<1>4. \A s \in SUBSET U : h[s] = OneLess(w, h, s)
  BY <1>3 DEF Adds
<1> DEFINE B == {s \in SUBSET U : G[s] # h[s]}
<1>5. B = {}
  <2> SUFFICES ASSUME B # {} PROVE FALSE
    OBVIOUS
  <2>1. B \in SUBSET (SUBSET U)
    OBVIOUS
  <2> HIDE DEF B, G
  <2>2. PICK s \in B : \A t \in B : t \subseteq s => t = s
    BY <2>1, LeastPart
  <2>3. s \in SUBSET U /\ G[s] # h[s]
    BY <2>2 DEF B
  <2>4. CASE s = {}
    BY <1>2, <1>4, <2>3, <2>4 DEF OneLess
  <2>5. CASE s # {}
    <3> DEFINE r == s \ {Chosen(s)}
    <3>1. r \in SUBSET U /\ r \subseteq s /\ r # s
      BY <2>3, <2>5, Choosing
    <3>2. G[r] = h[r]
      BY <2>2, <3>1 DEF B
    <3> QED BY <1>2, <1>4, <2>3, <2>5, <3>2 DEF OneLess
  <2> QED BY <2>4, <2>5
<1>6. DOMAIN G = SUBSET U
  BY <1>1 DEF Adds
<1>7. G \in [SUBSET U -> Nat]
  <2>1. G = [s \in SUBSET U |-> OneLess(w, G, s)]
    BY <1>1 DEF Adds
  <2>2. \A s \in SUBSET U : G[s] \in Nat
    BY <1>3, <1>5
  <2> HIDE DEF G
  <2> QED BY <1>6, <2>1, <2>2
<1> QED BY <1>2, <1>7

\* It does not matter which element is taken.
LEMMA AnyFirst ==
  ASSUME NEW U, IsFiniteSet(U), NEW w \in [U -> Nat], NEW s \in SUBSET U, NEW x \in s
  PROVE  Adder(w, U)[s] = w[x] + Adder(w, U)[s \ {x}]
<1> DEFINE G == Adder(w, U)
           B == {t \in SUBSET U : \E y \in t : G[t] # w[y] + G[t \ {y}]}
<1>1. G \in [SUBSET U -> Nat] /\ \A t \in SUBSET U : t # {} => G[t] = w[Chosen(t)] + G[t \ {Chosen(t)}]
  BY AdderIs DEF OneLess
<1>2. B = {}
  <2> SUFFICES ASSUME B # {} PROVE FALSE
    OBVIOUS
  <2>1. B \in SUBSET (SUBSET U)
    OBVIOUS
  <2> HIDE DEF B, G
  <2>2. PICK t \in B : \A r \in B : r \subseteq t => r = t
    BY <2>1, LeastPart
  <2>3. PICK y \in t : G[t] # w[y] + G[t \ {y}]
    BY <2>2 DEF B
  <2> DEFINE z == Chosen(t)
  <2>4. t \in SUBSET U /\ z \in t /\ y \in t
    BY <2>1, <2>3, Choosing
  <2> HIDE DEF z
  <2>5. G[t] = w[z] + G[t \ {z}]
    BY <1>1, <2>4 DEF z
  <2>6. y # z
    BY <2>3, <2>5
  <2>7. /\ t \ {z} \in SUBSET U /\ t \ {z} # t /\ y \in t \ {z}
        /\ t \ {y} \in SUBSET U /\ t \ {y} # t /\ z \in t \ {y}
    BY <2>4, <2>6
  <2>8. t \ {z} \notin B /\ t \ {y} \notin B
    BY <2>2, <2>7
  <2> DEFINE rest == t \ {y, z}
  <2>9. (t \ {z}) \ {y} = rest /\ (t \ {y}) \ {z} = rest /\ rest \in SUBSET U
    BY <2>4
  <2>10. G[t \ {z}] = w[y] + G[rest] /\ G[t \ {y}] = w[z] + G[rest]
    BY <2>7, <2>8, <2>9 DEF B
  <2>11. G[rest] \in Nat /\ w[y] \in Nat /\ w[z] \in Nat
    BY <1>1, <2>4, <2>9
  <2> HIDE DEF rest
  <2> QED BY <2>3, <2>5, <2>10, <2>11
<1> QED BY <1>2

\* Parts that do not meet add up.
LEMMA AdderSplits ==
  ASSUME NEW U, IsFiniteSet(U), NEW w \in [U -> Nat],
         NEW a \in SUBSET U, NEW b \in SUBSET U, a \cap b = {}
  PROVE  Adder(w, U)[a \cup b] = Adder(w, U)[a] + Adder(w, U)[b]
<1> DEFINE G == Adder(w, U)
           B == {t \in SUBSET a : G[t \cup b] # G[t] + G[b]}
<1>1. G \in [SUBSET U -> Nat] /\ G[{}] = 0
  BY AdderIs DEF OneLess
<1>2. B = {}
  <2> SUFFICES ASSUME B # {} PROVE FALSE
    OBVIOUS
  <2>1. B \in SUBSET (SUBSET U)
    OBVIOUS
  <2> HIDE DEF B, G
  <2>2. PICK t \in B : \A r \in B : r \subseteq t => r = t
    BY <2>1, LeastPart
  <2>3. t \in SUBSET a /\ G[t \cup b] # G[t] + G[b]
    BY <2>2 DEF B
  <2>4. t # {}
    <3> SUFFICES ASSUME t = {} PROVE FALSE
      OBVIOUS
    <3>1. t \cup b = b /\ G[t] = 0 /\ G[b] \in Nat
      BY <1>1
    <3>2. G[t] + G[b] = G[b]
      BY <3>1
    <3> QED BY <2>3, <3>1, <3>2
  <2>5. PICK x \in t : TRUE
    BY <2>4
  <2>6. t \ {x} \notin B /\ t \ {x} \in SUBSET a
    BY <2>2, <2>3, <2>5
  <2>7. G[(t \ {x}) \cup b] = G[t \ {x}] + G[b]
    BY <2>6 DEF B
  <2>8. (t \cup b) \ {x} = (t \ {x}) \cup b /\ t \cup b \in SUBSET U /\ t \in SUBSET U
        /\ t \ {x} \in SUBSET U
    BY <2>3, <2>5
  <2>9. G[t] = w[x] + G[t \ {x}] /\ G[t \cup b] = w[x] + G[(t \ {x}) \cup b]
    <3>1. x \in t \cup b
      BY <2>5
    <3> QED BY <2>5, <2>8, <3>1, AnyFirst DEF G
  <2>10. w[x] \in Nat /\ G[t \ {x}] \in Nat /\ G[b] \in Nat
    BY <1>1, <2>5, <2>8
  <2> QED BY <2>3, <2>7, <2>9, <2>10
<1> QED BY <1>2

\* A sum over a part is the same as a sum of its own.
LEMMA AdderNarrows ==
  ASSUME NEW U, IsFiniteSet(U), NEW w \in [U -> Nat], NEW V \in SUBSET U, NEW h, NEW v,
         \A x \in V : v[x] = w[x],
         \A s \in SUBSET V : h[s] = OneLess(v, h, s)
  PROVE  h[V] = Adder(w, U)[V]
<1> DEFINE G == Adder(w, U)
           B == {s \in SUBSET V : G[s] # h[s]}
<1>1. \A s \in SUBSET U : G[s] = OneLess(w, G, s)
  BY AdderIs
<1>2. B = {}
  <2> SUFFICES ASSUME B # {} PROVE FALSE
    OBVIOUS
  <2>1. B \in SUBSET (SUBSET U)
    OBVIOUS
  <2> HIDE DEF B, G
  <2>2. PICK s \in B : \A t \in B : t \subseteq s => t = s
    BY <2>1, LeastPart
  <2>3. s \in SUBSET V /\ s \in SUBSET U /\ G[s] # h[s]
    BY <2>2 DEF B
  <2>4. CASE s = {}
    BY <1>1, <2>3, <2>4 DEF OneLess
  <2>5. CASE s # {}
    <3> DEFINE c == Chosen(s)
               r == s \ {c}
    <3>1. r \in SUBSET V /\ r \subseteq s /\ r # s /\ c \in V
      BY <2>3, <2>5, Choosing
    <3>2. G[r] = h[r] /\ v[c] = w[c]
      BY <2>2, <3>1 DEF B
    <3>3. G[s] = w[c] + G[r] /\ h[s] = v[c] + h[r]
      BY <1>1, <2>3, <2>5 DEF OneLess
    <3> QED BY <2>3, <3>2, <3>3
  <2> QED BY <2>4, <2>5
<1> QED BY <1>2

Amount == [t \in Tx |-> Data[t].amount]

LEMMA AmountFits == IsFiniteSet(Tx) /\ Amount \in [Tx -> Nat]
BY TaxonomyAssumption DEF Amount

LEMMA SumIs ==
  ASSUME NEW S \in SUBSET Tx
  PROVE  SumOf(S) = Adder(Amount, Tx)[S]
<1> DEFINE sum(s, g) == IF s = {} THEN 0 ELSE Data[Chosen(s)].amount + g[s \ {Chosen(s)}]
           h == CHOOSE g : g = [s \in SUBSET S |-> sum(s, g)]
<1>1. SumOf(S) = h[S]
  BY DEF SumOf, MapThenSumSet, MapThenFoldSet, Chosen
<1>2. IsFiniteSet(S) /\ S \in SUBSET Tx
  BY AmountFits, FS_Subset
<1> DEFINE v == [x \in S |-> Data[x].amount]
<1>3. v \in [S -> Nat]
  BY TaxonomyAssumption
<1>4. \A g, s : s \in SUBSET S => OneLess(v, g, s) = sum(s, g)
  BY Choosing DEF OneLess
<1>5. \E g : Adds(v, S, g)
  <2> HIDE DEF v
  <2> QED BY <1>2, <1>3, AdderExists
<1>6. \E g : g = [s \in SUBSET S |-> sum(s, g)]
  <2>1. PICK g : g = [s \in SUBSET S |-> OneLess(v, g, s)]
    BY <1>5 DEF Adds
  <2>2. \A s \in SUBSET S : OneLess(v, g, s) = sum(s, g)
    BY <1>4
  <2> HIDE DEF sum, v
  <2>3. g = [s \in SUBSET S |-> sum(s, g)]
    BY <2>1, <2>2
  <2> QED BY <2>3
<1>7. h = [s \in SUBSET S |-> sum(s, h)]
  BY <1>6
<1>8. \A s \in SUBSET S : h[s] = OneLess(v, h, s)
  BY <1>4, <1>7
<1>9. \A x \in S : v[x] = Amount[x]
  BY DEF Amount
<1> HIDE DEF h, v
<1> QED BY <1>1, <1>8, <1>9, AmountFits, AdderNarrows

\* What is added up in rows.
LEMMA SumSplits ==
  ASSUME NEW S \in SUBSET Tx, NEW T \in SUBSET Tx
  PROVE  /\ SumOf(S) \in Nat /\ SumOf({}) = 0
         /\ S \cap T = {} => SumOf(S \cup T) = SumOf(S) + SumOf(T)
<1>1. SumOf(S) = Adder(Amount, Tx)[S] /\ SumOf(T) = Adder(Amount, Tx)[T]
      /\ SumOf({}) = Adder(Amount, Tx)[{}] /\ SumOf(S \cup T) = Adder(Amount, Tx)[S \cup T]
  BY SumIs
<1>2. Adder(Amount, Tx)[S] \in Nat /\ Adder(Amount, Tx)[{}] = 0
  <2> DEFINE G == Adder(Amount, Tx)
  <2>1. G \in [SUBSET Tx -> Nat] /\ \A s \in SUBSET Tx : G[s] = OneLess(Amount, G, s)
    BY AmountFits, AdderIs
  <2> HIDE DEF G
  <2> QED BY <2>1 DEF OneLess, G
<1> QED BY <1>1, <1>2, AmountFits, AdderSplits

LEMMA SumGrows ==
  ASSUME NEW T \in SUBSET Tx, NEW S \in SUBSET T
  PROVE  SumOf(S) <= SumOf(T) /\ SumOf(S) \in Nat /\ SumOf(T) \in Nat
<1>1. T = S \cup (T \ S) /\ S \cap (T \ S) = {} /\ T \ S \in SUBSET Tx /\ S \in SUBSET Tx
  OBVIOUS
<1>2. SumOf(T) = SumOf(S) + SumOf(T \ S)
  BY <1>1, SumSplits, Zenon
<1>3. SumOf(S) \in Nat /\ SumOf(T) \in Nat /\ SumOf(T \ S) \in Nat
  BY <1>1, SumSplits
<1> QED BY <1>2, <1>3

\* f adds up the rows of each part.
LaidOut(K, P, f) ==
  /\ IsFiniteSet(K) /\ P \in [K -> SUBSET Tx] /\ f \in [K -> Nat]
  /\ \A k, l \in K : k # l => P[k] \cap P[l] = {}
  /\ \A k \in K : f[k] = SumOf(P[k])

\* Rows that are laid out in parts add up to the total of the parts.
LEMMA TotalOfParts ==
  ASSUME NEW K, NEW P, NEW f, LaidOut(K, P, f)
  PROVE  Total(f) = SumOf(UNION {P[k] : k \in K})
<1> DEFINE G == Adder(f, K)
           all(M) == UNION {P[k] : k \in M}
           B == {M \in SUBSET K : G[M] # SumOf(all(M))}
<1>1. IsFiniteSet(K) /\ P \in [K -> SUBSET Tx] /\ f \in [K -> Nat]
  BY DEF LaidOut
<1>2. G[{}] = 0
  BY <1>1, AdderIs DEF OneLess
<1>3. \A M \in SUBSET K : all(M) \in SUBSET Tx
  BY <1>1
<1>4. B = {}
  <2> SUFFICES ASSUME B # {} PROVE FALSE
    OBVIOUS
  <2>1. B \in SUBSET (SUBSET K)
    OBVIOUS
  <2> HIDE DEF B, G
  <2>2. PICK M \in B : \A N \in B : N \subseteq M => N = M
    BY <1>1, <2>1, LeastPart
  <2>3. M \in SUBSET K /\ G[M] # SumOf(all(M))
    BY <2>2 DEF B
  <2>4. M # {}
    <3> SUFFICES ASSUME M = {} PROVE FALSE
      OBVIOUS
    <3>1. all(M) = {}
      OBVIOUS
    <3>2. SumOf({}) = 0
      BY SumSplits
    <3> HIDE DEF all
    <3> QED BY <1>2, <2>3, <3>1, <3>2
  <2>5. PICK k \in M : TRUE
    BY <2>4
  <2> DEFINE N == M \ {k}
  <2>6. N \in SUBSET K /\ N # M /\ N \subseteq M /\ k \in K /\ k \notin N
    BY <2>3, <2>5
  <2>7. G[N] = SumOf(all(N))
    BY <2>2, <2>6 DEF B
  <2>8. all(M) = P[k] \cup all(N)
    BY <2>5
  <2>9. P[k] \cap all(N) = {}
    BY <2>6 DEF LaidOut
  <2>10. P[k] \in SUBSET Tx /\ all(N) \in SUBSET Tx /\ f[k] = SumOf(P[k])
    BY <1>1, <1>3, <2>6 DEF LaidOut
  <2> HIDE DEF all
  <2>11. SumOf(all(M)) = f[k] + SumOf(all(N))
    BY <2>8, <2>9, <2>10, SumSplits
  <2>12. G[M] = f[k] + G[N]
    BY <1>1, <2>3, <2>5, AnyFirst DEF G
  <2> QED BY <2>3, <2>7, <2>11, <2>12
<1>5. Total(f) = G[K]
  <2>1. DOMAIN f = K
    BY <1>1
  <2> QED BY <2>1, TotalIs
<1> QED BY <1>4, <1>5

-----------------------------------------------------------------------------
(* Months.                                                                 *)

Month == [year : Int, month : 1..12]

\* The months lie in a row, and each has its number.
LEMMA MonthsInARow ==
  ASSUME NEW m \in Month, NEW d \in Int
  PROVE  /\ Shifted(m, d) \in Month /\ Absolute(m) \in Int
         /\ Absolute(Shifted(m, d)) = Absolute(m) + d
<1> DEFINE a == m.year * 12 + (m.month - 1) + d
<1>1. m.year \in Int /\ m.month \in 1..12 /\ a \in Int
  BY DEF Month
<1>2. Shifted(m, d) = [year |-> a \div 12, month |-> (a % 12) + 1]
  BY DEF Shifted, Absolute
<1> HIDE DEF a
<1>3. a \div 12 \in Int /\ (a % 12) + 1 \in 1..12 /\ ((a \div 12) * 12) + (a % 12) = a
  BY <1>1
<1>4. Shifted(m, d) \in Month
  BY <1>2, <1>3 DEF Month
<1> DEFINE q == a \div 12
           r == a % 12
<1>5. Absolute(Shifted(m, d)) = (q * 12) + ((r + 1) - 1)
  BY <1>2 DEF Absolute
<1>6. q \in Int /\ r \in Int /\ (q * 12) + r = a
  BY <1>1, <1>3
<1> HIDE DEF q, r
<1>7. Absolute(Shifted(m, d)) = a
  BY <1>5, <1>6
<1>8. Absolute(m) \in Int /\ a = Absolute(m) + d
  BY <1>1 DEF Absolute, a
<1> QED BY <1>4, <1>7, <1>8

LEMMA SameNumber ==
  ASSUME NEW m \in Month, NEW n \in Month, Absolute(m) = Absolute(n)
  PROVE  m = n
<1>1. m.year \in Int /\ m.month \in 1..12 /\ n.year \in Int /\ n.month \in 1..12
      /\ m.year * 12 + (m.month - 1) = n.year * 12 + (n.month - 1)
  BY DEF Month, Absolute
<1> DEFINE y == m.year
           k == m.month
           z == n.year
           l == n.month
<1>2. /\ y \in Int /\ z \in Int /\ k \in Int /\ l \in Int
      /\ 1 <= k /\ k <= 12 /\ 1 <= l /\ l <= 12
      /\ y * 12 + (k - 1) = z * 12 + (l - 1)
  BY <1>1
<1> HIDE DEF y, k, z, l
<1>3. y = z /\ k = l
  BY <1>2
<1> QED BY <1>3 DEF Month, y, k, z, l

LEMMA MonthOfRow ==
  ASSUME NEW t \in Tx
  PROVE  /\ MonthOf(t) \in Month /\ Absolute(MonthOf(t)) = MonthIndex[t]
         /\ MonthIndex[t] \in Int
<1>1. Data[t].year \in Nat /\ Data[t].month \in 1..12
  BY TaxonomyAssumption
<1>2. MonthOf(t) \in Month
  BY <1>1 DEF MonthOf, Month
<1>3. MonthIndex[t] = Data[t].year * 12 + (Data[t].month - 1)
  BY DEF MonthIndex
<1> QED BY <1>1, <1>2, <1>3 DEF MonthOf, Absolute

LEMMA Shifting ==
  ASSUME NEW m \in Month, NEW a \in Int, NEW b \in Int
  PROVE  Shifted(Shifted(m, a), b) = Shifted(m, a + b) /\ Shifted(m, 0) = m
<1>1. Shifted(m, a) \in Month /\ Absolute(Shifted(m, a)) = Absolute(m) + a /\ Absolute(m) \in Int
  BY MonthsInARow
<1>2. /\ Shifted(Shifted(m, a), b) \in Month
      /\ Absolute(Shifted(Shifted(m, a), b)) = Absolute(m) + a + b
  BY <1>1, MonthsInARow
<1>3. a + b \in Int /\ 0 \in Int
  OBVIOUS
<1>4. Shifted(m, a + b) \in Month /\ Absolute(Shifted(m, a + b)) = Absolute(m) + (a + b)
  BY <1>3, MonthsInARow
<1>5. Shifted(m, 0) \in Month /\ Absolute(Shifted(m, 0)) = Absolute(m) + 0
  BY <1>3, MonthsInARow
<1>6. Absolute(Shifted(Shifted(m, a), b)) = Absolute(Shifted(m, a + b))
  BY <1>1, <1>2, <1>4
<1>7. Absolute(Shifted(m, 0)) = Absolute(m)
  BY <1>1, <1>5
<1> QED BY <1>2, <1>4, <1>5, <1>6, <1>7, SameNumber

LEMMA Asked ==
  /\ Now \in Month /\ ReportedOn \subseteq Month
  /\ RangesAsked \subseteq {"1m", "3m", "6m", "12m", "ytd"}
BY ReportsAssumption DEF Month

-----------------------------------------------------------------------------
(* Income.                                                                 *)

PaidFor(t) == IF Salary(t) THEN SalaryPayPeriod(t) ELSE MonthOf(t)

\* A credit is counted in the month it pays for, which is its own or the next.
LEMMA IncomeMonth ==
  ASSUME NEW t \in Present, tx[t].type = "income", ~tx[t].duplicate
  PROVE  /\ PaidFor(t) \in {MonthOf(t), Shifted(MonthOf(t), 1)} /\ PaidFor(t) \in Month
         /\ \A m \in Month : t \in IncomeRows(m) <=> m = PaidFor(t)
<1>1. t \in Tx
  BY DEF Present
<1>2. MonthOf(t) \in Month /\ Absolute(MonthOf(t)) = MonthIndex[t] /\ MonthIndex[t] \in Int
  BY <1>1, MonthOfRow
<1>3. PaidFor(t) \in {MonthOf(t), Shifted(MonthOf(t), 1)}
  BY DEF PaidFor, SalaryPayPeriod
<1>4. PaidFor(t) \in Month /\ Absolute(PaidFor(t)) \in {MonthIndex[t], MonthIndex[t] + 1}
  <2>1. 1 \in Int
    OBVIOUS
  <2>2. /\ Shifted(MonthOf(t), 1) \in Month
        /\ Absolute(Shifted(MonthOf(t), 1)) = Absolute(MonthOf(t)) + 1
    BY <1>2, <2>1, MonthsInARow
  <2> QED BY <1>2, <1>3, <2>2
<1>5. ASSUME NEW m \in Month
      PROVE  t \in IncomeRows(m) <=> m = PaidFor(t)
  <2>1. t \in IncomeRows(m) <=> t \in Dated(Shifted(m, -1), m) /\ m = PaidFor(t)
    BY <1>1 DEF IncomeRows, IncomeCandidates, PaidFor, Dated
  <2>2. -1 \in Int
    OBVIOUS
  <2>3. Absolute(Shifted(m, -1)) = Absolute(m) + (-1) /\ Absolute(m) \in Int
    BY <2>2, MonthsInARow
  <2>4. ASSUME m = PaidFor(t) PROVE t \in Dated(Shifted(m, -1), m)
    <3>1. Absolute(Shifted(m, -1)) <= MonthIndex[t] /\ MonthIndex[t] <= Absolute(m)
      BY <1>2, <1>4, <2>3, <2>4
    <3> QED BY <3>1 DEF Dated
  <2> QED BY <2>1, <2>4
<1> QED BY <1>3, <1>4, <1>5

\* The agent's salaries and other income are the rows the dashboard adds up.
LEMMA IncomeSplits ==
  ASSUME NEW m \in Month
  PROVE  SumOf({t \in IncomeCandidates(m) : Salary(t) /\ SalaryPayPeriod(t) = m})
           + SumOf({t \in IncomeCandidates(m) : ~Salary(t) /\ MonthOf(t) = m})
         = SumOf(IncomeRows(m))
<1> DEFINE salary == {t \in IncomeCandidates(m) : Salary(t) /\ SalaryPayPeriod(t) = m}
           other == {t \in IncomeCandidates(m) : ~Salary(t) /\ MonthOf(t) = m}
<1>1. IncomeCandidates(m) \subseteq Tx
  BY DEF IncomeCandidates, Dated, Present
<1>2. salary \in SUBSET Tx /\ other \in SUBSET Tx /\ salary \cap other = {}
  BY <1>1
<1>3. IncomeRows(m) = salary \cup other
  BY DEF IncomeRows
<1> HIDE DEF salary, other
<1>4. SumOf(salary \cup other) = SumOf(salary) + SumOf(other)
  BY <1>2, SumSplits
<1> QED BY <1>3, <1>4 DEF salary, other

LEMMA IncomeAdds == IncomeOnce
<1>1. ASSUME NEW t \in Present, tx[t].type = "income", ~tx[t].duplicate
      PROVE  \E m \in {Shifted(MonthOf(t), d) : d \in 0..1} :
               /\ t \in IncomeRows(m)
               /\ \A d \in -2..2 : t \in IncomeRows(Shifted(m, d)) => d = 0
  <2> DEFINE m == PaidFor(t)
  <2>1. /\ m \in {MonthOf(t), Shifted(MonthOf(t), 1)} /\ m \in Month
        /\ \A n \in Month : t \in IncomeRows(n) <=> n = m
    BY <1>1, IncomeMonth
  <2>2. MonthOf(t) \in Month
    BY MonthOfRow DEF Present
  <2> HIDE DEF m
  <2>3. m \in {Shifted(MonthOf(t), d) : d \in 0..1}
    BY <2>1, <2>2, Shifting
  <2>4. ASSUME NEW d \in -2..2, t \in IncomeRows(Shifted(m, d))
        PROVE  d = 0
    <3>1. d \in Int
      OBVIOUS
    <3>2. /\ Shifted(m, d) \in Month /\ Absolute(Shifted(m, d)) = Absolute(m) + d
          /\ Absolute(m) \in Int
      BY <2>1, <3>1, MonthsInARow
    <3>3. Shifted(m, d) = m
      BY <2>1, <2>4, <3>2
    <3> QED BY <3>1, <3>2, <3>3
  <2> QED BY <2>1, <2>3, <2>4
<1>2. ASSUME NEW i \in 1..3
      PROVE  /\ IncomeAndSalary(3)[i].total = IncomeTrend(3)[i].income
             /\ IncomeAndSalary(3)[i].total = CashFlowTrends(3)[i].income
  <2> DEFINE p == Shifted(Now, i - 3)
  <2>1. p \in Month
    <3>1. i - 3 \in Int
      OBVIOUS
    <3> QED BY <3>1, Asked, MonthsInARow
  <2>2. IncomeTrend(3)[i].income = SumOf(IncomeRows(p))
    BY DEF IncomeTrend, Capped
  <2>3. CashFlowTrends(3)[i].income = SumOf(IncomeRows(p))
    BY DEF CashFlowTrends, FinancialTrends, Capped
  <2>4. IncomeAndSalary(3)[i].total
          = SumOf({t \in IncomeCandidates(p) : Salary(t) /\ SalaryPayPeriod(t) = p})
            + SumOf({t \in IncomeCandidates(p) : ~Salary(t) /\ MonthOf(t) = p})
    BY DEF IncomeAndSalary, Capped
  <2> HIDE DEF p
  <2> QED BY <2>1, <2>2, <2>3, <2>4, IncomeSplits
<1> QED BY <1>1, <1>2 DEF IncomeOnce

\* In every state, with any rows dated anywhere: a credit of income is counted once, and
\* the agent adds up what the dashboard does.
THEOREM IncomeCountsOnce == Spec => []IncomeOnce
BY IncomeAdds, PTL

-----------------------------------------------------------------------------
(* Rows by what they have in common.                                       *)

\* The rows of S with a key in K, and f that adds up those of each key.
Among(S, K, k) == {t \in S : k[t] \in K}
Keyed(S, K, k, f) ==
  S \in SUBSET Tx /\ IsFiniteSet(K) /\ f = [n \in K |-> SumOf({t \in S : k[t] = n})]

LEMMA TotalByKeys ==
  ASSUME NEW S, NEW K, NEW k, NEW f, Keyed(S, K, k, f)
  PROVE  Total(f) = SumOf(Among(S, K, k))
<1> DEFINE P == [n \in K |-> {t \in S : k[t] = n}]
<1> USE DEF Keyed, Among
<1>1. P \in [K -> SUBSET Tx] /\ \A n, l \in K : n # l => P[n] \cap P[l] = {}
  OBVIOUS
<1>2. f \in [K -> Nat] /\ \A n \in K : f[n] = SumOf(P[n])
  <2>1. \A n \in K : {t \in S : k[t] = n} \in SUBSET Tx
    OBVIOUS
  <2>2. \A n \in K : SumOf({t \in S : k[t] = n}) \in Nat
    BY <2>1, SumSplits
  <2> QED BY <2>2
<1>3. UNION {P[n] : n \in K} = Among(S, K, k)
  OBVIOUS
<1> HIDE DEF P
<1>4. LaidOut(K, P, f)
  BY <1>1, <1>2 DEF LaidOut
<1>5. Total(f) = SumOf(UNION {P[n] : n \in K})
  BY <1>4, TotalOfParts
<1> QED BY <1>3, <1>5

LEMMA TotalByAll ==
  ASSUME NEW S \in SUBSET Tx, NEW k,
         NEW f, f = [n \in {k[t] : t \in S} |-> SumOf({t \in S : k[t] = n})]
  PROVE  Total(f) = SumOf(S)
<1> DEFINE K == {k[t] : t \in S}
           g == [t \in S |-> k[t]]
<1>1. g \in Surjection(S, K)
  BY DEF Surjection
<1>2. IsFiniteSet(S)
  BY AmountFits, FS_Subset
<1>3. IsFiniteSet(K)
  <2> HIDE DEF g, K
  <2> QED BY <1>1, <1>2, FS_Surjection
<1>4. Among(S, K, k) = S
  BY DEF Among
<1>5. Keyed(S, K, k, f)
  BY <1>3 DEF Keyed
<1> HIDE DEF K
<1>6. Total(f) = SumOf(Among(S, K, k))
  BY <1>5, TotalByKeys
<1> QED BY <1>4, <1>6

\* The lists of days and of merchants add up to the rows they list.
Daily(S) == [d \in {Data[t].day : t \in S} |-> SumOf({t \in S : Data[t].day = d})]
PerMerchant(S) == [n \in {Data[t].name : t \in S} |-> SumOf({t \in S : Data[t].name = n})]

LEMMA ListsAddUp ==
  ASSUME NEW S \in SUBSET Tx
  PROVE  Total(Daily(S)) = SumOf(S) /\ Total(PerMerchant(S)) = SumOf(S)
<1> DEFINE day == [t \in Tx |-> Data[t].day]
           name == [t \in Tx |-> Data[t].name]
<1>1. \A t \in S : day[t] = Data[t].day /\ name[t] = Data[t].name
  OBVIOUS
<1> HIDE DEF day, name
<1>2. /\ {Data[t].day : t \in S} = {day[t] : t \in S}
      /\ {Data[t].name : t \in S} = {name[t] : t \in S}
  BY <1>1
<1>3. /\ \A d : {t \in S : Data[t].day = d} = {t \in S : day[t] = d}
      /\ \A n : {t \in S : Data[t].name = n} = {t \in S : name[t] = n}
  BY <1>1
<1>4. Daily(S) = [d \in {day[t] : t \in S} |-> SumOf({t \in S : day[t] = d})]
  BY <1>2, <1>3 DEF Daily
<1>5. PerMerchant(S) = [n \in {name[t] : t \in S} |-> SumOf({t \in S : name[t] = n})]
  BY <1>2, <1>3 DEF PerMerchant
<1>6. Total(Daily(S)) = SumOf(S)
  BY <1>4, TotalByAll
<1>7. Total(PerMerchant(S)) = SumOf(S)
  BY <1>5, TotalByAll
<1> QED BY <1>6, <1>7

\* The overview's list of merchants leaves out what names nobody.
PerNamed(S) ==
  [n \in {Data[t].name : t \in S} \ {None} |-> SumOf({t \in S : Data[t].name = n})]

LEMMA NamesAddUp ==
  ASSUME NEW S \in SUBSET Tx
  PROVE  SumOf(S) = Total(PerNamed(S)) + SumOf(Nameless(S))
<1> DEFINE named == S \ Nameless(S)
<1>1. /\ named \in SUBSET Tx /\ Nameless(S) \in SUBSET Tx
      /\ named \cap Nameless(S) = {} /\ named \cup Nameless(S) = S
  BY DEF Nameless
<1>2. SumOf(S) = SumOf(named) + SumOf(Nameless(S))
  BY <1>1, SumSplits
<1>3. {Data[t].name : t \in S} \ {None} = {Data[t].name : t \in named}
  BY DEF Nameless
<1>4. \A n \in {Data[t].name : t \in named} :
        {t \in S : Data[t].name = n} = {t \in named : Data[t].name = n}
  BY DEF Nameless
<1> HIDE DEF named
<1>5. PerNamed(S) = PerMerchant(named)
  BY <1>3, <1>4 DEF PerNamed, PerMerchant
<1>6. Total(PerMerchant(named)) = SumOf(named)
  BY <1>1, ListsAddUp
<1> QED BY <1>2, <1>5, <1>6

Costs(b, S) == MapThenSumSet(LAMBDA c : b[c].total, S)

LEMMA CostsAre ==
  ASSUME NEW S, IsFiniteSet(S), NEW b, NEW f, f = [c \in S |-> b[c].total], f \in [S -> Nat]
  PROVE  Costs(b, S) = Total(f)
<1> DEFINE sum(s, g) == IF s = {} THEN 0 ELSE b[Chosen(s)].total + g[s \ {Chosen(s)}]
           h == CHOOSE g : g = [s \in SUBSET S |-> sum(s, g)]
<1>1. Costs(b, S) = h[S]
  BY DEF Costs, MapThenSumSet, MapThenFoldSet, Chosen
<1>2. \A g, s : s \in SUBSET S => OneLess(f, g, s) = sum(s, g)
  BY Choosing DEF OneLess
<1>3. \E g : Adds(f, S, g)
  BY AdderExists
<1>4. \E g : g = [s \in SUBSET S |-> sum(s, g)]
  <2>1. PICK g : g = [s \in SUBSET S |-> OneLess(f, g, s)]
    BY <1>3 DEF Adds
  <2>2. \A s \in SUBSET S : OneLess(f, g, s) = sum(s, g)
    BY <1>2
  <2> HIDE DEF sum
  <2>3. g = [s \in SUBSET S |-> sum(s, g)]
    BY <2>1, <2>2
  <2> QED BY <2>3
<1>5. h = [s \in SUBSET S |-> sum(s, h)]
  BY <1>4
<1>6. \A s \in SUBSET S : h[s] = OneLess(f, h, s)
  BY <1>2, <1>5
<1>7. DOMAIN f = S /\ \A x \in S : f[x] = f[x]
  OBVIOUS
<1> HIDE DEF h
<1>8. h[S] = Adder(f, S)[S]
  BY <1>6, <1>7, AdderNarrows
<1> QED BY <1>1, <1>7, <1>8, TotalIs

-----------------------------------------------------------------------------
(* A month's overview.                                                     *)

LEMMA SpentRows ==
  ASSUME NEW from, NEW to
  PROVE  /\ Dated(from, to) \in SUBSET Tx /\ Spent(from, to) \in SUBSET Tx
         /\ Dated(from, to) \subseteq Present /\ Spent(from, to) \subseteq Present
BY DEF Spent, Dated, Present

LEMMA OverviewIs ==
  ASSUME NEW m
  PROVE  LET o    == Overview(m)
             rows == Spent(m, m)
             b    == Breakdown(m)
             spent == SumOf(rows)
             commitments == Costs(b, {c \in DOMAIN b : Committed(c)})
             recorded == {t \in Dated(m, m) : ~tx[t].duplicate}
             debits == {t \in recorded : Data[t].direction = "debit"}
             active == Cardinality(rows)
         IN  /\ o.spent = spent /\ o.breakdown = b /\ o.income = SumOf(IncomeRows(m))
             /\ o.previous = SumOf(Spent(Previous(m), Previous(m)))
             /\ o.commitments = commitments
             /\ o.consumer = IF spent > commitments THEN spent - commitments ELSE 0
             /\ o.recorded = Cardinality(recorded) /\ o.debits = active
             /\ o.excluded = IF Cardinality(debits) > active
                             THEN Cardinality(debits) - active ELSE 0
             /\ o.daily = Daily(rows) /\ o.merchants = PerNamed(rows)
BY DEF Overview, Costs, Daily, PerNamed

\* The categories shown and what has none make up the month, and a part of them is a
\* part of it.
LEMMA BreakdownAddsUp ==
  ASSUME RowsFit, NEW m
  PROVE  LET b    == Breakdown(m)
             rows == Spent(m, m)
         IN  /\ DOMAIN b \subseteq Categories
             /\ \A c \in DOMAIN b : b[c].total = SumOf(Under(rows, c))
             /\ \A c \in Categories \ DOMAIN b : Under(rows, c) = {}
             /\ SumOf(rows) = Total([c \in DOMAIN b |-> b[c].total]) + SumOf(Under(rows, None))
             /\ \A S \in SUBSET DOMAIN b : Costs(b, S) \in Nat /\ Costs(b, S) <= SumOf(rows)
<1> DEFINE b == Breakdown(m)
           rows == Spent(m, m)
           shown == DOMAIN b
           k == [t \in Tx |-> tx[t].category]
           Filed(S) == Among(rows, S, k)
<1>1. /\ shown \subseteq Categories
      /\ \A c \in shown : b[c].total = SumOf(Under(rows, c))
      /\ \A c \in Categories \ shown : Under(rows, c) = {}
  BY DEF Breakdown
<1>2. rows \in SUBSET Tx /\ rows \subseteq Present
  BY SpentRows
<1>3. Categories \subseteq Category /\ IsFiniteSet(Category) /\ None \notin Categories
  BY TaxonomyAssumption, Ids DEF Categories
<1> HIDE DEF b, rows
<1>4. \A c : Under(rows, c) = {t \in rows : k[t] = c}
  BY <1>2 DEF Under
<1>5. ASSUME NEW S \in SUBSET shown, NEW f, f = [c \in S |-> b[c].total]
      PROVE  Total(f) = SumOf(Filed(S)) /\ f \in [S -> Nat] /\ IsFiniteSet(S)
  <2>1. IsFiniteSet(S)
    <3>1. S \in SUBSET Category
      BY <1>1, <1>3
    <3> QED BY <1>3, <3>1, FS_Subset
  <2>2. \A c \in S : b[c].total = SumOf({t \in rows : k[t] = c})
    BY <1>1, <1>4
  <2> HIDE DEF k
  <2>3. f = [c \in S |-> SumOf({t \in rows : k[t] = c})]
    BY <1>5, <2>2
  <2>4. \A c \in S : SumOf({t \in rows : k[t] = c}) \in Nat
    BY <1>2, SumSplits
  <2>5. f \in [S -> Nat]
    BY <2>3, <2>4
  <2>6. Keyed(rows, S, k, f)
    BY <1>2, <2>1, <2>3 DEF Keyed
  <2>7. Total(f) = SumOf(Filed(S))
    BY <2>6, TotalByKeys
  <2> QED BY <2>1, <2>5, <2>7
<1>6. SumOf(rows) = Total([c \in shown |-> b[c].total]) + SumOf(Under(rows, None))
  <2>1. \A t \in rows : k[t] \in Categories \cup {None}
    BY <1>2 DEF RowsFit, LabelFits, Present
  <2>2. \A t \in rows : k[t] \in Categories => k[t] \in shown
    BY <1>1, <1>4
  <2> USE DEF Among
  <2>3. rows = Filed(shown) \cup Under(rows, None) /\ Filed(shown) \cap Under(rows, None) = {}
    <3> HIDE DEF k
    <3>1. Under(rows, None) = {t \in rows : k[t] = None}
      BY <1>4
    <3>2. None \notin shown
      BY <1>1, <1>3
    <3> QED BY <2>1, <2>2, <3>1, <3>2
  <2>4. Filed(shown) \in SUBSET Tx /\ Under(rows, None) \in SUBSET Tx
    BY <1>2, <1>4
  <2>5. Total([c \in shown |-> b[c].total]) = SumOf(Filed(shown))
    BY <1>5
  <2> DEFINE F == Filed(shown)
             N == Under(rows, None)
  <2> HIDE DEF F, N
  <2>6. SumOf(F \cup N) = SumOf(F) + SumOf(N)
    BY <2>3, <2>4, SumSplits DEF F, N
  <2>7. rows = F \cup N
    BY <2>3 DEF F, N
  <2> QED BY <2>5, <2>6, <2>7 DEF F, N
<1>7. ASSUME NEW S \in SUBSET shown
      PROVE  Costs(b, S) \in Nat /\ Costs(b, S) <= SumOf(rows)
  <2> DEFINE f == [c \in S |-> b[c].total]
  <2>1. Total(f) = SumOf(Filed(S)) /\ f \in [S -> Nat] /\ IsFiniteSet(S)
    BY <1>5
  <2>2. Costs(b, S) = Total(f)
    BY <2>1, CostsAre
  <2>3. Filed(S) \subseteq rows
    BY DEF Among
  <2>4. SumOf(Filed(S)) \in Nat /\ SumOf(Filed(S)) <= SumOf(rows)
    BY <1>2, <2>3, SumGrows
  <2> QED BY <2>1, <2>2, <2>4
<1> QED BY <1>1, <1>6, <1>7 DEF b, rows

LEMMA CountsFit ==
  ASSUME NEW m
  PROVE  Overview(m).recorded >= Overview(m).debits + Overview(m).excluded
<1> DEFINE recorded == {t \in Dated(m, m) : ~tx[t].duplicate}
           debits == {t \in recorded : Data[t].direction = "debit"}
           rows == Spent(m, m)
<1>1. /\ Overview(m).recorded = Cardinality(recorded) /\ Overview(m).debits = Cardinality(rows)
      /\ Overview(m).excluded = IF Cardinality(debits) > Cardinality(rows)
                                THEN Cardinality(debits) - Cardinality(rows) ELSE 0
  BY OverviewIs
<1>2. recorded \in SUBSET Tx /\ debits \subseteq recorded /\ rows \subseteq recorded
  BY SpentRows DEF Spent, Spending
<1> HIDE DEF recorded, debits, rows
<1>3. IsFiniteSet(recorded)
  BY <1>2, AmountFits, FS_Subset
<1>4. /\ Cardinality(recorded) \in Nat
      /\ Cardinality(debits) \in Nat /\ Cardinality(debits) <= Cardinality(recorded)
      /\ Cardinality(rows) \in Nat /\ Cardinality(rows) <= Cardinality(recorded)
  <2>1. debits \in SUBSET recorded /\ rows \in SUBSET recorded
    BY <1>2
  <2> QED BY <1>3, <2>1, FS_Subset, FS_CardinalityType
<1> QED BY <1>1, <1>4

LEMMA PreviousIs ==
  ASSUME NEW m \in Month
  PROVE  Shifted(m, -1) = Previous(m)
<1>1. -1 \in Int
  OBVIOUS
<1>2. Shifted(m, -1) \in Month /\ Absolute(Shifted(m, -1)) = Absolute(m) + (-1)
  BY <1>1, MonthsInARow
<1> DEFINE y == m.year
           k == m.month
<1>3. m = [year |-> y, month |-> k] /\ y \in Int /\ k \in 1..12
  BY DEF Month
<1> HIDE DEF y, k
<1>4. Previous(m) = IF k = 1 THEN [year |-> y - 1, month |-> 12]
                    ELSE [year |-> y, month |-> k - 1]
  BY <1>3 DEF Previous
<1>5. CASE k = 1
  <2>1. Previous(m) = [year |-> y - 1, month |-> 12]
    BY <1>4, <1>5
  <2>2. Previous(m) \in Month
    BY <1>3, <2>1 DEF Month
  <2>3. Absolute(Previous(m)) = Absolute(m) + (-1)
    BY <1>3, <1>5, <2>1 DEF Absolute
  <2> QED BY <1>2, <2>2, <2>3, SameNumber
<1>6. CASE k # 1
  <2>1. Previous(m) = [year |-> y, month |-> k - 1]
    BY <1>4, <1>6
  <2>2. k - 1 \in 1..12
    BY <1>3, <1>6
  <2>3. Previous(m) \in Month
    BY <1>3, <2>1, <2>2 DEF Month
  <2>4. Absolute(Previous(m)) = Absolute(m) + (-1)
    BY <1>3, <2>1 DEF Absolute
  <2> QED BY <1>2, <2>3, <2>4, SameNumber
<1> QED BY <1>5, <1>6

LEMMA TrendIs ==
  ASSUME NEW m \in Month
  PROVE  LET trend == FinancialTrends(m, 2)
         IN  /\ trend[2].month = m /\ trend[2].spent = SumOf(Spent(m, m))
             /\ trend[2].income = SumOf(IncomeRows(m))
             /\ trend[2].net = SumOf(IncomeRows(m)) - SumOf(Spent(m, m))
             /\ trend[1].spent = SumOf(Spent(Previous(m), Previous(m)))
<1>1. Shifted(m, 2 - 2) = m /\ Shifted(m, 1 - 2) = Previous(m)
  <2>1. 2 - 2 = 0 /\ 1 - 2 = -1 /\ 0 \in Int
    OBVIOUS
  <2>2. Shifted(m, 0) = m
    BY <2>1, Shifting
  <2>3. Shifted(m, -1) = Previous(m)
    BY PreviousIs
  <2> QED BY <2>1, <2>2, <2>3
<1>2. Capped(2) = 2 /\ 1 \in 1..2 /\ 2 \in 1..2
  BY DEF Capped
<1> DEFINE row(i) == LET p      == Shifted(m, i - 2)
                         spent  == SumOf(Spent(p, p))
                         income == SumOf(IncomeRows(p))
                     IN  [month |-> p, spent |-> spent, income |-> income,
                          net |-> income - spent]
<1>3. FinancialTrends(m, 2) = [i \in 1..2 |-> row(i)]
  BY <1>2 DEF FinancialTrends
<1>4. FinancialTrends(m, 2)[2] = row(2) /\ FinancialTrends(m, 2)[1] = row(1)
  BY <1>2, <1>3
<1> QED BY <1>1, <1>4

LEMMA MonthAddsUp ==
  ASSUME RowsFit, NEW m \in Month
  PROVE  MonthAgrees(m)
<1> DEFINE o == Overview(m)
           trend == FinancialTrends(m, 2)
           listed == ByCategory(m)
           rows == Spent(m, m)
           b == Breakdown(m)
           committed == {c \in DOMAIN b : Committed(c)}
<1>1. /\ o.spent = SumOf(rows) /\ o.breakdown = b /\ o.income = SumOf(IncomeRows(m))
      /\ o.previous = SumOf(Spent(Previous(m), Previous(m)))
      /\ o.commitments = Costs(b, committed)
      /\ o.consumer = IF o.spent > o.commitments THEN o.spent - o.commitments ELSE 0
      /\ o.daily = Daily(rows) /\ o.merchants = PerNamed(rows)
  BY OverviewIs
<1>2. /\ DOMAIN b \subseteq Categories
      /\ \A c \in DOMAIN b : b[c].total = SumOf(Under(rows, c))
      /\ \A c \in Categories \ DOMAIN b : Under(rows, c) = {}
      /\ SumOf(rows) = Total([c \in DOMAIN b |-> b[c].total]) + SumOf(Under(rows, None))
      /\ \A S \in SUBSET DOMAIN b : Costs(b, S) \in Nat /\ Costs(b, S) <= SumOf(rows)
  BY BreakdownAddsUp
<1>3. /\ trend[2].month = m /\ trend[2].spent = SumOf(rows)
      /\ trend[2].income = SumOf(IncomeRows(m)) /\ trend[2].net = trend[2].income - SumOf(rows)
      /\ trend[1].spent = SumOf(Spent(Previous(m), Previous(m)))
  BY TrendIs
<1>4. \A c \in Categories : listed[c].total = SumOf(Under(rows, c))
  BY DEF ByCategory
<1>5. o.recorded >= o.debits + o.excluded
  BY CountsFit
<1>6. rows \in SUBSET Tx /\ SumOf(rows) \in Nat /\ SumOf({}) = 0
  BY SpentRows, SumSplits
<1>7. SumOf(rows) = Total(o.daily)
      /\ SumOf(rows) = Total(o.merchants) + SumOf(Nameless(rows))
  BY <1>1, <1>6, ListsAddUp, NamesAddUp
<1> HIDE DEF o, trend, listed, rows, b
<1>8. o.spent = o.consumer + o.commitments
  <2>1. o.commitments \in Nat /\ o.commitments <= o.spent /\ o.spent \in Nat
    BY <1>1, <1>2, <1>6
  <2> QED BY <1>1, <2>1
<1>9. \A c \in Categories : listed[c].total = IF c \in DOMAIN b THEN b[c].total ELSE 0
  BY <1>2, <1>4, <1>6
<1>10. LET told  == CategorySpending(o)
           filed == [c \in DOMAIN told.categories |-> told.categories[c].total]
       IN  told.total = Total(filed) + SumOf(Under(rows, None))
  BY <1>1, <1>2 DEF CategorySpending
<1>11. FinancialSummary(o).net = trend[2].net
  BY <1>1, <1>3 DEF FinancialSummary
<1>12. <<trend[2].month, trend[2].spent, trend[2].income>> = <<m, o.spent, o.income>>
  BY <1>1, <1>3
<1>13. \A c \in Categories :
         listed[c].total = IF c \in DOMAIN o.breakdown THEN o.breakdown[c].total ELSE 0
  BY <1>1, <1>9
<1>14. OverviewAgrees(m, o, trend, listed)
  BY <1>1, <1>3, <1>5, <1>7, <1>8, <1>10, <1>11, <1>12, <1>13 DEF OverviewAgrees, rows
<1> QED BY <1>14 DEF MonthAgrees, o, trend, listed

-----------------------------------------------------------------------------
(* A category's deep dive.                                                 *)

\* The two filters take the same rows.
LEMMA OneFilter ==
  ASSUME RowsFit, NEW t \in Present
  PROVE  SpendingTransaction(t) <=> Spending(t)
<1>1. tx[t].category \in Categories \cup {None} /\ tx[t].subcategory \in Subcategories \cup {None}
  BY DEF RowsFit, LabelFits
<1>2. None \notin Categories /\ None \notin Subcategories
  BY Ids DEF Categories, Subcategories
<1>3. tx[t].category \notin TransferCategories
        <=> tx[t].category = None \/ cats[tx[t].category].slug # "transfers"
  BY <1>1, <1>2 DEF TransferCategories
<1>4. tx[t].subcategory \notin CardPayments
        <=> tx[t].subcategory = None \/ subs[tx[t].subcategory].slug # "credit-card-payment"
  BY <1>1, <1>2 DEF CardPayments
<1> QED BY <1>3, <1>4 DEF SpendingTransaction, Spending

\* The months of a period.
LEMMA PeriodIs ==
  ASSUME NEW m \in Month, NEW range \in {"1m", "3m", "6m", "12m", "ytd"}
  PROVE  LET p == Period(range, m)
             n == p.count
         IN  /\ n \in 1..12 /\ p.end = m /\ p.start \in Month /\ p.start = Shifted(m, 1 - n)
             /\ Absolute(p.start) = Absolute(m) + 1 - n
             /\ p.comparedTo = Shifted(p.start, -1) /\ p.comparedTo \in Month
             /\ p.comparedFrom = Shifted(p.comparedTo, 1 - n)
             /\ p.buckets = [i \in 1..n |-> Shifted(p.start, i - 1)]
             /\ \A i \in 1..n : Absolute(p.buckets[i]) = Absolute(p.start) + i - 1
             /\ p.buckets[n] = m /\ Shifted(p.comparedFrom, n) = p.start
<1> DEFINE n == CASE range = "1m" -> 1 [] range = "3m" -> 3 [] range = "12m" -> 12
                  [] range = "ytd" -> m.month [] OTHER -> 6
           start == IF range = "ytd" THEN [m EXCEPT !.month = 1] ELSE Shifted(m, -(n - 1))
           ended == Shifted(start, -1)
           buckets == [i \in 1..n |-> Shifted(start, i - 1)]
           p == Period(range, m)
<1>1. /\ p.count = n /\ p.start = start /\ p.end = m /\ p.comparedTo = ended
      /\ p.comparedFrom = Shifted(ended, -(n - 1)) /\ p.buckets = buckets
  BY DEF Period
<1>2. m.month \in 1..12 /\ m.year \in Int
  BY DEF Month
<1>3. n \in 1..12 /\ (range = "ytd" => n = m.month)
  BY <1>2
<1>4. n \in Int /\ -(n - 1) = 1 - n /\ 1 - n \in Int /\ -1 \in Int
  BY <1>3
<1> HIDE DEF n
<1>5. Shifted(m, 1 - n) \in Month /\ Absolute(Shifted(m, 1 - n)) = Absolute(m) + (1 - n)
      /\ Absolute(m) \in Int
  BY <1>4, MonthsInARow
<1>6. start = Shifted(m, 1 - n)
  <2>1. CASE range = "ytd"
    <3>1. start = [m EXCEPT !.month = 1] /\ n = m.month
      BY <1>3, <2>1
    <3> DEFINE y == m.year
               k == m.month
    <3>2. m = [year |-> y, month |-> k] /\ y \in Int /\ k \in 1..12
      BY DEF Month
    <3> HIDE DEF y, k
    <3>3. start = [year |-> y, month |-> 1]
      BY <3>1, <3>2
    <3>4. start \in Month
      BY <3>2, <3>3 DEF Month
    <3>5. Absolute(start) = y * 12 + (1 - 1)
      BY <3>3 DEF Absolute
    <3>6. Absolute(m) = y * 12 + (k - 1) /\ n = k
      BY <3>1 DEF Absolute, y, k
    <3>7. Absolute(start) = Absolute(m) + (1 - n)
      BY <3>2, <3>5, <3>6
    <3> QED BY <1>5, <3>4, <3>7, SameNumber
  <2>2. CASE range # "ytd"
    BY <1>4, <2>2
  <2> QED BY <2>1, <2>2
<1> HIDE DEF start, p
<1>7. start \in Month /\ Absolute(start) = Absolute(m) + 1 - n
  BY <1>4, <1>5, <1>6
<1>8. ended \in Month
  BY <1>4, <1>7, MonthsInARow
<1>9. ASSUME NEW i \in 1..n
      PROVE  buckets[i] = Shifted(start, i - 1) /\ Absolute(buckets[i]) = Absolute(start) + i - 1
  <2>1. buckets[i] = Shifted(start, i - 1) /\ i \in Int /\ i - 1 \in Int
    BY <1>3
  <2>2. Absolute(Shifted(start, i - 1)) = Absolute(start) + (i - 1) /\ Absolute(start) \in Int
    BY <1>7, <2>1, MonthsInARow
  <2> QED BY <2>1, <2>2
<1>10. buckets[n] = m
  <2>1. n \in 1..n /\ n - 1 \in Int
    BY <1>3
  <2>2. buckets[n] = Shifted(Shifted(m, 1 - n), n - 1)
    BY <1>6, <1>9, <2>1
  <2>3. Shifted(Shifted(m, 1 - n), n - 1) = Shifted(m, (1 - n) + (n - 1))
    BY <1>4, <2>1, Shifting
  <2>4. (1 - n) + (n - 1) = 0 /\ 0 \in Int
    BY <1>4
  <2>5. Shifted(m, 0) = m
    BY <2>4, Shifting
  <2> QED BY <2>2, <2>3, <2>4, <2>5
<1>11. Shifted(Shifted(ended, 1 - n), n) = start
  <2>1. Shifted(Shifted(ended, 1 - n), n) = Shifted(ended, (1 - n) + n)
    BY <1>4, <1>8, Shifting
  <2>2. (1 - n) + n = 1 /\ 1 \in Int /\ (-1) + 1 = 0 /\ 0 \in Int
    BY <1>4
  <2>3. Shifted(ended, 1) = Shifted(start, (-1) + 1)
    BY <1>4, <1>7, <2>2, Shifting
  <2>4. Shifted(start, 0) = start
    BY <1>7, <2>2, Shifting
  <2> QED BY <2>1, <2>2, <2>3, <2>4
<1> HIDE DEF ended, buckets
<1> QED BY <1>1, <1>3, <1>4, <1>6, <1>7, <1>8, <1>9, <1>10, <1>11 DEF p, ended, buckets

\* What a deep dive is made of.
Columns(c) == SubsOf(c) \cup {None}
Living(p) == {t \in Dated(p.start, p.end) : SpendingTransaction(t)}
Trend(p, rows, columns) ==
  [i \in 1..p.count |-> SumOf({t \in In(rows, p.buckets[i], p.buckets[i]) :
                                 tx[t].subcategory \in columns})]

LEMMA DeepDiveIs ==
  ASSUME NEW c, NEW range, NEW m
  PROVE  LET d       == DeepDive(c, range, m)
             p       == Period(range, m)
             columns == Columns(c)
             rows    == Under(Living(p), c)
             months  == SpentOn(c, Shifted(m, -1), m)
         IN  /\ d.spent = SumOf(rows) /\ d.living = SumOf(Living(p))
             /\ d.compared = SumOf(SpentOn(c, p.comparedFrom, p.comparedTo))
             /\ d.current = SumOf(In(months, m, m))
             /\ d.trend = Trend(p, rows, columns)
             /\ DOMAIN d.table = columns
             /\ \A s \in columns : d.table[s].spent = UnderSub(rows, s, p.start, p.end)
             /\ d.merchants = PerMerchant(rows)
BY DEF DeepDive, PerMerchant, Columns, Living, Trend

\* The last month of a deep dive is the overview's.
LEMMA CurrentAgrees ==
  ASSUME RowsFit, NEW m \in Month, NEW c
  PROVE  In(SpentOn(c, Shifted(m, -1), m), m, m) = Under(Spent(m, m), c)
<1>1. -1 \in Int
  OBVIOUS
<1>2. Absolute(Shifted(m, -1)) = Absolute(m) + (-1) /\ Absolute(m) \in Int
  BY <1>1, MonthsInARow
<1>3. \A t \in Tx : MonthIndex[t] \in Int
  BY MonthOfRow
<1>4. ASSUME NEW t \in Present
      PROVE  t \in In(SpentOn(c, Shifted(m, -1), m), m, m) <=> t \in Under(Spent(m, m), c)
  <2>1. MonthIndex[t] \in Int
    BY <1>3 DEF Present
  <2>2. t \in In(SpentOn(c, Shifted(m, -1), m), m, m)
          <=> /\ Absolute(Shifted(m, -1)) <= MonthIndex[t] /\ MonthIndex[t] <= Absolute(m)
              /\ tx[t].category = c /\ SpendingTransaction(t)
              /\ Absolute(m) <= MonthIndex[t]
    BY DEF In, SpentOn, Dated
  <2>3. t \in Under(Spent(m, m), c)
          <=> /\ Absolute(m) <= MonthIndex[t] /\ MonthIndex[t] <= Absolute(m)
              /\ Spending(t) /\ tx[t].category = c
    BY DEF Under, Spent, Dated
  <2>4. Absolute(m) <= MonthIndex[t] => Absolute(Shifted(m, -1)) <= MonthIndex[t]
    BY <1>2, <2>1
  <2> QED BY <2>2, <2>3, <2>4, OneFilter
<1>5. /\ In(SpentOn(c, Shifted(m, -1), m), m, m) \subseteq Present
      /\ Under(Spent(m, m), c) \subseteq Present
  BY DEF In, SpentOn, Dated, Under, Spent
<1> QED BY <1>4, <1>5

\* The rows of a deep dive: those of its columns, by month or by column, and the strays.
LEMMA DeepDiveAddsUp ==
  ASSUME NEW m \in Month, NEW c, NEW range \in {"1m", "3m", "6m", "12m", "ytd"}
  PROVE  LET d == DeepDive(c, range, m)
             p == Period(range, m)
             strays == SumOf(Strays(c, p.start, p.end))
         IN  /\ d.spent = Total(d.trend) + strays
             /\ d.spent = Total([s \in DOMAIN d.table |-> d.table[s].spent]) + strays
             /\ d.spent = Total(d.merchants)
             /\ d.spent <= d.living
<1> DEFINE p == Period(range, m)
           d == DeepDive(c, range, m)
           n == p.count
           a == Absolute(p.start)
           columns == Columns(c)
           living == Living(p)
           rows == Under(living, c)
           fit == {t \in rows : tx[t].subcategory \in columns}
           stray == Strays(c, p.start, p.end)
<1>1. /\ d.spent = SumOf(rows) /\ d.living = SumOf(living)
      /\ d.trend = Trend(p, rows, columns)
      /\ DOMAIN d.table = columns
      /\ \A s \in columns : d.table[s].spent = UnderSub(rows, s, p.start, p.end)
      /\ d.merchants = PerMerchant(rows)
  BY DeepDiveIs
<1>2. /\ n \in 1..12 /\ p.end = m /\ p.start \in Month /\ a = Absolute(m) + 1 - n
      /\ \A i \in 1..n : Absolute(p.buckets[i]) = a + i - 1
  BY PeriodIs
<1>3. a \in Int /\ Absolute(m) \in Int /\ n \in Int /\ Absolute(m) = a + n - 1
  <2>1. 0 \in Int
    OBVIOUS
  <2>2. a \in Int /\ Absolute(m) \in Int
    BY <1>2, <2>1, MonthsInARow
  <2> HIDE DEF a, n
  <2> QED BY <1>2, <2>2
<1>4. /\ living \in SUBSET Tx /\ rows \subseteq living
      /\ \A t \in rows : a <= MonthIndex[t] /\ MonthIndex[t] <= Absolute(p.end)
  BY DEF Living, Dated, Present, Under
<1>5. fit \cup stray = rows /\ fit \cap stray = {}
  BY DEF Strays, SpentOn, Under, Living, Columns
<1>6. rows \in SUBSET Tx /\ fit \in SUBSET Tx /\ stray \in SUBSET Tx /\ rows \in SUBSET living
  BY <1>4, <1>5
<1>7. IsFiniteSet(columns)
  <2>1. columns \ {None} \subseteq Subcategory /\ IsFiniteSet(Subcategory)
    BY TaxonomyAssumption DEF Columns, SubsOf, Subcategories
  <2>2. IsFiniteSet(columns \ {None})
    BY <2>1, FS_Subset
  <2>3. columns = (columns \ {None}) \cup {None}
    BY DEF Columns
  <2> HIDE DEF columns
  <2> QED BY <2>2, <2>3, FS_AddElement
<1>8. \A t \in rows : MonthIndex[t] \in Int
  BY <1>6, MonthOfRow
<1> HIDE DEF p, d, n, a, living, stray
<1>9. Total(d.trend) = SumOf(fit)
  <2> DEFINE k == [t \in Tx |-> MonthIndex[t] - a + 1]
             Month_(i) == {t \in In(rows, p.buckets[i], p.buckets[i]) :
                             tx[t].subcategory \in columns}
  <2>1. ASSUME NEW i \in 1..n
        PROVE  Month_(i) = {t \in fit : k[t] = i}
    <3>1. Absolute(p.buckets[i]) = a + i - 1 /\ i \in Int
      BY <1>2, <1>3
    <3>2. ASSUME NEW t \in rows
          PROVE  /\ (Absolute(p.buckets[i]) <= MonthIndex[t] /\ MonthIndex[t] <= Absolute(p.buckets[i]))
                      <=> k[t] = i
      <4>1. k[t] = MonthIndex[t] - a + 1 /\ MonthIndex[t] \in Int
        BY <1>6, <1>8
      <4> HIDE DEF k, rows
      <4> QED BY <1>3, <3>1, <4>1
    <3> HIDE DEF k, rows
    <3> QED BY <3>2 DEF In
  <2>2. \A t \in fit : k[t] \in 1..n
    <3> SUFFICES ASSUME NEW t \in fit
                 PROVE  k[t] \in 1..n
      OBVIOUS
    <3>1. k[t] = MonthIndex[t] - a + 1 /\ MonthIndex[t] \in Int /\ t \in rows
      BY <1>6, <1>8
    <3>2. a <= MonthIndex[t] /\ MonthIndex[t] <= Absolute(m)
      BY <1>2, <1>4, <3>1
    <3> HIDE DEF k, fit
    <3> QED BY <1>3, <3>1, <3>2
  <2>3. d.trend = [i \in 1..n |-> SumOf(Month_(i))]
    BY <1>1 DEF Trend, n
  <2> HIDE DEF k, fit, Month_
  <2>4. d.trend = [i \in 1..n |-> SumOf({t \in fit : k[t] = i})]
    BY <2>1, <2>3
  <2>5. IsFiniteSet(1..n)
    BY <1>3, FS_Interval
  <2>6. Keyed(fit, 1..n, k, d.trend)
    BY <1>6, <2>4, <2>5 DEF Keyed
  <2>7. Total(d.trend) = SumOf(Among(fit, 1..n, k))
    BY <2>6, TotalByKeys
  <2>8. Among(fit, 1..n, k) = fit
    BY <2>2 DEF Among
  <2> QED BY <2>7, <2>8
<1>10. Total([s \in DOMAIN d.table |-> d.table[s].spent]) = SumOf(fit)
  <2> DEFINE k == [t \in Tx |-> tx[t].subcategory]
             f == [s \in DOMAIN d.table |-> d.table[s].spent]
  <2>1. In(rows, p.start, p.end) = rows
    BY <1>4 DEF In, a
  <2>2. \A s : {t \in In(rows, p.start, p.end) : tx[t].subcategory = s} = {t \in rows : k[t] = s}
    BY <1>6, <2>1
  <2>3. fit = Among(rows, columns, k)
    BY <1>6 DEF Among
  <2> HIDE DEF k, rows, columns, fit
  <2>4. \A s \in columns : UnderSub(rows, s, p.start, p.end) = SumOf({t \in rows : k[t] = s})
    BY <2>2 DEF UnderSub
  <2>5. f = [s \in columns |-> SumOf({t \in rows : k[t] = s})]
    BY <1>1, <2>4
  <2> HIDE DEF f
  <2>6. Keyed(rows, columns, k, f)
    BY <1>6, <1>7, <2>5 DEF Keyed
  <2>7. Total(f) = SumOf(Among(rows, columns, k))
    BY <2>6, TotalByKeys
  <2> QED BY <2>3, <2>7 DEF f
<1> HIDE DEF fit, rows, columns
<1>11. SumOf(rows) = SumOf(fit) + SumOf(stray)
  <2>1. SumOf(fit \cup stray) = SumOf(fit) + SumOf(stray)
    BY <1>5, <1>6, SumSplits
  <2> QED BY <1>5, <2>1
<1>12. SumOf(rows) <= SumOf(living)
  BY <1>4, <1>6, SumGrows
<1>13. Total(d.merchants) = SumOf(rows)
  BY <1>1, <1>6, ListsAddUp
<1> QED BY <1>1, <1>9, <1>10, <1>11, <1>12, <1>13 DEF d, stray, p

LEMMA CategoryAddsUp ==
  ASSUME RowsFit, NEW m \in Month, NEW c
  PROVE  CategoryAgrees(c, m)
<1> SUFFICES ASSUME NEW range \in RangesAsked
             PROVE  DeepDiveAgrees(c, m, range, DeepDive(c, range, m), Period(range, m),
                      SumOf(Strays(c, Period(range, m).start, Period(range, m).end)))
  BY DEF CategoryAgrees
<1> DEFINE d == DeepDive(c, range, m)
           p == Period(range, m)
           strays == SumOf(Strays(c, p.start, p.end))
<1>1. range \in {"1m", "3m", "6m", "12m", "ytd"}
  BY Asked
<1>2. d.current = SumOf(Under(Spent(m, m), c))
  <2>1. d.current = SumOf(In(SpentOn(c, Shifted(m, -1), m), m, m))
    BY DeepDiveIs
  <2>2. In(SpentOn(c, Shifted(m, -1), m), m, m) = Under(Spent(m, m), c)
    BY CurrentAgrees
  <2> QED BY <2>1, <2>2
<1>3. /\ d.spent = Total(d.trend) + strays
      /\ d.spent = Total([s \in DOMAIN d.table |-> d.table[s].spent]) + strays
      /\ d.spent = Total(d.merchants) /\ d.spent <= d.living
  BY <1>1, DeepDiveAddsUp
<1>4. d.compared = SumOf(SpentOn(c, p.comparedFrom, p.comparedTo))
  BY DeepDiveIs
<1>5. /\ p.comparedTo \in Month /\ p.comparedFrom = Shifted(p.comparedTo, 1 - p.count)
      /\ p.buckets[p.count] = m /\ Shifted(p.comparedFrom, p.count) = p.start
  BY <1>1, PeriodIs
<1>6. ASSUME range # "ytd"
      PROVE  LET q == Period(range, p.comparedTo)
             IN  q.start = p.comparedFrom /\ q.end = p.comparedTo
  <2>1. Period(range, p.comparedTo).count = p.count
    BY <1>6 DEF Period
  <2>2. /\ Period(range, p.comparedTo).end = p.comparedTo
        /\ Period(range, p.comparedTo).start
             = Shifted(p.comparedTo, 1 - Period(range, p.comparedTo).count)
    BY <1>1, <1>5, PeriodIs
  <2> QED BY <1>5, <2>1, <2>2
<1>7. CategoryDeepDive(d).spent = d.spent /\ CategoryDeepDive(d).merchants = d.merchants
  BY DEF CategoryDeepDive
<1> HIDE DEF d, p
<1>8. range # "ytd" => LET q == Period(range, p.comparedTo)
                       IN  d.compared = SumOf(SpentOn(c, q.start, q.end))
  BY <1>4, <1>6
<1>9. LET told == CategoryDeepDive(d) IN told.spent = Total(told.merchants)
  BY <1>3, <1>7
<1>10. DeepDiveAgrees(c, m, range, d, p, strays)
  BY <1>2, <1>3, <1>5, <1>8, <1>9 DEF DeepDiveAgrees
<1> QED BY <1>10 DEF d, p

-----------------------------------------------------------------------------
(* Merchants, subscriptions and bills.                                     *)

LEMMA HistoryAmong ==
  ASSUME NEW n, NEW months
  PROVE  MerchantHistory(n, months) \subseteq OnMerchant(n)
BY DEF MerchantHistory, OnMerchant, Spending

LEMMA DuesTheSame == DuesAgree
<1>1. /\ DOMAIN ListRecurring.subscriptions = Dues("subscription")
      /\ DOMAIN RecurringExpenses.subscriptions = Dues("subscription")
      /\ DOMAIN ListRecurring.bills = Dues("bill") /\ DOMAIN RecurringExpenses.bills = Dues("bill")
  BY DEF ListRecurring, RecurringExpenses
<1>2. ASSUME NEW d \in Dues("subscription")
      PROVE  /\ ListRecurring.subscriptions[d].amount = dues[d].amount
             /\ ListRecurring.subscriptions[d].status = dues[d].shown
             /\ ListRecurring.subscriptions[d].annual = Annual(d, dues[d].frequency)
             /\ RecurringExpenses.subscriptions[d].amount = dues[d].amount
             /\ RecurringExpenses.subscriptions[d].status = dues[d].shown
             /\ RecurringExpenses.subscriptions[d].annual = Annual(d, Lower(dues[d].frequency))
             /\ RecurringExpenses.subscriptions[d].months
                  = IF Lower(dues[d].frequency) = "monthly" THEN dues[d].amount * 12
                    ELSE Annual(d, Lower(dues[d].frequency))
  BY DEF ListRecurring, RecurringExpenses, Item
<1>3. ASSUME NEW d \in Dues("bill")
      PROVE  /\ ListRecurring.bills[d].amount = dues[d].expected
             /\ ListRecurring.bills[d].status = dues[d].shown
             /\ RecurringExpenses.bills[d].amount = dues[d].expected
             /\ RecurringExpenses.bills[d].status = dues[d].shown
             /\ RecurringExpenses.bills[d].months = RecurringExpenses.bills[d].annual
  BY DEF ListRecurring, RecurringExpenses, Item
<1>4. ASSUME NEW d \in Dues("subscription")
      PROVE  /\ dues[d].frequency \in {"monthly", "yearly"} =>
                  ListRecurring.subscriptions[d].annual = RecurringExpenses.subscriptions[d].annual
             /\ RecurringExpenses.subscriptions[d].months # RecurringExpenses.subscriptions[d].annual =>
                  dues[d].frequency = "monthly" /\ Given(dues[d].annual)
  <2>1. dues[d].frequency \in {"monthly", "yearly"} => Lower(dues[d].frequency) = dues[d].frequency
    BY DEF Lower
  <2>2. ASSUME Lower(dues[d].frequency) = "monthly", ~Given(dues[d].annual)
        PROVE  Annual(d, Lower(dues[d].frequency)) = dues[d].amount * 12
    BY <2>2 DEF Annual
  <2>3. Lower(dues[d].frequency) = "monthly" => dues[d].frequency = "monthly"
    BY DEF Lower
  <2> QED BY <1>2, <2>1, <2>2, <2>3
<1> HIDE DEF ListRecurring
<1> QED BY <1>1, <1>2, <1>3, <1>4 DEF DuesAgree

LEMMA ReportsAddUp ==
  ASSUME RowsFit
  PROVE  ReportsAgree
<1>1. \A m \in ReportedOn : MonthAgrees(m)
  BY Asked, MonthAddsUp
<1>2. \A m \in ReportedOn, c \in Categories : CategoryAgrees(c, m)
  BY Asked, CategoryAddsUp
<1> QED BY <1>1, <1>2, HistoryAmong, DuesTheSame DEF ReportsAgree

\* In every state, with any rows in any categories dated in any months, the totals of the
\* dashboard, the analytics and what the agent is told of them are the same number, and
\* split over days, categories, merchants and what names nobody without a remainder
\* (services/dashboard.py:186, :316, analytics/common.py:22). What the agent is told of a
\* category's subcategories is not among it. The proof takes the labels to fit: the two
\* filters agree on living categories alone.
THEOREM ReportsSayTheSame == Spec => []ReportsAgree
<1>1. Init => RateInv /\ LabelInv
  BY RateInit, LabelInit
<1>2. (RateInv /\ LabelInv) /\ [Next]_vars => (RateInv /\ LabelInv)'
  BY RateStep, LabelStep
<1>3. RateInv /\ LabelInv => ReportsAgree
  BY ReportsAddUp DEF LabelInv
<1> QED BY <1>1, <1>2, <1>3, PTL DEF Spec
=============================================================================
