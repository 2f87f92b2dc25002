------------------------------ MODULE Taxonomy ------------------------------
(***************************************************************************)
(* The labels of the ledger and what refers to them: services/categories.py*)
(* with its routes, api/routes/rules.py, and the labelling of              *)
(* classification/enrichment.py and services/transactions.py.              *)
(*                                                                         *)
(* Here a label is a category and one of its subcategories, which the user *)
(* creates, renames and deletes while rows, rules and audit rows name them.*)
(* (Ledger takes labels as given and follows postings, pairs and flags.)   *)
(* A name is taken up to case and punctuation, which is its slug; filters  *)
(* know a category by its slug, rows and rules by its id.                  *)
(***************************************************************************)
EXTENDS Integers, FiniteSets, Sequences, FiniteSetsExt

CONSTANTS
  Category, Subcategory,   \* ids that may be given out
  Slug,                    \* names, by their slugs
  Typed, Expense,          \* names a user types, expense types a user chooses
  SeededCategories, SeededSubcategories,   \* what seed_defaults created
  Tx, Data, Name,          \* transactions that may be read, what was read, merchant names
  Due, Fee,                \* subscriptions and bills that may be kept, what they may cost
  None, Gone,              \* no such id yet, id no longer used
  Budgets                  \* bounds: how many steps of each kind a behaviour may take

Steps == {"taxonomy", "rule", "arrive", "mark", "classify", "ask", "report", "label", "page",
          "tick", "cancel", "due"}
Type == {"purchase", "transfer", "income", "refund", "not_a_transaction", "other"}

CategoryRow == [slug : Slug, expense : Expense \cup {"discretionary"}, system : BOOLEAN]
SubcategoryRow == [of : Category, slug : Slug]

ASSUME TaxonomyAssumption ==
  /\ Typed \subseteq Slug
  /\ Expense \subseteq {"essential", "discretionary", "financial", "investment", "transfer"}
  /\ IsFiniteSet(Category) /\ IsFiniteSet(Subcategory) /\ IsFiniteSet(Tx) /\ None # Gone
  /\ {None, Gone} \cap (Category \cup Subcategory \cup Name) = {}
  /\ SeededCategories \in [Category -> CategoryRow \cup {None}]
  /\ \A c, d \in Category :
       /\ SeededCategories[c] # None /\ SeededCategories[d] # None
       /\ SeededCategories[c].slug = SeededCategories[d].slug
       => c = d
  /\ {None, Gone} \cap (CategoryRow \cup SubcategoryRow) = {}
  /\ SeededSubcategories \in [Subcategory -> SubcategoryRow \cup {None}]
  /\ Tx \subseteq Nat /\ Due \subseteq Nat /\ IsFiniteSet(Due) /\ Fee \subseteq Nat
  /\ \A t \in Tx :
       /\ Data[t].year \in Nat /\ Data[t].month \in 1..12 /\ Data[t].day \in 1..31
       /\ Data[t].amount \in Nat /\ Data[t].direction \in {"debit", "credit"}
       /\ Data[t].type \in Type /\ Data[t].name \in Name \cup {None}   \* None: it names nobody
       /\ Data[t].category \in Slug \cup {None} /\ Data[t].subcategory \in Slug \cup {None}
       /\ Data[t].unfit \in BOOLEAN /\ Data[t].review \in BOOLEAN
  /\ Budgets \subseteq [Steps -> Nat]

VARIABLES
  cats,    \* [Category -> CategoryRow, None or Gone]
  subs,    \* [Subcategory -> SubcategoryRow, None or Gone]
  rules,   \* [Name -> Rule or None]: the classification rule of each merchant name
  tx,      \* [Tx -> Row or None]: table transactions
  dues,    \* [Due -> DueRow or None]: recurring_transactions, each with its subscription or bill
  cited,   \* the ids classification_corrections refer to
  left     \* how much of its budget the behaviour has left

taxonomy == <<cats, subs>>

Rule == [category : Category, subcategory : Subcategory \cup {None}, active : BOOLEAN,
         strayed : BOOLEAN]     \* strayed: last given a category alone (history)

Row == [category : Category \cup {None}, subcategory : Subcategory \cup {None}, type : Type,
        by : {"parser", "user"}, verified : BOOLEAN, review : BOOLEAN, transfer : BOOLEAN,
        refund : BOOLEAN, excluded : BOOLEAN, duplicate : BOOLEAN, flagged : BOOLEAN,
        strayed : BOOLEAN]     \* strayed: labelled by a strayed rule, or by two sessions at once
                               \* (history)

ASSUME RowAssumption == None \notin Row

Frequency == {"monthly", "yearly", "Yearly"}
DueStatus == {"active", "ignored", "paused"}
\* expected, frequency and status are the recurring transaction's; amount, annual and shown
\* its subscription's, or shown its bill's.
DueRow == [kind : {"subscription", "bill"}, expected : Fee, frequency : Frequency,
           status : DueStatus, category : Category \cup {None}, links : SUBSET Tx,
           amount : Fee \cup {None}, annual : Fee \cup {None}, shown : DueStatus]

TaxonomyInit ==
  /\ cats = SeededCategories
  /\ subs = SeededSubcategories
  /\ rules = [n \in Name |-> None]
  /\ tx = [t \in Tx |-> None]
  /\ dues = [d \in Due |-> None]
  /\ cited = {}
  /\ left \in Budgets

Take(step) ==
  /\ left[step] > 0
  /\ left' = [left EXCEPT ![step] = @ - 1]

Categories == {c \in Category : cats[c] \notin {None, Gone}}
Subcategories == {s \in Subcategory : subs[s] \notin {None, Gone}}
SubsOf(c) == {s \in Subcategories : subs[s].of = c}
Present == {t \in Tx : tx[t] # None}

\* A subcategory (or none) may stand under the category.
Fits(c, s) == s = None \/ s \in SubsOf(c)

-----------------------------------------------------------------------------
(* Settings: categories and subcategories.                                 *)

CreateCategory(c, slug) ==
  /\ Take("taxonomy")
  /\ cats[c] = None
  /\ \A d \in Categories : cats[d].slug # slug
  /\ cats' = [cats EXCEPT ![c] = [slug |-> slug, expense |-> "discretionary", system |-> FALSE]]
  /\ UNCHANGED <<subs, rules, tx, cited>>

\* Any category may be renamed, a seeded one too; a taken name fails on the table's
\* unique slug.
RenameCategory(c, slug) ==
  /\ Take("taxonomy")
  /\ c \in Categories
  /\ \A d \in Categories \ {c} : cats[d].slug # slug
  /\ cats' = [cats EXCEPT ![c].slug = slug]
  /\ UNCHANGED <<subs, rules, tx, cited>>

SetExpenseType(c, expense) ==
  /\ Take("taxonomy")
  /\ c \in Categories
  /\ cats' = [cats EXCEPT ![c].expense = expense]
  /\ UNCHANGED <<subs, rules, tx, cited>>

\* Rows that still refer to an id, whether or not the handler asked: SQLite checks
\* foreign keys and the request fails.
Referred(id) ==
  \/ \E t \in Present : id \in {tx[t].category, tx[t].subcategory}
  \/ \E n \in Name : rules[n] # None /\ id \in {rules[n].category, rules[n].subcategory}
  \/ \E d \in Due : dues[d] # None /\ id = dues[d].category
  \/ id \in cited

\* delete_category: a seeded category stays, one with rows too; its subcategories go
\* with it.
DeleteCategory(c) ==
  /\ Take("taxonomy")
  /\ c \in Categories /\ ~cats[c].system
  /\ ~Referred(c) /\ \A s \in SubsOf(c) : ~Referred(s)
  /\ cats' = [cats EXCEPT ![c] = Gone]
  /\ subs' = [s \in Subcategory |-> IF s \in SubsOf(c) THEN Gone ELSE subs[s]]
  /\ UNCHANGED <<rules, tx, cited>>

CreateSubcategory(s, c, slug) ==
  /\ Take("taxonomy")
  /\ subs[s] = None /\ c \in Categories
  /\ \A r \in SubsOf(c) : subs[r].slug # slug
  /\ subs' = [subs EXCEPT ![s] = [of |-> c, slug |-> slug]]
  /\ UNCHANGED <<cats, rules, tx, cited>>

\* Mutant: neither the handler nor the database asks who refers to it.
DeleteSubcategoryUnasked(s) ==
  /\ Take("taxonomy")
  /\ s \in Subcategories
  /\ subs' = [subs EXCEPT ![s] = Gone]
  /\ UNCHANGED <<cats, rules, tx, cited>>

DeleteSubcategory(s) ==
  /\ Take("taxonomy")
  /\ s \in Subcategories /\ ~Referred(s)
  /\ subs' = [subs EXCEPT ![s] = Gone]
  /\ UNCHANGED <<cats, rules, tx, cited>>

-----------------------------------------------------------------------------
(* Rules.                                                                  *)

\* find_matching_rule: the rule of the row's name, if it has one. (Rules for UPI ids are
\* in Ledger.)
RuleOf(t) == IF Data[t].name = None THEN None ELSE rules[Data[t].name]

\* upsert_user_classification_rule, for a row with a name. The rule a row without one
\* would leave matches nothing, and what it refers to is cited: it is left out.
Taught(n, c, s) ==
  [rules EXCEPT ![n] = [category |-> c, subcategory |-> s, active |-> TRUE, strayed |-> FALSE]]

\* PATCH of a rule. Given a category and a subcategory it checks that they fit; given
\* a category alone it leaves the rule the subcategory it had.
UpdateRule(n) ==
  /\ Take("rule")
  /\ rules[n] # None
  /\ \/ \E on \in BOOLEAN : rules' = [rules EXCEPT ![n].active = on]
     \/ \E c \in Categories : rules' = [rules EXCEPT ![n].category = c, ![n].strayed = TRUE]
     \/ \E c \in Categories : \E s \in SubsOf(c) \cup {None} :
          rules' = [rules EXCEPT ![n].category = c, ![n].subcategory = s, ![n].strayed = FALSE]
  /\ UNCHANGED <<cats, subs, tx, cited>>

DeleteRule(n) ==
  /\ Take("rule")
  /\ rules[n] # None
  /\ rules' = [rules EXCEPT ![n] = None]
  /\ UNCHANGED <<cats, subs, tx, cited>>

-----------------------------------------------------------------------------
(* Rows.                                                                   *)

\* resolve_category_ids: what a parser's slugs name today.
Hinted(slug, sub) ==
  LET c == {d \in Categories : cats[d].slug = slug}
      s == {r \in Subcategories : subs[r].of \in c /\ subs[r].slug = sub}
  IN  [category    |-> IF c = {} THEN None ELSE CHOOSE d \in c : TRUE,
       subcategory |-> IF s = {} THEN None ELSE CHOOSE r \in s : TRUE]

\* A row is read and labelled by its merchant's active rule, which the user made, or
\* by what the parser made of it. (Bound: rows come in the order of their ids.)
Arrive(t) ==
  LET d     == Data[t]
      rule  == RuleOf(t)
      ruled == rule # None /\ rule.active
      label == IF ruled THEN rule ELSE Hinted(d.category, d.subcategory)
  IN
  /\ Take("arrive")
  /\ tx[t] = None /\ \A u \in Tx : u < t => tx[u] # None
  /\ tx' = [tx EXCEPT ![t] =
       [category |-> label.category, subcategory |-> label.subcategory, type |-> d.type,
        by |-> IF ruled THEN "user" ELSE "parser", verified |-> ruled,
        review |-> d.review /\ ~ruled,
        transfer |-> d.type = "transfer", refund |-> d.type = "refund",
        excluded |-> d.type \in {"transfer", "income"},
        duplicate |-> FALSE, flagged |-> FALSE, strayed |-> ruled /\ rule.strayed]]
  /\ UNCHANGED <<cats, subs, rules, cited>>

\* A row is merged into another or reported as no transaction: see Ledger.
Mark(t) ==
  /\ Take("mark")
  /\ tx[t] # None
  /\ \/ tx' = [tx EXCEPT ![t].duplicate = TRUE, ![t].excluded = TRUE]
     \/ tx' = [tx EXCEPT ![t].flagged = TRUE]
  /\ UNCHANGED <<cats, subs, rules, cited>>

\* A label with the slugs it went by when it was read.
Label(c, s) ==
  [category |-> c, subcategory |-> s, slug |-> cats[c].slug,
   sub |-> IF s = None THEN None ELSE subs[s].slug]

\* _apply_category_side_effects: what the slugs of a label do to the row.
SideEffects(t, row, label) ==
  CASE label.slug = "transfers" \/ label.sub = "credit-card-payment" ->
         [row EXCEPT !.transfer = TRUE, !.refund = FALSE, !.excluded = TRUE,
                     !.type = IF @ \in {"income", "refund"} THEN @ ELSE "transfer"]
    [] label.slug = "income" /\ label.sub # "credit-card-payment" ->
         [row EXCEPT !.transfer = FALSE, !.excluded = TRUE, !.refund = label.sub = "refund",
                     !.type = IF label.sub = "refund" THEN "refund" ELSE "income"]
    [] label.slug \notin {"transfers", "income"} /\ label.sub # "credit-card-payment"
       /\ Data[t].direction = "debit" ->
         [row EXCEPT !.transfer = FALSE, !.excluded = FALSE,
                     !.type = IF @ \in {"transfer", "other", "income"} THEN "purchase" ELSE @]
    [] OTHER -> [row EXCEPT !.transfer = FALSE]

Labelled(t, row, label) ==
  SideEffects(t, [row EXCEPT !.category = label.category, !.subcategory = label.subcategory,
                             !.verified = TRUE, !.review = FALSE, !.by = "user",
                             !.strayed = FALSE], label)

\* The session writes the columns it changed since it read the row; one that came out
\* as it was read keeps what another session has put there.
Written(now, read, new) ==
  LET column(f) == IF new[f] = read[f] THEN now[f] ELSE new[f]
  IN  [now EXCEPT
         !.category = column("category"), !.subcategory = column("subcategory"),
         !.type = column("type"), !.by = column("by"), !.verified = column("verified"),
         !.review = column("review"), !.transfer = column("transfer"),
         !.refund = column("refund"), !.excluded = column("excluded"),
         !.strayed = \/ now.category # read.category
                     \/ now.subcategory # read.subcategory]

\* _record_correction, unless the user's own label is saved again.
Corrected(read, label) ==
  IF /\ read.category = label.category /\ read.subcategory = label.subcategory
     /\ read.by = "user"
  THEN cited
  ELSE cited \cup ({read.category, read.subcategory, label.category, label.subcategory} \ {None})

\* The unverified rows of the same name, which a classification may label as well.
PastRows(t) ==
  {p \in Present \ {t} :
    /\ Data[t].name # None /\ Data[p].name = Data[t].name
    /\ ~tx[p].verified}

\* classify_transaction of a row as it was read, with its rule and the past rows.
Relabel(t, read, label, teach, past) ==
  /\ label.category \in Categories /\ Fits(label.category, label.subcategory)
  /\ tx' = [p \in Tx |-> CASE p = t -> Written(tx[t], read, Labelled(t, read, label))
                         [] p \in PastRows(t) /\ past -> Labelled(p, tx[p], label)
                         [] OTHER -> tx[p]]
  /\ rules' = IF teach /\ Data[t].name # None
              THEN Taught(Data[t].name, label.category, label.subcategory) ELSE rules
  /\ cited' = Corrected(read, label)
  /\ UNCHANGED <<cats, subs>>

Settings ==
  \/ \E c \in Category, slug \in Typed : CreateCategory(c, slug) \/ RenameCategory(c, slug)
  \/ \E c \in Category, e \in Expense : SetExpenseType(c, e)
  \/ \E c \in Category : DeleteCategory(c)
  \/ \E s \in Subcategory, c \in Category, slug \in Typed : CreateSubcategory(s, c, slug)
  \/ \E s \in Subcategory : DeleteSubcategory(s)
  \/ \E n \in Name : UpdateRule(n) \/ DeleteRule(n)

Reading == \E t \in Tx : Arrive(t) \/ Mark(t)
=============================================================================
