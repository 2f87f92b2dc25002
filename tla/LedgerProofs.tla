---------------------------- MODULE LedgerProofs ----------------------------
(***************************************************************************)
(* For any transactions, parsers' readings, rules and numbers of steps:    *)
(* the ledger keeps its types, events balance, what the user took out of   *)
(* spending stays out, and a taught rule is remembered; with one           *)
(* reconciliation at a time, no money is paired twice.                     *)
(*                                                                         *)
(* A run of the reconciliation writes rows it loaded earlier, so whatever  *)
(* is said of the table needs a counterpart about what runs have loaded:   *)
(* RunsSound for types, PairsOpen for pairs. That others commit in between *)
(* is harmless because a run only writes the columns it changed, and only  *)
(* ever excludes (Marks).                                                  *)
(***************************************************************************)
EXTENDS Ledger, FiniteSetTheorems, SequenceTheorems, WellFoundedInduction, TLAPS

-----------------------------------------------------------------------------
(* Choosing the first, the last and the highest.                           *)

\* A set of naturals has a least element, and a greatest one when it is bounded.
LEMMA Least ==
  ASSUME NEW T \in SUBSET Nat, T # {}
  PROVE  \E x \in T : \A y \in T : x <= y
<1> DEFINE R == OpToRel(<, Nat)
<1>1. \A x, y \in Nat : y < x => <<y, x>> \in R
  BY DEF OpToRel
<1>2. IsWellFoundedOn(R, Nat)
  BY NatLessThanWellFounded
<1> HIDE DEF R
<1>3. \E x \in T : \A y \in T : ~(<<y, x>> \in R)
  BY <1>2, WFMin
<1>4. SUFFICES ASSUME NEW x \in T, \A y \in T : ~(<<y, x>> \in R)
               PROVE  \A y \in T : x <= y
  BY <1>3
<1>5. \A y \in T : ~(y < x)
  BY <1>1, <1>4
<1> QED BY <1>5

LEMMA Greatest ==
  ASSUME NEW T \in SUBSET Nat, T # {}, NEW n \in Nat, \A x \in T : x <= n
  PROVE  \E x \in T : \A y \in T : y <= x
<1> DEFINE U == {k \in Nat : \E x \in T : k = n - x}
<1>1. U \in SUBSET Nat /\ U # {}
  <2>1. PICK x \in T : TRUE
    OBVIOUS
  <2>2. n - x \in U
    BY <2>1
  <2> QED BY <2>2
<1>2. PICK u \in U : \A v \in U : u <= v
  <2> HIDE DEF U
  <2> QED BY <1>1, Least
<1>3. PICK x \in T : u = n - x
  BY <1>2
<1>4. \A y \in T : n - y \in U
  OBVIOUS
<1>5. \A y \in T : n - x <= n - y
  BY <1>2, <1>3, <1>4
<1> QED BY <1>3, <1>5

\* The choices of the reconciliation are members of what they choose from.
LEMMA EarliestIn ==
  ASSUME NEW S \in SUBSET Tx, S # {}
  PROVE  Earliest(S) \in S
<1> DEFINE T == {Data[d].day : d \in S}
<1>1. T \in SUBSET Nat /\ T # {}
  BY ConstantsAssumption
<1>2. PICK n \in T : \A m \in T : n <= m
  <2> HIDE DEF T
  <2> QED BY <1>1, Least
<1>3. \E d \in S : \A e \in S : Data[d].day <= Data[e].day
  BY <1>2
<1> QED BY <1>3 DEF Earliest

LEMMA LatestIn ==
  ASSUME NEW S \in SUBSET Tx, S # {}, NEW n \in Nat, \A d \in S : Data[d].day <= n
  PROVE  Latest(S) \in S
<1> DEFINE T == {Data[d].day : d \in S}
<1>1. T \in SUBSET Nat /\ T # {} /\ \A m \in T : m <= n
  BY ConstantsAssumption
<1>2. PICK k \in T : \A m \in T : m <= k
  <2> HIDE DEF T
  <2> QED BY <1>1, Greatest
<1>3. \E d \in S : \A e \in S : Data[e].day <= Data[d].day
  BY <1>2
<1> QED BY <1>3 DEF Latest

LEMMA TopIn ==
  ASSUME rules \in Seq(Rule), NEW S \in SUBSET (DOMAIN rules), S # {}
  PROVE  Top(S) \in S
<1> DEFINE P == {rules[i].priority : i \in S}
<1>1. \A i \in S : rules[i].priority \in 0..2 /\ i \in Nat /\ i <= Len(rules)
  <2> TAKE i \in S
  <2>1. i \in 1..Len(rules) /\ rules[i] \in Rule
    OBVIOUS
  <2> QED BY <2>1 DEF Rule
<1>2. PICK p \in P : \A q \in P : q <= p
  <2>1. P \in SUBSET Nat /\ P # {} /\ \A q \in P : q <= 2
    BY <1>1
  <2> HIDE DEF P
  <2> QED BY <2>1, Greatest
<1> DEFINE T == {i \in S : rules[i].priority = p}
<1>3. PICK i \in T : \A j \in T : j <= i
  <2>1. T \in SUBSET Nat /\ T # {} /\ \A j \in T : j <= Len(rules)
    BY <1>1, <1>2
  <2>2. Len(rules) \in Nat
    OBVIOUS
  <2> HIDE DEF T
  <2> QED BY <2>1, <2>2, Greatest
<1>4. \A j \in S : rules[j].priority < rules[i].priority \/ (rules[j].priority = rules[i].priority /\ j <= i)
  <2> TAKE j \in S
  <2>1. rules[j].priority <= p /\ rules[i].priority = p
    BY <1>2, <1>3
  <2>2. CASE rules[j].priority = p
    BY <1>3, <2>1, <2>2
  <2>3. CASE rules[j].priority # p
    BY <1>1, <2>1, <2>3
  <2> QED BY <2>2, <2>3
<1> QED BY <1>3, <1>4 DEF Top

LEMMA FirstIn ==
  ASSUME NEW n \in Nat, NEW S \in SUBSET (1..n), S # {}
  PROVE  First(S) \in S
<1>1. S \in SUBSET Nat
  OBVIOUS
<1>2. \E i \in S : \A j \in S : i <= j
  BY <1>1, Least
<1> QED BY <1>2 DEF First

\* A rule that decides a label is one of the rules.
LEMMA RuleForIn ==
  ASSUME rules \in Seq(Rule), NEW e, NEW n, NEW u
  PROVE  RuleFor(e, n, u) \in (DOMAIN rules) \cup {0}
<1>1. /\ OfEntity(e) \cap Active \in SUBSET (DOMAIN rules)
      /\ OfName(n) \cap Active \in SUBSET (DOMAIN rules)
      /\ OfUpi \cap Active \in SUBSET (DOMAIN rules)
  BY DEF Active
<1> QED BY <1>1, TopIn DEF RuleFor

-----------------------------------------------------------------------------
(* Type correctness.                                                       *)

\* A row whose amount has not been read yet.
Draft == [label : Label \cup {None}, type : Type, by : {"parser", "user"}, amount : Nat,
          entity : Entity \cup {None}, verified : BOOLEAN, review : BOOLEAN, transfer : BOOLEAN,
          refund : BOOLEAN, excluded : BOOLEAN, duplicate : BOOLEAN, parent : Tx \cup {None},
          skipped : BOOLEAN]

LEMMA Drafts == Blank \in Draft /\ Row \subseteq Draft
<1>1. Blank \in Draft
  BY DEF Blank, Draft, Type
<1>2. Amount \subseteq Nat
  BY ConstantsAssumption DEF Amount
<1> QED BY <1>1, <1>2 DEF Row, Draft

LEMMA ParsedRow ==
  ASSUME TypeOK, NEW t \in Tx, NEW row \in Draft, NEW amount \in Amount
  PROVE  Parsed(t, row, amount) \in Row
<1> DEFINE transfer == Data[t].type = "transfer"
           entity   == IF transfer THEN None ELSE Data[t].entity
           i        == RuleFor(entity, Data[t].name, Data[t].upi)
           label    == IF i # 0 THEN rules[i].label ELSE IF Data[t].label # None THEN Data[t].label ELSE row.label
<1>1. entity \in Entity \cup {None} /\ Data[t].type \in Type /\ transfer \in BOOLEAN
  BY ConstantsAssumption
<1>2. i # 0 => rules[i].label \in Label
  <2>1. i \in (DOMAIN rules) \cup {0}
    BY RuleForIn DEF TypeOK
  <2> HIDE DEF i
  <2>2. \A k \in DOMAIN rules : rules[k] \in Rule
    BY DEF TypeOK
  <2> QED BY <2>1, <2>2 DEF Rule
<1>3. label \in Label \cup {None}
  BY <1>2, ConstantsAssumption DEF Draft
<1> DEFINE refund   == Data[t].type = "refund" \/ (Data[t].direction = "credit" /\ Data[t].reads = "refund")
           excluded == Data[t].type \in {"transfer", "income"}
           ruled    == i # 0
           verified == row.verified \/ ruled
           by       == IF ruled THEN "user" ELSE "parser"
           review   == i = 0
<1>4. Parsed(t, row, amount) =
        [row EXCEPT !.amount = amount, !.type = Data[t].type, !.entity = entity,
                    !.transfer = transfer, !.refund = refund, !.excluded = excluded,
                    !.label = label, !.by = by, !.verified = verified, !.review = review,
                    !.skipped = FALSE]
  BY DEF Parsed
<1>5. refund \in BOOLEAN /\ excluded \in BOOLEAN /\ verified \in BOOLEAN /\ review \in BOOLEAN
  OBVIOUS
<1>6. by \in {"user", "parser"}
  OBVIOUS
<1> HIDE DEF label, i, entity, transfer, refund, excluded, ruled, verified, by, review
<1> QED BY <1>1, <1>3, <1>4, <1>5, <1>6, ZenonT(60) DEF Row, Draft

LEMMA SideEffectsRow ==
  ASSUME NEW t \in Tx, NEW row \in Row, row.label \in Label
  PROVE  SideEffects(t, row) \in Row
<1>1. Kind[row.label] \in Kinds
  BY ConstantsAssumption
<1>2. CASE Kind[row.label] = "transfer"
  BY <1>2, ConstantsAssumption DEF SideEffects, Row, Type
<1>3. CASE Kind[row.label] \in {"income", "refund"}
  BY <1>3 DEF SideEffects, Row, Type
<1>4. CASE Kind[row.label] = "spending" /\ Data[t].direction = "debit"
  BY <1>4 DEF SideEffects, Row, Type
<1>5. CASE Kind[row.label] = "spending" /\ Data[t].direction # "debit"
  BY <1>5 DEF SideEffects, Row, Type
<1> QED BY <1>1, <1>2, <1>3, <1>4, <1>5 DEF Kinds

LEMMA LabelledRow ==
  ASSUME TypeOK, NEW t \in Tx, tx[t] # None, NEW c \in Label
  PROVE  Labelled(t, c) \in Row
<1> DEFINE row == [tx[t] EXCEPT !.label = c, !.verified = TRUE, !.review = FALSE, !.by = "user"]
<1>1. row \in Row /\ row.label \in Label
  <2>1. tx[t] \in Row
    BY DEF TypeOK
  <2> QED BY <2>1 DEF Row
<1> HIDE DEF row
<1>2. SideEffects(t, row) \in Row
  BY <1>1, SideEffectsRow
<1> QED BY <1>2 DEF Labelled, row

LEMMA SyncedEvent ==
  ASSUME NEW t \in Tx, NEW row \in Row, posted[t] # None
  PROVE  Synced(t, row) \in Event
<1>1. Data[t].direction \in Direction /\ Opposite(Data[t].direction) \in Direction
  BY ConstantsAssumption DEF Direction, Opposite
<1> QED BY <1>1 DEF Synced, Event, Row

LEMMA ConfirmedRow ==
  ASSUME TypeOK, NEW t \in Tx, tx[t] # None, NEW i \in Issue
  PROVE  Confirmed(t, i) \in Row
<1>1. tx[t] \in Row
  BY DEF TypeOK
<1>2. CASE i = "not_a_transaction"
  BY <1>1, <1>2, ConstantsAssumption DEF Confirmed, Row, Type
<1>3. CASE i = "duplicate"
  BY <1>1, <1>3 DEF Confirmed, Row
<1>4. CASE i = "other"
  BY <1>1, <1>4 DEF Confirmed
<1> QED BY <1>2, <1>3, <1>4 DEF Issue, Blocking

\* Rows are never deleted.
Grows == \A t \in Tx : tx[t] # None => tx'[t] # None

LEMMA OneRow ==
  ASSUME TypeOK, NEW t \in Tx, NEW row \in Row, tx' = [tx EXCEPT ![t] = row]
  PROVE  /\ tx' \in [Tx -> Row \cup {None}] /\ Grows
         /\ tx'[t] = row /\ tx'[t] # None /\ \A o \in Tx \ {t} : tx'[o] = tx[o]
BY NoneAssumption DEF TypeOK, Grows

LEMMA TypeInit == Init => TypeOK
<1> SUFFICES ASSUME Init PROVE TypeOK
  OBVIOUS
<1>1. left \in [Steps -> Nat]
  BY ConstantsAssumption DEF Init
<1>2. rules \in Seq(Rule) /\ said \in [Tx -> SUBSET Words] /\ links \subseteq Link
  BY DEF Init
<1> QED BY <1>1, <1>2 DEF Init, TypeOK

LEMMA TakeType ==
  ASSUME TypeOK, NEW s \in Steps, Take(s)
  PROVE  left' \in [Steps -> Nat]
BY DEF TypeOK, Take

LEMMA TypeIngest ==
  ASSUME TypeOK, NEW t \in Tx, Ingest(t)
  PROVE  TypeOK' /\ Grows
<1> DEFINE row == Parsed(t, Blank, Data[t].amount)
           event == [account  |-> [amount |-> row.amount, direction |-> Data[t].direction],
                     category |-> IF row.label = None THEN None
                                  ELSE [label |-> row.label, amount |-> row.amount,
                                        direction |-> Opposite(Data[t].direction)]]
<1>1. row \in Row
  BY Drafts, ParsedRow DEF Amount
<1>2. tx' = [tx EXCEPT ![t] = row] /\ posted' = [posted EXCEPT ![t] = event]
  BY DEF Ingest
<1> HIDE DEF row
<1>3. event \in Event
  <2>1. Data[t].direction \in Direction /\ Opposite(Data[t].direction) \in Direction
    BY ConstantsAssumption DEF Direction, Opposite
  <2> QED BY <1>1, <2>1 DEF Event, Row
<1> HIDE DEF event
<1>4. left' \in [Steps -> Nat]
  BY TakeType DEF Ingest, Steps
<1>5. tx' \in [Tx -> Row \cup {None}] /\ Grows /\ tx'[t] # None
  BY <1>1, <1>2, OneRow
<1>6. DOMAIN posted' = Tx /\ \A o \in Tx : posted'[o] # None => tx'[o] # None /\ posted'[o] \in Event
  BY <1>2, <1>3, <1>5 DEF TypeOK, Grows
<1>7. UNCHANGED <<links, issues, rules, runs, said, taught>>
  BY DEF Ingest
<1> QED BY <1>4, <1>5, <1>6, <1>7 DEF TypeOK

LEMMA TypeImport ==
  ASSUME TypeOK, NEW t \in Tx, Import(t)
  PROVE  TypeOK' /\ Grows
<1> DEFINE row == [Blank EXCEPT !.label = Data[t].label, !.amount = Data[t].amount, !.verified = TRUE]
<1>1. row \in Row
  BY ConstantsAssumption DEF Blank, Row, Type, Amount
<1>2. tx' = [tx EXCEPT ![t] = row]
  BY DEF Import
<1> HIDE DEF row
<1>3. tx' \in [Tx -> Row \cup {None}] /\ Grows
  BY <1>1, <1>2, OneRow
<1>4. left' \in [Steps -> Nat]
  BY TakeType DEF Import, Steps
<1>5. UNCHANGED <<posted, links, issues, rules, runs, said, taught>>
  BY DEF Import
<1> QED BY <1>3, <1>4, <1>5 DEF TypeOK, Grows

\* A step that rewrites one row, and perhaps its event, and notes what the user said.
LEMMA TypeMark ==
  ASSUME TypeOK, NEW t \in Tx, tx[t] # None, NEW row \in Row, NEW heard \in SUBSET Words,
         tx' = [tx EXCEPT ![t] = row], said' = [said EXCEPT ![t] = heard],
         posted' = posted \/ posted' = [posted EXCEPT ![t] = Synced(t, row)],
         links' \subseteq Link, issues' \in [Tx -> [Issue -> IssueStatus \cup {None}]],
         UNCHANGED <<rules, runs, taught>>, left' \in [Steps -> Nat]
  PROVE  TypeOK' /\ Grows
<1>1. tx' \in [Tx -> Row \cup {None}] /\ Grows /\ tx'[t] # None
  BY OneRow
<1>2. DOMAIN posted' = Tx /\ \A o \in Tx : posted'[o] # None => tx'[o] # None /\ posted'[o] \in Event
  <2>1. CASE posted' = posted
    BY <1>1, <2>1 DEF TypeOK, Grows
  <2>2. CASE posted' = [posted EXCEPT ![t] = Synced(t, row)]
    <3>1. posted[t] # None => Synced(t, row) \in Event
      BY SyncedEvent
    <3>2. posted[t] = None => Synced(t, row) = None
      BY DEF Synced
    <3> QED BY <1>1, <2>2, <3>1, <3>2 DEF TypeOK, Grows
  <2> QED BY <2>1, <2>2
<1>3. said' \in [Tx -> SUBSET Words]
  BY DEF TypeOK
<1> QED BY <1>1, <1>2, <1>3 DEF TypeOK

LEMMA Heard ==
  ASSUME TypeOK, NEW t \in Tx
  PROVE  /\ said[t] \in SUBSET Words /\ (said[t] \cap {"duplicate"}) \in SUBSET Words
         /\ ((said[t] \cap {"duplicate"}) \cup {"not_a_transaction"}) \in SUBSET Words
         /\ ((said[t] \cap {"duplicate"}) \cup {"reimbursed"}) \in SUBSET Words
         /\ (said[t] \cup {"duplicate"}) \in SUBSET Words
         /\ (said[t] \cap {"not_a_transaction"}) \in SUBSET Words
BY DEF TypeOK, Words, Blocking

LEMMA TypeReparse ==
  ASSUME TypeOK, NEW t \in Tx, Reparse(t)
  PROVE  TypeOK' /\ Grows
<1> DEFINE row == Parsed(t, tx[t], Data[t].amended)
<1>1. row \in Row
  <2>1. tx[t] \in Draft
    BY Drafts DEF Reparse, TypeOK
  <2>2. Data[t].amended \in Amount
    BY DEF Amount
  <2> QED BY <2>1, <2>2, ParsedRow
<1>2. tx' = [tx EXCEPT ![t] = row] /\ tx[t] # None
  BY DEF Reparse
<1> HIDE DEF row
<1>3. left' \in [Steps -> Nat]
  BY TakeType DEF Reparse, Steps
<1>4. said' = [said EXCEPT ![t] = said[t] \cap {"duplicate"}] /\ UNCHANGED <<posted, links, issues, rules, runs, taught>>
  BY DEF Reparse
<1>5. links' \subseteq Link /\ issues' \in [Tx -> [Issue -> IssueStatus \cup {None}]]
  BY <1>4 DEF TypeOK
<1> QED BY <1>1, <1>2, <1>3, <1>4, <1>5, Heard, TypeMark

LEMMA TypeExclude ==
  ASSUME TypeOK, NEW t \in Tx, Exclude(t)
  PROVE  TypeOK' /\ Grows
<1> DEFINE row == [tx[t] EXCEPT !.label = None, !.type = "not_a_transaction", !.transfer = FALSE,
                              !.refund = FALSE, !.excluded = TRUE, !.review = FALSE,
                              !.verified = TRUE, !.by = "user", !.skipped = ~Data[t].imported]
           heard == (said[t] \cap {"duplicate"}) \cup {"not_a_transaction"}
<1>1. row \in Row
  <2>1. tx[t] \in Row
    BY DEF Exclude, TypeOK
  <2> DEFINE skipped == ~Data[t].imported
  <2>2. skipped \in BOOLEAN
    OBVIOUS
  <2>3. row = [tx[t] EXCEPT !.label = None, !.type = "not_a_transaction", !.transfer = FALSE,
                            !.refund = FALSE, !.excluded = TRUE, !.review = FALSE,
                            !.verified = TRUE, !.by = "user", !.skipped = skipped]
    OBVIOUS
  <2> HIDE DEF row, skipped
  <2> QED BY <2>1, <2>2, <2>3 DEF Row, Type
<1>2. tx' = [tx EXCEPT ![t] = row] /\ posted' = [posted EXCEPT ![t] = Synced(t, row)] /\ tx[t] # None
  BY DEF Exclude
<1> HIDE DEF row
<1>3. left' \in [Steps -> Nat]
  BY TakeType DEF Exclude, Steps
<1>4. said' = [said EXCEPT ![t] = heard] /\ UNCHANGED <<links, issues, rules, runs, taught>>
  BY DEF Exclude
<1>5. links' \subseteq Link /\ issues' \in [Tx -> [Issue -> IssueStatus \cup {None}]]
  BY <1>4 DEF TypeOK
<1>6. heard \in SUBSET Words
  BY Heard
<1> HIDE DEF heard
<1> QED BY <1>1, <1>2, <1>3, <1>4, <1>5, <1>6, TypeMark

LEMMA TypeReimburse ==
  ASSUME TypeOK, NEW t \in Tx, Reimburse(t)
  PROVE  TypeOK' /\ Grows
<1> DEFINE row   == Reimbursed(tx[t])
           heard == (said[t] \cap {"duplicate"}) \cup {"reimbursed"}
<1>1. row \in Row
  <2>1. tx[t] \in Row
    BY DEF Reimburse, TypeOK
  <2> QED BY <2>1 DEF Row, Type, Reimbursed
<1>2. tx' = [tx EXCEPT ![t] = row] /\ tx[t] # None
  BY DEF Reimburse
<1> HIDE DEF row
<1>3. left' \in [Steps -> Nat]
  BY TakeType DEF Reimburse, Steps
<1>4. said' = [said EXCEPT ![t] = heard] /\ UNCHANGED <<posted, links, issues, rules, runs, taught>>
  BY DEF Reimburse
<1>5. links' \subseteq Link /\ issues' \in [Tx -> [Issue -> IssueStatus \cup {None}]]
  BY <1>4 DEF TypeOK
<1>6. heard \in SUBSET Words
  BY Heard
<1> HIDE DEF heard
<1> QED BY <1>1, <1>2, <1>3, <1>4, <1>5, <1>6, TypeMark

LEMMA TypeUnmark ==
  ASSUME TypeOK, NEW t \in Tx, Unmark(t)
  PROVE  TypeOK' /\ Grows
<1> DEFINE row == [tx[t] EXCEPT !.duplicate = FALSE, !.parent = None, !.excluded = FALSE]
<1>1. row \in Row
  <2>1. tx[t] \in Row
    BY DEF Unmark, TypeOK
  <2> QED BY <2>1 DEF Row
<1>2. tx' = [tx EXCEPT ![t] = row] /\ tx[t] # None
  BY DEF Unmark
<1> HIDE DEF row
<1>3. left' \in [Steps -> Nat]
  BY TakeType DEF Unmark, Steps
<1>4. /\ said' = [said EXCEPT ![t] = said[t] \cap {"not_a_transaction"}]
      /\ UNCHANGED <<posted, issues, rules, runs, taught>> /\ links' \subseteq links
  BY DEF Unmark
<1>5. links' \subseteq Link /\ issues' \in [Tx -> [Issue -> IssueStatus \cup {None}]]
  BY <1>4 DEF TypeOK
<1> QED BY <1>1, <1>2, <1>3, <1>4, <1>5, Heard, TypeMark

LEMMA TypeMerge ==
  ASSUME TypeOK, NEW p \in Tx, NEW d \in Tx, Merge(p, d)
  PROVE  TypeOK' /\ Grows
<1> DEFINE row == [tx[d] EXCEPT !.duplicate = TRUE, !.parent = p, !.excluded = TRUE]
<1>1. row \in Row
  <2>1. tx[d] \in Row
    BY DEF Merge, TypeOK
  <2> QED BY <2>1 DEF Row
<1>2. tx' = [tx EXCEPT ![d] = row] /\ tx[d] # None
  BY DEF Merge
<1> HIDE DEF row
<1>3. left' \in [Steps -> Nat]
  BY TakeType DEF Merge, Steps
<1>4. /\ said' = [said EXCEPT ![d] = said[d] \cup {"duplicate"}]
      /\ UNCHANGED <<posted, issues, rules, runs, taught>>
      /\ links' = links \cup {[from |-> p, to |-> d, kind |-> "duplicate"]}
  BY DEF Merge
<1>5. links' \subseteq Link /\ issues' \in [Tx -> [Issue -> IssueStatus \cup {None}]]
  BY <1>4 DEF TypeOK, Link
<1> QED BY <1>1, <1>2, <1>3, <1>4, <1>5, Heard, TypeMark

LEMMA TypeFlag ==
  ASSUME TypeOK, NEW t \in Tx, NEW i \in Issue, Flag(t, i)
  PROVE  TypeOK' /\ Grows
<1>1. left' \in [Steps -> Nat]
  BY TakeType DEF Flag, Steps
<1>2. issues' \in [Tx -> [Issue -> IssueStatus \cup {None}]]
  BY DEF Flag, TypeOK, IssueStatus
<1>3. UNCHANGED <<tx, posted, links, rules, runs, said, taught>>
  BY DEF Flag
<1> QED BY <1>1, <1>2, <1>3 DEF TypeOK, Grows

LEMMA TypeResolve ==
  ASSUME TypeOK, NEW t \in Tx, NEW i \in Issue, NEW status \in IssueStatus, Resolve(t, i, status)
  PROVE  TypeOK' /\ Grows
<1>1. left' \in [Steps -> Nat] /\ tx[t] # None
  BY TakeType DEF Resolve, Steps
<1>2. issues' \in [Tx -> [Issue -> IssueStatus \cup {None}]]
  BY DEF Resolve, TypeOK
<1>3. UNCHANGED <<posted, links, rules, runs, taught>>
  BY DEF Resolve
<1>4. CASE status = "resolved"
  <2> DEFINE heard == CASE i = "not_a_transaction" -> (said[t] \cap {"duplicate"}) \cup {i}
                        [] i = "duplicate" -> said[t] \cup {i}
                        [] OTHER -> said[t]
  <2>1. tx' = [tx EXCEPT ![t] = Confirmed(t, i)] /\ said' = [said EXCEPT ![t] = heard]
    BY <1>4 DEF Resolve
  <2>2. heard \in SUBSET Words
    BY Heard DEF Issue, Blocking
  <2> HIDE DEF heard
  <2>3. links' \subseteq Link
    BY <1>3 DEF TypeOK
  <2> QED BY <1>1, <1>2, <1>3, <2>1, <2>2, <2>3, ConfirmedRow, TypeMark
<1>5. CASE status # "resolved"
  <2>1. UNCHANGED <<tx, said>>
    BY <1>5 DEF Resolve
  <2> QED BY <1>1, <1>2, <1>3, <2>1 DEF TypeOK, Grows
<1> QED BY <1>4, <1>5

\* A lesson changes one earlier rule or adds one; the others stay.
Relearned(r, c) == [r EXCEPT !.label = c, !.priority = UserPriority, !.active = TRUE]
Fresh(e, n, u, c) == [entity |-> e, name |-> n, upi |-> IF n = None THEN u ELSE None,
                      label |-> c, active |-> TRUE, priority |-> UserPriority]

LEMMA RelearnedRule ==
  ASSUME NEW r \in Rule, NEW c \in Label
  PROVE  /\ Relearned(r, c) \in Rule
         /\ Relearned(r, c).label = c /\ Relearned(r, c).active = TRUE
         /\ Relearned(r, c).entity = r.entity /\ Relearned(r, c).name = r.name
<1> DEFINE p  == UserPriority
           on == TRUE
<1>1. p \in 0..2 /\ on \in BOOLEAN /\ on = TRUE
  BY DEF UserPriority
<1>2. Relearned(r, c) = [r EXCEPT !.label = c, !.priority = p, !.active = on]
  BY DEF Relearned
<1> DEFINE e == [r EXCEPT !.label = c, !.priority = p, !.active = on]
<1> HIDE DEF p, on
<1>3. e \in Rule /\ e.label = c /\ e.active = on /\ e.entity = r.entity /\ e.name = r.name
  BY <1>1 DEF Rule
<1> HIDE DEF e
<1>4. e.active = TRUE
  BY <1>1, <1>3, Zenon
<1>5. Relearned(r, c) = e
  BY <1>2 DEF e
<1> QED BY <1>3, <1>4, <1>5, Zenon

LEMMA Relearn ==
  ASSUME TypeOK, NEW e \in Entity \cup {None}, NEW n \in Name \cup {None}, NEW u, NEW c \in Label,
         Earlier(e, n) # {}
  PROVE  \E k \in Earlier(e, n) :
           /\ k \in 1..Len(rules) /\ rules[k] \in Rule
           /\ Taught(e, n, u, c) \in Seq(Rule) /\ Len(Taught(e, n, u, c)) = Len(rules)
           /\ Taught(e, n, u, c)[k] = Relearned(rules[k], c)
           /\ \A j \in 1..Len(rules) : j # k => Taught(e, n, u, c)[j] = rules[j]
<1> DEFINE k == First(Earlier(e, n))
           r == Relearned(rules[k], c)
<1>1. Earlier(e, n) \in SUBSET (1..Len(rules)) /\ Len(rules) \in Nat
  BY DEF Earlier, OfEntity, OfName, TypeOK
<1>2. k \in Earlier(e, n) /\ k \in 1..Len(rules)
  BY <1>1, FirstIn
<1>3. Taught(e, n, u, c) = [rules EXCEPT ![k] = r]
  BY DEF Taught, Relearned
<1> HIDE DEF k
<1>4. rules[k] \in Rule /\ r \in Rule
  <2>1. rules[k] \in Rule
    BY <1>2 DEF TypeOK
  <2> QED BY <2>1, RelearnedRule
<1> HIDE DEF r
<1>5. /\ [rules EXCEPT ![k] = r] \in Seq(Rule)
      /\ Len([rules EXCEPT ![k] = r]) = Len(rules)
      /\ \A j \in 1..Len(rules) : [rules EXCEPT ![k] = r][j] = IF j = k THEN r ELSE rules[j]
  BY <1>2, <1>4, ExceptSeq DEF TypeOK
<1> QED BY <1>2, <1>3, <1>4, <1>5 DEF r

LEMMA LearnAnew ==
  ASSUME TypeOK, NEW e \in Entity \cup {None}, NEW n \in Name \cup {None}, NEW u \in Upi \cup {None},
         NEW c \in Label, Earlier(e, n) = {}
  PROVE  /\ Taught(e, n, u, c) \in Seq(Rule) /\ Len(Taught(e, n, u, c)) = Len(rules) + 1
         /\ \A j \in 1..Len(rules) : Taught(e, n, u, c)[j] = rules[j]
         /\ Taught(e, n, u, c)[Len(rules) + 1] = Fresh(e, n, u, c)
<1> DEFINE r == Fresh(e, n, u, c)
<1>1. r \in Rule
  BY DEF Fresh, Rule, UserPriority
<1>2. Taught(e, n, u, c) = Append(rules, r)
  BY DEF Taught, Fresh
<1> HIDE DEF r
<1>3. rules \in Seq(Rule)
  BY DEF TypeOK
<1>4. /\ Append(rules, r) \in Seq(Rule) /\ Len(Append(rules, r)) = Len(rules) + 1
      /\ \A j \in 1..Len(rules) : Append(rules, r)[j] = rules[j]
      /\ Append(rules, r)[Len(rules) + 1] = r
  BY <1>1, <1>3, AppendProperties
<1> QED BY <1>2, <1>4 DEF r

LEMMA TypeClassify ==
  ASSUME TypeOK, NEW t \in Tx, NEW c \in Label, Classify(t, c)
  PROVE  TypeOK' /\ Grows
<1>1. PICK rows \in SUBSET Present :
        /\ tx' = [p \in Tx |-> IF p \in rows THEN Labelled(p, c) ELSE tx[p]]
        /\ posted' = [p \in Tx |-> IF p \in rows THEN Synced(p, Labelled(p, c)) ELSE posted[p]]
  <2>1. PICK past \in BOOLEAN :
          LET rows == {t} \cup (IF past THEN Past(t, c) ELSE {}) IN
          /\ tx' = [p \in Tx |-> IF p \in rows THEN Labelled(p, c) ELSE tx[p]]
          /\ posted' = [p \in Tx |-> IF p \in rows THEN Synced(p, Labelled(p, c)) ELSE posted[p]]
    BY DEF Classify
  <2>2. {t} \cup (IF past THEN Past(t, c) ELSE {}) \in SUBSET Present
    BY DEF Past, Present, Classify
  <2> QED BY <2>1, <2>2
<1>2. \A p \in rows : p \in Tx /\ tx[p] # None /\ Labelled(p, c) \in Row /\ Labelled(p, c) # None
  BY LabelledRow, NoneAssumption DEF Present
<1>3. tx' \in [Tx -> Row \cup {None}] /\ Grows
  BY <1>1, <1>2 DEF TypeOK, Grows
<1>4. \A p \in Tx : posted'[p] # None => tx'[p] # None /\ posted'[p] \in Event
  <2> SUFFICES ASSUME NEW p \in Tx, posted'[p] # None PROVE tx'[p] # None /\ posted'[p] \in Event
    OBVIOUS
  <2>1. CASE p \in rows
    <3>1. posted'[p] = Synced(p, Labelled(p, c)) /\ tx'[p] = Labelled(p, c)
      BY <1>1, <2>1
    <3>2. posted[p] # None
      BY <3>1 DEF Synced
    <3> QED BY <1>2, <2>1, <3>1, <3>2, SyncedEvent
  <2>2. CASE p \notin rows
    BY <1>1, <1>3, <2>2 DEF TypeOK, Grows
  <2> QED BY <2>1, <2>2
<1>5. rules' \in Seq(Rule) /\ taught' \in [Key -> Label \cup {None}]
  <2>1. CASE UNCHANGED <<rules, taught>>
    BY <2>1 DEF TypeOK
  <2>2. CASE /\ rules' = Taught(tx[t].entity, Data[t].name, Data[t].upi, c)
             /\ taught' = Expecting(tx[t].entity, Data[t].name, c)
    <3>1. tx[t].entity \in Entity \cup {None}
      BY DEF TypeOK, Classify, Row
    <3>2. Data[t].name \in Name \cup {None} /\ Data[t].upi \in Upi \cup {None}
      BY ConstantsAssumption
    <3>3. taught' \in [Key -> Label \cup {None}]
      BY <2>2 DEF Expecting, TypeOK
    <3> QED BY <2>2, <3>1, <3>2, <3>3, Relearn, LearnAnew
  <2> QED BY <2>1, <2>2 DEF Classify
<1>6. left' \in [Steps -> Nat]
  BY TakeType DEF Classify, Steps
<1>7. said' \in [Tx -> SUBSET Words] /\ UNCHANGED <<links, issues, runs>> /\ DOMAIN posted' = Tx
  BY <1>1, Heard DEF Classify, TypeOK
<1> QED BY <1>3, <1>4, <1>5, <1>6, <1>7 DEF TypeOK

\* What is left when one of the rules is deleted.
LEMMA Deleted ==
  ASSUME TypeOK, NEW i \in 1..Len(rules)
  PROVE  /\ RemoveAt(rules, i) \in Seq(Rule) /\ Len(RemoveAt(rules, i)) = Len(rules) - 1
         /\ \A j \in 1..(Len(rules) - 1) :
              RemoveAt(rules, i)[j] = IF j < i THEN rules[j] ELSE rules[j + 1]
<1> DEFINE n == Len(rules)
           a == SubSeq(rules, 1, i - 1)
           b == SubSeq(rules, i + 1, n)
<1>1. rules \in Seq(Rule) /\ n \in Nat /\ i \in 1..n /\ \A j \in 1..n : rules[j] \in Rule
  BY DEF TypeOK
<1>2. /\ a \in Seq(Rule) /\ Len(a) = i - 1
      /\ \A j \in 1..(i - 1) : a[j] = rules[j]
  <2>1. /\ 1 \in Int /\ i - 1 \in Int /\ \A j \in 1..(i - 1) : rules[j] \in Rule
    BY <1>1
  <2>2. /\ a \in Seq(Rule)
        /\ Len(a) = IF 1 <= i - 1 THEN (i - 1) - 1 + 1 ELSE 0
        /\ \A j \in 1..((i - 1) - 1 + 1) : a[j] = rules[1 + j - 1]
    BY <2>1, SubSeqProperties
  <2> HIDE DEF a
  <2> QED BY <1>1, <2>2
<1>3. /\ b \in Seq(Rule) /\ Len(b) = n - i
      /\ \A j \in 1..(n - i) : b[j] = rules[i + j]
  <2>1. /\ i + 1 \in Int /\ n \in Int /\ \A j \in (i + 1)..n : rules[j] \in Rule
    BY <1>1
  <2>2. /\ b \in Seq(Rule)
        /\ Len(b) = IF i + 1 <= n THEN n - (i + 1) + 1 ELSE 0
        /\ \A j \in 1..(n - (i + 1) + 1) : b[j] = rules[(i + 1) + j - 1]
    BY <2>1, SubSeqProperties
  <2> HIDE DEF b, n
  <2>3. \A j \in 1..(n - i) : (i + 1) + j - 1 = i + j
    BY <1>1
  <2>4. ASSUME NEW j \in 1..(n - i) PROVE b[j] = rules[i + j]
    <3>1. j \in 1..(n - (i + 1) + 1)
      BY <1>1
    <3>2. b[j] = rules[(i + 1) + j - 1]
      BY <2>2, <3>1
    <3> QED BY <2>3, <3>2
  <2> QED BY <1>1, <2>2, <2>4
<1>4. RemoveAt(rules, i) = a \o b
  BY DEF RemoveAt
<1> HIDE DEF a, b
<1>5. /\ a \o b \in Seq(Rule) /\ Len(a \o b) = Len(a) + Len(b)
      /\ \A j \in 1..(Len(a) + Len(b)) : (a \o b)[j] = IF j <= Len(a) THEN a[j] ELSE b[j - Len(a)]
  BY <1>2, <1>3, ConcatProperties
<1> HIDE DEF n
<1>6. ASSUME NEW j \in 1..(n - 1)
      PROVE  (a \o b)[j] = IF j < i THEN rules[j] ELSE rules[j + 1]
  <2>1. CASE j < i
    BY <1>1, <1>2, <1>3, <1>5, <2>1
  <2>2. CASE ~(j < i)
    <3>1. (a \o b)[j] = b[j - (i - 1)] /\ j - (i - 1) \in 1..(n - i) /\ i + (j - (i - 1)) = j + 1
      BY <1>1, <1>2, <1>3, <1>5, <2>2
    <3> QED BY <1>3, <2>2, <3>1
  <2> QED BY <2>1, <2>2
<1> QED BY <1>1, <1>2, <1>3, <1>4, <1>5, <1>6 DEF n

LEMMA TypeRules ==
  ASSUME TypeOK, NEW i \in DOMAIN rules, UpdateRule(i) \/ DeleteRule(i)
  PROVE  TypeOK' /\ Grows
<1>1. left' \in [Steps -> Nat]
  BY TakeType DEF UpdateRule, DeleteRule, Steps
<1>2. rules' \in Seq(Rule)
  <2>1. CASE DeleteRule(i)
    BY <2>1, Deleted DEF DeleteRule, TypeOK
  <2>2. CASE UpdateRule(i)
    <3>1. PICK on \in BOOLEAN, p \in 0..2, c \in Label :
            rules' = [rules EXCEPT ![i] = [@ EXCEPT !.active = on, !.priority = p, !.label = c]]
      BY <2>2 DEF UpdateRule
    <3> DEFINE r == [rules[i] EXCEPT !.active = on, !.priority = p, !.label = c]
    <3>2. r \in Rule /\ i \in 1..Len(rules) /\ rules \in Seq(Rule)
      <4>1. i \in 1..Len(rules) /\ rules[i] \in Rule /\ rules \in Seq(Rule)
        BY DEF TypeOK
      <4> QED BY <4>1 DEF Rule
    <3>3. rules' = [rules EXCEPT ![i] = r]
      BY <3>1
    <3> HIDE DEF r
    <3> QED BY <3>2, <3>3, ExceptSeq
  <2> QED BY <2>1, <2>2
<1>3. taught' \in [Key -> Label \cup {None}]
  BY DEF UpdateRule, DeleteRule, Voiding, TypeOK
<1>4. UNCHANGED <<tx, posted, links, issues, runs, said>>
  BY DEF UpdateRule, DeleteRule
<1> QED BY <1>1, <1>2, <1>3, <1>4 DEF TypeOK, Grows

\* What a reconciliation makes of a row it had loaded: it only ever excludes, and only a
\* refund's row becomes one.
Marks(now, new, refunded) ==
  /\ new \in Row
  /\ new.duplicate = now.duplicate /\ new.verified = now.verified /\ new.label = now.label
  /\ now.excluded = TRUE => new.excluded = TRUE
  /\ new.type \in {now.type, "transfer"} \/ (refunded /\ new.type = "refund")

LEMMA WrittenRow ==
  ASSUME NEW now \in Row, NEW loaded \in Row, NEW new \in Row, NEW refunded \in BOOLEAN,
         loaded.excluded = TRUE => new.excluded = TRUE,
         new.type \in {loaded.type, "transfer"} \/ (refunded /\ new.type = "refund")
  PROVE  Marks(now, Written(now, loaded, new), refunded)
<1> DEFINE type     == Column(now.type, loaded.type, new.type)
           refund   == Column(now.refund, loaded.refund, new.refund)
           transfer == Column(now.transfer, loaded.transfer, new.transfer)
           excluded == Column(now.excluded, loaded.excluded, new.excluded)
<1>1. type \in Type /\ refund \in BOOLEAN /\ transfer \in BOOLEAN /\ excluded \in BOOLEAN
  BY DEF Column, Row
<1>2. type \in {now.type, "transfer"} \/ (refunded /\ type = "refund")
  BY DEF Column
<1>3. now.excluded = TRUE => excluded = TRUE
  <2>1. loaded.excluded \in BOOLEAN /\ new.excluded \in BOOLEAN
    BY DEF Row
  <2> QED BY <2>1 DEF Column
<1>4. Written(now, loaded, new) = [now EXCEPT !.type = type, !.refund = refund, !.transfer = transfer,
                                              !.excluded = excluded]
  BY DEF Written
<1> HIDE DEF type, refund, transfer, excluded
<1>5. Written(now, loaded, new) \in Row
  BY <1>1, <1>4 DEF Row
<1>6. LET w == Written(now, loaded, new) IN
      /\ w.duplicate = now.duplicate /\ w.verified = now.verified /\ w.label = now.label
      /\ w.excluded = excluded /\ w.type = type
  BY <1>4 DEF Row
<1> QED BY <1>2, <1>3, <1>5, <1>6 DEF Marks

Froms(pairs) == {l.from : l \in pairs}

LEMMA MarksAdd ==
  ASSUME NEW a \in Row, NEW b, NEW c, NEW refunded \in BOOLEAN, Marks(a, b, refunded), Marks(b, c, FALSE)
  PROVE  Marks(a, c, refunded)
BY DEF Marks

LEMMA AsRow ==
  ASSUME NEW row \in Row
  PROVE  /\ AsRefund(row) \in Row /\ AsRefund(row).excluded = TRUE /\ AsRefund(row).type = "refund"
         /\ AsTransfer(row) \in Row /\ AsTransfer(row).excluded = TRUE /\ AsTransfer(row).type = "transfer"
<1>1. AsRefund(row) \in Row /\ AsTransfer(row) \in Row
  BY DEF AsRefund, AsTransfer, Row, Type
<1>2. AsRefund(row).type = "refund" /\ AsTransfer(row).type = "transfer"
  BY DEF AsRefund, AsTransfer, Row
<1>3. AsRefund(row).excluded = TRUE /\ AsTransfer(row).excluded = TRUE
  BY Zenon DEF AsRefund, AsTransfer, Row
<1> QED BY <1>1, <1>2, <1>3

\* The pairs a reconciliation makes: who may be an end of one.
LEMMA RefundPairs ==
  ASSUME TypeOK, NEW todo \in SUBSET Present, NEW rows
  PROVE  \A l \in RefundLinks(todo, rows) :
           l \in Link /\ l.kind = "refund" /\ l.from \in todo /\ l.to \in Present
<1> SUFFICES ASSUME NEW l \in RefundLinks(todo, rows)
             PROVE  l \in Link /\ l.kind = "refund" /\ l.from \in todo /\ l.to \in Present
  OBVIOUS
<1>1. PICK r \in todo : /\ Purchases(r, rows[r].amount) # {}
                        /\ l = [from |-> r, to |-> Latest(Purchases(r, rows[r].amount)), kind |-> "refund"]
  BY DEF RefundLinks
<1> DEFINE S == Purchases(r, rows[r].amount)
<1>2. S \in SUBSET Present /\ \A d \in S : Data[d].day \in (Data[r].day - RefundWindow)..Data[r].day
  BY DEF Purchases, Repayable
<1>3. r \in Tx /\ Data[r].day \in Nat /\ Present \subseteq Tx
  BY ConstantsAssumption DEF Present
<1>4. \A d \in S : Data[d].day <= Data[r].day
  BY <1>2, <1>3, ConstantsAssumption DEF RefundWindow
<1> HIDE DEF S
<1>5. Latest(S) \in S
  BY <1>1, <1>2, <1>3, <1>4, LatestIn DEF S
<1> QED BY <1>1, <1>2, <1>3, <1>5 DEF Link, S

LEMMA TransferPairs ==
  ASSUME NEW debits \in SUBSET Present, NEW paired, NEW rows, NEW pairs \in TransferLinks(debits, paired, rows)
  PROVE  \A l \in pairs : l \in Link /\ l.kind = "transfer" /\ l.from \in debits /\ l.to \in Credits
BY DEF TransferLinks, Credits, Present, Link

\* The rows of a run are rows that are there.
RunsSound ==
  \A p \in Runner : runs[p] # None =>
    /\ runs[p].todo \subseteq Present /\ DOMAIN runs[p].rows \subseteq Present
    /\ runs[p].at = "refunds" => \A r \in runs[p].todo : Data[r].direction = "credit"
    /\ runs[p].at = "transfers" => \A d \in runs[p].todo : Data[d].direction = "debit"

\* What a run that ends does to the rows.
Reconciles(refunds) ==
  /\ tx' = [t \in Tx |-> tx'[t]]
  /\ \A t \in Tx : tx'[t] = tx[t] \/ (tx[t] # None /\ Marks(tx[t], tx'[t], t \in Froms(refunds)))

LEMMA FinishRows ==
  ASSUME TypeOK, NEW p \in Runner, NEW refunds \in SUBSET Link, NEW transfers \in SUBSET Link, NEW rows,
         \A l \in refunds \cup transfers : l.from \in Present /\ l.to \in Present,
         \A t \in DOMAIN rows : rows[t] \in Row, Finish(p, rows, refunds, transfers)
  PROVE  Reconciles(refunds)
<1>1. CASE UNCHANGED <<tx, links>>
  BY <1>1 DEF Reconciles, TypeOK
<1>2. CASE tx' = Commit(rows, refunds, transfers)
  <2>1. ASSUME NEW t \in Tx, tx'[t] # tx[t]
        PROVE  tx[t] # None /\ Marks(tx[t], tx'[t], t \in Froms(refunds))
    <3> DEFINE refunded == t \in Froms(refunds)
               old  == Loaded(rows, t)
               now  == IF refunded THEN Written(tx[t], old, AsRefund(old)) ELSE tx[t]
               held == IF refunds = {} THEN old ELSE now
    <3>1. tx'[t] = IF t \in Ends(transfers) THEN Written(now, held, AsTransfer(held)) ELSE now
      BY <1>2 DEF Commit, Froms
    <3>2. t \in Present
      BY <2>1, <3>1 DEF Ends, Froms
    <3>3. tx[t] \in Row /\ old \in Row /\ refunded \in BOOLEAN
      BY <3>2 DEF TypeOK, Present, Loaded
    <3> HIDE DEF refunded, old, held
    <3>4. Marks(tx[t], now, refunded)
      <4>1. CASE refunded
        <5> DEFINE new == AsRefund(old)
        <5>1. new \in Row /\ new.excluded = TRUE /\ new.type = "refund"
          BY <3>3, AsRow
        <5> HIDE DEF new
        <5>2. Marks(tx[t], Written(tx[t], old, new), refunded)
          BY <3>3, <4>1, <5>1, WrittenRow
        <5> QED BY <4>1, <5>2 DEF new
      <4>2. CASE ~refunded
        BY <3>3, <4>2 DEF Marks
      <4> QED BY <4>1, <4>2
    <3> HIDE DEF now
    <3>5. now \in Row /\ held \in Row
      BY <3>3, <3>4 DEF Marks, held
    <3>6. Marks(now, Written(now, held, AsTransfer(held)), FALSE)
      <4> DEFINE new == AsTransfer(held)
      <4>1. new \in Row /\ new.excluded = TRUE /\ new.type = "transfer"
        BY <3>5, AsRow
      <4> HIDE DEF new
      <4> QED BY <3>5, <4>1, WrittenRow DEF new
    <3> DEFINE last == Written(now, held, AsTransfer(held))
    <3>7. Marks(now, last, FALSE)
      BY <3>6
    <3> HIDE DEF last
    <3>8. Marks(tx[t], last, refunded)
      BY <3>3, <3>4, <3>7, MarksAdd
    <3>9. Marks(tx[t], tx'[t], refunded)
      BY <3>1, <3>4, <3>8 DEF last
    <3> QED BY <3>2, <3>9 DEF Present, refunded
  <2> QED BY <1>2, <2>1 DEF Reconciles, Commit
<1> QED BY <1>1, <1>2 DEF Finish

LEMMA ReconciledRows ==
  ASSUME TypeOK, NEW refunds, Reconciles(refunds)
  PROVE  tx' \in [Tx -> Row \cup {None}] /\ Grows
<1>1. ASSUME NEW t \in Tx
      PROVE  tx'[t] \in Row \cup {None} /\ (tx[t] # None => tx'[t] # None)
  <2>1. CASE tx'[t] = tx[t]
    BY <2>1 DEF TypeOK
  <2>2. CASE tx[t] # None /\ Marks(tx[t], tx'[t], t \in Froms(refunds))
    BY <2>2, NoneAssumption DEF Marks
  <2> QED BY <2>1, <2>2 DEF Reconciles
<1>2. tx' = [t \in Tx |-> tx'[t]]
  BY DEF Reconciles
<1> QED BY <1>1, <1>2 DEF Grows

LEMMA RunsStay ==
  ASSUME RunsSound, Grows, runs' = runs
  PROVE  RunsSound'
<1>1. Present \subseteq Present'
  BY DEF Present, Grows
<1> QED BY <1>1 DEF RunsSound

LEMMA TypeFinish ==
  ASSUME TypeOK, RunsSound, NEW p \in Runner, NEW refunds \in SUBSET Link, NEW transfers \in SUBSET Link,
         NEW rows, \A l \in refunds \cup transfers : l.from \in Present /\ l.to \in Present,
         \A t \in DOMAIN rows : rows[t] \in Row, Finish(p, rows, refunds, transfers),
         UNCHANGED <<posted, issues, rules, said, taught, left>>
  PROVE  TypeOK' /\ Grows /\ RunsSound' /\ Reconciles(refunds)
<1>1. Reconciles(refunds)
  BY FinishRows
<1>2. tx' \in [Tx -> Row \cup {None}] /\ Grows
  BY <1>1, ReconciledRows
<1>3. links' \subseteq Link /\ runs' = [runs EXCEPT ![p] = None]
  BY DEF Finish, TypeOK
<1>4. Present \subseteq Present'
  BY <1>2 DEF Present, Grows
<1>5. TypeOK'
  BY <1>2, <1>3 DEF TypeOK, Grows
<1>6. RunsSound'
  BY <1>3, <1>4 DEF RunsSound, TypeOK
<1> QED BY <1>1, <1>2, <1>5, <1>6

LEMMA TypeStart ==
  ASSUME TypeOK, RunsSound, NEW p \in Runner, StartReconcile(p)
  PROVE  TypeOK' /\ Grows /\ RunsSound'
<1> DEFINE todo == {t \in Present : /\ Data[t].direction = "credit"
                                    /\ t \notin Sided("refund", "from")
                                    /\ tx[t].refund \/ Data[t].reads = "refund"}
           run  == [at |-> "refunds", todo |-> todo, paired |-> {}, rows |-> [t \in todo |-> tx[t]]]
<1>1. runs' = [runs EXCEPT ![p] = run] /\ UNCHANGED <<tx, posted, links, issues, rules, said, taught>>
  BY DEF StartReconcile
<1>2. todo \subseteq Present /\ \A r \in todo : Data[r].direction = "credit"
  OBVIOUS
<1> HIDE DEF todo
<1>3. /\ run.at = "refunds" /\ run.todo = todo /\ run.paired = {} /\ DOMAIN run.rows = todo
      /\ \A t \in todo : run.rows[t] = tx[t]
  OBVIOUS
<1> HIDE DEF run
<1>4. Present' = Present /\ Present \subseteq Tx /\ \A t \in Present : tx[t] \in Row
  BY <1>1 DEF Present, TypeOK
<1>5. IsRun(run)
  BY <1>2, <1>3, <1>4 DEF IsRun
<1>6. left' \in [Steps -> Nat]
  BY TakeType DEF StartReconcile, Steps
<1>7. TypeOK' /\ Grows
  BY <1>1, <1>5, <1>6 DEF TypeOK, Grows
<1>8. RunsSound'
  BY <1>1, <1>2, <1>3, <1>4 DEF RunsSound, TypeOK
<1> QED BY <1>7, <1>8

\* What a run at the refunds may do: pair and end, or go on to the transfers.
PairedTransfers == Sided("transfer", "from") \cup Sided("transfer", "to")

GoesOn(p) ==
  /\ UNCHANGED <<tx, links>>
  /\ runs' = [runs EXCEPT ![p] =
       [at |-> "transfers", todo |-> PaymentDebits(PairedTransfers), paired |-> PairedTransfers,
        rows |-> [t \in PaymentDebits(PairedTransfers) |-> tx[t]]]]

LEMMA TypeGoesOn ==
  ASSUME TypeOK, RunsSound, NEW p \in Runner, runs[p] # None, GoesOn(p),
         UNCHANGED <<posted, issues, rules, said, taught, left>>
  PROVE  TypeOK' /\ Grows /\ RunsSound'
<1> DEFINE paired == PairedTransfers
           debits == PaymentDebits(paired)
           run    == [at |-> "transfers", todo |-> debits, paired |-> paired,
                      rows |-> [t \in debits |-> tx[t]]]
<1>1. runs' = [runs EXCEPT ![p] = run] /\ UNCHANGED <<tx, links>>
  BY DEF GoesOn
<1>2. debits \subseteq Present /\ \A d \in debits : Data[d].direction = "debit"
  BY DEF PaymentDebits
<1>3. paired \subseteq Tx
  BY DEF PairedTransfers, Sided, TypeOK, Link
<1>4. Present' = Present /\ Present \subseteq Tx /\ \A t \in Present : tx[t] \in Row
  BY <1>1 DEF Present, TypeOK
<1> HIDE DEF debits, paired
<1>5. /\ run.at = "transfers" /\ run.todo = debits /\ run.paired = paired
      /\ DOMAIN run.rows = debits /\ \A t \in debits : run.rows[t] = tx[t]
  OBVIOUS
<1> HIDE DEF run
<1>6. IsRun(run)
  BY <1>2, <1>3, <1>4, <1>5 DEF IsRun
<1>7. TypeOK' /\ Grows
  BY <1>1, <1>6 DEF TypeOK, Grows
<1>8. RunsSound'
  BY <1>1, <1>2, <1>4, <1>5 DEF RunsSound, TypeOK
<1> QED BY <1>7, <1>8

\* Every way a run proceeds, with what it pairs.
LEMMA Proceeds ==
  ASSUME TypeOK, RunsSound, NEW p \in Runner, PairRefunds(p) \/ PairTransfers(p)
  PROVE  /\ runs[p] # None
         /\ UNCHANGED <<posted, issues, rules, said, taught, left>>
         /\ \/ GoesOn(p) /\ runs[p].at = "refunds"
            \/ /\ runs[p].at = "refunds"
               /\ \E transfers \in TransferLinks(PaymentDebits(PairedTransfers), PairedTransfers, runs[p].rows) :
                    Finish(p, runs[p].rows, RefundLinks(runs[p].todo, runs[p].rows), transfers)
            \/ /\ runs[p].at = "transfers"
               /\ \E transfers \in TransferLinks(runs[p].todo, runs[p].paired, runs[p].rows) :
                    Finish(p, runs[p].rows, {}, transfers)
<1>1. CASE PairTransfers(p)
  BY <1>1 DEF PairTransfers
<1>2. CASE PairRefunds(p)
  BY <1>2 DEF PairRefunds, GoesOn, PairedTransfers
<1> QED BY <1>1, <1>2

LEMMA TypeReconcile ==
  ASSUME TypeOK, RunsSound, NEW p \in Runner, PairRefunds(p) \/ PairTransfers(p)
  PROVE  /\ TypeOK' /\ Grows /\ RunsSound'
         /\ \E refunds : /\ \A l \in refunds : Data[l.from].direction = "credit"
                         /\ Reconciles(refunds)
<1>1. runs[p] # None /\ UNCHANGED <<posted, issues, rules, said, taught, left>>
  BY Proceeds
<1>2. /\ runs[p].todo \subseteq Present /\ \A t \in DOMAIN runs[p].rows : runs[p].rows[t] \in Row
      /\ runs[p].at = "refunds" => \A r \in runs[p].todo : Data[r].direction = "credit"
  BY <1>1 DEF RunsSound, TypeOK, IsRun
<1>3. Credits \subseteq Present
  BY DEF Credits
<1>4. CASE GoesOn(p)
  <2>1. Reconciles({})
    BY <1>4 DEF GoesOn, Reconciles, TypeOK
  <2> QED BY <1>1, <1>4, <2>1, TypeGoesOn
<1>5. ASSUME runs[p].at = "refunds",
             NEW transfers \in TransferLinks(PaymentDebits(PairedTransfers), PairedTransfers, runs[p].rows),
             Finish(p, runs[p].rows, RefundLinks(runs[p].todo, runs[p].rows), transfers)
      PROVE  /\ TypeOK' /\ Grows /\ RunsSound'
             /\ \E refunds : /\ \A l \in refunds : Data[l.from].direction = "credit"
                             /\ Reconciles(refunds)
  <2> DEFINE refunds == RefundLinks(runs[p].todo, runs[p].rows)
  <2>1. PaymentDebits(PairedTransfers) \subseteq Present
    BY DEF PaymentDebits
  <2>2. \A l \in refunds : l \in Link /\ l.from \in runs[p].todo /\ l.to \in Present
    BY <1>2, RefundPairs
  <2>3. \A l \in transfers : l \in Link /\ l.from \in Present /\ l.to \in Present
    BY <1>3, <2>1, TransferPairs
  <2> HIDE DEF refunds
  <2>4. /\ refunds \in SUBSET Link /\ transfers \in SUBSET Link
        /\ \A l \in refunds \cup transfers : l.from \in Present /\ l.to \in Present
        /\ \A l \in refunds : Data[l.from].direction = "credit"
    BY <1>2, <1>5, <2>2, <2>3
  <2>5. Finish(p, runs[p].rows, refunds, transfers)
    BY <1>5 DEF refunds
  <2>6. TypeOK' /\ Grows /\ RunsSound' /\ Reconciles(refunds)
    BY <1>1, <1>2, <2>4, <2>5, TypeFinish
  <2> QED BY <2>4, <2>6
<1>6. ASSUME runs[p].at = "transfers",
             NEW transfers \in TransferLinks(runs[p].todo, runs[p].paired, runs[p].rows),
             Finish(p, runs[p].rows, {}, transfers)
      PROVE  /\ TypeOK' /\ Grows /\ RunsSound'
             /\ \E refunds : /\ \A l \in refunds : Data[l.from].direction = "credit"
                             /\ Reconciles(refunds)
  <2>1. \A l \in transfers : l \in Link /\ l.from \in Present /\ l.to \in Present
    BY <1>2, <1>3, TransferPairs
  <2>2. {} \in SUBSET Link /\ transfers \in SUBSET Link
        /\ \A l \in {} \cup transfers : l.from \in Present /\ l.to \in Present
    BY <2>1
  <2>3. TypeOK' /\ Grows /\ RunsSound' /\ Reconciles({})
    BY <1>1, <1>2, <1>6, <2>2, TypeFinish
  <2> QED BY <2>3
<1> QED BY <1>4, <1>5, <1>6, Proceeds

LEMMA TypeStep ==
  ASSUME TypeOK, RunsSound, Next
  PROVE  TypeOK' /\ Grows /\ RunsSound'
<1>1. ASSUME NEW t \in Tx, Ingest(t) \/ Import(t) \/ Reparse(t) \/ Exclude(t) \/ Reimburse(t) \/ Unmark(t)
      PROVE  TypeOK' /\ Grows /\ RunsSound'
  <2>1. TypeOK' /\ Grows
    BY <1>1, TypeIngest, TypeImport, TypeReparse, TypeExclude, TypeReimburse, TypeUnmark
  <2>2. runs' = runs
    BY <1>1 DEF Ingest, Import, Reparse, Exclude, Reimburse, Unmark
  <2> QED BY <2>1, <2>2, RunsStay
<1>2. ASSUME NEW t \in Tx, NEW c \in Label, Classify(t, c)
      PROVE  TypeOK' /\ Grows /\ RunsSound'
  <2>1. runs' = runs
    BY <1>2 DEF Classify
  <2> QED BY <1>2, <2>1, TypeClassify, RunsStay
<1>3. ASSUME NEW t \in Tx, NEW i \in Issue, NEW s \in IssueStatus, Flag(t, i) \/ Resolve(t, i, s)
      PROVE  TypeOK' /\ Grows /\ RunsSound'
  <2>1. runs' = runs
    BY <1>3 DEF Flag, Resolve
  <2> QED BY <1>3, <2>1, TypeFlag, TypeResolve, RunsStay
<1>4. ASSUME NEW p \in Tx, NEW d \in Tx, Merge(p, d)
      PROVE  TypeOK' /\ Grows /\ RunsSound'
  <2>1. runs' = runs
    BY <1>4 DEF Merge
  <2> QED BY <1>4, <2>1, TypeMerge, RunsStay
<1>5. ASSUME NEW i \in DOMAIN rules, UpdateRule(i) \/ DeleteRule(i)
      PROVE  TypeOK' /\ Grows /\ RunsSound'
  <2>1. runs' = runs
    BY <1>5 DEF UpdateRule, DeleteRule
  <2> QED BY <1>5, <2>1, TypeRules, RunsStay
<1>6. ASSUME NEW p \in Runner, StartReconcile(p) \/ PairRefunds(p) \/ PairTransfers(p)
      PROVE  TypeOK' /\ Grows /\ RunsSound'
  BY <1>6, TypeStart, TypeReconcile
<1>7. \E s \in IssueStatus : TRUE
  BY DEF IssueStatus
<1> QED BY <1>1, <1>2, <1>3, <1>4, <1>5, <1>6, <1>7 DEF Next

\* Types and loaded rows, from the first state on.
LEMMA BaseInit == Init => TypeOK /\ RunsSound
BY TypeInit DEF Init, RunsSound

LEMMA BaseStutter ==
  ASSUME TypeOK, RunsSound, UNCHANGED vars
  PROVE  TypeOK' /\ RunsSound'
<1>1. UNCHANGED <<tx, posted, links, issues, rules, runs, said, taught, left>>
  BY DEF vars
<1>2. TypeOK'
  BY <1>1 DEF TypeOK
<1>3. RunsSound'
  BY <1>1 DEF RunsSound, Present
<1> QED BY <1>2, <1>3

LEMMA Base == Spec => [](TypeOK /\ RunsSound)
<1>1. (TypeOK /\ RunsSound) /\ [Next]_vars => (TypeOK /\ RunsSound)'
  BY TypeStep, BaseStutter
<1> QED BY <1>1, BaseInit, PTL DEF Spec

\* The state is well formed, whoever reconciles and however the requests interleave.
THEOREM TypeCorrect == Spec => []TypeOK
BY Base, PTL

-----------------------------------------------------------------------------
(* Double entry.                                                           *)

\* Only what mail brought has an event; an import has none.
Evented == \A t \in Tx : posted[t] # None => ~Data[t].imported

LEMMA SyncedBalances ==
  ASSUME NEW t \in Tx, ~Data[t].imported, NEW row, Synced(t, row) # None, Synced(t, row).category # None
  PROVE  /\ Synced(t, row).category.amount = Synced(t, row).account.amount
         /\ {Synced(t, row).category.direction, Synced(t, row).account.direction} = {"debit", "credit"}
<1>1. Data[t].direction \in {"debit", "credit"}
  BY ConstantsAssumption
<1> QED BY <1>1 DEF Synced, Opposite

LEMMA BalanceStep ==
  ASSUME TypeOK, RunsSound, Evented, EventsBalance, Next
  PROVE  Evented' /\ EventsBalance'
<1>1. CASE posted' = posted
  BY <1>1 DEF Evented, EventsBalance
<1>2. ASSUME NEW t \in Tx, Ingest(t)
      PROVE  Evented' /\ EventsBalance'
  <2> DEFINE row   == Parsed(t, Blank, Data[t].amount)
             event == [account  |-> [amount |-> row.amount, direction |-> Data[t].direction],
                       category |-> IF row.label = None THEN None
                                    ELSE [label |-> row.label, amount |-> row.amount,
                                          direction |-> Opposite(Data[t].direction)]]
  <2>1. posted' = [posted EXCEPT ![t] = event] /\ ~Data[t].imported
    BY <1>2 DEF Ingest
  <2> HIDE DEF row
  <2>2. event.category # None =>
          /\ event.category.amount = event.account.amount
          /\ {event.category.direction, event.account.direction} = {"debit", "credit"}
    <3>1. Data[t].direction \in {"debit", "credit"}
      BY <2>1, ConstantsAssumption
    <3> QED BY <3>1 DEF Opposite
  <2> HIDE DEF event
  <2> QED BY <2>1, <2>2 DEF TypeOK, Evented, EventsBalance
<1>3. ASSUME NEW rows \in SUBSET Tx, NEW row,
             posted' = [p \in Tx |-> IF p \in rows THEN Synced(p, row[p]) ELSE posted[p]]
      PROVE  Evented' /\ EventsBalance'
  <2> SUFFICES ASSUME NEW p \in Tx, posted'[p] # None
               PROVE  /\ ~Data[p].imported
                      /\ posted'[p].category # None =>
                           /\ posted'[p].category.amount = posted'[p].account.amount
                           /\ {posted'[p].category.direction, posted'[p].account.direction} = {"debit", "credit"}
    BY DEF Evented, EventsBalance
  <2>1. CASE p \in rows
    <3>1. posted'[p] = Synced(p, row[p])
      BY <1>3, <2>1
    <3>2. posted[p] # None
      BY <3>1 DEF Synced
    <3>3. ~Data[p].imported
      BY <3>2 DEF Evented
    <3> QED BY <3>1, <3>3, SyncedBalances
  <2>2. CASE p \notin rows
    BY <1>3, <2>2 DEF Evented, EventsBalance
  <2> QED BY <2>1, <2>2
<1>4. ASSUME NEW t \in Tx, NEW c \in Label, Classify(t, c)
      PROVE  Evented' /\ EventsBalance'
  <2> DEFINE row == [p \in Tx |-> Labelled(p, c)]
  <2>1. PICK past \in BOOLEAN :
          LET rows == {t} \cup (IF past THEN Past(t, c) ELSE {}) IN
          posted' = [p \in Tx |-> IF p \in rows THEN Synced(p, Labelled(p, c)) ELSE posted[p]]
    BY <1>4 DEF Classify
  <2> DEFINE rows == {t} \cup (IF past THEN Past(t, c) ELSE {})
  <2>2. rows \in SUBSET Tx
    BY DEF Past, Present
  <2>3. posted' = [p \in Tx |-> IF p \in rows THEN Synced(p, row[p]) ELSE posted[p]]
    BY <2>1
  <2> HIDE DEF rows, row
  <2> QED BY <1>3, <2>2, <2>3
<1>5. ASSUME NEW t \in Tx, Exclude(t)
      PROVE  Evented' /\ EventsBalance'
  <2>1. PICK row : posted' = [posted EXCEPT ![t] = Synced(t, row)]
    BY <1>5 DEF Exclude
  <2> DEFINE all == [p \in Tx |-> row]
  <2>2. posted' = [p \in Tx |-> IF p \in {t} THEN Synced(p, all[p]) ELSE posted[p]]
    BY <2>1 DEF TypeOK
  <2> HIDE DEF all
  <2> QED BY <1>3, <2>2
<1> QED BY <1>1, <1>2, <1>4, <1>5, Proceeds
     DEF Next, Import, Reparse, Reimburse, Unmark, Flag, Resolve, Merge, UpdateRule, DeleteRule, StartReconcile

\* Double entry holds of every event, whatever happened to its row.
THEOREM DoubleEntry == Spec => []EventsBalance
<1>1. Init => Evented /\ EventsBalance
  BY DEF Init, Evented, EventsBalance
<1>2. (TypeOK /\ RunsSound) /\ (Evented /\ EventsBalance) /\ [Next]_vars => (Evented /\ EventsBalance)'
  <2>1. UNCHANGED vars /\ Evented /\ EventsBalance => (Evented /\ EventsBalance)'
    BY DEF vars, Evented, EventsBalance
  <2> QED BY <2>1, BalanceStep
<1> QED BY <1>1, <1>2, Base, PTL DEF Spec

-----------------------------------------------------------------------------
(* What the user said.                                                     *)

\* Why a row the user spoke against does not count: each word left a mark on the row
\* that no later writer of the row takes away without taking back the word.
Stands(row, words, direction) ==
  /\ "duplicate" \in words => row.duplicate = TRUE
  /\ "not_a_transaction" \in words =>
       /\ row.verified = TRUE
       /\ direction = "credit" \/ row.type \in {"not_a_transaction", "transfer"}
  /\ "reimbursed" \in words => row.verified = TRUE /\ row.excluded = TRUE

AllStand == \A t \in Tx : said[t] # {} => tx[t] # None /\ Stands(tx[t], said[t], Data[t].direction)

LEMMA StandsOut ==
  ASSUME TypeOK, AllStand
  PROVE  ExclusionsHold
<1> SUFFICES ASSUME NEW t \in Tx, said[t] # {}, Counted(t)
             PROVE  FALSE
  BY DEF ExclusionsHold
<1>1. tx[t] # None /\ Stands(tx[t], said[t], Data[t].direction)
  BY DEF AllStand
<1>2. PICK w \in Words : w \in said[t]
  BY DEF TypeOK
<1>3. w \in {"not_a_transaction", "duplicate", "reimbursed"}
  BY DEF Words, Blocking
<1> QED BY <1>1, <1>2, <1>3 DEF Stands, Counted

\* The words of a row are kept when its marks are, and a row not spoken against is free.
LEMMA StandsFrame ==
  ASSUME AllStand, NEW t \in Tx,
         \A o \in Tx \ {t} : tx'[o] = tx[o] /\ said'[o] = said[o],
         said'[t] # {} => tx'[t] # None /\ Stands(tx'[t], said'[t], Data[t].direction)
  PROVE  AllStand'
BY DEF AllStand

\* What a re-reading or a label does not touch.
LEMMA ParsedKeeps ==
  ASSUME NEW t \in Tx, NEW row \in Row, NEW amount
  PROVE  Parsed(t, row, amount).duplicate = row.duplicate
BY DEF Parsed, Row

LEMMA LabelledKeeps ==
  ASSUME TypeOK, NEW t \in Tx, tx[t] # None, NEW c \in Label
  PROVE  Labelled(t, c).duplicate = tx[t].duplicate
<1> DEFINE row == [tx[t] EXCEPT !.label = c, !.verified = TRUE, !.review = FALSE, !.by = "user"]
<1>1. tx[t] \in Row
  BY DEF TypeOK
<1>2. row \in Row /\ row.duplicate = tx[t].duplicate
  BY <1>1 DEF Row
<1> HIDE DEF row
<1>3. SideEffects(t, row).duplicate = row.duplicate
  BY <1>2 DEF SideEffects, Row
<1> QED BY <1>2, <1>3 DEF Labelled, row

LEMMA StandsReconcile ==
  ASSUME TypeOK, AllStand, NEW refunds, \A l \in refunds : Data[l.from].direction = "credit",
         Reconciles(refunds), said' = said
  PROVE  AllStand'
<1> SUFFICES ASSUME NEW t \in Tx, said[t] # {}
             PROVE  tx'[t] # None /\ Stands(tx'[t], said[t], Data[t].direction)
  BY DEF AllStand
<1>1. tx[t] # None /\ Stands(tx[t], said[t], Data[t].direction)
  BY DEF AllStand
<1>2. CASE tx'[t] = tx[t]
  BY <1>1, <1>2
<1>3. CASE Marks(tx[t], tx'[t], t \in Froms(refunds))
  <2>1. tx'[t] # None
    BY <1>3, NoneAssumption DEF Marks
  <2>2. t \in Froms(refunds) => Data[t].direction = "credit"
    BY DEF Froms
  <2> QED BY <1>1, <1>3, <2>1, <2>2 DEF Marks, Stands
<1> QED BY <1>2, <1>3 DEF Reconciles

LEMMA StandsClassify ==
  ASSUME TypeOK, AllStand, NEW t \in Tx, NEW c \in Label, Classify(t, c)
  PROVE  AllStand'
<1>1. PICK past \in BOOLEAN :
        LET rows == {t} \cup (IF past THEN Past(t, c) ELSE {}) IN
        tx' = [p \in Tx |-> IF p \in rows THEN Labelled(p, c) ELSE tx[p]]
  BY DEF Classify
<1> DEFINE rows == {t} \cup (IF past THEN Past(t, c) ELSE {})
<1>2. rows \subseteq Present /\ \A p \in rows : p # t => tx[p].verified # TRUE
  BY DEF Past, Present, Classify
<1>3. tx' = [p \in Tx |-> IF p \in rows THEN Labelled(p, c) ELSE tx[p]]
  BY <1>1
<1> HIDE DEF rows
<1>4. said' = [said EXCEPT ![t] = said[t] \cap {"duplicate"}] /\ DOMAIN said = Tx
  BY DEF Classify, TypeOK
<1>5. ASSUME NEW p \in rows
      PROVE  said'[p] # {} => tx'[p] # None /\ Stands(tx'[p], said'[p], Data[p].direction)
  <2>1. p \in Tx /\ tx[p] # None /\ tx'[p] = Labelled(p, c)
    BY <1>2, <1>3 DEF Present
  <2>2. tx'[p] # None /\ tx'[p].duplicate = tx[p].duplicate
    BY <2>1, LabelledRow, LabelledKeeps, NoneAssumption
  <2>3. said[p] # {} => Stands(tx[p], said[p], Data[p].direction)
    BY <2>1 DEF AllStand
  <2>4. said'[p] \subseteq said[p] /\ ("not_a_transaction" \notin said'[p]) /\ ("reimbursed" \notin said'[p])
    <3>1. CASE p = t
      BY <1>4, <3>1
    <3>2. CASE p # t
      BY <1>2, <1>4, <2>1, <2>3, <3>2 DEF Stands
    <3> QED BY <3>1, <3>2
  <2> QED BY <2>2, <2>3, <2>4 DEF Stands
<1>6. ASSUME NEW p \in Tx, p \notin rows
      PROVE  said'[p] # {} => tx'[p] # None /\ Stands(tx'[p], said'[p], Data[p].direction)
  <2>1. t \in rows
    BY DEF rows
  <2> QED BY <1>3, <1>4, <1>6, <2>1 DEF AllStand
<1> QED BY <1>5, <1>6 DEF AllStand

LEMMA StandsRow ==
  ASSUME TypeOK, AllStand, NEW t \in Tx,
         Ingest(t) \/ Import(t) \/ Reparse(t) \/ Exclude(t) \/ Reimburse(t) \/ Unmark(t)
  PROVE  AllStand'
<1>1. said \in [Tx -> SUBSET Words] /\ tx \in [Tx -> Row \cup {None}]
  BY DEF TypeOK
<1>2. \A o \in Tx \ {t} : tx'[o] = tx[o] /\ said'[o] = said[o]
  BY <1>1 DEF Ingest, Import, Reparse, Exclude, Reimburse, Unmark
<1>3. said[t] # {} => tx[t] # None /\ Stands(tx[t], said[t], Data[t].direction)
  BY DEF AllStand
<1>4. CASE Ingest(t) \/ Import(t)
  <2>1. tx[t] = None /\ said' = said
    BY <1>4 DEF Ingest, Import
  <2> QED BY <1>2, <1>3, <2>1, StandsFrame
<1>5. CASE Reparse(t)
  <2> DEFINE row == Parsed(t, tx[t], Data[t].amended)
  <2>1. /\ tx[t] # None /\ tx[t] \in Row /\ tx'[t] = row /\ said'[t] = said[t] \cap {"duplicate"}
    BY <1>1, <1>5 DEF Reparse
  <2>2. row.duplicate = tx[t].duplicate
    BY <2>1, ParsedKeeps
  <2>3. tx'[t] # None
    BY <1>5, <2>1, TypeReparse DEF Grows
  <2> HIDE DEF row
  <2>4. said'[t] # {} => Stands(tx'[t], said'[t], Data[t].direction)
    BY <1>3, <2>1, <2>2 DEF Stands
  <2> QED BY <1>2, <2>3, <2>4, StandsFrame
<1>6. CASE Exclude(t)
  <2>1. /\ tx[t] # None /\ tx[t] \in Row /\ said'[t] = (said[t] \cap {"duplicate"}) \cup {"not_a_transaction"}
        /\ tx'[t].duplicate = tx[t].duplicate /\ tx'[t].verified = TRUE
        /\ tx'[t].type = "not_a_transaction"
    BY <1>1, <1>6 DEF Exclude, Row
  <2>2. tx'[t] # None
    BY <1>6, <2>1, TypeExclude DEF Grows
  <2>3. Stands(tx'[t], said'[t], Data[t].direction)
    BY <1>3, <2>1 DEF Stands
  <2> QED BY <1>2, <2>2, <2>3, StandsFrame
<1>7. CASE Reimburse(t)
  <2>1. /\ tx[t] # None /\ tx[t] \in Row /\ said'[t] = (said[t] \cap {"duplicate"}) \cup {"reimbursed"}
        /\ tx'[t].duplicate = tx[t].duplicate /\ tx'[t].verified = TRUE
        /\ tx'[t].excluded = TRUE
    BY <1>1, <1>7 DEF Reimburse, Reimbursed, Row
  <2>2. tx'[t] # None
    BY <1>7, <2>1, TypeReimburse DEF Grows
  <2>3. Stands(tx'[t], said'[t], Data[t].direction)
    BY <1>3, <2>1 DEF Stands
  <2> QED BY <1>2, <2>2, <2>3, StandsFrame
<1>8. CASE Unmark(t)
  <2>1. /\ tx[t] # None /\ tx[t] \in Row /\ said'[t] = said[t] \cap {"not_a_transaction"}
        /\ tx'[t].verified = tx[t].verified /\ tx'[t].type = tx[t].type
    BY <1>1, <1>8 DEF Unmark, Row
  <2>2. tx'[t] # None
    BY <1>8, <2>1, TypeUnmark DEF Grows
  <2>3. said'[t] # {} => Stands(tx'[t], said'[t], Data[t].direction)
    BY <1>3, <2>1 DEF Stands
  <2> QED BY <1>2, <2>2, <2>3, StandsFrame
<1> QED BY <1>4, <1>5, <1>6, <1>7, <1>8

LEMMA StandsMerge ==
  ASSUME TypeOK, AllStand, NEW p \in Tx, NEW d \in Tx, Merge(p, d)
  PROVE  AllStand'
<1>1. said \in [Tx -> SUBSET Words] /\ tx \in [Tx -> Row \cup {None}]
  BY DEF TypeOK
<1>2. \A o \in Tx \ {d} : tx'[o] = tx[o] /\ said'[o] = said[o]
  BY <1>1 DEF Merge
<1>3. /\ tx[d] # None /\ tx[d] \in Row /\ said'[d] = said[d] \cup {"duplicate"}
      /\ tx'[d].duplicate = TRUE /\ tx'[d].excluded = TRUE
      /\ tx'[d].verified = tx[d].verified /\ tx'[d].type = tx[d].type
  BY <1>1 DEF Merge, Row
<1>4. tx'[d] # None
  BY <1>3, TypeMerge DEF Grows
<1>5. said[d] # {} => Stands(tx[d], said[d], Data[d].direction)
  BY DEF AllStand
<1>6. Stands(tx'[d], said'[d], Data[d].direction)
  BY <1>3, <1>5 DEF Stands
<1> QED BY <1>2, <1>4, <1>6, StandsFrame

LEMMA StandsResolve ==
  ASSUME TypeOK, AllStand, NEW t \in Tx, NEW i \in Issue, NEW status \in IssueStatus, Resolve(t, i, status)
  PROVE  AllStand'
<1>1. CASE UNCHANGED <<tx, said>>
  BY <1>1 DEF AllStand
<1>2. CASE status = "resolved"
  <2>1. said \in [Tx -> SUBSET Words] /\ tx \in [Tx -> Row \cup {None}]
    BY DEF TypeOK
  <2>2. \A o \in Tx \ {t} : tx'[o] = tx[o] /\ said'[o] = said[o]
    BY <1>2, <2>1 DEF Resolve
  <2>3. tx[t] # None /\ tx[t] \in Row /\ tx'[t] = Confirmed(t, i)
    BY <1>2, <2>1 DEF Resolve
  <2>4. tx'[t] # None
    BY <2>3, TypeResolve DEF Grows
  <2>5. said[t] # {} => Stands(tx[t], said[t], Data[t].direction)
    BY DEF AllStand
  <2>6. CASE i = "not_a_transaction"
    <3>1. said'[t] = (said[t] \cap {"duplicate"}) \cup {"not_a_transaction"}
      BY <1>2, <2>1, <2>6 DEF Resolve
    <3>2. /\ tx'[t].verified = TRUE /\ tx'[t].type = "not_a_transaction"
          /\ tx'[t].duplicate = tx[t].duplicate
      BY <2>3, <2>6 DEF Confirmed, Row
    <3>3. Stands(tx'[t], said'[t], Data[t].direction)
      BY <2>5, <3>1, <3>2 DEF Stands
    <3> QED BY <2>2, <2>4, <3>3, StandsFrame
  <2>7. CASE i = "duplicate"
    <3>1. said'[t] = said[t] \cup {"duplicate"}
      BY <1>2, <2>1, <2>7 DEF Resolve
    <3>2. /\ tx'[t].verified = TRUE /\ tx'[t].type = tx[t].type
          /\ tx'[t].duplicate = TRUE /\ tx'[t].excluded = TRUE
      BY <2>3, <2>7 DEF Confirmed, Row
    <3>3. Stands(tx'[t], said'[t], Data[t].direction)
      BY <2>5, <3>1, <3>2 DEF Stands
    <3> QED BY <2>2, <2>4, <3>3, StandsFrame
  <2>8. CASE i = "other"
    <3>1. said'[t] = said[t] /\ tx'[t] = tx[t]
      BY <1>2, <2>1, <2>3, <2>8 DEF Resolve, Confirmed
    <3> QED BY <2>2, <2>4, <2>5, <3>1, StandsFrame
  <2> QED BY <2>6, <2>7, <2>8 DEF Issue, Blocking
<1> QED BY <1>1, <1>2 DEF Resolve

LEMMA StandsStep ==
  ASSUME TypeOK, RunsSound, AllStand, Next
  PROVE  AllStand'
<1>1. CASE tx' = tx /\ said' = said
  BY <1>1 DEF AllStand
<1>2. ASSUME NEW p \in Runner, PairRefunds(p) \/ PairTransfers(p)
      PROVE  AllStand'
  <2>1. said' = said
    BY <1>2 DEF PairRefunds, PairTransfers
  <2>2. PICK refunds : (\A l \in refunds : Data[l.from].direction = "credit") /\ Reconciles(refunds)
    BY <1>2, TypeReconcile
  <2> QED BY <2>1, <2>2, StandsReconcile
<1> QED BY <1>1, <1>2, StandsRow, StandsClassify, StandsMerge, StandsResolve
     DEF Next, Flag, UpdateRule, DeleteRule, StartReconcile

\* What the user took out of spending stays out, however many reconciliations run.
THEOREM ExclusionsKept == Spec => []ExclusionsHold
<1>1. Init => AllStand
  BY DEF Init, AllStand
<1>2. (TypeOK /\ RunsSound) /\ AllStand /\ [Next]_vars => AllStand'
  <2>1. UNCHANGED vars /\ AllStand => AllStand'
    BY DEF vars, AllStand
  <2> QED BY <2>1, StandsStep
<1> QED BY <1>1, <1>2, Base, StandsOut, PTL DEF Spec

-----------------------------------------------------------------------------
(* Nothing is paired twice.                                                *)

\* A pairing uses each debit and each credit once, and none that was used before.
LEMMA PairingDisjoint ==
  ASSUME TypeOK, NEW debits \in SUBSET Present, NEW paired, NEW rows,
         NEW pairs \in TransferLinks(debits, paired, rows),
         \A d \in debits : Data[d].direction = "debit" /\ d \notin paired
  PROVE  /\ \A l \in pairs : l.from \notin paired /\ l.to \notin paired
         /\ \A k, l \in pairs : {k.from, k.to} \cap {l.from, l.to} # {} => k = l
<1>1. PICK turn \in Turns(debits) : \A d \in debits :
        LET earlier  == {l \in pairs : turn[l.from] < turn[d]}
            receipts == Receipts(d, Loaded(rows, d).amount, paired \cup UsedUp(earlier))
        IN  {l \in pairs : l.from = d} =
              IF receipts = {} THEN {}
              ELSE {[from |-> d, to |-> Earliest(receipts), kind |-> "transfer"]}
  BY DEF TransferLinks
<1>2. pairs \subseteq [from : debits, to : Credits, kind : {"transfer"}]
  BY DEF TransferLinks
<1>3. /\ turn \in [debits -> Int]
      /\ \A a, b \in debits : a # b => turn[a] # turn[b]
  <2>1. Cardinality(debits) \in Nat
    <3>1. IsFiniteSet(debits)
      BY FS_Subset, ConstantsAssumption DEF Present
    <3> QED BY <3>1, FS_CardinalityType
  <2> QED BY <2>1 DEF Turns
<1> DEFINE Receipt(d) == Receipts(d, Loaded(rows, d).amount,
                                  paired \cup UsedUp({l \in pairs : turn[l.from] < turn[d]}))
<1>4. ASSUME NEW l \in pairs
      PROVE  /\ l.from \in debits /\ l.to \in Credits
             /\ l = [from |-> l.from, to |-> Earliest(Receipt(l.from)), kind |-> "transfer"]
             /\ l.to \in Receipt(l.from)
  <2>1. l.from \in debits /\ l.to \in Credits
    BY <1>2
  <2> DEFINE S == Receipt(l.from)
  <2>2. {k \in pairs : k.from = l.from} =
          IF S = {} THEN {} ELSE {[from |-> l.from, to |-> Earliest(S), kind |-> "transfer"]}
    BY <1>1, <2>1
  <2>3. S \in SUBSET Tx
    BY DEF Receipts, Credits, Present
  <2> HIDE DEF S
  <2>4. l = [from |-> l.from, to |-> Earliest(S), kind |-> "transfer"] /\ S # {}
    BY <2>2
  <2>5. l.to = Earliest(S)
    BY <2>4
  <2>6. Earliest(S) \in S
    BY <2>3, <2>4, EarliestIn
  <2> QED BY <2>1, <2>4, <2>5, <2>6 DEF S
<1>5. \A l \in pairs : l.to \notin paired /\ \A k \in pairs : turn[k.from] < turn[l.from] => l.to # k.to
  <2> SUFFICES ASSUME NEW l \in pairs
               PROVE  l.to \notin paired /\ \A k \in pairs : turn[k.from] < turn[l.from] => l.to # k.to
    OBVIOUS
  <2> DEFINE earlier == {k \in pairs : turn[k.from] < turn[l.from]}
  <2>1. l.to \in Receipt(l.from)
    BY <1>4
  <2>2. l.to \notin paired \cup UsedUp(earlier)
    BY <2>1 DEF Receipts
  <2>3. \A k \in earlier : k.to \in UsedUp(earlier)
    BY DEF UsedUp, Ends
  <2> QED BY <2>2, <2>3
<1> HIDE DEF Receipt
<1>6. ASSUME NEW k \in pairs, NEW l \in pairs, k.to = l.to
      PROVE  k = l
  <2>1. CASE k.from = l.from
    BY <1>4, <2>1
  <2>2. CASE k.from # l.from
    <3>1. turn[k.from] # turn[l.from] /\ turn[k.from] \in Int /\ turn[l.from] \in Int
      BY <1>3, <1>4, <2>2
    <3>2. turn[k.from] < turn[l.from] \/ turn[l.from] < turn[k.from]
      BY <3>1
    <3> QED BY <1>5, <1>6, <3>2
  <2> QED BY <2>1, <2>2
<1>7. ASSUME NEW k \in pairs, NEW l \in pairs, k.from = l.from
      PROVE  k = l
  BY <1>4, <1>7
<1>8. \A k, l \in pairs : k.from # l.to
  BY <1>4 DEF Credits
<1> QED BY <1>4, <1>5, <1>6, <1>7, <1>8

\* Assumed: nobody else reconciles. The scheduler runs one reconciliation after another;
\* nothing keeps a request or the command line from running one next to it.
OneRunner == \A p, q \in Runner : p = q

\* What a run knows to be unpaired is unpaired.
PairsOpen ==
  \A p \in Runner : runs[p] # None =>
    /\ runs[p].at = "refunds" => runs[p].todo \cap Sided("refund", "from") = {}
    /\ runs[p].at = "transfers" => /\ runs[p].paired = PairedTransfers
                                   /\ runs[p].todo \cap runs[p].paired = {}

RefundsOnce   == \A k, l \in links : k.kind = "refund" /\ l.kind = "refund" /\ k.from = l.from => k = l
TransfersOnce == \A k, l \in links : k.kind = "transfer" /\ l.kind = "transfer"
                                     /\ {k.from, k.to} \cap {l.from, l.to} # {} => k = l
CopiesMarked  == \A l \in links : l.kind = "duplicate" => tx[l.to] # None /\ tx[l.to].duplicate = TRUE

Paired == PairsOpen /\ RefundsOnce /\ TransfersOnce

LEMMA PairedCoherent ==
  ASSUME TypeOK, Paired, CopiesMarked
  PROVE  LinksCoherent
BY DEF Paired, RefundsOnce, TransfersOnce, CopiesMarked, LinksCoherent

\* Merging and unmarking touch duplicate links only.
LEMMA PairedFrame ==
  ASSUME Paired, runs' = runs, {l \in links' : l.kind # "duplicate"} = {l \in links : l.kind # "duplicate"}
  PROVE  Paired'
<1>1. \A l : l.kind # "duplicate" => (l \in links' <=> l \in links)
  OBVIOUS
<1>2. \A kind \in {"refund", "transfer"} : {k \in links' : k.kind = kind} = {k \in links : k.kind = kind}
  BY <1>1
<1>3. Sided("refund", "from")' = Sided("refund", "from") /\ PairedTransfers' = PairedTransfers
  BY <1>2 DEF Sided, PairedTransfers
<1>4. PairsOpen'
  BY <1>3 DEF Paired, PairsOpen
<1>5. RefundsOnce' /\ TransfersOnce'
  BY <1>1 DEF Paired, RefundsOnce, TransfersOnce
<1> QED BY <1>4, <1>5 DEF Paired

LEMMA PairedStart ==
  ASSUME TypeOK, Paired, NEW p \in Runner, StartReconcile(p)
  PROVE  Paired'
<1> DEFINE todo == {t \in Present : /\ Data[t].direction = "credit"
                                    /\ t \notin Sided("refund", "from")
                                    /\ tx[t].refund \/ Data[t].reads = "refund"}
           run  == [at |-> "refunds", todo |-> todo, paired |-> {}, rows |-> [t \in todo |-> tx[t]]]
<1>1. runs' = [runs EXCEPT ![p] = run] /\ links' = links
  BY DEF StartReconcile
<1>2. todo \cap Sided("refund", "from") = {}
  OBVIOUS
<1> HIDE DEF todo
<1>3. run.at = "refunds" /\ run.todo = todo
  OBVIOUS
<1> HIDE DEF run
<1>4. Sided("refund", "from")' = Sided("refund", "from") /\ PairedTransfers' = PairedTransfers
  BY <1>1 DEF Sided, PairedTransfers
<1>5. PairsOpen'
  BY <1>1, <1>2, <1>3, <1>4 DEF Paired, PairsOpen, TypeOK
<1>6. RefundsOnce' /\ TransfersOnce'
  BY <1>1 DEF Paired, RefundsOnce, TransfersOnce
<1> QED BY <1>5, <1>6 DEF Paired

LEMMA PairedGoesOn ==
  ASSUME TypeOK, Paired, NEW p \in Runner, GoesOn(p)
  PROVE  Paired'
<1> DEFINE paired == PairedTransfers
           debits == PaymentDebits(paired)
           run    == [at |-> "transfers", todo |-> debits, paired |-> paired,
                      rows |-> [t \in debits |-> tx[t]]]
<1>1. runs' = [runs EXCEPT ![p] = run] /\ links' = links
  BY DEF GoesOn
<1>2. debits \cap paired = {}
  BY DEF PaymentDebits
<1> HIDE DEF debits
<1>3. run.at = "transfers" /\ run.todo = debits /\ run.paired = paired
  OBVIOUS
<1> HIDE DEF run
<1>4. Sided("refund", "from")' = Sided("refund", "from") /\ PairedTransfers' = PairedTransfers
  BY <1>1 DEF Sided, PairedTransfers
<1>5. PairsOpen'
  BY <1>1, <1>2, <1>3, <1>4 DEF Paired, PairsOpen, TypeOK
<1>6. RefundsOnce' /\ TransfersOnce'
  BY <1>1 DEF Paired, RefundsOnce, TransfersOnce
<1> QED BY <1>5, <1>6 DEF Paired

LEMMA PairedFinish ==
  ASSUME TypeOK, OneRunner, Paired, NEW p \in Runner, NEW rows, NEW refunds, NEW transfers,
         Finish(p, rows, refunds, transfers),
         \A l \in refunds : l.kind = "refund" /\ l.from \notin Sided("refund", "from"),
         \A k, l \in refunds : k.from = l.from => k = l,
         \A l \in transfers : l.kind = "transfer" /\ l.from \notin PairedTransfers /\ l.to \notin PairedTransfers,
         \A k, l \in transfers : {k.from, k.to} \cap {l.from, l.to} # {} => k = l
  PROVE  Paired'
<1>1. runs'[p] = None /\ \A q \in Runner : q = p
  BY DEF Finish, TypeOK, OneRunner
<1>2. PairsOpen'
  BY <1>1 DEF PairsOpen
<1>3. links' = links \/ links' = links \cup refunds \cup transfers
  BY DEF Finish
<1>4. \A l \in links : /\ l.kind = "refund" => l.from \in Sided("refund", "from")
                       /\ l.kind = "transfer" => l.from \in PairedTransfers /\ l.to \in PairedTransfers
  BY DEF Sided, PairedTransfers
<1>5. RefundsOnce'
  BY <1>3, <1>4 DEF Paired, RefundsOnce
<1>6. TransfersOnce'
  BY <1>3, <1>4 DEF Paired, TransfersOnce
<1> QED BY <1>2, <1>5, <1>6 DEF Paired

LEMMA PairedReconcile ==
  ASSUME TypeOK, RunsSound, OneRunner, Paired, NEW p \in Runner, PairRefunds(p) \/ PairTransfers(p)
  PROVE  Paired'
<1> DEFINE rows == runs[p].rows
<1>1. /\ runs[p] # None /\ runs[p].todo \subseteq Present
      /\ runs[p].at = "transfers" => \A d \in runs[p].todo : Data[d].direction = "debit"
  BY Proceeds DEF RunsSound
<1>2. /\ runs[p].at = "refunds" => runs[p].todo \cap Sided("refund", "from") = {}
      /\ runs[p].at = "transfers" => /\ runs[p].paired = PairedTransfers
                                     /\ runs[p].todo \cap runs[p].paired = {}
  BY <1>1 DEF Paired, PairsOpen
<1>3. CASE GoesOn(p)
  BY <1>3, PairedGoesOn
<1>4. ASSUME NEW debits \in SUBSET Present, \A d \in debits : Data[d].direction = "debit" /\ d \notin PairedTransfers,
             NEW transfers \in TransferLinks(debits, PairedTransfers, rows)
      PROVE  /\ \A l \in transfers : l.kind = "transfer" /\ l.from \notin PairedTransfers /\ l.to \notin PairedTransfers
             /\ \A k, l \in transfers : {k.from, k.to} \cap {l.from, l.to} # {} => k = l
  BY <1>4, PairingDisjoint, TransferPairs
<1>5. ASSUME runs[p].at = "refunds",
             NEW transfers \in TransferLinks(PaymentDebits(PairedTransfers), PairedTransfers, rows),
             Finish(p, rows, RefundLinks(runs[p].todo, rows), transfers)
      PROVE  Paired'
  <2> DEFINE refunds == RefundLinks(runs[p].todo, rows)
             debits  == PaymentDebits(PairedTransfers)
  <2>1. debits \in SUBSET Present /\ \A d \in debits : Data[d].direction = "debit" /\ d \notin PairedTransfers
    BY DEF PaymentDebits
  <2>2. /\ \A l \in transfers : l.kind = "transfer" /\ l.from \notin PairedTransfers /\ l.to \notin PairedTransfers
        /\ \A k, l \in transfers : {k.from, k.to} \cap {l.from, l.to} # {} => k = l
    BY <1>4, <2>1
  <2>3. \A l \in refunds : l.kind = "refund" /\ l.from \notin Sided("refund", "from")
    BY <1>1, <1>2, <1>5, RefundPairs
  <2>4. \A k, l \in refunds : k.from = l.from => k = l
    BY DEF RefundLinks
  <2> HIDE DEF refunds, debits, rows
  <2>5. Finish(p, rows, refunds, transfers)
    BY <1>5 DEF refunds
  <2> QED BY <2>2, <2>3, <2>4, <2>5, PairedFinish
<1>6. ASSUME runs[p].at = "transfers",
             NEW transfers \in TransferLinks(runs[p].todo, runs[p].paired, rows),
             Finish(p, rows, {}, transfers)
      PROVE  Paired'
  <2>1. /\ \A l \in transfers : l.kind = "transfer" /\ l.from \notin PairedTransfers /\ l.to \notin PairedTransfers
        /\ \A k, l \in transfers : {k.from, k.to} \cap {l.from, l.to} # {} => k = l
    BY <1>1, <1>2, <1>4, <1>6
  <2> HIDE DEF rows
  <2> QED BY <1>6, <2>1, PairedFinish
<1> QED BY <1>3, <1>5, <1>6, Proceeds

\* Only unmarking takes a duplicate mark away.
MarksStay == \A t \in Tx : tx[t] # None /\ tx[t].duplicate = TRUE => tx'[t] # None /\ tx'[t].duplicate = TRUE

LEMMA RowMarksStay ==
  ASSUME TypeOK, NEW t \in Tx, Ingest(t) \/ Import(t) \/ Reparse(t) \/ Exclude(t) \/ Reimburse(t)
  PROVE  MarksStay
<1>1. tx \in [Tx -> Row \cup {None}]
  BY DEF TypeOK
<1>2. \A o \in Tx \ {t} : tx'[o] = tx[o]
  BY <1>1 DEF Ingest, Import, Reparse, Exclude, Reimburse
<1>3. Grows
  BY TypeIngest, TypeImport, TypeReparse, TypeExclude, TypeReimburse
<1>4. CASE Ingest(t) \/ Import(t)
  BY <1>2, <1>4 DEF Ingest, Import, MarksStay
<1>5. CASE Reparse(t)
  <2>1. tx[t] \in Row /\ tx'[t] = Parsed(t, tx[t], Data[t].amended)
    BY <1>1, <1>5 DEF Reparse
  <2> QED BY <1>2, <1>3, <2>1, ParsedKeeps DEF MarksStay, Grows
<1>6. CASE Exclude(t)
  <2>1. tx[t] \in Row /\ tx'[t].duplicate = tx[t].duplicate
    BY <1>1, <1>6 DEF Exclude, Row
  <2> QED BY <1>2, <1>3, <2>1 DEF MarksStay, Grows
<1>7. CASE Reimburse(t)
  <2>1. tx[t] \in Row /\ tx'[t].duplicate = tx[t].duplicate
    BY <1>1, <1>7 DEF Reimburse, Reimbursed, Row
  <2> QED BY <1>2, <1>3, <2>1 DEF MarksStay, Grows
<1> QED BY <1>4, <1>5, <1>6, <1>7

LEMMA CopiesStay ==
  ASSUME CopiesMarked, MarksStay, TypeOK, \A l \in links' : l.kind = "duplicate" => l \in links
  PROVE  CopiesMarked'
BY DEF CopiesMarked, MarksStay, TypeOK, Link

LEMMA CopiesStep ==
  ASSUME TypeOK, RunsSound, CopiesMarked, Next
  PROVE  CopiesMarked'
<1>1. CASE UNCHANGED <<tx, links>>
  BY <1>1 DEF CopiesMarked
<1>2. ASSUME NEW t \in Tx, Ingest(t) \/ Import(t) \/ Reparse(t) \/ Exclude(t) \/ Reimburse(t)
      PROVE  CopiesMarked'
  <2>1. links' = links
    BY <1>2 DEF Ingest, Import, Reparse, Exclude, Reimburse
  <2> QED BY <1>2, <2>1, RowMarksStay, CopiesStay
<1>3. ASSUME NEW t \in Tx, Unmark(t)
      PROVE  CopiesMarked'
  <2>1. /\ \A l \in links' : l \in links /\ (l.kind = "duplicate" => l.to # t)
        /\ \A o \in Tx \ {t} : tx'[o] = tx[o]
    BY <1>3 DEF Unmark, UnmarkedLinks, TypeOK
  <2> QED BY <2>1 DEF CopiesMarked, TypeOK, Link
<1>4. ASSUME NEW t \in Tx, NEW c \in Label, Classify(t, c)
      PROVE  CopiesMarked'
  <2>1. \A p \in Tx : tx[p] # None => tx'[p] = tx[p] \/ tx'[p] = Labelled(p, c)
    BY <1>4 DEF Classify
  <2>2. Grows /\ links' = links
    BY <1>4, TypeClassify DEF Classify
  <2>3. MarksStay
    BY <2>1, <2>2, LabelledKeeps DEF MarksStay, Grows
  <2> QED BY <2>2, <2>3, CopiesStay
<1>5. ASSUME NEW p \in Tx, NEW d \in Tx, Merge(p, d)
      PROVE  CopiesMarked'
  <2>1. tx \in [Tx -> Row \cup {None}]
    BY DEF TypeOK
  <2>2. /\ tx'[d].duplicate = TRUE /\ \A o \in Tx \ {d} : tx'[o] = tx[o]
        /\ links' = links \cup {[from |-> p, to |-> d, kind |-> "duplicate"]}
    BY <1>5, <2>1 DEF Merge, Row
  <2>3. tx'[d] # None
    BY <1>5, TypeMerge DEF Grows, Merge
  <2>4. ASSUME NEW l \in links', l.kind = "duplicate"
        PROVE  tx'[l.to] # None /\ tx'[l.to].duplicate = TRUE
    <3>1. CASE l \in links
      <4>1. l.to \in Tx /\ tx[l.to] # None /\ tx[l.to].duplicate = TRUE
        BY <2>4, <3>1 DEF CopiesMarked, TypeOK, Link
      <4> QED BY <2>2, <2>3, <4>1
    <3>2. CASE l \notin links
      BY <2>2, <2>3, <3>2
    <3> QED BY <3>1, <3>2
  <2> QED BY <2>4 DEF CopiesMarked
<1>6. ASSUME NEW t \in Tx, NEW i \in Issue, NEW s \in IssueStatus, Resolve(t, i, s)
      PROVE  CopiesMarked'
  <2>1. Grows /\ links' = links /\ tx \in [Tx -> Row \cup {None}] /\ i \in {"not_a_transaction", "duplicate", "other"}
    BY <1>6, TypeResolve DEF Resolve, TypeOK, Issue, Blocking
  <2>2. tx[t] \in Row /\ (tx'[t] = tx[t] \/ tx'[t] = Confirmed(t, i)) /\ \A o \in Tx \ {t} : tx'[o] = tx[o]
    BY <1>6, <2>1 DEF Resolve
  <2>3. tx[t].duplicate = TRUE => tx'[t].duplicate = TRUE
    BY <2>1, <2>2 DEF Confirmed, Row
  <2>4. MarksStay
    BY <2>1, <2>2, <2>3 DEF MarksStay, Grows
  <2> QED BY <2>1, <2>4, CopiesStay
<1>7. ASSUME NEW p \in Runner, PairRefunds(p) \/ PairTransfers(p)
      PROVE  CopiesMarked'
  <2>1. PICK refunds : Reconciles(refunds)
    BY <1>7, TypeReconcile
  <2>2. MarksStay
    BY <2>1, NoneAssumption DEF Reconciles, Marks, MarksStay
  <2>3. ASSUME NEW debits \in SUBSET Present, NEW paired, NEW pairs \in TransferLinks(debits, paired, runs[p].rows)
        PROVE  \A l \in pairs : l.kind = "transfer"
    BY TransferPairs
  <2>4. runs[p] # None /\ runs[p].todo \in SUBSET Present /\ PaymentDebits(PairedTransfers) \in SUBSET Present
    BY <1>7, Proceeds DEF RunsSound, PaymentDebits
  <2>5. \A l \in RefundLinks(runs[p].todo, runs[p].rows) : l.kind = "refund"
    BY DEF RefundLinks
  <2>6. ASSUME NEW pairs, NEW transfers, Finish(p, runs[p].rows, pairs, transfers),
               \A l \in pairs \cup transfers : l.kind # "duplicate"
        PROVE  \A l \in links' : l.kind = "duplicate" => l \in links
    BY <2>6 DEF Finish
  <2>7. \A l \in links' : l.kind = "duplicate" => l \in links
    <3>1. CASE GoesOn(p)
      BY <3>1 DEF GoesOn
    <3>2. ASSUME NEW transfers \in TransferLinks(PaymentDebits(PairedTransfers), PairedTransfers, runs[p].rows),
                 Finish(p, runs[p].rows, RefundLinks(runs[p].todo, runs[p].rows), transfers)
          PROVE  \A l \in links' : l.kind = "duplicate" => l \in links
      <4>1. \A l \in transfers : l.kind = "transfer"
        BY <2>3, <2>4
      <4> DEFINE some == RefundLinks(runs[p].todo, runs[p].rows)
      <4>2. \A l \in some \cup transfers : l.kind # "duplicate"
        BY <2>5, <4>1
      <4>3. Finish(p, runs[p].rows, some, transfers)
        BY <3>2
      <4> HIDE DEF some
      <4> QED BY <2>6, <4>2, <4>3
    <3>3. ASSUME NEW transfers \in TransferLinks(runs[p].todo, runs[p].paired, runs[p].rows),
                 Finish(p, runs[p].rows, {}, transfers)
          PROVE  \A l \in links' : l.kind = "duplicate" => l \in links
      <4>1. \A l \in transfers : l.kind = "transfer"
        BY <2>3, <2>4
      <4>2. \A l \in {} \cup transfers : l.kind # "duplicate"
        BY <4>1
      <4> QED BY <2>6, <3>3, <4>2
    <3> QED BY <1>7, <3>1, <3>2, <3>3, Proceeds
  <2> QED BY <2>2, <2>7, CopiesStay
<1> QED BY <1>1, <1>2, <1>3, <1>4, <1>5, <1>6, <1>7
     DEF Next, Flag, UpdateRule, DeleteRule, StartReconcile

LEMMA PairedStep ==
  ASSUME TypeOK, RunsSound, OneRunner, Paired, Next
  PROVE  Paired'
<1>1. CASE UNCHANGED <<links, runs>>
  BY <1>1, PairedFrame
<1>2. ASSUME NEW t \in Tx, Unmark(t)
      PROVE  Paired'
  BY <1>2, PairedFrame DEF Unmark, UnmarkedLinks
<1>3. ASSUME NEW p \in Tx, NEW d \in Tx, Merge(p, d)
      PROVE  Paired'
  BY <1>3, PairedFrame DEF Merge
<1> QED BY <1>1, <1>2, <1>3, PairedStart, PairedReconcile
     DEF Next, Ingest, Import, Reparse, Exclude, Reimburse, Classify, Flag, Resolve, UpdateRule, DeleteRule

\* With one reconciliation at a time no money is paired twice, whatever commits meanwhile.
THEOREM NothingPairedTwice ==
  ASSUME OneRunner
  PROVE  Spec => []LinksCoherent
<1>1. Init => Paired /\ CopiesMarked
  BY DEF Init, Paired, PairsOpen, RefundsOnce, TransfersOnce, CopiesMarked
<1>2. (TypeOK /\ RunsSound) /\ (Paired /\ CopiesMarked) /\ [Next]_vars => (Paired /\ CopiesMarked)'
  <2>1. UNCHANGED vars /\ Paired /\ CopiesMarked => (Paired /\ CopiesMarked)'
    BY PairedFrame DEF vars, CopiesMarked
  <2> QED BY <2>1, PairedStep, CopiesStep
<1> QED BY <1>1, <1>2, Base, PairedCoherent, PTL DEF Spec

-----------------------------------------------------------------------------
(* What was taught.                                                        *)

\* Rule i of rs decides rows of merchant e and name n: it is the merchant's, or it is the
\* name's and the merchant has none that is switched on.
Serves(r, e, n) == (e # None /\ r.entity = e) \/ r.name = n
Decides(rs, i, e, n) ==
  /\ i \in DOMAIN rs /\ rs[i].active = TRUE
  /\ \/ e # None /\ rs[i].entity = e
     \/ /\ rs[i].name = n
        /\ \A j \in DOMAIN rs : e # None /\ rs[j].entity = e => rs[j].active # TRUE

\* A merchant has at most one rule, and so has a name.
OneEach(rs) ==
  \A i, j \in DOMAIN rs :
    \/ rs[i].entity # None /\ rs[i].entity = rs[j].entity
    \/ rs[i].name # None /\ rs[i].name = rs[j].name
    => i = j

Remembers(rs, lessons) ==
  \A e \in Entity \cup {None}, n \in Name :
    lessons[<<e, n>>] # None => \E i \in DOMAIN rs : Decides(rs, i, e, n) /\ rs[i].label = lessons[<<e, n>>]

Lessons == OneEach(rules) /\ Remembers(rules, taught)

\* Rules that do not serve a merchant and name may change without it being noticed there.
LEMMA DecidesFrame ==
  ASSUME NEW rs, NEW new, NEW e, NEW n, NEW i, NEW k, Decides(rs, i, e, n),
         k \in DOMAIN new,
         new[k].active = TRUE /\ new[k].label = rs[i].label,
         new[k].entity = rs[i].entity /\ new[k].name = rs[i].name,
         \A j \in DOMAIN new : \/ \E o \in DOMAIN rs : /\ new[j].entity = rs[o].entity
                                                      /\ new[j].active = rs[o].active
                               \/ ~Serves(new[j], e, n)
  PROVE  Decides(new, k, e, n)
BY DEF Decides, Serves

LEMMA DecidedRule ==
  ASSUME TypeOK, OneEach(rules), NEW e \in Entity \cup {None}, NEW n \in Name, NEW u,
         NEW i \in DOMAIN rules, Decides(rules, i, e, n)
  PROVE  RuleFor(e, n, u) = i /\ i # 0
<1>1. None \notin Name /\ n # None
  BY ConstantsAssumption
<1>2. i \in Nat /\ i # 0 /\ rules \in Seq(Rule)
  BY DEF TypeOK
<1>3. CASE e # None /\ rules[i].entity = e
  <2>1. OfEntity(e) \cap Active = {i}
    BY <1>3 DEF OfEntity, Active, Decides, OneEach
  <2>2. Top(OfEntity(e) \cap Active) \in {i}
    BY <1>2, <2>1, TopIn
  <2> QED BY <1>2, <2>1, <2>2 DEF RuleFor
<1>4. CASE ~(e # None /\ rules[i].entity = e)
  <2>1. rules[i].name = n /\ OfEntity(e) \cap Active = {}
    <3>1. ASSUME NEW j \in DOMAIN rules
          PROVE  rules[j].active \in BOOLEAN
      <4>1. rules[j] \in Rule
        BY <1>2
      <4> QED BY <4>1 DEF Rule
    <3> QED BY <1>4, <3>1 DEF OfEntity, Active, Decides
  <2>2. OfName(n) \cap Active = {i}
    BY <1>1, <2>1 DEF OfName, Active, Decides, OneEach
  <2>3. Top(OfName(n) \cap Active) \in {i}
    BY <1>2, <2>2, TopIn
  <2> QED BY <1>2, <2>1, <2>2, <2>3 DEF RuleFor
<1> QED BY <1>3, <1>4

\* A lesson is remembered, and those it does not void still stand.
LEMMA LessonsTaught ==
  ASSUME TypeOK, Lessons, NEW e \in Entity \cup {None}, NEW n \in Name \cup {None}, NEW u \in Upi \cup {None},
         NEW c \in Label
  PROVE  OneEach(Taught(e, n, u, c)) /\ Remembers(Taught(e, n, u, c), Expecting(e, n, c))
<1> DEFINE new == Taught(e, n, u, c)
           now == Expecting(e, n, c)
<1>1. \A f \in Entity \cup {None}, m \in Name :
        /\ <<f, m>> \in Key
        /\ <<f, m>> = <<e, n>> => now[<<f, m>>] = c
        /\ <<f, m>> # <<e, n>> /\ now[<<f, m>>] # None =>
             /\ now[<<f, m>>] = taught[<<f, m>>]
             /\ ~Related(<<f, m>>, e, n)
             /\ \A i \in Earlier(e, n) : ~Related(<<f, m>>, rules[i].entity, rules[i].name)
  BY DEF Expecting, Key
<1>2. None \notin Name /\ rules \in Seq(Rule) /\ Len(rules) \in Nat /\ DOMAIN rules = 1..Len(rules)
  BY ConstantsAssumption DEF TypeOK
<1> HIDE DEF now
<1>3. CASE Earlier(e, n) # {}
  <2>1. PICK k \in Earlier(e, n) :
           /\ k \in 1..Len(rules) /\ rules[k] \in Rule
           /\ new \in Seq(Rule) /\ Len(new) = Len(rules)
           /\ new[k] = Relearned(rules[k], c)
           /\ \A j \in 1..Len(rules) : j # k => new[j] = rules[j]
    BY <1>3, Relearn
  <2> HIDE DEF new
  <2>2. /\ DOMAIN new = DOMAIN rules
        /\ new[k].label = c /\ new[k].active = TRUE
        /\ \A j \in DOMAIN rules : new[j].entity = rules[j].entity /\ new[j].name = rules[j].name
    <3>1. DOMAIN new = 1..Len(rules)
      BY <2>1
    <3>2. /\ new[k].label = c /\ new[k].active = TRUE
          /\ new[k].entity = rules[k].entity /\ new[k].name = rules[k].name
      <4>1. rules[k] \in Rule /\ new[k] = Relearned(rules[k], c)
        BY <2>1
      <4>2. /\ Relearned(rules[k], c).label = c /\ Relearned(rules[k], c).active = TRUE
            /\ Relearned(rules[k], c).entity = rules[k].entity /\ Relearned(rules[k], c).name = rules[k].name
        BY <4>1, RelearnedRule
      <4> QED BY <4>1, <4>2, Zenon
    <3>3. ASSUME NEW j \in DOMAIN rules
          PROVE  new[j].entity = rules[j].entity /\ new[j].name = rules[j].name
      BY <1>2, <2>1, <3>2
    <3> QED BY <1>2, <3>1, <3>2, <3>3
  <2>3. OneEach(new)
    BY <2>2 DEF OneEach, Lessons
  <2>4. ASSUME NEW f \in Entity \cup {None}, NEW m \in Name, now[<<f, m>>] # None
        PROVE  \E i \in DOMAIN new : Decides(new, i, f, m) /\ new[i].label = now[<<f, m>>]
    <3>1. CASE <<f, m>> = <<e, n>>
      <4>1. f = e /\ m = n
        BY <3>1
      <4>2. CASE OfEntity(e) # {}
        <5>1. e # None /\ rules[k].entity = e
          BY <2>1, <4>2 DEF Earlier, OfEntity
        <5> QED BY <1>1, <1>2, <2>1, <2>2, <3>1, <4>1, <5>1 DEF Decides
      <4>3. CASE OfEntity(e) = {}
        <5>1. rules[k].name = n
          BY <2>1, <4>3 DEF Earlier, OfName
        <5>2. \A j \in DOMAIN new : ~(e # None /\ new[j].entity = e)
          BY <2>2, <4>3 DEF OfEntity
        <5> QED BY <1>1, <1>2, <2>1, <2>2, <3>1, <4>1, <5>1, <5>2 DEF Decides
      <4> QED BY <4>2, <4>3
    <3>2. CASE <<f, m>> # <<e, n>>
      <4>1. /\ now[<<f, m>>] = taught[<<f, m>>]
            /\ ~Related(<<f, m>>, rules[k].entity, rules[k].name)
        BY <1>1, <2>1, <2>4, <3>2
      <4>2. PICK i \in DOMAIN rules : Decides(rules, i, f, m) /\ rules[i].label = taught[<<f, m>>]
        BY <2>4, <4>1 DEF Lessons, Remembers
      <4>3. ~Serves(rules[k], f, m)
        BY <4>1 DEF Related, Serves
      <4>4. i # k
        BY <4>2, <4>3 DEF Decides, Serves
      <4>5. new[i] = rules[i] /\ ~Serves(new[k], f, m)
        BY <1>2, <2>1, <2>2, <4>3, <4>4 DEF Serves
      <4>6. \A j \in DOMAIN new : \/ \E o \in DOMAIN rules : /\ new[j].entity = rules[o].entity
                                                            /\ new[j].active = rules[o].active
                                  \/ ~Serves(new[j], f, m)
        BY <1>2, <2>1, <2>2, <4>5
      <4>7. rules[i].active = TRUE /\ i \in DOMAIN new
        BY <2>2, <4>2 DEF Decides
      <4>8. Decides(new, i, f, m)
        BY <4>2, <4>5, <4>6, <4>7, DecidesFrame
      <4> QED BY <2>2, <4>1, <4>2, <4>5, <4>8
    <3> QED BY <3>1, <3>2
  <2> QED BY <2>3, <2>4 DEF Remembers, now, new
<1>4. CASE Earlier(e, n) = {}
  <2> DEFINE top == Len(rules) + 1
  <2>1. /\ new \in Seq(Rule) /\ Len(new) = Len(rules) + 1
        /\ \A j \in 1..Len(rules) : new[j] = rules[j]
        /\ new[top] = Fresh(e, n, u, c)
    BY <1>4, LearnAnew
  <2> HIDE DEF new
  <2>2. /\ DOMAIN new = (DOMAIN rules) \cup {top} /\ top \notin DOMAIN rules
        /\ \A j \in DOMAIN rules : new[j] = rules[j]
    BY <1>2, <2>1
  <2>3. new[top].entity = e /\ new[top].name = n /\ new[top].label = c /\ new[top].active = TRUE
    BY <2>1 DEF Fresh
  <2> HIDE DEF top
  <2>4. \A j \in DOMAIN rules : /\ e # None => rules[j].entity # e
                                /\ n # None => rules[j].name # n
    BY <1>4 DEF Earlier, OfEntity, OfName
  <2>5. OneEach(new)
    BY <2>2, <2>3, <2>4 DEF OneEach, Lessons
  <2>6. ASSUME NEW f \in Entity \cup {None}, NEW m \in Name, now[<<f, m>>] # None
        PROVE  \E i \in DOMAIN new : Decides(new, i, f, m) /\ new[i].label = now[<<f, m>>]
    <3>1. CASE <<f, m>> = <<e, n>>
      <4>1. f = e /\ m = n /\ now[<<f, m>>] = c
        BY <1>1, <3>1
      <4>2. Decides(new, top, f, m)
        BY <2>2, <2>3, <2>4, <4>1 DEF Decides
      <4> QED BY <2>2, <2>3, <4>1, <4>2
    <3>2. CASE <<f, m>> # <<e, n>>
      <4>1. now[<<f, m>>] = taught[<<f, m>>] /\ ~Related(<<f, m>>, e, n)
        BY <1>1, <2>6, <3>2
      <4>2. PICK i \in DOMAIN rules : Decides(rules, i, f, m) /\ rules[i].label = taught[<<f, m>>]
        BY <2>6, <4>1 DEF Lessons, Remembers
      <4>3. ~Serves(new[top], f, m)
        BY <2>3, <4>1 DEF Related, Serves
      <4>4. \A j \in DOMAIN new : \/ \E o \in DOMAIN rules : /\ new[j].entity = rules[o].entity
                                                            /\ new[j].active = rules[o].active
                                  \/ ~Serves(new[j], f, m)
        BY <2>2, <4>3
      <4>5. rules[i].active = TRUE /\ new[i] = rules[i] /\ i \in DOMAIN new
        BY <2>2, <4>2 DEF Decides
      <4>6. Decides(new, i, f, m)
        BY <4>2, <4>4, <4>5, DecidesFrame
      <4> QED BY <4>1, <4>2, <4>5, <4>6
    <3> QED BY <3>1, <3>2
  <2> QED BY <2>5, <2>6 DEF Remembers, now, new
<1> QED BY <1>3, <1>4

\* An edited rule takes with it the lessons it served; a deleted one moves those after it down.
LEMMA LessonsEdited ==
  ASSUME TypeOK, Lessons, NEW i \in DOMAIN rules, UpdateRule(i) \/ DeleteRule(i)
  PROVE  Lessons'
<1>1. rules \in Seq(Rule) /\ Len(rules) \in Nat /\ DOMAIN rules = 1..Len(rules) /\ i \in 1..Len(rules)
  BY DEF TypeOK
<1>2. \A f \in Entity \cup {None}, m \in Name :
        /\ <<f, m>> \in Key
        /\ taught'[<<f, m>>] # None => /\ taught'[<<f, m>>] = taught[<<f, m>>]
                                       /\ ~Serves(rules[i], f, m)
  BY DEF UpdateRule, DeleteRule, Voiding, Key, Related, Serves
<1>3. CASE UpdateRule(i)
  <2>1. PICK on \in BOOLEAN, p \in 0..2, c \in Label :
          rules' = [rules EXCEPT ![i] = [@ EXCEPT !.active = on, !.priority = p, !.label = c]]
    BY <1>3 DEF UpdateRule
  <2>2. /\ DOMAIN rules' = DOMAIN rules
        /\ \A j \in DOMAIN rules : j # i => rules'[j] = rules[j]
    BY <1>1, <2>1
  <2>3. rules'[i].entity = rules[i].entity /\ rules'[i].name = rules[i].name
    <3>1. rules[i] \in Rule
      BY <1>1
    <3> QED BY <1>1, <2>1, <3>1 DEF Rule
  <2>4. \A j \in DOMAIN rules : rules'[j].entity = rules[j].entity /\ rules'[j].name = rules[j].name
    BY <2>2, <2>3
  <2>5. OneEach(rules')
    BY <2>2, <2>4 DEF OneEach, Lessons
  <2>6. ASSUME NEW f \in Entity \cup {None}, NEW m \in Name, taught'[<<f, m>>] # None
        PROVE  \E k \in DOMAIN rules' : Decides(rules', k, f, m) /\ rules'[k].label = taught'[<<f, m>>]
    <3>1. taught'[<<f, m>>] = taught[<<f, m>>] /\ ~Serves(rules[i], f, m)
      BY <1>2, <2>6
    <3>2. PICK k \in DOMAIN rules : Decides(rules, k, f, m) /\ rules[k].label = taught[<<f, m>>]
      BY <2>6, <3>1 DEF Lessons, Remembers
    <3>3. k # i /\ ~Serves(rules'[i], f, m) /\ rules[k].active = TRUE
      BY <2>3, <3>1, <3>2 DEF Decides, Serves
    <3>4. k \in DOMAIN rules' /\ rules'[k] = rules[k]
      BY <2>2, <3>3
    <3>5. \A j \in DOMAIN rules' : \/ \E o \in DOMAIN rules : /\ rules'[j].entity = rules[o].entity
                                                              /\ rules'[j].active = rules[o].active
                                   \/ ~Serves(rules'[j], f, m)
      BY <2>2, <3>3
    <3>6. Decides(rules', k, f, m)
      BY <3>2, <3>3, <3>4, <3>5, DecidesFrame
    <3> QED BY <3>1, <3>2, <3>4, <3>6
  <2> QED BY <2>5, <2>6 DEF Lessons, Remembers
<1>4. CASE DeleteRule(i)
  <2> DEFINE was(j) == IF j < i THEN j ELSE j + 1
             now(j) == IF j < i THEN j ELSE j - 1
  <2>1. DOMAIN rules' = 1..(Len(rules) - 1) /\ \A j \in DOMAIN rules' : rules'[j] = rules[was(j)]
    <3>1. rules' = RemoveAt(rules, i)
      BY <1>4 DEF DeleteRule
    <3>2. /\ RemoveAt(rules, i) \in Seq(Rule) /\ Len(RemoveAt(rules, i)) = Len(rules) - 1
          /\ \A j \in 1..(Len(rules) - 1) :
               RemoveAt(rules, i)[j] = IF j < i THEN rules[j] ELSE rules[j + 1]
      BY <1>1, Deleted
    <3>3. DOMAIN RemoveAt(rules, i) = 1..(Len(rules) - 1)
      BY <3>2
    <3> QED BY <1>1, <3>1, <3>2, <3>3
  <2>2. \A j \in DOMAIN rules' : was(j) \in DOMAIN rules
    BY <1>1, <2>1
  <2>3. \A j, k \in DOMAIN rules' : was(j) = was(k) => j = k
    BY <1>1, <2>1
  <2>4. \A j \in DOMAIN rules : j # i => now(j) \in DOMAIN rules' /\ was(now(j)) = j
    BY <1>1, <2>1
  <2> HIDE DEF was, now
  <2>5. OneEach(rules')
    BY <2>1, <2>2, <2>3 DEF OneEach, Lessons
  <2>6. ASSUME NEW f \in Entity \cup {None}, NEW m \in Name, taught'[<<f, m>>] # None
        PROVE  \E k \in DOMAIN rules' : Decides(rules', k, f, m) /\ rules'[k].label = taught'[<<f, m>>]
    <3>1. taught'[<<f, m>>] = taught[<<f, m>>] /\ ~Serves(rules[i], f, m)
      BY <1>2, <2>6
    <3>2. PICK k \in DOMAIN rules : Decides(rules, k, f, m) /\ rules[k].label = taught[<<f, m>>]
      BY <2>6, <3>1 DEF Lessons, Remembers
    <3>3. k # i /\ rules[k].active = TRUE
      BY <3>1, <3>2 DEF Decides, Serves
    <3>4. now(k) \in DOMAIN rules' /\ rules'[now(k)] = rules[k]
      BY <2>1, <2>4, <3>3
    <3>5. \A j \in DOMAIN rules' : \/ \E o \in DOMAIN rules : /\ rules'[j].entity = rules[o].entity
                                                              /\ rules'[j].active = rules[o].active
                                   \/ ~Serves(rules'[j], f, m)
      BY <2>1, <2>2
    <3>6. Decides(rules', now(k), f, m)
      BY <3>2, <3>3, <3>4, <3>5, DecidesFrame
    <3> QED BY <3>1, <3>2, <3>4, <3>6
  <2> QED BY <2>5, <2>6 DEF Lessons, Remembers
<1> QED BY <1>3, <1>4

LEMMA LessonsStep ==
  ASSUME TypeOK, Lessons, Next
  PROVE  Lessons'
<1>1. CASE UNCHANGED <<rules, taught>>
  BY <1>1 DEF Lessons
<1>2. ASSUME NEW t \in Tx, NEW c \in Label, Classify(t, c)
      PROVE  Lessons'
  <2>1. CASE rules' = Taught(tx[t].entity, Data[t].name, Data[t].upi, c)
             /\ taught' = Expecting(tx[t].entity, Data[t].name, c)
    <3>1. /\ tx[t].entity \in Entity \cup {None}
          /\ Data[t].name \in Name \cup {None} /\ Data[t].upi \in Upi \cup {None}
      BY <1>2, ConstantsAssumption DEF Classify, TypeOK, Row
    <3> QED BY <2>1, <3>1, LessonsTaught DEF Lessons
  <2> QED BY <1>1, <1>2, <2>1 DEF Classify
<1>3. ASSUME NEW i \in DOMAIN rules, UpdateRule(i) \/ DeleteRule(i)
      PROVE  Lessons'
  BY <1>3, LessonsEdited
<1> QED BY <1>1, <1>2, <1>3
     DEF Next, Ingest, Import, Reparse, Exclude, Reimburse, Unmark, Flag, Resolve, Merge,
         StartReconcile, PairRefunds, PairTransfers

\* A row a rule decides comes in with the rule's label, verified.
LEMMA ParsedByRule ==
  ASSUME TypeOK, NEW t \in Tx, NEW amount \in Amount
  PROVE  LET e == IF Data[t].type = "transfer" THEN None ELSE Data[t].entity
             i == RuleFor(e, Data[t].name, Data[t].upi)
         IN  /\ Parsed(t, Blank, amount).entity = e
             /\ i # 0 => /\ Parsed(t, Blank, amount).label = rules[i].label
                         /\ Parsed(t, Blank, amount).verified = TRUE
<1> DEFINE transfer == Data[t].type = "transfer"
           e        == IF transfer THEN None ELSE Data[t].entity
           i        == RuleFor(e, Data[t].name, Data[t].upi)
           label    == IF i # 0 THEN rules[i].label ELSE IF Data[t].label # None THEN Data[t].label ELSE Blank.label
           refund   == Data[t].type = "refund" \/ (Data[t].direction = "credit" /\ Data[t].reads = "refund")
           excluded == Data[t].type \in {"transfer", "income"}
           ruled    == i # 0
           verified == Blank.verified \/ ruled
           by       == IF ruled THEN "user" ELSE "parser"
           review   == i = 0
           row      == [Blank EXCEPT !.amount = amount, !.type = Data[t].type, !.entity = e,
                          !.transfer = transfer, !.refund = refund, !.excluded = excluded,
                          !.label = label, !.by = by, !.verified = verified, !.review = review,
                          !.skipped = FALSE]
<1>1. Parsed(t, Blank, amount) = row
  BY DEF Parsed
<1>2. verified \in BOOLEAN /\ (i # 0 => verified = TRUE /\ label = rules[i].label)
  OBVIOUS
<1> HIDE DEF transfer, refund, excluded, label, by, verified, review
<1>3. row.entity = e /\ row.label = label
  BY DEF Blank
<1>4. row.verified = verified
  BY Zenon DEF Blank
<1> HIDE DEF row
<1>5. i # 0 => row.label = rules[i].label /\ row.verified = TRUE
  BY <1>2, <1>3, <1>4, Zenon
<1> QED BY <1>1, <1>3, <1>5 DEF transfer

\* What a merchant was taught labels and verifies its next row, whatever the order of the
\* rules, of the lessons and of the edits to them.
THEOREM RulesRemembered == Spec => RulesRemember
<1>1. Init => Lessons
  BY DEF Init, Lessons, OneEach, Remembers, Key
<1>2. TypeOK /\ Lessons /\ [Next]_vars => Lessons'
  <2>1. UNCHANGED vars /\ Lessons => Lessons'
    BY DEF vars, Lessons
  <2> QED BY <2>1, LessonsStep
<1> DEFINE Remembered ==
      \A t \in Tx : Ingest(t) /\ Data[t].name # None =>
        LET c == taught[<<tx'[t].entity, Data[t].name>>]
        IN  c # None => tx'[t].label = c /\ tx'[t].verified
<1>3. TypeOK /\ Lessons => Remembered
  <2> SUFFICES ASSUME TypeOK, Lessons, NEW t \in Tx, Ingest(t), Data[t].name # None,
                      taught[<<tx'[t].entity, Data[t].name>>] # None
               PROVE  /\ tx'[t].label = taught[<<tx'[t].entity, Data[t].name>>]
                      /\ tx'[t].verified = TRUE
    OBVIOUS
  <2> DEFINE e == IF Data[t].type = "transfer" THEN None ELSE Data[t].entity
             n == Data[t].name
             r == RuleFor(e, n, Data[t].upi)
             row == Parsed(t, Blank, Data[t].amount)
  <2>1. e \in Entity \cup {None} /\ n \in Name /\ Data[t].amount \in Amount
    BY ConstantsAssumption DEF Amount
  <2>2. tx'[t] = row
    BY DEF Ingest, TypeOK
  <2>3. row.entity = e /\ (r # 0 => row.label = rules[r].label /\ row.verified = TRUE)
    BY <2>1, ParsedByRule
  <2> HIDE DEF row, e, n
  <2>4. taught[<<tx'[t].entity, n>>] # None /\ tx'[t].entity = e
    BY <2>2, <2>3 DEF n
  <2>5. PICK i \in DOMAIN rules : Decides(rules, i, e, n) /\ rules[i].label = taught[<<e, n>>]
    BY <2>1, <2>4 DEF Lessons, Remembers
  <2>6. r = i /\ i # 0
    BY <2>1, <2>5, DecidedRule DEF Lessons
  <2> HIDE DEF r
  <2>7. row.label = taught[<<e, n>>] /\ row.verified = TRUE
    BY <2>3, <2>5, <2>6
  <2>8. tx'[t].label = taught[<<e, n>>] /\ tx'[t].verified = TRUE
    BY <2>2, <2>7, Zenon
  <2> QED BY <2>4, <2>8 DEF n
<1>4. TypeOK /\ Lessons /\ [Next]_vars => [Remembered]_vars
  BY <1>3
<1> QED BY <1>1, <1>2, <1>4, TypeCorrect, PTL DEF Spec, RulesRemember
=============================================================================
