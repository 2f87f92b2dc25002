------------------------------- MODULE Ledger -------------------------------
(***************************************************************************)
(* The ledger after a transaction has been read: services/transactions.py, *)
(* ledger.py, deduplication.py, reconciliation.py, data_issues.py and      *)
(* classification/rules.py.                                                *)
(*                                                                         *)
(* Mail and statements add rows; the user classifies, excludes, reimburses,*)
(* flags, merges and unmarks them, and teaches rules that label what comes *)
(* next; a re-parse rewrites rows; the scheduler and the user run the      *)
(* reconciliation, which pairs refunds and transfers. A request reads and  *)
(* writes a few rows and is one step. A reconciliation reads the whole     *)
(* ledger before its first write, which is what takes SQLite's lock, and   *)
(* other requests commit in between: it is two steps or three.             *)
(*                                                                         *)
(* Left out: audit rows (corrections, AI feedback), confidences, signals   *)
(* and notes, which nothing here reads.                                    *)
(***************************************************************************)
EXTENDS Integers, FiniteSets, Sequences, SequencesExt

CONSTANTS
  Tx,            \* transactions that may be read
  Label, Kind,   \* category and subcategory pairs, and what each is: see Kinds
  Name, Entity,  \* merchant names as printed, merchants they were resolved to
  Upi, Ref,      \* payment addresses, reference numbers
  None,
  Data,          \* what a parser read of each transaction
  Runner,        \* who reconciles: the scheduler, requests, the command line
  Budgets        \* bounds: how many steps of each kind a behaviour may take

Steps     == {"arrive", "reparse", "classify", "rule", "mark", "flag", "merge", "reconcile"}
Kinds     == {"spending", "transfer", "income", "refund"}
Direction == {"debit", "credit", "outflow", "inflow"}
Type      == {"purchase", "transfer", "income", "refund", "not_a_transaction", "reimbursed", "other"}
Blocking  == {"not_a_transaction", "duplicate"}
Words     == Blocking \cup {"reimbursed"}
Issue     == Blocking \cup {"other"}
IssueStatus == {"open", "resolved", "dismissed"}
Amount    == {d.amount : d \in {Data[t] : t \in Tx}} \cup {d.amended : d \in {Data[t] : t \in Tx}}

ASSUME ConstantsAssumption ==
  /\ IsFiniteSet(Tx) /\ Tx # {} /\ IsFiniteSet(Label) /\ IsFiniteSet(Runner)
  /\ Kind \in [Label -> Kinds]
  /\ \A t \in Tx :
       /\ Data[t].day \in Nat
       /\ Data[t].amount \in Nat /\ Data[t].amended \in Nat
       /\ Data[t].name \in Name \cup {None} /\ Data[t].entity \in Entity \cup {None}
       /\ Data[t].upi \in Upi \cup {None} /\ Data[t].ref \in Ref \cup {None}
       /\ Data[t].reads \in {"plain", "refund", "payment"}
       /\ Data[t].label \in Label \cup {None} /\ Data[t].type \in Type
       /\ Data[t].imported \in BOOLEAN
       /\ Data[t].direction \in (IF Data[t].imported THEN {"outflow", "inflow"} ELSE {"debit", "credit"})
  /\ None \notin Label \cup Name \cup Entity \cup Upi \cup Ref \cup Tx
  /\ Budgets \subseteq [Steps -> Nat]

VARIABLES
  tx,        \* [Tx -> Row or None]: table transactions
  posted,    \* [Tx -> Event or None]: the postings of a transaction's financial event
  links,     \* transaction_links
  issues,    \* [Tx -> [Issue -> IssueStatus or None]]: data_issue_flags, the latest of each type
  rules,     \* classification_rules, oldest first
  runs,      \* [Runner -> Run or None]: reconciliations in progress
  said,      \* [Tx -> SUBSET Words]: what the user holds against a transaction (history)
  taught,    \* [Key -> Label or None]: what the user last taught of a merchant (history)
  left       \* how much of its budget the behaviour has left

vars == <<tx, posted, links, issues, rules, runs, said, taught, left>>

-----------------------------------------------------------------------------
(* Rows.                                                                   *)

Row == [label : Label \cup {None}, type : Type, by : {"parser", "user"}, amount : Amount,
        entity : Entity \cup {None}, verified : BOOLEAN, review : BOOLEAN, transfer : BOOLEAN,
        refund : BOOLEAN, excluded : BOOLEAN, duplicate : BOOLEAN, parent : Tx \cup {None},
        skipped : BOOLEAN]     \* skipped: the parse_status of its e-mail is "skipped"

ASSUME NoneAssumption == None \notin Row

\* The account side and, when there is one, the category side.
Event == [account : [amount : Amount, direction : Direction],
          category : [label : Label, amount : Amount, direction : Direction] \cup {None}]

Rule == [entity : Entity \cup {None}, name : Name \cup {None}, upi : Upi \cup {None},
         label : Label, active : BOOLEAN, priority : 0..2]
UserPriority == 1     \* 100 of 0..1000

Link == [from : Tx, to : Tx, kind : {"refund", "transfer", "duplicate"}]

\* Rows are what the session of the run has loaded and holds: it does not read them again.
IsRun(r) ==
  /\ r.at \in {"refunds", "transfers"} /\ r.todo \subseteq Tx /\ r.paired \subseteq Tx
  /\ DOMAIN r.rows \subseteq Tx /\ \A t \in DOMAIN r.rows : r.rows[t] \in Row

Key == (Entity \cup {None}) \X Name

TypeOK ==
  /\ tx \in [Tx -> Row \cup {None}]
  /\ DOMAIN posted = Tx /\ \A t \in Tx : posted[t] # None => tx[t] # None /\ posted[t] \in Event
  /\ links \subseteq Link
  /\ issues \in [Tx -> [Issue -> IssueStatus \cup {None}]]
  /\ rules \in Seq(Rule)
  /\ DOMAIN runs = Runner /\ \A p \in Runner : runs[p] # None => IsRun(runs[p])
  /\ said \in [Tx -> SUBSET Words]
  /\ taught \in [Key -> Label \cup {None}]
  /\ left \in [Steps -> Nat]

Init ==
  /\ tx = [t \in Tx |-> None]
  /\ posted = [t \in Tx |-> None]
  /\ links = {}
  /\ issues = [t \in Tx |-> [i \in Issue |-> None]]
  /\ rules = <<>>
  /\ runs = [p \in Runner |-> None]
  /\ said = [t \in Tx |-> {}]
  /\ taught = [k \in Key |-> None]
  /\ left \in Budgets

Present == {t \in Tx : tx[t] # None}

Take(step) ==
  /\ left[step] > 0
  /\ left' = [left EXCEPT ![step] = @ - 1]

\* What dashboards and analytics count as spending.
Counted(t) ==
  /\ tx[t] # None
  /\ Data[t].direction = "debit"
  /\ ~tx[t].duplicate /\ ~tx[t].transfer /\ ~tx[t].excluded
  /\ tx[t].type \notin {"not_a_transaction", "transfer"}
  /\ tx[t].label # None => Kind[tx[t].label] # "transfer"
  /\ \A i \in Blocking : issues[t][i] # "open"

-----------------------------------------------------------------------------
(* Postings.                                                               *)

Opposite(d) == IF d = "debit" THEN "credit" ELSE "debit"

\* Mutant: a re-classification brings the category side alone up to date.
SyncedCategoryOnly(t, row) ==
  IF posted[t] = None THEN None
  ELSE [posted[t] EXCEPT
          !.category = IF row.label # None /\ row.type # "not_a_transaction"
                       THEN [label |-> row.label, amount |-> row.amount,
                             direction |-> Opposite(Data[t].direction)]
                       ELSE None]

\* sync_transaction_postings for a row about to be written.
Synced(t, row) ==
  IF posted[t] = None THEN None
  ELSE [account  |-> [amount |-> row.amount, direction |-> Data[t].direction],
        category |-> IF row.label # None /\ row.type # "not_a_transaction"
                     THEN [label |-> row.label, amount |-> row.amount,
                           direction |-> Opposite(Data[t].direction)]
                     ELSE None]

-----------------------------------------------------------------------------
(* Rules.                                                                  *)

Top(S) == CHOOSE i \in S : \A j \in S : \/ rules[j].priority < rules[i].priority
                                        \/ (rules[j].priority = rules[i].priority /\ j <= i)

Active == {i \in DOMAIN rules : rules[i].active}
OfEntity(e) == {i \in DOMAIN rules : e # None /\ rules[i].entity = e}
OfName(n)   == {i \in DOMAIN rules : n # None /\ rules[i].name = n}
OfUpi       == {i \in DOMAIN rules : rules[i].upi # None}

\* The rule a row with this merchant and name is labelled by: the merchant's, else
\* the name's, else the first of all address rules, if its address is the row's.
RuleFor(e, n, u) ==
  IF OfEntity(e) \cap Active # {} THEN Top(OfEntity(e) \cap Active)
  ELSE IF OfName(n) \cap Active # {} THEN Top(OfName(n) \cap Active)
  ELSE IF u # None /\ OfUpi \cap Active # {} /\ rules[Top(OfUpi \cap Active)].upi = u
       THEN Top(OfUpi \cap Active)
  ELSE 0

\* The rules an earlier lesson left: the merchant's, else the name's.
Earlier(e, n) == IF OfEntity(e) # {} THEN OfEntity(e) ELSE OfName(n)
First(S) == CHOOSE i \in S : \A j \in S : i <= j

\* Mutant: a rule the user had switched off takes the new label and stays off.
TaughtAsWas(e, n, u, c) ==
  IF Earlier(e, n) # {}
  THEN [rules EXCEPT ![First(Earlier(e, n))] = [@ EXCEPT !.label = c, !.priority = UserPriority]]
  ELSE Append(rules, [entity |-> e, name |-> n, upi |-> IF n = None THEN u ELSE None,
                      label |-> c, active |-> TRUE, priority |-> UserPriority])

\* upsert_user_classification_rule: active or not, that rule takes the label. A row without either leaves a new rule every time.
Taught(e, n, u, c) ==
  IF Earlier(e, n) # {}
  THEN [rules EXCEPT ![First(Earlier(e, n))] =
          [@ EXCEPT !.label = c, !.priority = UserPriority, !.active = TRUE]]
  ELSE Append(rules, [entity |-> e, name |-> n, upi |-> IF n = None THEN u ELSE None,
                      label |-> c, active |-> TRUE, priority |-> UserPriority])

Related(k, e, n) == (e # None /\ k[1] = e) \/ k[2] = n

\* What the user may now expect of the next row with merchant k[1] and name k[2]: the
\* lesson, and nothing where the rule it changed served another merchant or name.
Expecting(e, n, c) ==
  [k \in Key |-> IF k = <<e, n>> THEN c
                 ELSE IF \/ Related(k, e, n)
                         \/ \E i \in Earlier(e, n) : Related(k, rules[i].entity, rules[i].name)
                      THEN None ELSE taught[k]]

\* Switching, re-ranking, relabelling or deleting a rule voids what rested on it.
Voiding(i) == [k \in Key |-> IF RuleFor(k[1], k[2], None) = i \/ Related(k, rules[i].entity, rules[i].name)
                             THEN None ELSE taught[k]]

UpdateRule(i) ==
  /\ Take("rule")
  /\ \E on \in BOOLEAN, p \in 0..2, c \in Label :
       rules' = [rules EXCEPT ![i] = [@ EXCEPT !.active = on, !.priority = p, !.label = c]]
  /\ taught' = Voiding(i)
  /\ UNCHANGED <<tx, posted, links, issues, runs, said>>

DeleteRule(i) ==
  /\ Take("rule")
  /\ rules' = RemoveAt(rules, i)
  /\ taught' = Voiding(i)
  /\ UNCHANGED <<tx, posted, links, issues, runs, said>>

-----------------------------------------------------------------------------
(* Rows come in.                                                           *)

\* _apply_parsed_fields and apply_parsed_enrichment on a row: everything but the
\* label, the verification and the duplicate mark is read anew; a rule decides the
\* label, or else the parser, if it has one.
Parsed(t, row, amount) ==
  LET transfer == Data[t].type = "transfer"
      entity   == IF transfer THEN None ELSE Data[t].entity
      i        == RuleFor(entity, Data[t].name, Data[t].upi)
  IN  [row EXCEPT
         !.amount = amount, !.type = Data[t].type, !.entity = entity, !.transfer = transfer,
         !.refund = \/ Data[t].type = "refund"
                    \/ (Data[t].direction = "credit" /\ Data[t].reads = "refund"),
         !.excluded = Data[t].type \in {"transfer", "income"},
         !.label = IF i # 0 THEN rules[i].label ELSE IF Data[t].label # None THEN Data[t].label ELSE @,
         !.by = IF i # 0 THEN "user" ELSE "parser",
         !.verified = @ \/ i # 0, !.review = i = 0, !.skipped = FALSE]

Blank == [label |-> None, type |-> "other", by |-> "parser", amount |-> 0, entity |-> None,
          verified |-> FALSE, review |-> FALSE, transfer |-> FALSE, refund |-> FALSE,
          excluded |-> FALSE, duplicate |-> FALSE, parent |-> None, skipped |-> FALSE]

\* A message is read into a row and an event, whose category side exists when the
\* row was given a label.
Ingest(t) ==
  LET row == Parsed(t, Blank, Data[t].amount)
      side(d) == [amount |-> row.amount, direction |-> d]
  IN
  /\ Take("arrive")
  /\ tx[t] = None /\ ~Data[t].imported
  /\ tx' = [tx EXCEPT ![t] = row]
  /\ posted' = [posted EXCEPT ![t] =
       [account  |-> side(Data[t].direction),
        category |-> IF row.label = None THEN None
                     ELSE [label |-> row.label, amount |-> row.amount,
                           direction |-> Opposite(Data[t].direction)]]]
  /\ UNCHANGED <<links, issues, rules, runs, said, taught>>

\* A statement line is imported as a verified row with no event, moving "outflow" or
\* "inflow": the other handlers ask for "debit" and "credit".
Import(t) ==
  /\ Take("arrive")
  /\ tx[t] = None /\ Data[t].imported
  /\ tx' = [tx EXCEPT ![t] = [Blank EXCEPT !.label = Data[t].label, !.amount = Data[t].amount,
                                           !.verified = TRUE]]
  /\ UNCHANGED <<posted, links, issues, rules, runs, said, taught>>

\* A forced re-parse rewrites the row; its event keeps what it had. What the user said
\* of the row is lost, except that it is a duplicate.
Reparse(t) ==
  /\ tx[t] # None /\ ~Data[t].imported
  /\ Take("reparse")
  /\ tx' = [tx EXCEPT ![t] = Parsed(t, @, Data[t].amended)]
  /\ said' = [said EXCEPT ![t] = @ \cap {"duplicate"}]
  /\ UNCHANGED <<posted, links, issues, rules, runs, taught>>

-----------------------------------------------------------------------------
(* Requests of the user on rows.                                           *)

\* _apply_category_side_effects.
SideEffects(t, row) ==
  LET kind == Kind[row.label] IN
  CASE kind = "transfer" ->
         [row EXCEPT !.transfer = TRUE, !.refund = FALSE, !.excluded = TRUE, !.entity = None,
                     !.type = IF @ \in {"income", "refund"} THEN @ ELSE "transfer"]
    [] kind \in {"income", "refund"} ->
         [row EXCEPT !.transfer = FALSE, !.excluded = TRUE, !.refund = kind = "refund", !.type = kind]
    [] kind = "spending" /\ Data[t].direction = "debit" ->
         [row EXCEPT !.transfer = FALSE, !.excluded = FALSE,
                     !.type = IF @ \in {"transfer", "other", "income"} THEN "purchase" ELSE @]
    [] OTHER -> [row EXCEPT !.transfer = FALSE]

Labelled(t, c) ==
  SideEffects(t, [tx[t] EXCEPT !.label = c, !.verified = TRUE, !.review = FALSE, !.by = "user"])

\* The rows apply_to_past relabels: not verified, of the same merchant or name.
Past(t, c) ==
  {p \in Present \ {t} :
     /\ Data[t].name # None /\ ~tx[p].verified
     /\ \/ Labelled(t, c).entity # None /\ tx[p].entity = Labelled(t, c).entity
        \/ Data[p].name = Data[t].name}

\* classify_transaction, and one row of a bulk request: the rule is made from the row
\* as it was, the past rows are found by the row as it is now.
Classify(t, c) ==
  /\ tx[t] # None
  /\ Take("classify")
  /\ \E rule, past \in BOOLEAN :
       LET rows == {t} \cup (IF past THEN Past(t, c) ELSE {}) IN
       /\ tx' = [p \in Tx |-> IF p \in rows THEN Labelled(p, c) ELSE tx[p]]
       /\ posted' = [p \in Tx |-> IF p \in rows THEN Synced(p, Labelled(p, c)) ELSE posted[p]]
       /\ IF rule
          THEN /\ rules' = Taught(tx[t].entity, Data[t].name, Data[t].upi, c)
               /\ taught' = Expecting(tx[t].entity, Data[t].name, c)
          ELSE UNCHANGED <<rules, taught>>
  /\ said' = [said EXCEPT ![t] = @ \cap {"duplicate"}]
  /\ UNCHANGED <<links, issues, runs>>

\* exclude_as_non_transaction.
Exclude(t) ==
  /\ tx[t] # None
  /\ Take("mark")
  /\ LET row == [tx[t] EXCEPT !.label = None, !.type = "not_a_transaction", !.transfer = FALSE,
                              !.refund = FALSE, !.excluded = TRUE, !.review = FALSE,
                              !.verified = TRUE, !.by = "user", !.skipped = ~Data[t].imported]
     IN  /\ tx' = [tx EXCEPT ![t] = row]
         /\ posted' = [posted EXCEPT ![t] = Synced(t, row)]
  /\ said' = [said EXCEPT ![t] = (@ \cap {"duplicate"}) \cup {"not_a_transaction"}]
  /\ UNCHANGED <<links, issues, rules, runs, taught>>

\* Mutant: a reimbursed row is not marked verified.
ReimbursedUnverified(row) ==
  [row EXCEPT !.type = "reimbursed", !.transfer = FALSE, !.refund = FALSE, !.excluded = TRUE,
              !.review = FALSE, !.by = "user"]

Reimbursed(row) ==
  [row EXCEPT !.type = "reimbursed", !.transfer = FALSE, !.refund = FALSE, !.excluded = TRUE,
              !.review = FALSE, !.verified = TRUE, !.by = "user"]

\* mark_reimbursed: the postings stay as they are.
Reimburse(t) ==
  /\ tx[t] # None
  /\ Take("mark")
  /\ tx' = [tx EXCEPT ![t] = Reimbursed(@)]
  /\ said' = [said EXCEPT ![t] = (@ \cap {"duplicate"}) \cup {"reimbursed"}]
  /\ UNCHANGED <<posted, links, issues, rules, runs, taught>>

\* flag_transaction_issue changes no row. The latest flag of each type is kept here.
Flag(t, i) ==
  /\ tx[t] # None
  /\ Take("flag")
  /\ issues' = [issues EXCEPT ![t][i] = "open"]
  /\ UNCHANGED <<tx, posted, links, rules, runs, said, taught>>

\* Mutant: the row takes the name of the issue as its type.
ConfirmedByName(t, i) ==
  IF i = "other" THEN tx[t]
  ELSE [tx[t] EXCEPT !.type = i, !.duplicate = @ \/ i = "duplicate", !.excluded = TRUE,
                     !.review = FALSE, !.verified = TRUE, !.by = "user"]

\* resolve_data_issues_bulk: "resolved" marks the row, from whatever status; the
\* postings and the links stay, and no other status takes the mark back.
Confirmed(t, i) ==
  CASE i = "not_a_transaction" ->
         [tx[t] EXCEPT !.type = i, !.excluded = TRUE, !.review = FALSE, !.verified = TRUE,
                       !.by = "user", !.skipped = ~Data[t].imported]
    [] i = "duplicate" ->
         [tx[t] EXCEPT !.duplicate = TRUE, !.excluded = TRUE, !.review = FALSE, !.verified = TRUE]
    [] OTHER -> tx[t]

Resolve(t, i, status) ==
  /\ tx[t] # None /\ issues[t][i] # None
  /\ Take("flag")
  /\ issues' = [issues EXCEPT ![t][i] = status]
  /\ IF status = "resolved"
     THEN /\ tx' = [tx EXCEPT ![t] = Confirmed(t, i)]
          /\ said' = [said EXCEPT ![t] =
               CASE i = "not_a_transaction" -> (@ \cap {"duplicate"}) \cup {i}
                 [] i = "duplicate" -> @ \cup {i}
                 [] OTHER -> @]
     ELSE UNCHANGED <<tx, said>>
  /\ UNCHANGED <<posted, links, rules, runs, taught>>

\* merge_duplicate_transactions, with any two rows the client names.
Merge(p, d) ==
  /\ tx[p] # None /\ tx[d] # None
  /\ Take("merge")
  /\ tx' = [tx EXCEPT ![d] = [@ EXCEPT !.duplicate = TRUE, !.parent = p, !.excluded = TRUE]]
  /\ links' = links \cup {[from |-> p, to |-> d, kind |-> "duplicate"]}
  /\ said' = [said EXCEPT ![d] = @ \cup {"duplicate"}]
  /\ UNCHANGED <<posted, issues, rules, runs, taught>>

UnmarkedLinks(t) == {l \in links : l.kind = "duplicate" /\ t \in {l.from, l.to}}

\* unmark_duplicate_transaction counts the row again, whatever had excluded it before.
Unmark(t) ==
  /\ tx[t] # None
  /\ Take("merge")
  /\ tx' = [tx EXCEPT ![t] = [@ EXCEPT !.duplicate = FALSE, !.parent = None, !.excluded = FALSE]]
  /\ links' = links \ UnmarkedLinks(t)
  /\ said' = [said EXCEPT ![t] = @ \cap {"not_a_transaction"}]
  /\ UNCHANGED <<posted, issues, rules, runs, taught>>

-----------------------------------------------------------------------------
(* Reconciliation: refunds first, then transfers, in one session.          *)

\* The session writes the columns it changed since it loaded the row, no others.
Column(now, loaded, new) == IF new = loaded THEN now ELSE new
Written(now, loaded, new) ==
  [now EXCEPT !.type     = Column(@, loaded.type, new.type),
              !.refund   = Column(@, loaded.refund, new.refund),
              !.transfer = Column(@, loaded.transfer, new.transfer),
              !.excluded = Column(@, loaded.excluded, new.excluded)]

Loaded(rows, t) == IF t \in DOMAIN rows THEN rows[t] ELSE tx[t]

Sided(kind, side) == {l[side] : l \in {k \in links : k.kind = kind}}

Latest(S)   == CHOOSE d \in S : \A e \in S : Data[e].day <= Data[d].day
Earliest(S) == CHOOSE d \in S : \A e \in S : Data[d].day <= Data[e].day

RefundWindow == 60

\* pair_refunds: the latest debit before the refund that it can repay, by the merchant
\* or else by the reference. Nothing is asked of the debit but that.
Repayable(r, amount) ==
  {d \in Present : /\ Data[d].direction = "debit"
                   /\ Data[d].day \in (Data[r].day - RefundWindow)..Data[r].day
                   /\ tx[d].amount >= amount}
Purchases(r, amount) ==
  LET near == Repayable(r, amount)
      same == {d \in near : Data[r].name # None /\ Data[d].name = Data[r].name}
  IN  IF same # {} THEN same ELSE {d \in near : Data[r].ref # None /\ Data[d].ref = Data[r].ref}

RefundLinks(todo, rows) ==
  {[from |-> r, to |-> Latest(Purchases(r, rows[r].amount)), kind |-> "refund"] :
     r \in {q \in todo : Purchases(q, rows[q].amount) # {}}}

AsRefund(row) == [row EXCEPT !.refund = TRUE, !.excluded = TRUE, !.type = "refund"]

\* pair_cross_account_transfers: debits in order of date, each with the earliest credit
\* of its amount, one day before to four days after, that no transfer has used.
Credits == {c \in Present : Data[c].direction = "credit"}

Receipts(d, amount, used) ==
  {c \in Credits \ used : /\ Data[c].day \in (Data[d].day - 1)..(Data[d].day + 4)
                          /\ tx[c].amount = amount}

PaymentDebits(used) ==
  {d \in Present \ used : Data[d].direction = "debit" /\ (tx[d].transfer \/ Data[d].reads = "payment")}

Ends(pairs) == {l.from : l \in pairs} \cup {l.to : l \in pairs}

\* Mutant: a credit that was just paired may be paired again.
PairedOff(pairs) == {l.from : l \in pairs}

UsedUp(pairs) == Ends(pairs)

\* The orders in which the database may return the debits: by date, ties as they come.
Turns(debits) ==
  {turn \in [debits -> 1..Cardinality(debits)] :
     \A a, b \in debits : a # b => /\ turn[a] # turn[b]
                                   /\ Data[a].day < Data[b].day => turn[a] < turn[b]}

\* Each debit has its link, if there is a credit left over by those before it.
TransferLinks(debits, paired, rows) ==
  {pairs \in SUBSET [from : debits, to : Credits, kind : {"transfer"}] :
     \E turn \in Turns(debits) : \A d \in debits :
       LET earlier  == {l \in pairs : turn[l.from] < turn[d]}
           receipts == Receipts(d, Loaded(rows, d).amount, paired \cup UsedUp(earlier))
       IN  {l \in pairs : l.from = d} =
             IF receipts = {} THEN {}
             ELSE {[from |-> d, to |-> Earliest(receipts), kind |-> "transfer"]}}

AsTransfer(row) == [row EXCEPT !.transfer = TRUE, !.excluded = TRUE, !.type = "transfer"]

\* The table once a run commits. Refunds are flushed and let go before the transfers are
\* read; the debits of the transfers are held until the end.
Commit(rows, refunds, transfers) ==
  [t \in Tx |->
     LET old  == Loaded(rows, t)
         now  == IF t \in {l.from : l \in refunds} THEN Written(tx[t], old, AsRefund(old)) ELSE tx[t]
         held == IF refunds = {} THEN old ELSE now
     IN  IF t \in Ends(transfers) THEN Written(now, held, AsTransfer(held)) ELSE now]

\* uq_tx_link refuses a link that is there: the run ends with nothing written.
Finish(p, rows, refunds, transfers) ==
  /\ IF (refunds \cup transfers) \cap links # {}
     THEN UNCHANGED <<tx, links>>
     ELSE /\ tx' = Commit(rows, refunds, transfers)
          /\ links' = links \cup refunds \cup transfers
  /\ runs' = [runs EXCEPT ![p] = None]

StartReconcile(p) ==
  /\ runs[p] = None
  /\ Take("reconcile")
  /\ LET todo == {t \in Present : /\ Data[t].direction = "credit"
                                  /\ t \notin Sided("refund", "from")
                                  /\ tx[t].refund \/ Data[t].reads = "refund"}
     IN  runs' = [runs EXCEPT ![p] = [at |-> "refunds", todo |-> todo, paired |-> {},
                                      rows |-> [t \in todo |-> tx[t]]]]
  /\ UNCHANGED <<tx, posted, links, issues, rules, said, taught>>

\* A pair is written before the transfers are read, which takes the lock: the rest of
\* the run is then one step. Without a pair, others may still commit in between, and
\* what was loaded for the refunds is forgotten.
PairRefunds(p) ==
  /\ runs[p] # None /\ runs[p].at = "refunds"
  /\ LET rows    == runs[p].rows
         refunds == RefundLinks(runs[p].todo, rows)
         paired  == Sided("transfer", "from") \cup Sided("transfer", "to")
         debits  == PaymentDebits(paired)
     IN  IF refunds # {}
         THEN \E transfers \in TransferLinks(debits, paired, rows) : Finish(p, rows, refunds, transfers)
         ELSE /\ runs' = [runs EXCEPT ![p] =
                   [at |-> "transfers", todo |-> debits, paired |-> paired,
                    rows |-> [t \in debits |-> tx[t]]]]
              /\ UNCHANGED <<tx, links>>
  /\ UNCHANGED <<posted, issues, rules, said, taught, left>>

PairTransfers(p) ==
  /\ runs[p] # None /\ runs[p].at = "transfers"
  /\ \E transfers \in TransferLinks(runs[p].todo, runs[p].paired, runs[p].rows) :
       Finish(p, runs[p].rows, {}, transfers)
  /\ UNCHANGED <<posted, issues, rules, said, taught, left>>

-----------------------------------------------------------------------------
Next ==
  \/ \E t \in Tx : Ingest(t) \/ Import(t) \/ Reparse(t) \/ Exclude(t) \/ Reimburse(t) \/ Unmark(t)
  \/ \E t \in Tx, c \in Label : Classify(t, c)
  \/ \E t \in Tx, i \in Issue : Flag(t, i) \/ \E s \in IssueStatus : Resolve(t, i, s)
  \/ \E p, d \in Tx : Merge(p, d)
  \/ \E i \in DOMAIN rules : UpdateRule(i) \/ DeleteRule(i)
  \/ \E p \in Runner : StartReconcile(p) \/ PairRefunds(p) \/ PairTransfers(p)

Spec == Init /\ [][Next]_vars

-----------------------------------------------------------------------------
\* Double entry (verify_event_double_entry): whatever re-parses, classifications and
\* exclusions a transaction went through, an event with two sides has the same amount
\* on both, in opposite directions, even when the row has moved on to another amount.
EventsBalance ==
  \A t \in Tx : posted[t] # None /\ posted[t].category # None =>
    /\ posted[t].category.amount = posted[t].account.amount
    /\ {posted[t].category.direction, posted[t].account.direction} = {"debit", "credit"}

\* No money is paired twice: a refund repays one purchase, and a transaction is one end
\* of one transfer, however often the reconciliation runs and whatever commits while it
\* does; and what a duplicate link points at is marked a duplicate.
LinksCoherent ==
  /\ \A k, l \in links : k.kind = "refund" /\ l.kind = "refund" /\ k.from = l.from => k = l
  /\ \A k, l \in links : k.kind = "transfer" /\ l.kind = "transfer"
                         /\ {k.from, k.to} \cap {l.from, l.to} # {} => k = l
  /\ \A l \in links : l.kind = "duplicate" => tx[l.to].duplicate

\* What the user said is no transaction, a duplicate or paid back stays out of spending
\* through whatever others do to the row: a rule, the relabelling of a merchant's past,
\* a reconciliation that had loaded the row before.
ExclusionsHold == \A t \in Tx : said[t] # {} => ~Counted(t)

\* A rule taught from a merchant's row labels the next row of that merchant and name,
\* and verifies it, until the rule itself is edited: through other rules, rules switched
\* off and taught again, and rules made from other rows of either.
RulesRemember ==
  [][\A t \in Tx : Ingest(t) /\ Data[t].name # None =>
        LET c == taught[<<tx'[t].entity, Data[t].name>>]
        IN  c # None => tx'[t].label = c /\ tx'[t].verified]_vars
=============================================================================
