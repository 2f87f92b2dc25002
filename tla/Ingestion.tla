----------------------------- MODULE Ingestion -----------------------------
(***************************************************************************)
(* Gmail ingestion, mymonee.ingestion.pipeline: a run lists the messages   *)
(* of a window, handles each inside a savepoint of its own, and moves the  *)
(* watermark that the next run's window starts from.                       *)
(*                                                                         *)
(* A run inserts its ingestion_runs row before anything else, so it holds  *)
(* the write lock of the SQLite file from its first statement to the       *)
(* commit of its caller: runs exclude each other, what they write becomes  *)
(* visible at once, and a killed run leaves nothing. Mail keeps arriving.  *)
(***************************************************************************)
EXTENDS Integers, FiniteSets

CONSTANTS
  Msg,            \* Gmail messages
  Reading,        \* transactions a parser may read in a message (what the fingerprint hashes)
  Ref, RefOf,     \* reference numbers; the one a reading carries, or None
  None,
  SyncAfter,      \* gmail.sync_after_date, a day
  MaxMessages,    \* gmail.max_messages_per_sync
  Ops,            \* kinds of run that occur
  Faults,         \* ways a message may fail
  MaxDay, MaxFaults, MaxCrashes, MaxUpgrades    \* bounds of the environment

Day == 0..MaxDay

ASSUME ConstantsAssumption ==
  /\ RefOf \in [Reading -> Ref \cup {None}]
  /\ MaxDay \in Nat /\ SyncAfter \in Day
  /\ MaxMessages \in Nat \ {0}
  /\ Ops \subseteq {"sync", "after", "backfill", "reparse", "pick"}
  /\ Faults \subseteq {"throttled", "fetch", "persist"}
  /\ MaxFaults \in Nat /\ MaxCrashes \in Nat /\ MaxUpgrades \in Nat
  /\ IsFiniteSet(Msg)
  /\ Reading \cap {"skip", "error"} = {}

VARIABLES
  today,       \* the day it is
  mail,        \* [Msg -> Day or None]: when a message reached the mailbox
  parser,      \* [Msg -> Outcome]: what the installed rules and parsers make of a message
  emails,      \* [Msg -> Status or None]: emails.parse_status, committed
  txs,         \* [Msg -> SUBSET Reading]: the transactions of a message, committed
  watermark,   \* sync_state["gmail.last_internal_date_ms"], by day, or None
  run,         \* the run in progress, or None
  spent        \* how much of each environment bound is used

vars == <<today, mail, parser, emails, txs, watermark, run, spent>>

-----------------------------------------------------------------------------
Status  == {"parsed", "skipped", "error"}
\* "skip": not financial, no parser for it, or a parser that finds nothing.
Outcome == {"skip", "error"} \cup Reading
Run     == [force : BOOLEAN, todo : SUBSET Msg, newest : Day \cup {None}, throttled : BOOLEAN,
            emails : [Msg -> Status \cup {None}], txs : [Msg -> SUBSET Reading]]

ASSUME NoneAssumption == None \notin Day /\ None \notin Status /\ None \notin Ref /\ None \notin Run

TypeOK ==
  /\ today \in Day
  /\ mail \in [Msg -> Day \cup {None}]
  /\ parser \in [Msg -> Outcome]
  /\ emails \in [Msg -> Status \cup {None}]
  /\ txs \in [Msg -> SUBSET Reading]
  /\ watermark \in Day \cup {None}
  /\ run \in Run \cup {None}
  /\ spent \in [faults : 0..MaxFaults, crashes : 0..MaxCrashes, upgrades : 0..MaxUpgrades]

Init ==
  /\ today = 0
  /\ mail = [m \in Msg |-> None]
  /\ parser \in [Msg -> Outcome]
  /\ emails = [m \in Msg |-> None]
  /\ txs = [m \in Msg |-> {}]
  /\ watermark = None
  /\ run = None
  /\ spent = [faults |-> 0, crashes |-> 0, upgrades |-> 0]

-----------------------------------------------------------------------------
(* Which messages a run lists.                                             *)

Since(d) == {m \in Msg : mail[m] # None /\ mail[m] >= d}

\* Mutant: the window starts at the watermark's own day, and after it.
WindowAfterWatermark == IF watermark = None THEN Since(SyncAfter) ELSE Since(watermark + 1)

\* An incremental sync looks back one day behind the watermark.
Window == IF watermark = None THEN Since(SyncAfter) ELSE Since(watermark - 1)

\* Gmail lists newest first; the list is cut at max_messages.
Cut(S) == {list \in SUBSET S : /\ \A m \in list, n \in S \ list : mail[n] <= mail[m]
                               /\ Cardinality(list) <= MaxMessages
                               /\ list = S \/ Cardinality(list) = MaxMessages}

\* "after": from a date the user gives; "backfill" and "reparse": from sync_after_date;
\* "pick": the reclassify scripts bring a list of their own.
Listings(op) ==
  CASE op = "sync"  -> Cut(Window)
    [] op = "after" -> UNION {Cut(Since(d)) : d \in Day}
    [] op = "pick"  -> UNION {Cut(S) : S \in SUBSET Since(0)}
    [] OTHER        -> Cut(Since(SyncAfter))

Forced(op) == op \in {"reparse", "pick"}

Begin(op) ==
  /\ run = None
  /\ \E list \in Listings(op) :
       run' = [force |-> Forced(op), todo |-> list, newest |-> None,
               throttled |-> FALSE, emails |-> emails, txs |-> txs]
  /\ UNCHANGED <<today, mail, parser, emails, txs, watermark, spent>>

-----------------------------------------------------------------------------
(* One message.                                                            *)

\* Mutant: without a reference match, a reading with another fingerprint is another row.
StoredByFingerprint(rows, p, force) ==
  IF p \in rows THEN {rows}
  ELSE IF force /\ rows # {} THEN {(rows \ {q}) \cup {p} : q \in rows}
  ELSE {rows \cup {p}}

\* _persist_parsed: the row with this fingerprint, or else with this reference,
\* or else (forced) any row of the message, is updated; otherwise one is inserted.
Stored(rows, p, force) ==
  LET same == {q \in rows : RefOf[p] # None /\ RefOf[q] = RefOf[p]}
      over(S) == {(rows \ {q}) \cup {p} : q \in S}
  IN  IF p \in rows THEN {rows}
      ELSE IF same # {} THEN IF force THEN over(same) ELSE {rows}
      ELSE IF force /\ rows # {} THEN over(rows)
      ELSE {rows \cup {p}}

\* Mutant: only parsed messages count as processed.
ParsedOnly(m) == run.emails[m] = "parsed"

Processed(m) == run.emails[m] \in {"parsed", "skipped"}

\* Mutant: the watermark is put past the message.
NewestPast(m) == mail[m] + 1

Newest(m) == IF run.newest = None \/ run.newest < mail[m] THEN mail[m] ELSE run.newest

\* Messages are taken in the order of the list.
IsNext(m) == m \in run.todo /\ \A n \in run.todo : mail[n] <= mail[m]

SkipProcessed(m) ==
  /\ run # None /\ IsNext(m)
  /\ ~run.force /\ Processed(m)
  /\ run' = [run EXCEPT !.todo = @ \ {m}]
  /\ UNCHANGED <<today, mail, parser, emails, txs, watermark, spent>>

NeedsFetch(m) == run # None /\ IsNext(m) /\ (run.force \/ ~Processed(m))

\* Mutant: a throttled fetch is counted like any other failure.
ThrottledIsAFailure(fault) == FALSE

\* _is_rate_limit_error: 403 or 429 that speaks of a quota.
IsRateLimit(fault) == fault = "throttled"

\* get_message fails: the savepoint is rolled back, the run goes on.
FetchFails(m) ==
  /\ NeedsFetch(m)
  /\ \E fault \in Faults \cap {"throttled", "fetch"} :
       run' = [run EXCEPT !.todo = @ \ {m}, !.throttled = @ \/ IsRateLimit(fault)]
  /\ spent.faults < MaxFaults
  /\ spent' = [spent EXCEPT !.faults = @ + 1]
  /\ UNCHANGED <<today, mail, parser, emails, txs, watermark>>

Handle(m) ==
  /\ NeedsFetch(m)
  /\ \/ /\ parser[m] = "skip"
        /\ run' = [run EXCEPT !.todo = @ \ {m}, !.newest = Newest(m), !.emails[m] = "skipped"]
     \/ /\ parser[m] = "error"
        /\ run' = [run EXCEPT !.todo = @ \ {m}, !.newest = Newest(m), !.emails[m] = "error"]
     \/ /\ parser[m] \in Reading
        /\ \E rows \in Stored(run.txs[m], parser[m], run.force) :
             run' = [run EXCEPT !.todo = @ \ {m}, !.newest = Newest(m),
                                !.emails[m] = "parsed", !.txs[m] = rows]
  /\ UNCHANGED <<today, mail, parser, emails, txs, watermark, spent>>

\* Mutant: the rows written before the failure stay.
PersistFailsHalfway(m) ==
  /\ NeedsFetch(m) /\ "persist" \in Faults /\ parser[m] \in Reading
  /\ run' = [run EXCEPT !.todo = @ \ {m}, !.newest = Newest(m), !.emails[m] = "parsed"]
  /\ spent.faults < MaxFaults
  /\ spent' = [spent EXCEPT !.faults = @ + 1]
  /\ UNCHANGED <<today, mail, parser, emails, txs, watermark>>

\* Storing what was parsed fails: the savepoint takes the e-mail row with it,
\* but the message's date has been counted.
PersistFails(m) ==
  /\ NeedsFetch(m) /\ "persist" \in Faults /\ parser[m] \in Reading
  /\ run' = [run EXCEPT !.todo = @ \ {m}, !.newest = Newest(m)]
  /\ spent.faults < MaxFaults
  /\ spent' = [spent EXCEPT !.faults = @ + 1]
  /\ UNCHANGED <<today, mail, parser, emails, txs, watermark>>

-----------------------------------------------------------------------------
(* The end of a run.                                                       *)

\* The watermark becomes the newest fetched date, unless something was throttled;
\* nothing keeps it from going back.
NextWatermark == IF run.throttled \/ run.newest = None THEN watermark ELSE run.newest

Finish ==
  /\ run # None /\ run.todo = {}
  /\ emails' = run.emails
  /\ txs' = run.txs
  /\ watermark' = NextWatermark
  /\ run' = None
  /\ UNCHANGED <<today, mail, parser, spent>>

\* The process is killed, or the commit of the caller fails.
Crash ==
  /\ run # None
  /\ spent.crashes < MaxCrashes
  /\ spent' = [spent EXCEPT !.crashes = @ + 1]
  /\ run' = None
  /\ UNCHANGED <<today, mail, parser, emails, txs, watermark>>

-----------------------------------------------------------------------------
(* The environment.                                                        *)

Arrive(m) ==
  /\ mail[m] = None
  /\ mail' = [mail EXCEPT ![m] = today]
  /\ UNCHANGED <<today, parser, emails, txs, watermark, run, spent>>

Tick ==
  /\ today < MaxDay
  /\ today' = today + 1
  /\ UNCHANGED <<mail, parser, emails, txs, watermark, run, spent>>

\* Another version of the program, with other rules and parsers, is installed.
Upgrade ==
  /\ run = None
  /\ spent.upgrades < MaxUpgrades
  /\ spent' = [spent EXCEPT !.upgrades = @ + 1]
  /\ parser' \in [Msg -> Outcome]
  /\ UNCHANGED <<today, mail, emails, txs, watermark, run>>

-----------------------------------------------------------------------------
RunStep ==
  \/ \E m \in Msg : SkipProcessed(m) \/ FetchFails(m) \/ Handle(m) \/ PersistFails(m)
  \/ Finish

Next ==
  \/ \E op \in Ops : Begin(op)
  \/ RunStep
  \/ Crash \/ Tick \/ Upgrade
  \/ \E m \in Msg : Arrive(m)

Spec == Init /\ [][Next]_vars

\* A run goes on until it ends; the user syncs again and again.
FairSpec == Spec /\ WF_vars(RunStep) /\ WF_vars(Begin("sync"))

-----------------------------------------------------------------------------
(* Properties.                                                             *)

\* "Advance the watermark only when every discovered message was fetched": a
\* message without an e-mail row lies in the window of the next incremental sync.
NothingSkipped ==
  \A m \in Msg :
    (mail[m] # None /\ mail[m] >= SyncAfter /\ emails[m] = None)
      => (watermark = None \/ mail[m] >= watermark - 1)

\* "Re-runs update `updated_at` / reparse flags; they do not insert duplicates":
\* whatever parser versions have read in a message, it has one transaction.
StoredOnce == \A m \in Msg : \A p, q \in txs[m] : p = q

\* Savepoints and the final commit keep an e-mail and its transaction together: a
\* parsed e-mail has one, and no transaction comes from a message without a row.
EmailsMatchRows ==
  \A m \in Msg : /\ emails[m] = "parsed" => txs[m] # {}
                 /\ emails[m] = None     => txs[m] = {}

\* A run that is not forced leaves messages alone that were parsed or skipped before.
ProcessedUntouched ==
  [][(run # None => ~run.force) =>
       \A m \in Msg : emails[m] \in {"parsed", "skipped"}
                        => emails'[m] = emails[m] /\ txs'[m] = txs[m]]_vars

\* Whoever keeps syncing gets every message into the database, however often
\* Gmail throttles and the process dies (finitely often).
EveryMessageArrives ==
  \A m \in Msg : (mail[m] # None /\ mail[m] >= SyncAfter) ~> (emails[m] # None)
=============================================================================
