--------------------------- MODULE EmbeddingQueue ---------------------------
(***************************************************************************)
(* The durable embedding queue of mymonee.services.embeddings: ledger      *)
(* flushes enqueue and cancel jobs inside their own SQLite transaction,    *)
(* and any number of `mymonee embeddings index|process` commands claim     *)
(* jobs, call the inference service and store vectors.                     *)
(*                                                                         *)
(* A step is what one SQLite commit (or one HTTP reply) makes visible.     *)
(* pysqlite opens a transaction only at the first DML statement, so what a *)
(* session read before its first write may be out of date when it commits: *)
(* a flush and a worker are each split where they stop reading.            *)
(***************************************************************************)
EXTENDS Integers, FiniteSets

CONSTANTS
  Tx, Text, Rev, Issue, Worker,  \* transactions, composed texts, model revisions, issue flags, commands
  None,                          \* absent row or value
  Preexisting,                   \* transactions that may predate the enabling of embeddings
  LedgerOps,                     \* ledger operations that occur
  Commands,                      \* CLI commands that run: subset of {"index", "process"}
  Faults,                        \* ways an HTTP call fails
  Ceiling,                       \* embeddings.max_attempts, at least 1
  StaleAfter,                    \* embeddings.stale_job_seconds, in ticks
  CallLimit,                     \* longest embed_documents call (all its retries), in ticks
  Limit, BatchSize,              \* jobs per claim and per batch
  Quiet,                         \* what only happens while no command runs: subset of {"edit", "upgrade"}
  MaxEdits, MaxUpgrades, MaxCrashes, MaxFaults   \* bounds of the environment

ASSUME ConstantsAssumption ==
  /\ None \notin Text /\ None \notin Rev
  /\ Preexisting \subseteq Tx
  /\ Faults \subseteq {"unavailable", "contract", "rejected"}
  /\ Commands \subseteq {"index", "process"}
  /\ Ceiling \in Nat \ {0} /\ StaleAfter \in Nat \ {0} /\ CallLimit \in Nat
  /\ Limit \in Nat \ {0} /\ BatchSize \in Nat \ {0}
  /\ Quiet \subseteq {"edit", "upgrade"}
  /\ MaxEdits \in Nat /\ MaxUpgrades \in Nat /\ MaxCrashes \in Nat /\ MaxFaults \in Nat

\* The service is given less time per call than a claim lives: 5 requests of
\* 35 s and 4 pauses of at most 30 s against stale_job_seconds = 300.
ASSUME LeaseAssumption == CallLimit < StaleAfter

\* Exponentials of the backoff are naturals (used by the proofs).
ASSUME BackoffAssumption == \A k \in 0..Ceiling : 2^k \in Nat

VARIABLES
  ledger,    \* [Tx -> Row]: the committed transaction row and its issue flags
  jobs,      \* [Tx -> Job or None]: embedding_jobs, one row per transaction
  vectors,   \* [Tx -> [Rev -> Vector or None]]: transaction_embeddings
  live,      \* the model revision the service runs now
  edit,      \* the ledger flush between its hook and its commit, or None
  worker,    \* [Worker -> WorkerState]
  spent      \* how much of each environment bound is used

vars == <<ledger, jobs, vectors, live, edit, worker, spent>>

-----------------------------------------------------------------------------
Status    == {"pending", "running", "done", "failed"}
FlagState == {"none", "open", "resolved"}
Row       == [kind : {"absent", "ledger", "excluded"}, text : Text \cup {None},
              flag : [Issue -> FlagState]]
Job       == [status : Status, attempts : Nat, age : 0..StaleAfter, wait : Nat]
Vector    == [text : Text, by : Rev]
Verdict   == {"remove", "skip", "insert", "rearm", "stale"}
Edit      == [tx : Tx, row : Row, verdict : Verdict]
Plan      == {"none", "insert", "rearm", "drop", "done", "infer", "store", "retry", "fail"}
Doc       == [plan : Plan, text : Text \cup {None}, tries : Nat,
              made : Rev \cup {None}, known : BOOLEAN]
Pc        == {"idle", "ready", "enqueue", "queued", "claimed", "infer", "single",
              "commit", "rollback"}
WorkerState == [pc : Pc, rev : Rev \cup {None}, todo : SUBSET Tx, batch : SUBSET Tx,
                gone : SUBSET Tx, doc : [Tx -> Doc], expired : BOOLEAN, clock : 0..CallLimit]

ASSUME NoneAssumption == None \notin Job /\ None \notin Vector /\ None \notin Edit

NoDoc  == [plan |-> "none", text |-> None, tries |-> 0, made |-> None, known |-> FALSE]
NoDocs == [t \in Tx |-> NoDoc]
Idle   == [pc |-> "idle", rev |-> None, todo |-> {}, batch |-> {}, gone |-> {},
           doc |-> NoDocs, expired |-> FALSE, clock |-> 0]
NewJob == [status |-> "pending", attempts |-> 0, age |-> 0, wait |-> 0]

Flagged(row)  == \E i \in Issue : row.flag[i] = "open"
Eligible(row) == row.kind = "ledger" /\ ~Flagged(row)

HasVector(t, r)       == vectors[t][r] # None
Matches(t, r, x)      == HasVector(t, r) /\ vectors[t][r].text = x
MatchesSomeKey(t, x)  == \E r \in Rev : Matches(t, r, x)
HasStatus(t, S)       == jobs[t] # None /\ jobs[t].status \in S

TypeOK ==
  /\ ledger \in [Tx -> Row]
  /\ jobs \in [Tx -> Job \cup {None}]
  /\ vectors \in [Tx -> [Rev -> Vector \cup {None}]]
  /\ live \in Rev
  /\ edit \in Edit \cup {None}
  /\ worker \in [Worker -> WorkerState]
  /\ spent \in [edits : 0..MaxEdits, upgrades : 0..MaxUpgrades,
                crashes : 0..MaxCrashes, faults : 0..MaxFaults]

NoFlags == [i \in Issue |-> "none"]

Init ==
  /\ ledger \in [Tx -> {[kind |-> "absent", text |-> None, flag |-> NoFlags]}
                       \cup [kind : {"ledger"}, text : Text, flag : {NoFlags}]]
  /\ \A t \in Tx : ledger[t].kind = "ledger" => t \in Preexisting
  /\ jobs = [t \in Tx |-> None]
  /\ vectors = [t \in Tx |-> [r \in Rev |-> None]]
  /\ live \in Rev
  /\ edit = None
  /\ worker = [w \in Worker |-> Idle]
  /\ spent = [edits |-> 0, upgrades |-> 0, crashes |-> 0, faults |-> 0]

-----------------------------------------------------------------------------
(* Job rows leave the table by id. A command that still holds the row will *)
(* find it missing (`gone`), and so will a flush about to re-arm it; a row *)
(* inserted later for the same transaction is another row.                 *)

Forget(S) ==
  [w \in Worker |->
     [worker[w] EXCEPT !.gone = @ \cup (S \cap (worker[w].todo \cup worker[w].batch))]]

ForgetInEdit(S) ==
  IF edit # None /\ edit.tx \in S /\ edit.verdict = "rearm"
  THEN [edit EXCEPT !.verdict = "stale"] ELSE edit

-----------------------------------------------------------------------------
(* The ledger side: a flush runs the before_flush hook, then commits.      *)

\* Mutant: an existing job, whatever its status, is taken for a queued one.
VerdictAnyJobIsQueued(t, row, flagged) ==
  IF row.kind # "ledger" \/ flagged THEN "remove"
  ELSE IF MatchesSomeKey(t, row.text) \/ jobs[t] # None THEN "skip" ELSE "insert"

\* Mutant: the flags are not looked at.
VerdictIgnoresFlags(t, row, flagged) ==
  IF row.kind # "ledger" THEN "remove"
  ELSE IF MatchesSomeKey(t, row.text) \/ HasStatus(t, {"pending"}) THEN "skip"
  ELSE IF jobs[t] = None THEN "insert" ELSE "rearm"

\* enqueue_transaction_embedding, called by the hook without a contract: any
\* stored vector with the same content makes the job redundant.
HookVerdict(t, row, flagged) ==
  IF row.kind # "ledger" \/ flagged THEN "remove"
  ELSE IF MatchesSomeKey(t, row.text) \/ HasStatus(t, {"pending"}) THEN "skip"
  ELSE IF jobs[t] = None THEN "insert" ELSE "rearm"

NoCommandRuns == \A w \in Worker : worker[w].pc = "idle"

BeginEdit(op) ==
  /\ op \in LedgerOps
  /\ "edit" \in Quiet => NoCommandRuns
  /\ edit = None
  /\ spent.edits < MaxEdits
  /\ spent' = [spent EXCEPT !.edits = @ + 1]

Flush(op, t, row, flagged) ==
  /\ BeginEdit(op)
  /\ edit' = [tx |-> t, row |-> row, verdict |-> HookVerdict(t, row, flagged)]
  /\ UNCHANGED <<ledger, jobs, vectors, live, worker>>

CreateTransaction(t, x) ==
  /\ ledger[t].kind = "absent"
  /\ Flush("create", t, [ledger[t] EXCEPT !.kind = "ledger", !.text = x], FALSE)

EditTransaction(t, x) ==
  /\ ledger[t].kind # "absent" /\ x # ledger[t].text
  /\ Flush("edit", t, [ledger[t] EXCEPT !.text = x], Flagged(ledger[t]))

\* Exclusion and its reversal change transaction_type.
Reclassify(t, k) ==
  /\ ledger[t].kind # "absent" /\ k # ledger[t].kind
  /\ Flush("reclassify", t, [ledger[t] EXCEPT !.kind = k], Flagged(ledger[t]))

OpenFlag(t, i) ==
  /\ ledger[t].kind # "absent" /\ ledger[t].flag[i] = "none"
  /\ Flush("flag", t, [ledger[t] EXCEPT !.flag[i] = "open"], TRUE)

\* The hook drops the transaction from the flagged set whatever other flags
\* it has; confirming "not a transaction" excludes the row in the same flush.
ResolveFlag(t, i, k) ==
  /\ ledger[t].flag[i] = "open"
  /\ Flush("resolve", t, [ledger[t] EXCEPT !.flag[i] = "resolved", !.kind = k], FALSE)

\* A flag set back to open is dirty, not new: the hook still sees the old rows.
ReopenFlag(t, i) ==
  /\ ledger[t].flag[i] = "resolved"
  /\ Flush("reopen", t, [ledger[t] EXCEPT !.flag[i] = "open"], Flagged(ledger[t]))

CommitFlush ==
  /\ edit # None
  /\ edit' = None
  /\ \/ /\ edit.verdict = "stale"          \* the job row to re-arm is gone: the flush fails
        /\ UNCHANGED <<ledger, jobs, worker>>
     \/ /\ edit.verdict # "stale"
        /\ ledger' = [ledger EXCEPT ![edit.tx] = edit.row]
        /\ \/ /\ edit.verdict = "remove"
              /\ jobs' = [jobs EXCEPT ![edit.tx] = None]
              /\ worker' = Forget({edit.tx})
           \/ /\ \/ edit.verdict = "rearm"
                 \/ edit.verdict = "insert" /\ jobs[edit.tx] = None
              /\ jobs' = [jobs EXCEPT ![edit.tx] = NewJob]
              /\ UNCHANGED worker
           \/ /\ \/ edit.verdict = "skip"
                 \/ edit.verdict = "insert" /\ jobs[edit.tx] # None
              /\ UNCHANGED <<jobs, worker>>
  /\ UNCHANGED <<vectors, live, spent>>

\* rename_category: the composed text of the category's transactions changes,
\* but no Transaction row is dirty, so the hook does nothing.
RenameCategory(t, x) ==
  /\ BeginEdit("rename")
  /\ ledger[t].kind # "absent" /\ x # ledger[t].text
  /\ ledger' = [ledger EXCEPT ![t].text = x]
  /\ UNCHANGED <<jobs, vectors, live, edit, worker>>

-----------------------------------------------------------------------------
(* A command: index (enqueue, then process) or process.                    *)

UpdateWorker(w, s) == worker' = [worker EXCEPT ![w] = s]

\* client.contract(): the revision is fetched once, for the whole run.
StartRun(w) ==
  /\ worker[w].pc = "idle"
  /\ "edit" \in Quiet => edit = None
  /\ UpdateWorker(w, [Idle EXCEPT !.pc = "ready", !.rev = live])
  /\ UNCHANGED <<ledger, jobs, vectors, live, edit, spent>>

\* Mutant: a job that is done is not re-armed.
BulkPlanTrustsDone(t, r, force) ==
  IF ~Eligible(ledger[t]) THEN "none"
  ELSE IF ~force /\ (Matches(t, r, ledger[t].text) \/ HasStatus(t, {"pending", "done"}))
  THEN "none"
  ELSE IF jobs[t] = None THEN "insert" ELSE IF HasStatus(t, {"done"}) THEN "none" ELSE "rearm"

BulkPlan(t, r, force) ==
  IF ~Eligible(ledger[t]) THEN "none"
  ELSE IF ~force /\ (Matches(t, r, ledger[t].text) \/ HasStatus(t, {"pending"})) THEN "none"
  ELSE IF jobs[t] = None THEN "insert" ELSE "rearm"

\* The reads of _enqueue_transaction_embeddings_once.
ReadLedger(w, force) ==
  /\ "index" \in Commands
  /\ worker[w].pc = "ready"
  /\ LET plan == [t \in Tx |-> BulkPlan(t, worker[w].rev, force)]
     IN  UpdateWorker(w, [Idle EXCEPT
           !.pc = "enqueue", !.rev = worker[w].rev,
           !.batch = {t \in Tx : plan[t] = "rearm"},
           !.doc = [t \in Tx |-> [NoDoc EXCEPT !.plan = plan[t]]]])
  /\ UNCHANGED <<ledger, jobs, vectors, live, edit, spent>>

\* Its commit; a re-armed row that has gone makes the command fail.
CommitEnqueue(w) ==
  LET me == worker[w]
      Enqueued == {t \in Tx : \/ me.doc[t].plan = "rearm"
                              \/ (me.doc[t].plan = "insert" /\ jobs[t] = None)}
  IN /\ me.pc = "enqueue"
     /\ \/ /\ me.gone # {}
           /\ UpdateWorker(w, Idle)
           /\ UNCHANGED jobs
        \/ /\ me.gone = {}
           /\ jobs' = [t \in Tx |-> IF t \in Enqueued THEN NewJob ELSE jobs[t]]
           /\ UpdateWorker(w, [Idle EXCEPT !.pc = "queued", !.rev = me.rev])
     /\ UNCHANGED <<ledger, vectors, live, edit, spent>>

\* Mutants: no stale window; a window of zero; failed jobs are due too.
ClaimablePendingOnly(t)  == jobs[t] # None /\ jobs[t].status = "pending" /\ jobs[t].wait = 0
ClaimableAnyRunning(t)   == HasStatus(t, {"pending", "running"}) /\ jobs[t].wait = 0
ClaimableFailedToo(t)    == HasStatus(t, {"pending", "failed"}) /\ jobs[t].wait = 0

\* _claimable_filters: due and pending, or running since before the stale window.
Claimable(t) ==
  /\ jobs[t] # None
  /\ \/ jobs[t].status = "pending"
     \/ jobs[t].status = "running" /\ jobs[t].age = StaleAfter
  /\ jobs[t].wait = 0

Smaller(a, b) == IF a < b THEN a ELSE b

\* At most n members of S; which ones (the created_at order) is abstracted.
UpTo(S, n) == {B \in SUBSET S : Cardinality(B) = Smaller(n, Cardinality(S))}

Claim(w) ==
  /\ \/ worker[w].pc = "queued"
     \/ worker[w].pc = "ready" /\ "process" \in Commands
  /\ \E S \in UpTo({t \in Tx : Claimable(t)}, Limit) :
       /\ jobs' = [t \in Tx |-> IF t \in S THEN [jobs[t] EXCEPT !.status = "running", !.age = 0]
                                ELSE jobs[t]]
       /\ UpdateWorker(w, IF S = {} THEN Idle
                          ELSE [Idle EXCEPT !.pc = "claimed", !.rev = worker[w].rev, !.todo = S])
  /\ UNCHANGED <<ledger, vectors, live, edit, spent>>

\* Mutant: an ineligible transaction's job is marked done instead of dropped.
ReadDocNoDrop(t, r) ==
  [NoDoc EXCEPT
     !.plan  = IF ~Eligible(ledger[t]) \/ Matches(t, r, ledger[t].text) THEN "done" ELSE "infer",
     !.text  = ledger[t].text,
     !.tries = jobs[t].attempts]

\* What _process_batch reads of one claimed job before it calls the service.
ReadDoc(t, r) ==
  [NoDoc EXCEPT
     !.plan  = IF ~Eligible(ledger[t]) THEN "drop"
               ELSE IF Matches(t, r, ledger[t].text) THEN "done" ELSE "infer",
     !.text  = ledger[t].text,
     !.tries = jobs[t].attempts]

Pending(doc) == {t \in Tx : doc[t].plan = "infer"}

\* Heartbeat the next batch and read its rows. Touching a job whose row is gone
\* raises out of the command: what it had claimed stays running.
StartBatch(w) ==
  LET me == worker[w] IN
  /\ me.pc = "claimed"
  /\ \E B \in UpTo(me.todo, BatchSize) :
       LET doc == [t \in Tx |-> IF t \in B THEN ReadDoc(t, me.rev) ELSE NoDoc] IN
       \/ /\ B \cap me.gone # {}
          /\ UpdateWorker(w, Idle)
          /\ UNCHANGED jobs
       \/ /\ B \cap me.gone = {}
          /\ jobs' = [t \in Tx |-> IF t \in B THEN [jobs[t] EXCEPT !.age = 0] ELSE jobs[t]]
          /\ UpdateWorker(w, [me EXCEPT
               !.pc = IF Pending(doc) = {} THEN "commit" ELSE "infer",
               !.todo = @ \ B, !.batch = B, !.doc = doc, !.expired = FALSE, !.clock = 0])
  /\ UNCHANGED <<ledger, vectors, live, edit, spent>>

\* The vectors of S arrived: _persist_vectors looks up the rows to overwrite.
Received(me, S) ==
  [t \in Tx |-> IF t \in S
                THEN [me.doc[t] EXCEPT !.plan = "store", !.made = live,
                                       !.known = HasVector(t, me.rev)]
                ELSE me.doc[t]]

Planned(me, S, p) ==
  [t \in Tx |-> IF t \in S THEN [me.doc[t] EXCEPT !.plan = p] ELSE me.doc[t]]

\* Mutant: a contract violation is not handled.
FaultPlanForgetsContract(f) == IF f = "unavailable" THEN "retry" ELSE "none"

FaultPlan(f) == IF f = "unavailable" THEN "retry" ELSE "fail"

Fault(f) == /\ f \in Faults
            /\ spent.faults < MaxFaults
            /\ spent' = [spent EXCEPT !.faults = @ + 1]

\* The reply to the batch request. A rejected batch falls back to one request
\* per document; every other failure is recorded for the whole batch.
Infer(w) ==
  LET me == worker[w] IN
  /\ me.pc = "infer"
  /\ \/ /\ UpdateWorker(w, [me EXCEPT !.pc = "commit", !.doc = Received(me, Pending(me.doc))])
        /\ UNCHANGED spent
     \/ \E f \in Faults \ {"rejected"} :
          /\ Fault(f)
          /\ UpdateWorker(w, [me EXCEPT !.pc = "commit",
                                        !.doc = Planned(me, Pending(me.doc), FaultPlan(f))])
     \/ /\ Fault("rejected")
        /\ UpdateWorker(w, [me EXCEPT !.pc = "single", !.clock = 0])
  /\ UNCHANGED <<ledger, jobs, vectors, live, edit>>

\* One document of _embed_individually. A commit inside the loop expires the
\* job objects, so the next one is re-read, and raises if its row is gone.
EmbedOne(w, t) ==
  LET me  == worker[w]
      now == IF me.expired /\ jobs[t] # None
             THEN [me EXCEPT !.doc[t].tries = jobs[t].attempts] ELSE me
  IN
  /\ me.pc = "single" /\ t \in Pending(me.doc)
  /\ \/ /\ me.expired /\ t \in me.gone
        /\ UpdateWorker(w, [me EXCEPT !.pc = "rollback", !.doc = NoDocs])
        /\ UNCHANGED spent
     \/ /\ ~(me.expired /\ t \in me.gone)
        /\ UpdateWorker(w, [now EXCEPT
             !.doc = Received(now, {t}), !.clock = 0,
             !.pc = IF Pending(me.doc) = {t} THEN "commit" ELSE "single"])
        /\ UNCHANGED spent
     \/ /\ ~(me.expired /\ t \in me.gone)
        /\ \E f \in Faults :
             /\ Fault(f)
             /\ UpdateWorker(w, [now EXCEPT
                  !.doc = Planned(now, {t}, FaultPlan(f)), !.clock = 0, !.pc = "commit"])
  /\ UNCHANGED <<ledger, jobs, vectors, live, edit>>

-----------------------------------------------------------------------------
(* The flush of a batch, and what follows when it raises.                  *)

\* Mutants: the ceiling is passed by one; the counter runs backwards.
DeferredOnceMore(tries) ==
  [status |-> IF tries + 1 > Ceiling THEN "failed" ELSE "pending",
   attempts |-> tries + 1, age |-> 0, wait |-> 1]
DeferredCountsDown(tries) ==
  [status |-> "pending", attempts |-> tries - 1, age |-> 0, wait |-> 1]

Deferred(tries) ==
  IF tries + 1 >= Ceiling
  THEN [status |-> "failed", attempts |-> tries + 1, age |-> 0, wait |-> 0]
  ELSE [status |-> "pending", attempts |-> tries + 1, age |-> 0, wait |-> 2^tries]

Failed(tries) == [status |-> "failed", attempts |-> tries + 1, age |-> 0, wait |-> 0]

MarkedDone(job) == [job EXCEPT !.status = "done", !.age = 0, !.wait = 0]

JobAfter(t, d) ==
  CASE d.plan = "drop"              -> None
    [] d.plan \in {"done", "store"} -> MarkedDone(jobs[t])
    [] d.plan = "retry"             -> Deferred(d.tries)
    [] d.plan = "fail"              -> Failed(d.tries)
    [] OTHER                        -> jobs[t]

\* The next batch, or the end of the command.
NextBatch(me) ==
  IF me.todo = {} THEN Idle
  ELSE [me EXCEPT !.pc = "claimed", !.batch = {}, !.doc = NoDocs, !.expired = FALSE, !.clock = 0]

Updated(me)   == {t \in Tx : me.doc[t].plan \in {"done", "store", "retry", "fail"}}
Dropped(me)   == {t \in Tx : me.doc[t].plan = "drop"} \ me.gone
Collides(me)  == {t \in Tx : me.doc[t].plan = "store" /\ ~me.doc[t].known
                                                      /\ HasVector(t, me.rev)}

\* An UPDATE of a missing row or a second row for (transaction, revision) makes
\* the flush raise, and the whole transaction rolls back.
Commit(w) ==
  LET me == worker[w] IN
  /\ me.pc = "commit"
  /\ \/ /\ Updated(me) \cap me.gone # {} \/ Collides(me) # {}
        /\ UpdateWorker(w, [me EXCEPT !.pc = "rollback", !.doc = NoDocs])
        /\ UNCHANGED <<jobs, vectors, edit>>
     \/ /\ Updated(me) \cap me.gone = {} /\ Collides(me) = {}
        /\ jobs' = [t \in Tx |-> IF t \in Updated(me) \cup Dropped(me)
                                 THEN JobAfter(t, me.doc[t]) ELSE jobs[t]]
        /\ vectors' = [t \in Tx |->
             IF me.doc[t].plan = "store"
             THEN [vectors[t] EXCEPT ![me.rev] = [text |-> me.doc[t].text, by |-> me.doc[t].made]]
             ELSE vectors[t]]
        /\ edit' = ForgetInEdit(Dropped(me))
        /\ worker' = [Forget(Dropped(me)) EXCEPT ![w] =
             IF Pending(me.doc) = {} THEN NextBatch(me)
             ELSE [me EXCEPT !.pc = "single", !.expired = TRUE, !.clock = 0,
                             !.batch = @ \ {t \in Tx : me.doc[t].plan = "drop"},
                             !.doc = [t \in Tx |-> IF t \in Pending(me.doc)
                                                   THEN me.doc[t] ELSE NoDoc]]]
  /\ UNCHANGED <<ledger, live, spent>>

\* _defer_jobs_by_ids after a rollback. It needs the id of every job of the
\* batch: if one row is gone, reading it raises out of the command.
Backstop(w) ==
  LET me == worker[w] IN
  /\ me.pc = "rollback"
  /\ \/ /\ me.batch \cap me.gone # {}
        /\ UpdateWorker(w, Idle)
        /\ UNCHANGED jobs
     \/ /\ me.batch \cap me.gone = {}
        /\ jobs' = [t \in Tx |-> IF t \in me.batch THEN Deferred(jobs[t].attempts)
                                 ELSE jobs[t]]
        /\ UpdateWorker(w, NextBatch(me))
  /\ UNCHANGED <<ledger, vectors, live, edit, spent>>

-----------------------------------------------------------------------------
(* The environment: a killed command, a new model, time.                   *)

Crash(w) ==
  /\ worker[w].pc # "idle"
  /\ spent.crashes < MaxCrashes
  /\ spent' = [spent EXCEPT !.crashes = @ + 1]
  /\ UpdateWorker(w, Idle)
  /\ UNCHANGED <<ledger, jobs, vectors, live, edit>>

UpgradeService(r) ==
  /\ r # live
  /\ "upgrade" \in Quiet => NoCommandRuns
  /\ spent.upgrades < MaxUpgrades
  /\ spent' = [spent EXCEPT !.upgrades = @ + 1]
  /\ live' = r
  /\ UNCHANGED <<ledger, jobs, vectors, edit, worker>>

InCall(w) == worker[w].pc \in {"infer", "single"}

Aged(job) ==
  [job EXCEPT !.age  = IF job.status = "running" THEN Smaller(@ + 1, StaleAfter) ELSE @,
              !.wait = IF @ = 0 THEN 0 ELSE @ - 1]

\* Between claiming and the end of its run a command spends its time in calls,
\* each of which ends within CallLimit; its database steps take none.
Tick ==
  /\ \A w \in Worker : \/ worker[w].pc \in {"idle", "ready", "enqueue", "queued"}
                       \/ InCall(w) /\ worker[w].clock < CallLimit
  /\ jobs' = [t \in Tx |-> IF jobs[t] = None THEN None ELSE Aged(jobs[t])]
  /\ worker' = [w \in Worker |-> IF InCall(w) THEN [worker[w] EXCEPT !.clock = @ + 1]
                                 ELSE worker[w]]
  /\ UNCHANGED <<ledger, vectors, live, edit, spent>>

-----------------------------------------------------------------------------
LedgerStep ==
  \/ \E t \in Tx, x \in Text : \/ CreateTransaction(t, x)
                               \/ EditTransaction(t, x)
                               \/ RenameCategory(t, x)
  \/ \E t \in Tx, k \in {"ledger", "excluded"} : Reclassify(t, k)
  \/ \E t \in Tx, i \in Issue : \/ OpenFlag(t, i)
                                \/ ReopenFlag(t, i)
                                \/ ResolveFlag(t, i, ledger[t].kind)
                                \/ ResolveFlag(t, i, "excluded")
  \/ CommitFlush

WorkerStep(w) ==
  \/ StartRun(w)
  \/ \E force \in BOOLEAN : ReadLedger(w, force)
  \/ CommitEnqueue(w)
  \/ Claim(w)
  \/ StartBatch(w)
  \/ Infer(w)
  \/ \E t \in Tx : EmbedOne(w, t)
  \/ Commit(w)
  \/ Backstop(w)

Next ==
  \/ LedgerStep
  \/ \E w \in Worker : WorkerStep(w) \/ Crash(w)
  \/ \E r \in Rev : UpgradeService(r)
  \/ Tick

Spec == Init /\ [][Next]_vars

-----------------------------------------------------------------------------
Held(w) == (worker[w].todo \cup worker[w].batch) \ worker[w].gone

\* Mutant: the compatibility key is not part of the query.
SearchEveryRevision ==
  {hit \in Tx \X Rev : Eligible(ledger[hit[1]]) /\ Matches(hit[1], hit[2], ledger[hit[1]].text)}

\* The stored vectors a query embedded by the live model is compared with.
SearchResults ==
  {hit \in Tx \X {live} : Eligible(ledger[hit[1]]) /\ Matches(hit[1], hit[2], ledger[hit[1]].text)}

(* Safety.                                                                 *)

\* A command never believes in a job row that has left the table: what it holds
\* and has not seen disappear is there to be updated (Commit, Backstop).
HeldRowsExist == \A w \in Worker : \A t \in Held(w) : jobs[t] # None

\* A job that will be tried again has attempts left (_defer_jobs, _rearm_job),
\* whoever else has counted attempts for it in the meantime.
RetryBudget ==
  \A t \in Tx : HasStatus(t, {"pending", "running"}) => jobs[t].attempts < Ceiling

\* A job is only reported done when a vector of its transaction is stored, even
\* when two commands raced on it or a flush rolled back (_mark_done).
DoneHasVector ==
  \A t \in Tx : HasStatus(t, {"done"}) => \E r \in Rev : HasVector(t, r)

\* Job state never drifts from the ledger (lifecycle.py): an indexable row
\* created since embeddings are on, with no vector of its current text, has a job
\* that is queued, running, or visibly failed.
NoSilentDrift ==
  \A t \in Tx \ Preexisting :
    Eligible(ledger[t]) /\ ~MatchesSomeKey(t, ledger[t].text)
      => HasStatus(t, {"pending", "running", "failed"})

\* No two commands work on the same job row (_claim_jobs, _heartbeat).
ClaimsExclusive ==
  \A v, w \in Worker : v # w => Held(v) \cap Held(w) = {}

\* A running job is in the hands of a live command (process_embedding_jobs: "every
\* claimed job is left in a controlled state").
NoStranding ==
  \A t \in Tx : HasStatus(t, {"running"}) => \E w \in Worker : t \in Held(w)

\* An ineligible transaction has no queued job (docs/EMBEDDINGS.md, eligibility).
IneligibleNotQueued ==
  \A t \in Tx : ~Eligible(ledger[t]) => ~HasStatus(t, {"pending"})

\* Search only compares vectors the live model itself produced (TransactionEmbedding:
\* vectors of different revisions "must never be mixed in one similarity computation").
SearchCoherent == \A hit \in SearchResults : vectors[hit[1]][hit[2]].by = live

\* A job that failed for good is only retried because its row changed or because
\* an index command asked for it, never by a processing run (failure table of
\* docs/EMBEDDINGS.md).
FailedStaysFailed ==
  [][\A t \in Tx :
       HasStatus(t, {"failed"}) /\ HasStatus(t, {"pending", "running"})'
         => \/ edit # None /\ edit' = None
            \/ \E w \in Worker : worker[w].pc = "enqueue" /\ worker'[w].pc = "queued"]_vars

\* The queue implements the documented life of a job.
Lifecycle == INSTANCE JobLifecycle
  WITH status <- [t \in Tx |-> IF jobs[t] = None THEN "absent" ELSE jobs[t].status]
LifecycleSpec == Lifecycle!Spec

-----------------------------------------------------------------------------
(* Liveness. A started command runs on, and time passes; that someone runs *)
(* the commands again is an assumption about the user, not about the code. *)

Progress == /\ WF_vars(Tick)
            /\ WF_vars(CommitFlush)
            /\ \A w \in Worker :
                 WF_vars(/\ worker[w].pc \notin {"idle", "ready"}
                         /\ WorkerStep(w))

UserReruns == \A w \in Worker :
  /\ WF_vars(StartRun(w))
  /\ WF_vars(worker[w].pc = "ready" /\ WorkerStep(w))

UserReindexes == \A w \in Worker :
  /\ WF_vars(StartRun(w))
  /\ WF_vars(\E force \in BOOLEAN : ReadLedger(w, force))

ProcessSpec == Spec /\ Progress /\ UserReruns
IndexSpec   == Spec /\ Progress /\ UserReindexes

\* Re-running `process` drains the queue: once faults, crashes and edits have
\* stopped, no job stays pending or running, not even one a killed command held.
QueueDrains == <>[](\A t \in Tx : ~HasStatus(t, {"pending", "running"}))

\* Re-running `index` is the recovery path (enqueue_transaction_embeddings): in the
\* end every indexable row has a vector of its current text for the live model.
IndexRepairs ==
  <>[](\A t \in Tx : Eligible(ledger[t]) => Matches(t, live, ledger[t].text))
=============================================================================
