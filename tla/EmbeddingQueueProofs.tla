------------------------ MODULE EmbeddingQueueProofs ------------------------
(***************************************************************************)
(* The embedding queue keeps its types, its retry budget and its evidence  *)
(* for "done" whatever the number of transactions, model revisions,        *)
(* commands and retries.                                                   *)
(*                                                                         *)
(* The three are not inductive on their own. A commit updates the rows the *)
(* command holds, so they must exist (HeldRowsExist) and every planned     *)
(* update must be about a held row; a stored vector must have a text and a *)
(* revision; a row marked done without inference must have had a vector    *)
(* when it was read, and vectors are never deleted (Sound).                *)
(*                                                                         *)
(* The second half is what the queue guarantees when it is left in peace:  *)
(* search while no model is swapped under a command, and the rest while    *)
(* the ledger is not edited under one and each claim is worked off in one  *)
(* batch (OneBatch).                                                       *)
(*                                                                         *)
(* None of these is inductive. A search is right because every vector was  *)
(* made by the model it is filed under (SearchInv), hence every command    *)
(* still has the contract of the live one. Two commands are kept apart by  *)
(* nothing but the age of their jobs, so RunInv says what a command may    *)
(* rely on at each point of its run: its jobs are running and younger than *)
(* its call, its plans fit what it read, and that has not changed.         *)
(* EligibleInv adds what the hook knows of flags. Every step then leaves   *)
(* the jobs alone, claims some, settles a batch, or is the ledger's        *)
(* (Effect), and the theorems follow case by case.                         *)
(***************************************************************************)
EXTENDS EmbeddingQueue, FiniteSetTheorems, TLAPS

\* A ledger row that exists has a composed text, and only such a row has flags.
TextKnown ==
  /\ \A t \in Tx : ledger[t].kind # "absent" => ledger[t].text \in Text
  /\ \A t \in Tx, i \in Issue : ledger[t].flag[i] # "none" => ledger[t].kind # "absent"
  /\ edit # None => edit.row.kind # "absent" /\ edit.row.text \in Text

HeldBy(s) == (s.todo \cup s.batch) \ s.gone

\* What a command believes is consistent: it plans for the rows of its batch,
\* and each plan has what it takes.
Sound(s) ==
  /\ s.pc # "idle" => s.rev \in Rev
  /\ s.todo \cap s.batch = {}
  /\ \A t \in Tx : /\ s.doc[t].plan \notin {"none", "insert"} => t \in s.batch
                   /\ s.doc[t].plan \in {"infer", "store"} => s.doc[t].text \in Text
                   /\ s.doc[t].plan = "store" => s.doc[t].made \in Rev
                   /\ s.doc[t].plan = "done" => \E r \in Rev : HasVector(t, r)

PlansSound == \A w \in Worker : Sound(worker[w])

JobSound(t, j) ==
  j # None => /\ j.status \in {"pending", "running"} => j.attempts < Ceiling
              /\ j.status = "done" => \E r \in Rev : HasVector(t, r)

SpentType == [edits : 0..MaxEdits, upgrades : 0..MaxUpgrades,
              crashes : 0..MaxCrashes, faults : 0..MaxFaults]

Inv ==
  /\ TypeOK
  /\ TextKnown
  /\ PlansSound
  /\ HeldRowsExist
  /\ \A t \in Tx : JobSound(t, jobs[t])

-----------------------------------------------------------------------------
(* Values the actions write.                                               *)

\* The idle command has the type of a command.
LEMMA IdleType == Idle \in WorkerState /\ NoDocs \in [Tx -> Doc] /\ NoDoc \in Doc
<1>1. NoDoc \in Doc
  BY DEF NoDoc, Doc, Plan
<1>2. NoDocs \in [Tx -> Doc]
  BY <1>1 DEF NoDocs
<1>3. 0 \in 0..CallLimit
  BY ConstantsAssumption
<1> QED BY <1>1, <1>2, <1>3 DEF Idle, WorkerState, Pc

\* A command without plans is sound.
LEMMA NoPlansSound ==
  ASSUME NEW s \in WorkerState, s.doc = NoDocs, s.pc # "idle" => s.rev \in Rev,
         s.todo \cap s.batch = {}
  PROVE  Sound(s)
BY DEF Sound, NoDocs, NoDoc

\* A command that goes on to its next batch only keeps the jobs still to do.
LEMMA NextBatchSound ==
  ASSUME NEW me \in WorkerState, me.rev \in Rev
  PROVE  /\ NextBatch(me) \in WorkerState /\ Sound(NextBatch(me))
         /\ HeldBy(NextBatch(me)) \subseteq me.todo \ me.gone
<1>1. CASE me.todo = {}
  <2>1. NextBatch(me) = Idle
    BY <1>1 DEF NextBatch
  <2>2. Idle.pc = "idle" /\ Idle.doc = NoDocs /\ Idle.todo = {} /\ Idle.batch = {}
    BY DEF Idle
  <2> QED BY <2>1, <2>2, IdleType, NoPlansSound DEF HeldBy
<1>2. CASE me.todo # {}
  <2> DEFINE s == [me EXCEPT !.pc = "claimed", !.batch = {}, !.doc = NoDocs,
                             !.expired = FALSE, !.clock = 0]
  <2>1. 0 \in 0..CallLimit
    BY ConstantsAssumption
  <2>2. /\ s \in WorkerState /\ s.rev = me.rev /\ s.todo = me.todo /\ s.batch = {}
        /\ s.doc = NoDocs /\ s.gone = me.gone
    BY <2>1, IdleType DEF WorkerState, Pc
  <2>3. NextBatch(me) = s
    BY <1>2 DEF NextBatch
  <2> HIDE DEF s
  <2> QED BY <2>2, <2>3, NoPlansSound DEF HeldBy
<1> QED BY <1>1, <1>2

\* A fresh job has the type of a job and its whole budget.
LEMMA NewJobSound == NewJob \in Job /\ \A t \in Tx : JobSound(t, NewJob)
BY ConstantsAssumption DEF NewJob, Job, Status, JobSound

\* A deferred job stays within the budget (_defer_jobs).
LEMMA DeferredSound ==
  ASSUME NEW t \in Tx, NEW n \in Nat
  PROVE  Deferred(n) \in Job /\ JobSound(t, Deferred(n))
<1>0. 0 \in 0..StaleAfter
  BY ConstantsAssumption
<1>1. CASE n + 1 >= Ceiling
  BY <1>0, <1>1 DEF Deferred, Job, Status, JobSound
<1>2. CASE ~(n + 1 >= Ceiling)
  <2>1. n \in 0..Ceiling /\ n + 1 < Ceiling
    BY <1>2, ConstantsAssumption
  <2>2. 2^n \in Nat
    BY <2>1, BackoffAssumption
  <2> QED BY <1>0, <1>2, <2>1, <2>2 DEF Deferred, Job, Status, JobSound
<1> QED BY <1>1, <1>2

\* A failed job is out of the budget's reach (_fail_jobs).
LEMMA FailedSound ==
  ASSUME NEW t \in Tx, NEW n \in Nat
  PROVE  Failed(n) \in Job /\ JobSound(t, Failed(n))
<1>1. 0 \in 0..StaleAfter
  BY ConstantsAssumption
<1> QED BY <1>1 DEF Failed, Job, Status, JobSound

LEMMA MarkedDoneType ==
  ASSUME NEW j \in Job
  PROVE  MarkedDone(j) \in Job /\ MarkedDone(j).status = "done"
<1>1. 0 \in 0..StaleAfter /\ 0 \in Nat /\ "done" \in Status
  BY ConstantsAssumption DEF Status
<1> QED BY <1>1 DEF MarkedDone, Job

-----------------------------------------------------------------------------
(* Frames.                                                                 *)

\* Updating one command.
LEMMA OneWorker ==
  ASSUME worker \in [Worker -> WorkerState], NEW w \in Worker, NEW s \in WorkerState,
         UpdateWorker(w, s)
  PROVE  /\ worker' \in [Worker -> WorkerState]
         /\ worker'[w] = s
         /\ \A v \in Worker : v # w => worker'[v] = worker[v]
BY DEF UpdateWorker

\* A step of one command that deletes no job row and stores no vector.
LEMMA CommandStep ==
  ASSUME Inv, NEW w \in Worker, NEW s \in WorkerState, UpdateWorker(w, s),
         jobs' \in [Tx -> Job \cup {None}],
         \A t \in Tx : jobs[t] # None => jobs'[t] # None,
         \A t \in Tx : JobSound(t, jobs'[t]),
         UNCHANGED <<ledger, vectors, live, edit>>, spent' \in SpentType,
         Sound(s), \A t \in HeldBy(s) : jobs'[t] # None
  PROVE  Inv'
<1>1. /\ worker' \in [Worker -> WorkerState]
      /\ worker'[w] = s
      /\ \A v \in Worker : v # w => worker'[v] = worker[v]
  BY OneWorker DEF Inv, TypeOK
<1>2. TypeOK'
  BY <1>1 DEF Inv, TypeOK, SpentType
<1>3. TextKnown'
  BY DEF Inv, TextKnown
<1>4. PlansSound'
  <2>1. ASSUME NEW v \in Worker PROVE Sound(worker'[v])
    BY <1>1 DEF Inv, PlansSound
  <2>2. ASSUME NEW v \in Worker PROVE Sound(worker[v])'
    BY <2>1 DEF Sound, HasVector
  <2> QED BY <2>2 DEF PlansSound
<1>5. HeldRowsExist'
  <2>1. ASSUME NEW v \in Worker, NEW t \in Held(v)' PROVE jobs'[t] # None
    <3>1. CASE v = w
      BY <3>1, <1>1 DEF Held, HeldBy
    <3>2. CASE v # w
      <4>1. t \in Held(v) /\ t \in Tx
        BY <3>2, <1>1, <2>1 DEF Held, Inv, TypeOK, WorkerState
      <4> QED BY <4>1 DEF Inv, HeldRowsExist
    <3> QED BY <3>1, <3>2
  <2> QED BY <2>1 DEF HeldRowsExist
<1>6. (\A t \in Tx : JobSound(t, jobs[t]))'
  BY DEF JobSound, HasVector
<1> QED BY <1>2, <1>3, <1>4, <1>5, <1>6 DEF Inv

\* A step of one command that touches nothing but its own beliefs.
LEMMA LocalStep ==
  ASSUME Inv, NEW w \in Worker, NEW s \in WorkerState, UpdateWorker(w, s),
         UNCHANGED <<ledger, jobs, vectors, live, edit>>, spent' \in SpentType,
         Sound(s), HeldBy(s) \subseteq Held(w)
  PROVE  Inv'
<1>1. \A t \in HeldBy(s) : jobs'[t] # None
  BY DEF Inv, HeldRowsExist
<1>2. jobs' \in [Tx -> Job \cup {None}] /\ \A t \in Tx : JobSound(t, jobs'[t])
  BY DEF Inv, TypeOK
<1> QED BY <1>1, <1>2, CommandStep

-----------------------------------------------------------------------------
(* One lemma per action of a command.                                      *)

\* Ending the command, whatever the reason.
LEMMA StepToIdle ==
  ASSUME Inv, NEW w \in Worker, UpdateWorker(w, Idle),
         UNCHANGED <<ledger, jobs, vectors, live, edit>>, spent' \in SpentType
  PROVE  Inv'
<1>1. Sound(Idle)
  BY IdleType, NoPlansSound DEF Idle
<1>2. HeldBy(Idle) = {}
  BY DEF HeldBy, Idle
<1> QED BY <1>1, <1>2, IdleType, LocalStep

LEMMA SpentSame == ASSUME Inv, UNCHANGED spent PROVE spent' \in SpentType
BY DEF Inv, TypeOK, SpentType

LEMMA FaultSpent == ASSUME Inv, NEW f \in Faults, Fault(f) PROVE spent' \in SpentType
BY ConstantsAssumption DEF Fault, Inv, TypeOK, SpentType

LEMMA StartRunInv ==
  ASSUME Inv, NEW w \in Worker, StartRun(w)
  PROVE  Inv'
<1> DEFINE s == [Idle EXCEPT !.pc = "ready", !.rev = live]
<1>1. s \in WorkerState /\ s.rev \in Rev /\ s.doc = NoDocs
  BY IdleType DEF Inv, TypeOK, WorkerState, Idle, Pc
<1>2. s.todo = {} /\ s.batch = {}
  BY DEF Idle
<1>3. Sound(s) /\ HeldBy(s) = {}
  BY <1>1, <1>2, NoPlansSound DEF HeldBy
<1>4. UpdateWorker(w, s) /\ UNCHANGED <<ledger, jobs, vectors, live, edit, spent>>
  BY DEF StartRun
<1> QED BY <1>1, <1>3, <1>4, LocalStep, SpentSame

LEMMA ReadLedgerInv ==
  ASSUME Inv, NEW w \in Worker, NEW force \in BOOLEAN, ReadLedger(w, force)
  PROVE  Inv'
<1> DEFINE me == worker[w]
           plan == [t \in Tx |-> BulkPlan(t, me.rev, force)]
           batch == {t \in Tx : plan[t] = "rearm"}
           doc == [t \in Tx |-> [NoDoc EXCEPT !.plan = plan[t]]]
           s == [Idle EXCEPT !.pc = "enqueue", !.rev = me.rev, !.batch = batch, !.doc = doc]
<1>1. UpdateWorker(w, s) /\ UNCHANGED <<ledger, jobs, vectors, live, edit, spent>>
  BY DEF ReadLedger
<1>2. me \in WorkerState /\ me.pc = "ready"
  BY DEF Inv, TypeOK, ReadLedger
<1>3. \A t \in Tx : plan[t] \in {"none", "insert", "rearm"}
  BY DEF BulkPlan
<1>4. doc \in [Tx -> Doc] /\ \A t \in Tx : doc[t].plan = plan[t]
  BY <1>3, IdleType DEF NoDoc, Doc, Plan
<1>5. s \in WorkerState
  BY <1>2, <1>4, IdleType DEF WorkerState, Pc
<1>6. s.rev \in Rev /\ s.todo = {} /\ s.batch = batch /\ s.doc = doc /\ s.gone = {}
  BY <1>2 DEF Idle, Inv, PlansSound, Sound
<1>7. Sound(s)
  <2>1. ASSUME NEW t \in Tx, s.doc[t].plan \notin {"none", "insert"} PROVE t \in s.batch
    BY <1>3, <1>4, <1>6, <2>1
  <2>2. ASSUME NEW t \in Tx PROVE s.doc[t].plan \notin {"infer", "store", "done"}
    BY <1>3, <1>4, <1>6
  <2> QED BY <1>6, <2>1, <2>2 DEF Sound
<1>8. \A t \in HeldBy(s) : jobs'[t] # None
  <2>1. ASSUME NEW t \in batch PROVE jobs[t] # None
    BY DEF BulkPlan
  <2> QED BY <1>1, <1>6, <2>1 DEF HeldBy
<1>9. jobs' \in [Tx -> Job \cup {None}] /\ \A t \in Tx : JobSound(t, jobs'[t])
  BY <1>1 DEF Inv, TypeOK
<1> QED BY <1>1, <1>5, <1>7, <1>8, <1>9, CommandStep, SpentSame

LEMMA CommitEnqueueInv ==
  ASSUME Inv, NEW w \in Worker, CommitEnqueue(w)
  PROVE  Inv'
<1> DEFINE me == worker[w]
           s == [Idle EXCEPT !.pc = "queued", !.rev = me.rev]
<1>1. me \in WorkerState /\ me.rev \in Rev
  BY DEF Inv, TypeOK, CommitEnqueue, PlansSound, Sound
<1>2. UNCHANGED <<ledger, vectors, live, edit, spent>> /\ spent' \in SpentType
  BY SpentSame DEF CommitEnqueue
<1>3. CASE UpdateWorker(w, Idle) /\ UNCHANGED jobs
  BY <1>2, <1>3, StepToIdle
<1>4. CASE UpdateWorker(w, s) /\ ~(UpdateWorker(w, Idle) /\ UNCHANGED jobs)
  <2>1. PICK E \in SUBSET Tx : jobs' = [t \in Tx |-> IF t \in E THEN NewJob ELSE jobs[t]]
    BY <1>4 DEF CommitEnqueue
  <2>2. jobs' \in [Tx -> Job \cup {None}] /\ \A t \in Tx : JobSound(t, jobs'[t])
    BY <2>1, NewJobSound DEF Inv, TypeOK
  <2>3. \A t \in Tx : jobs[t] # None => jobs'[t] # None
    BY <2>1, NewJobSound, NoneAssumption
  <2>4. s \in WorkerState /\ s.doc = NoDocs /\ s.todo = {} /\ s.batch = {} /\ s.rev \in Rev
    BY <1>1, IdleType DEF Idle, WorkerState, Pc
  <2>5. Sound(s) /\ HeldBy(s) = {}
    BY <2>4, NoPlansSound DEF HeldBy
  <2> QED BY <1>2, <1>4, <2>2, <2>3, <2>4, <2>5, CommandStep
<1> QED BY <1>3, <1>4 DEF CommitEnqueue

LEMMA ClaimInv ==
  ASSUME Inv, NEW w \in Worker, Claim(w)
  PROVE  Inv'
<1> DEFINE claimed(S) == [t \in Tx |-> IF t \in S THEN [jobs[t] EXCEPT !.status = "running", !.age = 0]
                                       ELSE jobs[t]]
           s(S) == [Idle EXCEPT !.pc = "claimed", !.rev = worker[w].rev, !.todo = S]
<1>1. PICK S \in SUBSET {t \in Tx : Claimable(t)} :
        /\ jobs' = claimed(S)
        /\ UpdateWorker(w, IF S = {} THEN Idle ELSE s(S))
  BY DEF Claim, UpTo
<1>2. UNCHANGED <<ledger, vectors, live, edit, spent>> /\ spent' \in SpentType
  BY SpentSame DEF Claim
<1>3. 0 \in 0..StaleAfter
  BY ConstantsAssumption
<1>4. ASSUME NEW t \in S
      PROVE /\ jobs[t] \in Job /\ jobs[t].attempts < Ceiling
            /\ jobs'[t] \in Job /\ jobs'[t] # None /\ JobSound(t, jobs'[t])
  <2>1. t \in Tx /\ jobs[t] \in Job /\ jobs[t].status \in {"pending", "running"}
    BY DEF Claimable, Inv, TypeOK
  <2>2. jobs[t].attempts < Ceiling
    BY <2>1, NoneAssumption DEF Inv, JobSound
  <2>3. jobs'[t] = [jobs[t] EXCEPT !.status = "running", !.age = 0]
    BY <1>1, <2>1
  <2>4. jobs'[t] \in Job /\ jobs'[t].status = "running" /\ jobs'[t].attempts = jobs[t].attempts
    BY <1>3, <2>1, <2>3 DEF Job, Status
  <2> QED BY <2>1, <2>2, <2>4, NoneAssumption DEF JobSound
<1>5. /\ jobs' \in [Tx -> Job \cup {None}]
      /\ \A t \in Tx : JobSound(t, jobs'[t]) /\ (jobs[t] # None => jobs'[t] # None)
  <2>1. ASSUME NEW t \in Tx \ S PROVE jobs'[t] = jobs[t]
    BY <1>1
  <2>2. ASSUME NEW t \in Tx
        PROVE jobs'[t] \in Job \cup {None} /\ JobSound(t, jobs'[t]) /\ (jobs[t] # None => jobs'[t] # None)
    BY <1>4, <2>1 DEF Inv, TypeOK
  <2> QED BY <1>1, <2>2
<1>6. worker[w].rev \in Rev
  BY DEF Claim, Inv, PlansSound, Sound
<1>7. CASE S = {}
  <2>1. jobs' = jobs
    BY <1>1, <1>7 DEF Inv, TypeOK
  <2> QED BY <1>1, <1>2, <1>7, <2>1, StepToIdle
<1>8. CASE S # {}
  <2>1. /\ s(S) \in WorkerState /\ s(S).doc = NoDocs /\ s(S).todo = S /\ s(S).batch = {}
        /\ s(S).rev \in Rev
    BY <1>6, IdleType DEF Idle, WorkerState, Pc
  <2>2. Sound(s(S)) /\ HeldBy(s(S)) \subseteq S
    BY <2>1, NoPlansSound DEF HeldBy
  <2>3. UpdateWorker(w, s(S)) /\ \A t \in HeldBy(s(S)) : jobs'[t] # None
    BY <1>1, <1>4, <1>8, <2>2
  <2> HIDE DEF s
  <2> QED BY <1>2, <1>5, <2>1, <2>2, <2>3, CommandStep
<1> QED BY <1>7, <1>8

\* What a command reads before inference is typed, and gives each plan what it takes.
LEMMA ReadDocSound ==
  ASSUME Inv, NEW t \in Tx, jobs[t] # None, NEW r \in Rev
  PROVE  LET d == ReadDoc(t, r) IN
         /\ d \in Doc /\ d.plan \in {"drop", "done", "infer"}
         /\ d.plan = "infer" => d.text \in Text
         /\ d.plan = "done" => \E q \in Rev : HasVector(t, q)
<1> DEFINE d == ReadDoc(t, r)
<1>1. jobs[t] \in Job /\ ledger[t] \in Row
  BY DEF Inv, TypeOK
<1>2. jobs[t].attempts \in Nat /\ ledger[t].text \in Text \cup {None}
  BY <1>1 DEF Job, Row
<1>3. /\ d.plan = (IF ~Eligible(ledger[t]) THEN "drop"
                   ELSE IF Matches(t, r, ledger[t].text) THEN "done" ELSE "infer")
      /\ d.text = ledger[t].text
  BY DEF ReadDoc, NoDoc
<1>4. d \in Doc
  BY <1>2, IdleType DEF ReadDoc, NoDoc, Doc, Plan
<1>5. d.plan = "infer" => d.text \in Text
  BY <1>3 DEF Eligible, Inv, TextKnown
<1>6. d.plan = "done" => HasVector(t, r)
  BY <1>3 DEF Matches
<1> QED BY <1>3, <1>4, <1>5, <1>6

LEMMA StartBatchInv ==
  ASSUME Inv, NEW w \in Worker, StartBatch(w)
  PROVE  Inv'
<1> DEFINE me == worker[w]
           doc(B) == [t \in Tx |-> IF t \in B THEN ReadDoc(t, me.rev) ELSE NoDoc]
           s(B) == [me EXCEPT
             !.pc = IF Pending(doc(B)) = {} THEN "commit" ELSE "infer",
             !.todo = @ \ B, !.batch = B, !.doc = doc(B), !.expired = FALSE, !.clock = 0]
<1>1. me \in WorkerState /\ Sound(me) /\ me.rev \in Rev
  BY DEF Inv, TypeOK, StartBatch, PlansSound, Sound
<1>2. UNCHANGED <<ledger, vectors, live, edit, spent>> /\ spent' \in SpentType
  BY SpentSame DEF StartBatch
<1>3. CASE UpdateWorker(w, Idle) /\ UNCHANGED jobs
  BY <1>2, <1>3, StepToIdle
<1>4. CASE ~(UpdateWorker(w, Idle) /\ UNCHANGED jobs)
  <2>1. PICK B \in SUBSET me.todo :
          /\ B \cap me.gone = {}
          /\ jobs' = [t \in Tx |-> IF t \in B THEN [jobs[t] EXCEPT !.age = 0] ELSE jobs[t]]
          /\ UpdateWorker(w, s(B))
    BY <1>4 DEF StartBatch, UpTo
  <2>2. ASSUME NEW t \in B PROVE t \in Tx /\ t \in Held(w) /\ jobs[t] # None /\ jobs[t] \in Job
    BY <1>1, <2>1 DEF WorkerState, Held, Inv, TypeOK, HeldRowsExist
  <2>3. ASSUME NEW t \in Tx
        PROVE /\ doc(B)[t] \in Doc
              /\ doc(B)[t].plan \in {"none", "drop", "done", "infer"}
              /\ doc(B)[t].plan # "none" => t \in B
              /\ doc(B)[t].plan = "infer" => doc(B)[t].text \in Text
              /\ doc(B)[t].plan = "done" => \E r \in Rev : HasVector(t, r)
    <3>1. CASE t \in B
      BY <1>1, <2>2, <3>1, ReadDocSound
    <3>2. CASE t \notin B
      BY <3>2, IdleType DEF NoDoc
    <3> QED BY <3>1, <3>2
  <2>4. 0 \in 0..CallLimit /\ 0 \in 0..StaleAfter
    BY ConstantsAssumption
  <2>5. doc(B) \in [Tx -> Doc]
    BY <2>3
  <2>6. /\ s(B) \in WorkerState /\ s(B).rev = me.rev /\ s(B).todo = me.todo \ B /\ s(B).batch = B
        /\ s(B).doc = doc(B) /\ s(B).gone = me.gone
    <3> HIDE DEF doc
    <3> QED BY <1>1, <2>1, <2>4, <2>5 DEF WorkerState, Pc
  <2>7. Sound(s(B))
    <3> HIDE DEF s
    <3> QED BY <1>1, <2>3, <2>6 DEF Sound
  <2>8. ASSUME NEW t \in B
        PROVE jobs'[t] \in Job /\ jobs'[t] # None /\ JobSound(t, jobs'[t])
    <3>1. jobs'[t] = [jobs[t] EXCEPT !.age = 0]
      BY <2>1, <2>2
    <3>2. /\ jobs'[t] \in Job /\ jobs'[t].status = jobs[t].status
          /\ jobs'[t].attempts = jobs[t].attempts
      BY <2>2, <2>4, <3>1 DEF Job
    <3>3. JobSound(t, jobs[t])
      BY <2>2 DEF Inv
    <3> QED BY <2>2, <3>2, <3>3, NoneAssumption DEF JobSound
  <2>9. ASSUME NEW t \in Tx
        PROVE /\ jobs'[t] \in Job \cup {None} /\ JobSound(t, jobs'[t])
              /\ jobs[t] # None => jobs'[t] # None
    <3>1. CASE t \in B
      BY <2>8, <3>1
    <3>2. CASE t \notin B
      BY <2>1, <3>2 DEF Inv, TypeOK
    <3> QED BY <3>1, <3>2
  <2>10. jobs' \in [Tx -> Job \cup {None}]
    BY <2>1, <2>9
  <2>11. \A t \in HeldBy(s(B)) : jobs'[t] # None
    <3>1. HeldBy(s(B)) \subseteq Held(w) /\ Held(w) \subseteq Tx
      BY <1>1, <2>1, <2>6 DEF HeldBy, Held, WorkerState
    <3> QED BY <2>9, <3>1 DEF Inv, HeldRowsExist
  <2> HIDE DEF s
  <2> QED BY <1>2, <2>1, <2>6, <2>7, <2>9, <2>10, <2>11, CommandStep
<1> QED BY <1>3, <1>4

LEMMA BackstopInv ==
  ASSUME Inv, NEW w \in Worker, Backstop(w)
  PROVE  Inv'
<1> DEFINE me == worker[w]
<1>1. me \in WorkerState /\ Sound(me) /\ me.rev \in Rev
  BY DEF Inv, TypeOK, Backstop, PlansSound, Sound
<1>2. UNCHANGED <<ledger, vectors, live, edit, spent>> /\ spent' \in SpentType
  BY SpentSame DEF Backstop
<1>3. CASE UpdateWorker(w, Idle) /\ UNCHANGED jobs
  BY <1>2, <1>3, StepToIdle
<1>4. CASE ~(UpdateWorker(w, Idle) /\ UNCHANGED jobs)
  <2>1. /\ me.batch \cap me.gone = {}
        /\ jobs' = [t \in Tx |-> IF t \in me.batch THEN Deferred(jobs[t].attempts) ELSE jobs[t]]
        /\ UpdateWorker(w, NextBatch(me))
    BY <1>4 DEF Backstop
  <2>2. ASSUME NEW t \in Tx
        PROVE /\ jobs'[t] \in Job \cup {None} /\ JobSound(t, jobs'[t])
              /\ jobs[t] # None => jobs'[t] # None
    <3>1. CASE t \in me.batch
      <4>1. t \in Held(w) /\ jobs[t] \in Job
        BY <2>1, <3>1 DEF Held, Inv, TypeOK, HeldRowsExist
      <4>2. jobs[t].attempts \in Nat
        BY <4>1 DEF Job
      <4>3. jobs'[t] = Deferred(jobs[t].attempts)
        BY <2>1, <3>1
      <4> QED BY <4>2, <4>3, DeferredSound, NoneAssumption
    <3>2. CASE t \notin me.batch
      BY <2>1, <3>2 DEF Inv, TypeOK
    <3> QED BY <3>1, <3>2
  <2>3. jobs' \in [Tx -> Job \cup {None}]
    BY <2>1, <2>2
  <2>4. NextBatch(me) \in WorkerState /\ Sound(NextBatch(me)) /\ HeldBy(NextBatch(me)) \subseteq Held(w)
    BY <1>1, NextBatchSound DEF Held, HeldBy
  <2>5. \A t \in HeldBy(NextBatch(me)) : jobs'[t] # None
    BY <1>1, <2>2, <2>4 DEF Inv, HeldRowsExist, Held, WorkerState
  <2> QED BY <1>2, <2>1, <2>2, <2>3, <2>4, <2>5, CommandStep
<1> QED BY <1>3, <1>4

LEMMA CrashInv ==
  ASSUME Inv, NEW w \in Worker, Crash(w)
  PROVE  Inv'
<1>1. spent' \in SpentType
  BY ConstantsAssumption DEF Crash, Inv, TypeOK, SpentType
<1> QED BY <1>1, StepToIdle DEF Crash

\* Answers and failures only move documents that were at the service.
LEMMA OutcomeSound ==
  ASSUME Inv, NEW me \in WorkerState, Sound(me), me.rev \in Rev,
         NEW S \in SUBSET Pending(me.doc), NEW s \in WorkerState,
         s.rev = me.rev, s.todo = me.todo, s.batch = me.batch,
         \/ s.doc = Received(me, S)
         \/ \E p \in {"retry", "fail"} : s.doc = Planned(me, S, p)
  PROVE  Sound(s)
<1>1. ASSUME NEW t \in S
      PROVE t \in me.batch /\ me.doc[t].text \in Text /\ me.doc[t] \in Doc
  BY DEF Pending, Sound, WorkerState
<1>2. live \in Rev /\ me.doc \in [Tx -> Doc]
  BY DEF Inv, TypeOK, WorkerState
<1>3. CASE s.doc = Received(me, S)
  <2>1. ASSUME NEW t \in S
        PROVE s.doc[t].plan = "store" /\ s.doc[t].text = me.doc[t].text /\ s.doc[t].made = live
    BY <1>1, <1>2, <1>3 DEF Received, Pending, Doc
  <2>2. ASSUME NEW t \in Tx \ S PROVE s.doc[t] = me.doc[t]
    BY <1>3 DEF Received
  <2> QED BY <1>1, <1>2, <2>1, <2>2 DEF Sound
<1>4. CASE \E p \in {"retry", "fail"} : s.doc = Planned(me, S, p)
  <2>1. PICK p \in {"retry", "fail"} : s.doc = Planned(me, S, p)
    BY <1>4
  <2>2. ASSUME NEW t \in S PROVE s.doc[t].plan = p
    BY <1>1, <1>2, <2>1 DEF Planned, Pending, Doc
  <2>3. ASSUME NEW t \in Tx \ S PROVE s.doc[t] = me.doc[t]
    BY <2>1 DEF Planned
  <2> QED BY <1>1, <2>2, <2>3 DEF Sound
<1> QED BY <1>3, <1>4

LEMMA OutcomeType ==
  ASSUME Inv, NEW me \in WorkerState, NEW S \in SUBSET Tx, NEW p \in Plan
  PROVE  Received(me, S) \in [Tx -> Doc] /\ Planned(me, S, p) \in [Tx -> Doc]
<1>1. live \in Rev /\ me.doc \in [Tx -> Doc]
  BY DEF Inv, TypeOK, WorkerState
<1>2. ASSUME NEW t \in Tx
      PROVE [me.doc[t] EXCEPT !.plan = "store", !.made = live, !.known = HasVector(t, me.rev)] \in Doc
  <2>1. HasVector(t, me.rev) \in BOOLEAN
    BY DEF HasVector
  <2> QED BY <1>1, <2>1 DEF Doc, Plan
<1>3. ASSUME NEW t \in Tx PROVE [me.doc[t] EXCEPT !.plan = p] \in Doc
  BY <1>1 DEF Doc
<1> QED BY <1>1, <1>2, <1>3 DEF Received, Planned

LEMMA InferInv ==
  ASSUME Inv, NEW w \in Worker, Infer(w)
  PROVE  Inv'
<1> DEFINE me == worker[w]
           S == Pending(me.doc)
<1>1. me \in WorkerState /\ Sound(me) /\ me.rev \in Rev /\ S \subseteq Tx
  BY DEF Inv, TypeOK, Infer, PlansSound, Sound, Pending
<1>2. UNCHANGED <<ledger, jobs, vectors, live, edit>>
  BY DEF Infer
<1>3. spent' \in SpentType
  <2>1. UNCHANGED spent \/ \E f \in Faults : Fault(f)
    BY DEF Infer, Fault
  <2> QED BY <2>1, SpentSame, FaultSpent
<1>4. \E s \in WorkerState :
        /\ UpdateWorker(w, s) /\ Sound(s)
        /\ s.todo = me.todo /\ s.batch = me.batch /\ s.gone = me.gone
  <2>1. CASE UpdateWorker(w, [me EXCEPT !.pc = "commit", !.doc = Received(me, S)])
    <3> DEFINE s == [me EXCEPT !.pc = "commit", !.doc = Received(me, S)]
    <3>1. Received(me, S) \in [Tx -> Doc]
      BY <1>1, OutcomeType DEF Plan
    <3>2. /\ s \in WorkerState /\ s.rev = me.rev /\ s.todo = me.todo /\ s.batch = me.batch
          /\ s.gone = me.gone /\ s.doc = Received(me, S)
      BY <1>1, <3>1 DEF WorkerState, Pc
    <3> HIDE DEF s
    <3>3. Sound(s)
      BY <1>1, <3>2, OutcomeSound
    <3> QED BY <2>1, <3>2, <3>3 DEF s
  <2>2. CASE \E f \in Faults \ {"rejected"} :
               UpdateWorker(w, [me EXCEPT !.pc = "commit", !.doc = Planned(me, S, FaultPlan(f))])
    <3>1. PICK f \in Faults \ {"rejected"} :
            UpdateWorker(w, [me EXCEPT !.pc = "commit", !.doc = Planned(me, S, FaultPlan(f))])
      BY <2>2
    <3> DEFINE p == FaultPlan(f)
               s == [me EXCEPT !.pc = "commit", !.doc = Planned(me, S, p)]
    <3>2. p \in {"retry", "fail"} /\ p \in Plan
      BY DEF FaultPlan, Plan
    <3> HIDE DEF p
    <3>3. Planned(me, S, p) \in [Tx -> Doc]
      BY <1>1, <3>2, OutcomeType
    <3>4. /\ s \in WorkerState /\ s.rev = me.rev /\ s.todo = me.todo /\ s.batch = me.batch
          /\ s.gone = me.gone /\ s.doc = Planned(me, S, p)
      BY <1>1, <3>3 DEF WorkerState, Pc
    <3>5. UpdateWorker(w, s)
      BY <3>1 DEF p
    <3> HIDE DEF s
    <3>6. Sound(s)
      BY <1>1, <3>2, <3>4, OutcomeSound
    <3> QED BY <3>4, <3>5, <3>6
  <2>3. CASE UpdateWorker(w, [me EXCEPT !.pc = "single", !.clock = 0])
    <3> DEFINE s == [me EXCEPT !.pc = "single", !.clock = 0]
    <3>1. 0 \in 0..CallLimit
      BY ConstantsAssumption
    <3>2. /\ s \in WorkerState /\ s.rev = me.rev /\ s.todo = me.todo /\ s.batch = me.batch
          /\ s.gone = me.gone /\ s.doc = me.doc
      BY <1>1, <3>1 DEF WorkerState, Pc
    <3> HIDE DEF s
    <3>3. Sound(s)
      BY <1>1, <3>2 DEF Sound
    <3> QED BY <2>3, <3>2, <3>3 DEF s
  <2> QED BY <2>1, <2>2, <2>3 DEF Infer
<1>5. PICK s \in WorkerState :
        /\ UpdateWorker(w, s) /\ Sound(s)
        /\ s.todo = me.todo /\ s.batch = me.batch /\ s.gone = me.gone
  BY <1>4
<1>6. HeldBy(s) \subseteq Held(w)
  BY <1>5 DEF HeldBy, Held
<1> QED BY <1>2, <1>3, <1>5, <1>6, LocalStep

LEMMA EmbedOneInv ==
  ASSUME Inv, NEW w \in Worker, NEW t \in Tx, EmbedOne(w, t)
  PROVE  Inv'
<1> DEFINE me  == worker[w]
           now == IF me.expired /\ jobs[t] # None
                  THEN [me EXCEPT !.doc[t].tries = jobs[t].attempts] ELSE me
           next(d, pc) == [now EXCEPT !.doc = d, !.clock = 0, !.pc = pc]
<1>1. me \in WorkerState /\ Sound(me) /\ me.rev \in Rev /\ t \in Pending(me.doc) /\ t \in me.batch
  BY DEF Inv, TypeOK, EmbedOne, PlansSound, Sound, Pending
<1>2. UNCHANGED <<ledger, jobs, vectors, live, edit>>
  BY DEF EmbedOne
<1>3. spent' \in SpentType
  <2>1. UNCHANGED spent \/ \E f \in Faults : Fault(f)
    BY DEF EmbedOne
  <2> QED BY <2>1, SpentSame, FaultSpent
<1>4. /\ now \in WorkerState /\ now.rev = me.rev /\ now.todo = me.todo /\ now.batch = me.batch
      /\ now.gone = me.gone /\ now.pc = me.pc /\ Sound(now) /\ t \in Pending(now.doc)
  <2>1. CASE me.expired /\ jobs[t] # None
    <3> DEFINE doc == [me.doc EXCEPT ![t] = [me.doc[t] EXCEPT !.tries = jobs[t].attempts]]
    <3>1. jobs[t].attempts \in Nat /\ me.doc \in [Tx -> Doc]
      BY <1>1, <2>1 DEF Inv, TypeOK, Job, WorkerState
    <3>2. /\ doc \in [Tx -> Doc]
          /\ \A u \in Tx : /\ doc[u].plan = me.doc[u].plan /\ doc[u].text = me.doc[u].text
                           /\ doc[u].made = me.doc[u].made
      BY <3>1 DEF Doc
    <3>3. now = [me EXCEPT !.doc = doc]
      BY <1>1, <2>1 DEF WorkerState
    <3>4. /\ now \in WorkerState /\ now.doc = doc /\ now.rev = me.rev /\ now.todo = me.todo
          /\ now.batch = me.batch /\ now.gone = me.gone /\ now.pc = me.pc
      <4> HIDE DEF doc, now
      <4> QED BY <1>1, <3>2, <3>3 DEF WorkerState
    <3> HIDE DEF doc, now
    <3> QED BY <1>1, <3>2, <3>4 DEF Sound, Pending
  <2>2. CASE ~(me.expired /\ jobs[t] # None)
    BY <1>1, <2>2
  <2> QED BY <2>1, <2>2
<1> HIDE DEF now
<1>5. ASSUME NEW d \in [Tx -> Doc], NEW pc \in Pc,
             d = Received(now, {t}) \/ \E p \in {"retry", "fail"} : d = Planned(now, {t}, p),
             UpdateWorker(w, next(d, pc))
      PROVE  Inv'
  <2>1. 0 \in 0..CallLimit
    BY ConstantsAssumption
  <2>2. /\ next(d, pc) \in WorkerState /\ next(d, pc).rev = now.rev /\ next(d, pc).todo = now.todo
        /\ next(d, pc).batch = now.batch /\ next(d, pc).gone = now.gone /\ next(d, pc).doc = d
    BY <1>4, <2>1 DEF WorkerState
  <2> HIDE DEF next
  <2>3. Sound(next(d, pc))
    BY <1>1, <1>4, <1>5, <2>2, OutcomeSound
  <2>4. HeldBy(next(d, pc)) \subseteq Held(w)
    BY <1>4, <2>2 DEF HeldBy, Held
  <2> QED BY <1>2, <1>3, <1>5, <2>2, <2>3, <2>4, LocalStep
<1>6. CASE UpdateWorker(w, [me EXCEPT !.pc = "rollback", !.doc = NoDocs])
  <2> DEFINE s == [me EXCEPT !.pc = "rollback", !.doc = NoDocs]
  <2>1. /\ s \in WorkerState /\ s.rev = me.rev /\ s.todo = me.todo /\ s.batch = me.batch
        /\ s.gone = me.gone /\ s.doc = NoDocs
    BY <1>1, IdleType DEF WorkerState, Pc
  <2> HIDE DEF s
  <2>2. Sound(s) /\ HeldBy(s) \subseteq Held(w)
    BY <1>1, <2>1, NoPlansSound DEF Sound, HeldBy, Held
  <2> QED BY <1>2, <1>3, <1>6, <2>1, <2>2, LocalStep DEF s
<1>7. CASE UpdateWorker(w, [now EXCEPT !.doc = Received(now, {t}), !.clock = 0,
                                       !.pc = IF Pending(me.doc) = {t} THEN "commit" ELSE "single"])
  <2> DEFINE pc == IF Pending(me.doc) = {t} THEN "commit" ELSE "single"
  <2>1. Received(now, {t}) \in [Tx -> Doc]
    BY <1>4, OutcomeType DEF Plan
  <2>2. pc \in Pc
    BY DEF Pc
  <2> QED BY <1>5, <1>7, <2>1, <2>2
<1>8. CASE \E f \in Faults : UpdateWorker(w, [now EXCEPT !.doc = Planned(now, {t}, FaultPlan(f)),
                                                         !.clock = 0, !.pc = "commit"])
  <2>1. PICK f \in Faults : UpdateWorker(w, [now EXCEPT !.doc = Planned(now, {t}, FaultPlan(f)),
                                                         !.clock = 0, !.pc = "commit"])
    BY <1>8
  <2>2. FaultPlan(f) \in {"retry", "fail"} /\ FaultPlan(f) \in Plan /\ "commit" \in Pc
    BY DEF FaultPlan, Plan, Pc
  <2>3. Planned(now, {t}, FaultPlan(f)) \in [Tx -> Doc]
    BY <1>4, <2>2, OutcomeType
  <2> QED BY <1>5, <2>1, <2>2, <2>3
<1> QED BY <1>6, <1>7, <1>8 DEF EmbedOne, now

\* Deleting job rows changes nothing in a command but the rows it has lost.
LEMMA ForgetSame ==
  ASSUME Inv, NEW S \in SUBSET Tx, NEW v \in Worker
  PROVE  LET f == Forget(S)[v]  me == worker[v] IN
         /\ Forget(S) \in [Worker -> WorkerState]
         /\ f.pc = me.pc /\ f.rev = me.rev /\ f.todo = me.todo /\ f.batch = me.batch /\ f.doc = me.doc
         /\ HeldBy(f) = Held(v) \ S
<1>1. \A u \in Worker : worker[u] \in WorkerState
  BY DEF Inv, TypeOK
<1>2. ASSUME NEW u \in Worker
      PROVE [worker[u] EXCEPT !.gone = @ \cup (S \cap (worker[u].todo \cup worker[u].batch))] \in WorkerState
  BY <1>1 DEF WorkerState
<1>3. Forget(S) \in [Worker -> WorkerState]
  BY <1>2 DEF Forget
<1> DEFINE me == worker[v]
<1>4. Forget(S)[v] = [me EXCEPT !.gone = @ \cup (S \cap (me.todo \cup me.batch))]
  BY DEF Forget
<1>5. /\ Forget(S)[v].pc = me.pc /\ Forget(S)[v].rev = me.rev /\ Forget(S)[v].todo = me.todo
      /\ Forget(S)[v].batch = me.batch /\ Forget(S)[v].doc = me.doc
      /\ Forget(S)[v].gone = me.gone \cup (S \cap (me.todo \cup me.batch))
  BY <1>1, <1>4 DEF WorkerState
<1>6. HeldBy(Forget(S)[v]) = Held(v) \ S
  BY <1>5 DEF HeldBy, Held
<1> QED BY <1>3, <1>5, <1>6

\* What a commit of command w writes for the rows it planned.
LEMMA CommittedJobs ==
  ASSUME Inv, NEW w \in Worker, worker[w].pc = "commit",
         Updated(worker[w]) \cap worker[w].gone = {}, NEW t \in Updated(worker[w])
  PROVE  LET d == worker[w].doc[t]  j == JobAfter(t, d) IN
         /\ j \in Job /\ j # None
         /\ j.status \in {"pending", "running"} => j.attempts < Ceiling
         /\ j.status = "done" => d.plan = "store" \/ \E r \in Rev : HasVector(t, r)
<1> DEFINE me == worker[w]
           d == me.doc[t]
<1>1. me \in WorkerState /\ Sound(me) /\ t \in Tx /\ d \in Doc
  BY DEF Inv, TypeOK, PlansSound, Updated, WorkerState
<1>2. d.plan \in {"done", "store", "retry", "fail"} /\ d.tries \in Nat
  BY <1>1 DEF Updated, Doc
<1>3. t \in me.batch /\ t \notin me.gone
  BY <1>1, <1>2 DEF Sound
<1>4. jobs[t] \in Job
  BY <1>1, <1>3 DEF Held, Inv, TypeOK, HeldRowsExist
<1>5. CASE d.plan = "retry"
  BY <1>1, <1>2, <1>5, DeferredSound, NoneAssumption DEF JobAfter, JobSound
<1>6. CASE d.plan = "fail"
  <2>1. JobAfter(t, d) = Failed(d.tries)
    BY <1>6 DEF JobAfter
  <2> QED BY <1>1, <1>2, <2>1, FailedSound, NoneAssumption DEF JobSound
<1>7. CASE d.plan \in {"done", "store"}
  <2>1. JobAfter(t, d) = MarkedDone(jobs[t])
    BY <1>7 DEF JobAfter
  <2>3. JobAfter(t, d) \in Job /\ JobAfter(t, d).status = "done"
    BY <1>4, <2>1, MarkedDoneType
  <2>4. d.plan = "done" => \E r \in Rev : HasVector(t, r)
    BY <1>1 DEF Sound
  <2> QED BY <1>7, <2>3, <2>4, NoneAssumption
<1> QED BY <1>2, <1>5, <1>6, <1>7

LEMMA CommitInv ==
  ASSUME Inv, NEW w \in Worker, Commit(w)
  PROVE  Inv'
<1> DEFINE me == worker[w]
           D == Dropped(me)
           left == [me EXCEPT !.pc = "single", !.expired = TRUE, !.clock = 0,
                              !.batch = @ \ {t \in Tx : me.doc[t].plan = "drop"},
                              !.doc = [t \in Tx |-> IF t \in Pending(me.doc)
                                                    THEN me.doc[t] ELSE NoDoc]]
           s == IF Pending(me.doc) = {} THEN NextBatch(me) ELSE left
<1>1. me \in WorkerState /\ Sound(me) /\ me.rev \in Rev /\ me.pc = "commit" /\ D \subseteq Tx
  BY DEF Inv, TypeOK, Commit, PlansSound, Sound, Dropped
<1>2. UNCHANGED <<ledger, live, spent>> /\ spent' \in SpentType
  BY SpentSame DEF Commit
<1>3. CASE UpdateWorker(w, [me EXCEPT !.pc = "rollback", !.doc = NoDocs])
           /\ UNCHANGED <<jobs, vectors, edit>>
  <2> DEFINE r == [me EXCEPT !.pc = "rollback", !.doc = NoDocs]
  <2>1. /\ r \in WorkerState /\ r.rev = me.rev /\ r.todo = me.todo /\ r.batch = me.batch
        /\ r.gone = me.gone /\ r.doc = NoDocs
    BY <1>1, IdleType DEF WorkerState, Pc
  <2>2. UpdateWorker(w, r)
    BY <1>3
  <2> HIDE DEF r
  <2>3. Sound(r) /\ HeldBy(r) \subseteq Held(w)
    BY <1>1, <2>1, NoPlansSound DEF Sound, HeldBy, Held
  <2> QED BY <1>2, <1>3, <2>1, <2>2, <2>3, LocalStep
<1>4. CASE
        /\ Updated(me) \cap me.gone = {}
        /\ jobs' = [t \in Tx |-> IF t \in Updated(me) \cup D THEN JobAfter(t, me.doc[t]) ELSE jobs[t]]
        /\ vectors' = [t \in Tx |->
             IF me.doc[t].plan = "store"
             THEN [vectors[t] EXCEPT ![me.rev] = [text |-> me.doc[t].text, by |-> me.doc[t].made]]
             ELSE vectors[t]]
        /\ edit' = ForgetInEdit(D)
        /\ worker' = [Forget(D) EXCEPT ![w] = s]
  <2>1. ASSUME NEW t \in Tx, me.doc[t].plan = "store"
        PROVE [text |-> me.doc[t].text, by |-> me.doc[t].made] \in Vector
    BY <1>1, <2>1 DEF Sound, Vector
  <2>2. vectors' \in [Tx -> [Rev -> Vector \cup {None}]]
    BY <1>4, <2>1 DEF Inv, TypeOK
  <2>3. ASSUME NEW t \in Tx, NEW r \in Rev, vectors[t][r] # None PROVE vectors'[t][r] # None
    <3>1. CASE me.doc[t].plan = "store"
      BY <1>1, <1>4, <2>1, <2>3, <3>1, NoneAssumption DEF Inv, TypeOK
    <3>2. CASE me.doc[t].plan # "store"
      BY <1>4, <2>3, <3>2
    <3> QED BY <3>1, <3>2
  <2>4. ASSUME NEW t \in Tx, me.doc[t].plan = "store" PROVE vectors'[t][me.rev] # None
    BY <1>1, <1>4, <2>1, <2>4, NoneAssumption DEF Inv, TypeOK
  <2>5. ASSUME NEW t \in D PROVE t \notin Updated(me) /\ t \in me.batch /\ jobs'[t] = None
    BY <1>1, <1>4 DEF Dropped, Updated, JobAfter, Sound
  <2>6. ASSUME NEW t \in Updated(me)
        PROVE jobs'[t] \in Job /\ jobs'[t] # None /\ JobSound(t, jobs[t])'
    <3>1. t \in Tx /\ jobs'[t] = JobAfter(t, me.doc[t])
      BY <1>4 DEF Updated
    <3>2. /\ jobs'[t] \in Job /\ jobs'[t] # None
          /\ jobs'[t].status \in {"pending", "running"} => jobs'[t].attempts < Ceiling
          /\ jobs'[t].status = "done" => me.doc[t].plan = "store" \/ \E r \in Rev : HasVector(t, r)
      BY <1>1, <1>4, <3>1, CommittedJobs
    <3>3. jobs'[t].status = "done" => \E r \in Rev : vectors'[t][r] # None
      BY <1>1, <2>3, <2>4, <3>1, <3>2 DEF HasVector
    <3> QED BY <3>2, <3>3 DEF JobSound, HasVector
  <2>7. ASSUME NEW t \in Tx
        PROVE /\ jobs'[t] \in Job \cup {None} /\ JobSound(t, jobs[t])'
              /\ t \notin D /\ jobs[t] # None => jobs'[t] # None
    <3>1. CASE t \in D
      BY <2>5, <3>1 DEF JobSound
    <3>2. CASE t \in Updated(me)
      BY <2>6, <3>2 DEF JobSound
    <3>3. CASE t \notin D \cup Updated(me)
      <4>1. jobs'[t] = jobs[t] /\ JobSound(t, jobs[t]) /\ jobs[t] \in Job \cup {None}
        BY <1>4, <3>3 DEF Inv, TypeOK
      <4> QED BY <2>3, <3>3, <4>1 DEF JobSound, HasVector
    <3> QED BY <3>1, <3>2, <3>3
  <2>8. edit' \in Edit \cup {None} /\ (edit' # None => edit # None /\ edit'.row = edit.row)
    <3>1. edit # None => [edit EXCEPT !.verdict = "stale"] \in Edit
      BY DEF Inv, TypeOK, Edit, Verdict
    <3>2. edit # None => [edit EXCEPT !.verdict = "stale"].row = edit.row
      BY DEF Inv, TypeOK, Edit
    <3> QED BY <1>4, <3>1, <3>2 DEF ForgetInEdit, Inv, TypeOK
  <2>9. s \in WorkerState /\ Sound(s) /\ HeldBy(s) \subseteq Held(w) \ D
    <3>1. CASE Pending(me.doc) = {}
      <4>1. HeldBy(s) \subseteq me.todo \ me.gone /\ s \in WorkerState /\ Sound(s)
        BY <1>1, <3>1, NextBatchSound
      <4> QED BY <1>1, <2>5, <4>1 DEF Held, Sound
    <3>2. CASE Pending(me.doc) # {}
      <4> DEFINE doc == [t \in Tx |-> IF t \in Pending(me.doc) THEN me.doc[t] ELSE NoDoc]
                 drop == {t \in Tx : me.doc[t].plan = "drop"}
      <4>1. doc \in [Tx -> Doc]
        BY <1>1, IdleType DEF WorkerState
      <4>2. ASSUME NEW t \in Tx
            PROVE /\ doc[t].plan \in {"none", "infer"}
                  /\ doc[t].plan = "infer" => t \in me.batch \ drop /\ doc[t].text \in Text
        BY <1>1 DEF Pending, NoDoc, Sound
      <4>3. 0 \in 0..CallLimit
        BY ConstantsAssumption
      <4> HIDE DEF doc
      <4>4. /\ left \in WorkerState /\ left.rev = me.rev /\ left.todo = me.todo
            /\ left.batch = me.batch \ drop /\ left.gone = me.gone /\ left.doc = doc
        BY <1>1, <4>1, <4>3 DEF WorkerState, Pc, doc
      <4> HIDE DEF left
      <4>5. Sound(left)
        BY <1>1, <4>2, <4>4 DEF Sound
      <4>6. D \subseteq drop /\ D \subseteq me.batch
        BY <2>5 DEF Dropped
      <4>7. HeldBy(left) \subseteq Held(w) \ D
        BY <1>1, <4>4, <4>6 DEF HeldBy, Held, Sound
      <4> QED BY <3>2, <4>4, <4>5, <4>7
    <3> QED BY <3>1, <3>2
  <2> HIDE DEF s, D
  <2>10. worker' \in [Worker -> WorkerState] /\ worker'[w] = s
         /\ \A v \in Worker : v # w => worker'[v] = Forget(D)[v]
    BY <1>1, <1>4, <2>9, ForgetSame
  <2>11. TypeOK'
    <3>1. jobs' \in [Tx -> Job \cup {None}]
      BY <1>4, <2>7
    <3> QED BY <1>2, <2>2, <2>8, <2>10, <3>1 DEF Inv, TypeOK, SpentType
  <2>12. TextKnown'
    BY <1>2, <2>8 DEF Inv, TextKnown
  <2>13. PlansSound'
    <3>1. ASSUME NEW v \in Worker PROVE Sound(worker'[v])
      <4>1. CASE v = w
        BY <2>9, <2>10, <4>1
      <4>2. CASE v # w
        BY <1>1, <2>10, <4>2, ForgetSame DEF Inv, PlansSound, Sound
      <4> QED BY <4>1, <4>2
    <3>2. ASSUME NEW v \in Worker PROVE Sound(worker[v])'
      BY <2>3, <3>1 DEF Sound, HasVector
    <3> QED BY <3>2 DEF PlansSound
  <2>14. HeldRowsExist'
    <3>1. ASSUME NEW v \in Worker, NEW t \in Held(v)' PROVE t \in Held(v) \ D
      <4>1. CASE v = w
        BY <2>9, <2>10, <4>1 DEF Held, HeldBy
      <4>2. CASE v # w
        BY <1>1, <2>10, <4>2, ForgetSame DEF Held, HeldBy
      <4> QED BY <4>1, <4>2
    <3>2. ASSUME NEW v \in Worker PROVE Held(v) \subseteq Tx
      BY DEF Held, Inv, TypeOK, WorkerState
    <3> QED BY <2>7, <3>1, <3>2 DEF HeldRowsExist, Inv
  <2> QED BY <2>7, <2>11, <2>12, <2>13, <2>14 DEF Inv
<1> QED BY <1>3, <1>4 DEF Commit

-----------------------------------------------------------------------------
(* The ledger side and the environment.                                    *)

\* A step that leaves jobs, vectors and commands alone.
LEMMA QueueUntouched ==
  ASSUME Inv, UNCHANGED <<jobs, vectors, worker>>, TypeOK', TextKnown'
  PROVE  Inv'
<1>1. PlansSound'
  BY DEF Inv, PlansSound, Sound, HasVector
<1>2. HeldRowsExist'
  BY DEF Inv, HeldRowsExist, Held
<1>3. (\A t \in Tx : JobSound(t, jobs[t]))'
  BY DEF Inv, JobSound, HasVector
<1> QED BY <1>1, <1>2, <1>3 DEF Inv

LEMMA BeginEditSpent == ASSUME Inv, NEW op, BeginEdit(op) PROVE spent' \in SpentType
BY ConstantsAssumption DEF BeginEdit, Inv, TypeOK, SpentType

\* The hook's verdict on a row that has a text.
LEMMA FlushInv ==
  ASSUME Inv, NEW op, NEW t \in Tx, NEW row \in Row, row.text \in Text,
         row.kind # "absent", NEW flagged \in BOOLEAN,
         Flush(op, t, row, flagged)
  PROVE  Inv'
<1>1. HookVerdict(t, row, flagged) \in Verdict
  BY DEF HookVerdict, Verdict
<1>2. [tx |-> t, row |-> row, verdict |-> HookVerdict(t, row, flagged)] \in Edit
  BY <1>1 DEF Edit
<1>3. UNCHANGED <<ledger, jobs, vectors, live, worker>> /\ spent' \in SpentType
  BY BeginEditSpent DEF Flush
<1>4. edit' = [tx |-> t, row |-> row, verdict |-> HookVerdict(t, row, flagged)]
  BY DEF Flush
<1>5. TypeOK'
  BY <1>2, <1>3, <1>4 DEF Inv, TypeOK, SpentType
<1>6. TextKnown'
  <2>1. edit'.row = row
    BY <1>4
  <2> QED BY <1>3, <2>1 DEF Inv, TextKnown
<1> QED BY <1>3, <1>5, <1>6, QueueUntouched

LEMMA TextEditInv ==
  ASSUME Inv, NEW t \in Tx, NEW x \in Text, CreateTransaction(t, x) \/ EditTransaction(t, x)
  PROVE  Inv'
<1> DEFINE row == ledger[t]
<1>1. row \in Row /\ (row.kind # "absent" => row.text \in Text)
  BY DEF Inv, TypeOK, TextKnown
<1>2. Flagged(row) \in BOOLEAN /\ FALSE \in BOOLEAN /\ TRUE \in BOOLEAN
  BY DEF Flagged
<1>3. CASE CreateTransaction(t, x)
  <2> DEFINE new == [row EXCEPT !.kind = "ledger", !.text = x]
  <2>1. new \in Row /\ new.text = x /\ new.kind = "ledger"
    BY <1>1 DEF Row
  <2>2. Flush("create", t, new, FALSE)
    BY <1>3 DEF CreateTransaction
  <2> HIDE DEF new
  <2> QED BY <1>2, <2>1, <2>2, FlushInv
<1>4. CASE EditTransaction(t, x)
  <2> DEFINE new == [row EXCEPT !.text = x]
  <2>1. new \in Row /\ new.text = x /\ new.kind = row.kind
    BY <1>1 DEF Row
  <2>2. Flush("edit", t, new, Flagged(row)) /\ row.kind # "absent"
    BY <1>4 DEF EditTransaction
  <2> HIDE DEF new
  <2> QED BY <1>2, <2>1, <2>2, FlushInv
<1> QED BY <1>3, <1>4

LEMMA ReclassifyInv ==
  ASSUME Inv, NEW t \in Tx, NEW k \in {"ledger", "excluded"}, Reclassify(t, k)
  PROVE  Inv'
<1> DEFINE row == ledger[t]
<1>1. row \in Row /\ (row.kind # "absent" => row.text \in Text)
  BY DEF Inv, TypeOK, TextKnown
<1>2. Flagged(row) \in BOOLEAN /\ FALSE \in BOOLEAN /\ TRUE \in BOOLEAN
  BY DEF Flagged
<1> DEFINE new == [row EXCEPT !.kind = k]
<1>3. new \in Row /\ new.text = row.text /\ new.kind = k
  BY <1>1 DEF Row
<1>4. Flush("reclassify", t, new, Flagged(row)) /\ row.kind # "absent"
  BY DEF Reclassify
<1> HIDE DEF new
<1> QED BY <1>1, <1>2, <1>3, <1>4, FlushInv

LEMMA FlagInv ==
  ASSUME Inv, NEW t \in Tx, NEW i \in Issue,
         \/ OpenFlag(t, i) \/ ReopenFlag(t, i)
         \/ ResolveFlag(t, i, ledger[t].kind) \/ ResolveFlag(t, i, "excluded")
  PROVE  Inv'
<1> DEFINE row == ledger[t]
<1>1. row \in Row /\ (row.kind # "absent" => row.text \in Text)
  BY DEF Inv, TypeOK, TextKnown
<1>2. Flagged(row) \in BOOLEAN /\ FALSE \in BOOLEAN /\ TRUE \in BOOLEAN
  BY DEF Flagged
<1>6. CASE OpenFlag(t, i)
  <2> DEFINE new == [row EXCEPT !.flag[i] = "open"]
  <2>1. new \in Row /\ new.text = row.text /\ new.kind = row.kind
    BY <1>1 DEF Row, FlagState
  <2>2. Flush("flag", t, new, TRUE) /\ row.kind # "absent"
    BY <1>6 DEF OpenFlag
  <2> HIDE DEF new
  <2> QED BY <1>1, <1>2, <2>1, <2>2, FlushInv
<1>7. CASE ReopenFlag(t, i)
  <2> DEFINE new == [row EXCEPT !.flag[i] = "open"]
  <2>1. new \in Row /\ new.text = row.text /\ new.kind = row.kind
    BY <1>1 DEF Row, FlagState
  <2>2. Flush("reopen", t, new, Flagged(row)) /\ row.kind # "absent"
    BY <1>7 DEF ReopenFlag, Inv, TextKnown
  <2> HIDE DEF new
  <2> QED BY <1>1, <1>2, <2>1, <2>2, FlushInv
<1>8. ASSUME NEW kind \in {row.kind, "excluded"}, ResolveFlag(t, i, kind) PROVE Inv'
  <2> DEFINE new == [row EXCEPT !.flag[i] = "resolved", !.kind = kind]
  <2>1. new \in Row /\ new.text = row.text /\ new.kind = kind
    BY <1>1 DEF Row, FlagState
  <2>2. Flush("resolve", t, new, FALSE) /\ row.kind # "absent"
    BY <1>8 DEF ResolveFlag, Inv, TextKnown
  <2> HIDE DEF new
  <2> QED BY <1>1, <1>2, <2>1, <2>2, FlushInv
<1> QED BY <1>6, <1>7, <1>8

LEMMA RenameCategoryInv ==
  ASSUME Inv, NEW t \in Tx, NEW x \in Text, RenameCategory(t, x)
  PROVE  Inv'
<1>1. UNCHANGED <<jobs, vectors, live, edit, worker>> /\ spent' \in SpentType
  BY BeginEditSpent DEF RenameCategory
<1>2. ledger' = [ledger EXCEPT ![t].text = x]
  BY DEF RenameCategory
<1>3. ledger' \in [Tx -> Row]
  BY <1>2 DEF Inv, TypeOK, Row
<1>4. ASSUME NEW u \in Tx
      PROVE /\ ledger'[u].kind = ledger[u].kind /\ ledger'[u].flag = ledger[u].flag
            /\ ledger'[u].text \in {ledger[u].text, x}
  BY <1>2 DEF Inv, TypeOK, Row
<1>5. TypeOK'
  BY <1>1, <1>3 DEF Inv, TypeOK, SpentType
<1>6. TextKnown'
  BY <1>1, <1>4 DEF Inv, TextKnown
<1> QED BY <1>1, <1>5, <1>6, QueueUntouched

\* The commit of a flush deletes, re-arms or inserts one job row, or fails.
LEMMA CommitFlushInv ==
  ASSUME Inv, CommitFlush
  PROVE  Inv'
<1> DEFINE t == edit.tx
<1>1. edit # None /\ edit' = None /\ edit \in Edit /\ t \in Tx /\ edit.row \in Row
  BY DEF CommitFlush, Inv, TypeOK, Edit
<1>2. UNCHANGED <<vectors, live, spent>>
  BY DEF CommitFlush
<1>3. CASE edit.verdict = "stale"
  <2>1. UNCHANGED <<ledger, jobs, worker>>
    BY <1>3 DEF CommitFlush
  <2>2. TypeOK' /\ TextKnown'
    BY <1>1, <1>2, <2>1 DEF Inv, TypeOK, TextKnown
  <2> QED BY <1>2, <2>1, <2>2, QueueUntouched
<1>4. CASE edit.verdict # "stale"
  <2>1. ledger' = [ledger EXCEPT ![t] = edit.row]
    BY <1>4 DEF CommitFlush
  <2>2. ledger' \in [Tx -> Row]
    BY <1>1, <2>1 DEF Inv, TypeOK
  <2>3. TextKnown'
    BY <1>1, <2>1 DEF Inv, TypeOK, TextKnown
  <2>4. CASE jobs' = [jobs EXCEPT ![t] = None] /\ worker' = Forget({t})
    <3>1. worker' \in [Worker -> WorkerState]
      <4>1. CASE Worker = {}
        BY <2>4, <4>1 DEF Forget
      <4>2. CASE Worker # {}
        BY <1>1, <2>4, <4>2, ForgetSame
      <4> QED BY <4>1, <4>2
    <3>2. TypeOK'
      BY <1>1, <1>2, <2>2, <2>4, <3>1 DEF Inv, TypeOK
    <3>3. PlansSound'
      <4>1. ASSUME NEW v \in Worker PROVE Sound(worker'[v])
        BY <1>1, <2>4, ForgetSame DEF Inv, PlansSound, Sound
      <4>2. ASSUME NEW v \in Worker PROVE Sound(worker[v])'
        BY <1>2, <4>1 DEF Sound, HasVector
      <4> QED BY <4>2 DEF PlansSound
    <3>4. HeldRowsExist'
      <4>1. ASSUME NEW v \in Worker, NEW u \in Held(v)' PROVE u \in Held(v) \ {t} /\ u \in Tx
        BY <1>1, <2>4, ForgetSame DEF Held, HeldBy, Inv, TypeOK, WorkerState
      <4> QED BY <1>1, <2>4, <4>1 DEF HeldRowsExist, Inv, TypeOK
    <3>5. (\A u \in Tx : JobSound(u, jobs[u]))'
      BY <1>1, <1>2, <2>4 DEF Inv, TypeOK, JobSound, HasVector
    <3> QED BY <2>3, <3>2, <3>3, <3>4, <3>5 DEF Inv
  <2>5. CASE jobs' \in {jobs, [jobs EXCEPT ![t] = NewJob]} /\ UNCHANGED worker
    <3>1. TypeOK'
      BY <1>1, <1>2, <2>2, <2>5, NewJobSound DEF Inv, TypeOK
    <3>2. PlansSound'
      BY <1>2, <2>5 DEF Inv, PlansSound, Sound, HasVector
    <3>3. HeldRowsExist'
      <4>1. ASSUME NEW u \in Tx, jobs[u] # None PROVE jobs'[u] # None
        BY <1>1, <2>5, <4>1, NewJobSound, NoneAssumption DEF Inv, TypeOK
      <4>2. ASSUME NEW v \in Worker PROVE Held(v)' = Held(v) /\ Held(v) \subseteq Tx
        BY <2>5 DEF Held, Inv, TypeOK, WorkerState
      <4> QED BY <4>1, <4>2 DEF HeldRowsExist, Inv
    <3>4. (\A u \in Tx : JobSound(u, jobs[u]))'
      BY <1>1, <1>2, <2>5, NewJobSound DEF Inv, TypeOK, JobSound, HasVector
    <3> QED BY <2>3, <3>1, <3>2, <3>3, <3>4 DEF Inv
  <2> QED BY <1>4, <2>4, <2>5 DEF CommitFlush
<1> QED BY <1>3, <1>4

LEMMA UpgradeServiceInv ==
  ASSUME Inv, NEW r \in Rev, UpgradeService(r)
  PROVE  Inv'
<1>1. TypeOK'
  BY ConstantsAssumption DEF UpgradeService, Inv, TypeOK
<1>2. TextKnown'
  BY DEF UpgradeService, Inv, TextKnown
<1> QED BY <1>1, <1>2, QueueUntouched DEF UpgradeService

\* Time only changes ages, pauses and clocks.
LEMMA TickInv ==
  ASSUME Inv, Tick
  PROVE  Inv'
<1>1. UNCHANGED <<ledger, vectors, live, edit, spent>>
  BY DEF Tick
<1>2. ASSUME NEW j \in Job
      PROVE Aged(j) \in Job /\ Aged(j).status = j.status /\ Aged(j).attempts = j.attempts
  <2> DEFINE age == IF j.status = "running" THEN Smaller(j.age + 1, StaleAfter) ELSE j.age
             pause == IF j.wait = 0 THEN 0 ELSE j.wait - 1
  <2>1. age \in 0..StaleAfter /\ pause \in Nat
    BY ConstantsAssumption DEF Job, Smaller
  <2>2. Aged(j) = [j EXCEPT !.age = age, !.wait = pause]
    BY DEF Aged, Job
  <2> HIDE DEF age, pause
  <2> QED BY <2>1, <2>2 DEF Job
<1>3. ASSUME NEW t \in Tx
      PROVE /\ jobs'[t] \in Job \cup {None}
            /\ jobs[t] # None => /\ jobs'[t] # None /\ jobs'[t].status = jobs[t].status
                                /\ jobs'[t].attempts = jobs[t].attempts
            /\ jobs[t] = None => jobs'[t] = None
  <2>1. CASE jobs[t] = None
    BY <2>1 DEF Tick
  <2>2. CASE jobs[t] # None
    BY <1>2, <2>2, NoneAssumption DEF Tick, Inv, TypeOK
  <2> QED BY <2>1, <2>2
<1>4. ASSUME NEW w \in Worker
      PROVE /\ worker'[w] \in WorkerState
            /\ worker'[w].pc = worker[w].pc /\ worker'[w].rev = worker[w].rev
            /\ worker'[w].todo = worker[w].todo /\ worker'[w].batch = worker[w].batch
            /\ worker'[w].gone = worker[w].gone /\ worker'[w].doc = worker[w].doc
  <2> DEFINE me == worker[w]
  <2>1. me \in WorkerState
    BY DEF Inv, TypeOK
  <2>2. CASE InCall(w)
    <3>1. me.clock < CallLimit
      BY <2>2 DEF Tick, InCall
    <3>2. me.clock + 1 \in 0..CallLimit
      BY <2>1, <3>1, ConstantsAssumption DEF WorkerState
    <3>3. worker'[w] = [me EXCEPT !.clock = @ + 1]
      BY <2>2 DEF Tick
    <3> QED BY <2>1, <3>2, <3>3 DEF WorkerState
  <2>3. CASE ~InCall(w)
    BY <2>1, <2>3 DEF Tick
  <2> QED BY <2>2, <2>3
<1>5. jobs' \in [Tx -> Job \cup {None}] /\ worker' \in [Worker -> WorkerState]
  BY <1>3, <1>4 DEF Tick
<1>6. TypeOK'
  BY <1>1, <1>5 DEF Inv, TypeOK
<1>7. TextKnown'
  BY <1>1 DEF Inv, TextKnown
<1>8. PlansSound'
  <2>1. ASSUME NEW w \in Worker PROVE Sound(worker'[w])
    BY <1>4 DEF Inv, PlansSound, Sound
  <2>2. ASSUME NEW w \in Worker PROVE Sound(worker[w])'
    BY <1>1, <2>1 DEF Sound, HasVector
  <2> QED BY <2>2 DEF PlansSound
<1>9. HeldRowsExist'
  <2>1. ASSUME NEW w \in Worker, NEW t \in Held(w)' PROVE t \in Held(w) /\ t \in Tx
    BY <1>4 DEF Held, Inv, TypeOK, WorkerState
  <2> QED BY <1>3, <2>1 DEF Inv, HeldRowsExist
<1>10. (\A t \in Tx : JobSound(t, jobs[t]))'
  BY <1>1, <1>3 DEF Inv, JobSound, HasVector
<1> QED BY <1>6, <1>7, <1>8, <1>9, <1>10 DEF Inv

-----------------------------------------------------------------------------
(* The theorems.                                                           *)

LEMMA InitInv == Init => Inv
<1> SUFFICES ASSUME Init PROVE Inv
  OBVIOUS
<1>1. ledger \in [Tx -> Row] /\ \A t \in Tx : ledger[t].kind # "absent" => ledger[t].text \in Text
  BY DEF Init, Row, NoFlags, FlagState
<1>2. \A t \in Tx, i \in Issue : ledger[t].flag[i] = "none"
  BY DEF Init, NoFlags
<1>3. TypeOK
  BY <1>1, IdleType, ConstantsAssumption DEF Init, TypeOK
<1>4. TextKnown
  BY <1>1, <1>2 DEF Init, TextKnown
<1>5. Idle.pc = "idle" /\ Idle.doc = NoDocs /\ Idle.todo = {} /\ Idle.batch = {}
  BY DEF Idle
<1>6. PlansSound
  BY <1>5, IdleType, NoPlansSound DEF Init, PlansSound
<1>7. HeldRowsExist
  BY <1>5 DEF Init, HeldRowsExist, Held
<1>8. \A t \in Tx : JobSound(t, jobs[t])
  BY DEF Init, JobSound
<1> QED BY <1>3, <1>4, <1>6, <1>7, <1>8 DEF Inv

LEMMA NextInv == Inv /\ [Next]_vars => Inv'
<1> SUFFICES ASSUME Inv, [Next]_vars PROVE Inv'
  OBVIOUS
<1>1. CASE LedgerStep
  <2>1. ASSUME NEW t \in Tx, NEW x \in Text,
               CreateTransaction(t, x) \/ EditTransaction(t, x)
        PROVE  Inv'
    BY <2>1, TextEditInv
  <2>2. ASSUME NEW t \in Tx, NEW x \in Text, RenameCategory(t, x)
        PROVE  Inv'
    BY <2>2, RenameCategoryInv
  <2>3. ASSUME NEW t \in Tx, NEW k \in {"ledger", "excluded"}, Reclassify(t, k)
        PROVE  Inv'
    BY <2>3, ReclassifyInv
  <2>4. ASSUME NEW t \in Tx, NEW i \in Issue,
               \/ OpenFlag(t, i) \/ ReopenFlag(t, i)
               \/ ResolveFlag(t, i, ledger[t].kind) \/ ResolveFlag(t, i, "excluded")
        PROVE  Inv'
    BY <2>4, FlagInv
  <2> QED BY <1>1, <2>1, <2>2, <2>3, <2>4, CommitFlushInv DEF LedgerStep
<1>2. ASSUME NEW w \in Worker, WorkerStep(w) PROVE Inv'
  BY <1>2, StartRunInv, ReadLedgerInv, CommitEnqueueInv, ClaimInv, StartBatchInv, InferInv,
     EmbedOneInv, CommitInv, BackstopInv DEF WorkerStep
<1>3. ASSUME NEW w \in Worker, Crash(w) PROVE Inv'
  BY <1>3, CrashInv
<1>4. ASSUME NEW r \in Rev, UpgradeService(r) PROVE Inv'
  BY <1>4, UpgradeServiceInv
<1>5. CASE Tick
  BY <1>5, TickInv
<1>6. CASE UNCHANGED vars
  <2>1. TypeOK' /\ TextKnown'
    BY <1>6 DEF vars, Inv, TypeOK, TextKnown
  <2> QED BY <1>6, <2>1, QueueUntouched DEF vars
<1> QED BY <1>1, <1>2, <1>3, <1>4, <1>5, <1>6 DEF Next

\* Whatever the interleaving of flushes, commands, failures, kills, upgrades and
\* time, the state of the queue is well formed.
THEOREM TypeCorrect == Spec => []TypeOK
<1>1. Inv => TypeOK
  BY DEF Inv
<1> QED BY <1>1, InitInv, NextInv, PTL DEF Spec

\* Every row a command still believes in exists (the premise under which
\* Commit and Backstop may update it).
THEOREM HeldRowsAreThere == Spec => []HeldRowsExist
<1>1. Inv => HeldRowsExist
  BY DEF Inv
<1> QED BY <1>1, InitInv, NextInv, PTL DEF Spec

\* A job that is queued or running always has attempts left: the ceiling is
\* never passed, however many commands deferred the same job.
THEOREM BudgetKept == Spec => []RetryBudget
<1>1. Inv => RetryBudget
  BY DEF Inv, JobSound, RetryBudget, HasStatus
<1> QED BY <1>1, InitInv, NextInv, PTL DEF Spec

\* A job is only ever reported done with a stored vector to show for it.
THEOREM DoneIsEvidenced == Spec => []DoneHasVector
<1>1. Inv => DoneHasVector
  BY DEF Inv, JobSound, DoneHasVector, HasStatus
<1> QED BY <1>1, InitInv, NextInv, PTL DEF Spec

-----------------------------------------------------------------------------
(* Search: vectors of different models are never compared.                 *)

\* A vector stored for a revision was made by that model.
VectorsOwn == \A t \in Tx, r \in Rev : HasVector(t, r) => vectors[t][r].by = r

\* A running command has the contract of the model that is live, and so have its answers.
Fresh(s) ==
  /\ s.pc # "idle" => s.rev = live
  /\ \A t \in Tx : s.doc[t].plan = "store" => s.doc[t].made = s.rev

SearchInv == VectorsOwn /\ \A w \in Worker : Fresh(worker[w])

\* A step of one command that stores no vector.
LEMMA FreshStep ==
  ASSUME Inv, SearchInv, NEW w \in Worker, NEW s, UpdateWorker(w, s),
         UNCHANGED <<vectors, live>>, Fresh(s)
  PROVE  SearchInv'
<1>1. \A v \in Worker : worker'[v] = IF v = w THEN s ELSE worker[v]
  BY DEF UpdateWorker, Inv, TypeOK
<1>2. \A v \in Worker : Fresh(worker'[v])
  BY <1>1 DEF SearchInv
<1>3. \A v \in Worker : Fresh(worker[v])'
  BY <1>2 DEF Fresh
<1>4. VectorsOwn'
  BY DEF SearchInv, VectorsOwn, HasVector
<1> QED BY <1>3, <1>4 DEF SearchInv

\* A step that changes of the commands only what they have lost and their clocks.
LEMMA FreshFrame ==
  ASSUME SearchInv, UNCHANGED <<vectors, live>>,
         \A v \in Worker : /\ worker'[v].pc = worker[v].pc /\ worker'[v].rev = worker[v].rev
                           /\ worker'[v].doc = worker[v].doc
  PROVE  SearchInv'
<1>1. \A v \in Worker : Fresh(worker[v])'
  BY DEF SearchInv, Fresh
<1>2. VectorsOwn'
  BY DEF SearchInv, VectorsOwn, HasVector
<1> QED BY <1>1, <1>2 DEF SearchInv

LEMMA IdleFresh == Idle.pc = "idle" /\ Fresh(Idle)
BY DEF Idle, Fresh, NoDocs, NoDoc

LEMMA NextBatchFresh ==
  ASSUME NEW me \in WorkerState, me.rev = live
  PROVE  Fresh(NextBatch(me))
<1>1. CASE me.todo = {}
  BY <1>1, IdleFresh DEF NextBatch
<1>2. CASE me.todo # {}
  <2> DEFINE s == [me EXCEPT !.pc = "claimed", !.batch = {}, !.doc = NoDocs,
                             !.expired = FALSE, !.clock = 0]
  <2>1. NextBatch(me) = s /\ s.rev = me.rev /\ s.doc = NoDocs
    BY <1>2 DEF NextBatch, WorkerState
  <2> HIDE DEF s
  <2> QED BY <2>1 DEF Fresh, NoDocs, NoDoc
<1> QED BY <1>1, <1>2

\* What a command does before it has an answer.
LEMMA PreparingFresh ==
  ASSUME Inv, SearchInv, NEW w \in Worker,
         \/ StartRun(w) \/ (\E force \in BOOLEAN : ReadLedger(w, force)) \/ CommitEnqueue(w)
         \/ Claim(w) \/ StartBatch(w) \/ Backstop(w) \/ Crash(w)
  PROVE  SearchInv'
<1> DEFINE me == worker[w]
<1>1. me \in WorkerState /\ UNCHANGED <<vectors, live>>
  BY DEF Inv, TypeOK, StartRun, ReadLedger, CommitEnqueue, Claim, StartBatch, Backstop, Crash
<1>2. me.pc # "idle" => me.rev = live
  BY DEF SearchInv, Fresh
<1>3. CASE UpdateWorker(w, Idle)
  BY <1>1, <1>3, IdleFresh, FreshStep
<1>4. CASE StartRun(w)
  <2> DEFINE s == [Idle EXCEPT !.pc = "ready", !.rev = live]
  <2>1. UpdateWorker(w, s) /\ s.rev = live /\ s.doc = NoDocs
    BY <1>4 DEF StartRun, Idle
  <2> HIDE DEF s
  <2>2. Fresh(s)
    BY <2>1 DEF Fresh, NoDocs, NoDoc
  <2> QED BY <1>1, <2>1, <2>2, FreshStep
<1>5. ASSUME NEW force \in BOOLEAN, ReadLedger(w, force) PROVE SearchInv'
  <2> DEFINE plan == [t \in Tx |-> BulkPlan(t, me.rev, force)]
             doc == [t \in Tx |-> [NoDoc EXCEPT !.plan = plan[t]]]
             s == [Idle EXCEPT !.pc = "enqueue", !.rev = me.rev,
                               !.batch = {t \in Tx : plan[t] = "rearm"}, !.doc = doc]
  <2>1. UpdateWorker(w, s) /\ me.pc = "ready"
    BY <1>5 DEF ReadLedger
  <2>2. \A t \in Tx : doc[t].plan # "store"
    BY DEF BulkPlan, NoDoc
  <2>3. s.rev = me.rev /\ s.doc = doc
    BY DEF Idle
  <2> HIDE DEF s, doc
  <2>4. Fresh(s)
    BY <1>2, <2>1, <2>2, <2>3 DEF Fresh
  <2> QED BY <1>1, <2>1, <2>4, FreshStep
<1>6. CASE CommitEnqueue(w) /\ ~UpdateWorker(w, Idle)
  <2> DEFINE s == [Idle EXCEPT !.pc = "queued", !.rev = me.rev]
  <2>1. UpdateWorker(w, s) /\ me.pc = "enqueue" /\ s.rev = me.rev /\ s.doc = NoDocs
    BY <1>6 DEF CommitEnqueue, Idle
  <2> HIDE DEF s
  <2>2. Fresh(s)
    BY <1>2, <2>1 DEF Fresh, NoDocs, NoDoc
  <2> QED BY <1>1, <2>1, <2>2, FreshStep
<1>7. CASE Claim(w) /\ ~UpdateWorker(w, Idle)
  <2> DEFINE s(S) == [Idle EXCEPT !.pc = "claimed", !.rev = me.rev, !.todo = S]
  <2>1. PICK S : UpdateWorker(w, s(S))
    BY <1>7 DEF Claim
  <2>2. me.pc # "idle" /\ s(S).rev = me.rev /\ s(S).doc = NoDocs
    BY <1>7 DEF Claim, Idle
  <2> HIDE DEF s
  <2>3. Fresh(s(S))
    BY <1>2, <2>2 DEF Fresh, NoDocs, NoDoc
  <2> QED BY <1>1, <2>1, <2>3, FreshStep
<1>8. CASE StartBatch(w) /\ ~UpdateWorker(w, Idle)
  <2> DEFINE doc(B) == [t \in Tx |-> IF t \in B THEN ReadDoc(t, me.rev) ELSE NoDoc]
             s(B) == [me EXCEPT
               !.pc = IF Pending(doc(B)) = {} THEN "commit" ELSE "infer",
               !.todo = @ \ B, !.batch = B, !.doc = doc(B), !.expired = FALSE, !.clock = 0]
  <2>1. PICK B : UpdateWorker(w, s(B))
    BY <1>8 DEF StartBatch
  <2>2. \A t \in Tx : doc(B)[t].plan # "store"
    BY DEF ReadDoc, NoDoc
  <2> HIDE DEF doc
  <2>3. me.pc = "claimed" /\ s(B).rev = me.rev /\ s(B).doc = doc(B)
    BY <1>1, <1>8 DEF StartBatch, WorkerState
  <2> HIDE DEF s
  <2>4. Fresh(s(B))
    BY <1>2, <2>2, <2>3 DEF Fresh
  <2> QED BY <1>1, <2>1, <2>4, FreshStep
<1>9. CASE Backstop(w) /\ ~UpdateWorker(w, Idle)
  <2>1. UpdateWorker(w, NextBatch(me)) /\ me.pc = "rollback"
    BY <1>9 DEF Backstop
  <2> QED BY <1>1, <1>2, <2>1, NextBatchFresh, FreshStep
<1>10. CASE Crash(w)
  BY <1>3, <1>10 DEF Crash
<1> QED BY <1>3, <1>4, <1>5, <1>6, <1>7, <1>8, <1>9, <1>10

\* Answers are the live model's; failures store nothing.
LEMMA AnswersFresh ==
  ASSUME NEW me \in WorkerState, Fresh(me), me.rev = live, NEW S \in SUBSET Tx, NEW s,
         s.rev = me.rev,
         \/ s.doc = Received(me, S)
         \/ \E p \in {"retry", "fail"} : s.doc = Planned(me, S, p)
         \/ s.doc = NoDocs \/ s.doc = me.doc
  PROVE  Fresh(s)
<1>1. me.doc \in [Tx -> Doc]
  BY DEF WorkerState
<1>2. CASE s.doc = Received(me, S)
  <2>1. ASSUME NEW t \in S PROVE s.doc[t].made = live
    BY <1>1, <1>2 DEF Received, Doc
  <2>2. ASSUME NEW t \in Tx \ S PROVE s.doc[t] = me.doc[t]
    BY <1>2 DEF Received
  <2> QED BY <2>1, <2>2 DEF Fresh
<1>3. CASE \E p \in {"retry", "fail"} : s.doc = Planned(me, S, p)
  <2>1. PICK p \in {"retry", "fail"} : s.doc = Planned(me, S, p)
    BY <1>3
  <2>2. ASSUME NEW t \in S PROVE s.doc[t].plan = p
    BY <1>1, <2>1 DEF Planned, Doc
  <2>3. ASSUME NEW t \in Tx \ S PROVE s.doc[t] = me.doc[t]
    BY <2>1 DEF Planned
  <2> QED BY <2>2, <2>3 DEF Fresh
<1>4. CASE s.doc = NoDocs \/ s.doc = me.doc
  BY <1>4 DEF Fresh, NoDocs, NoDoc
<1> QED BY <1>2, <1>3, <1>4

LEMMA CallingFresh ==
  ASSUME Inv, SearchInv, NEW w \in Worker, Infer(w) \/ \E t \in Tx : EmbedOne(w, t)
  PROVE  SearchInv'
<1> DEFINE me == worker[w]
           S == Pending(me.doc)
<1>1. me \in WorkerState /\ S \subseteq Tx /\ UNCHANGED <<vectors, live>>
  BY DEF Inv, TypeOK, Infer, EmbedOne, Pending
<1>2. me.rev = live /\ Fresh(me)
  BY DEF SearchInv, Fresh, Infer, EmbedOne
<1>3. CASE Infer(w)
  <2>1. CASE UpdateWorker(w, [me EXCEPT !.pc = "commit", !.doc = Received(me, S)])
    <3> DEFINE s == [me EXCEPT !.pc = "commit", !.doc = Received(me, S)]
    <3>1. s.rev = me.rev /\ s.doc = Received(me, S)
      BY <1>1 DEF WorkerState
    <3> HIDE DEF s
    <3>2. Fresh(s)
      BY <1>1, <1>2, <3>1, AnswersFresh
    <3>3. UpdateWorker(w, s)
      BY <2>1 DEF s
    <3> QED BY <1>1, <3>2, <3>3, FreshStep
  <2>2. CASE \E f \in Faults \ {"rejected"} :
               UpdateWorker(w, [me EXCEPT !.pc = "commit", !.doc = Planned(me, S, FaultPlan(f))])
    <3>1. PICK f \in Faults \ {"rejected"} :
            UpdateWorker(w, [me EXCEPT !.pc = "commit", !.doc = Planned(me, S, FaultPlan(f))])
      BY <2>2
    <3> DEFINE p == FaultPlan(f)
               s == [me EXCEPT !.pc = "commit", !.doc = Planned(me, S, p)]
    <3>2. p \in {"retry", "fail"}
      BY DEF FaultPlan
    <3>3. UpdateWorker(w, s)
      BY <3>1
    <3> HIDE DEF p
    <3>4. s.rev = me.rev /\ s.doc = Planned(me, S, p)
      BY <1>1 DEF WorkerState
    <3> HIDE DEF s
    <3>5. Fresh(s)
      BY <1>1, <1>2, <3>2, <3>4, AnswersFresh
    <3> QED BY <1>1, <3>3, <3>5, FreshStep
  <2>3. CASE UpdateWorker(w, [me EXCEPT !.pc = "single", !.clock = 0])
    <3> DEFINE s == [me EXCEPT !.pc = "single", !.clock = 0]
    <3>1. s.rev = me.rev /\ s.doc = me.doc
      BY <1>1 DEF WorkerState
    <3> HIDE DEF s
    <3>2. Fresh(s)
      BY <1>1, <1>2, <3>1, AnswersFresh
    <3>3. UpdateWorker(w, s)
      BY <2>3 DEF s
    <3> QED BY <1>1, <3>2, <3>3, FreshStep
  <2> QED BY <1>3, <2>1, <2>2, <2>3 DEF Infer
<1>4. ASSUME NEW t \in Tx, EmbedOne(w, t) PROVE SearchInv'
  <2> DEFINE now == IF me.expired /\ jobs[t] # None
                    THEN [me EXCEPT !.doc[t].tries = jobs[t].attempts] ELSE me
             next(d, pc) == [now EXCEPT !.doc = d, !.clock = 0, !.pc = pc]
  <2>1. now \in WorkerState /\ now.rev = live /\ Fresh(now)
    <3>1. CASE me.expired /\ jobs[t] # None
      <4> DEFINE doc == [me.doc EXCEPT ![t] = [me.doc[t] EXCEPT !.tries = jobs[t].attempts]]
      <4>1. jobs[t].attempts \in Nat /\ me.doc \in [Tx -> Doc]
        BY <1>1, <3>1 DEF Inv, TypeOK, Job, WorkerState
      <4>2. /\ doc \in [Tx -> Doc]
            /\ \A u \in Tx : doc[u].plan = me.doc[u].plan /\ doc[u].made = me.doc[u].made
        BY <4>1 DEF Doc
      <4>3. now = [me EXCEPT !.doc = doc]
        BY <1>1, <3>1 DEF WorkerState
      <4> HIDE DEF doc, now
      <4>4. now \in WorkerState /\ now.doc = doc /\ now.rev = me.rev /\ now.pc = me.pc
        BY <1>1, <4>2, <4>3 DEF WorkerState
      <4> QED BY <1>2, <4>2, <4>4 DEF Fresh
    <3>2. CASE ~(me.expired /\ jobs[t] # None)
      BY <1>1, <1>2, <3>2
    <3> QED BY <3>1, <3>2
  <2> HIDE DEF now
  <2>2. ASSUME NEW d, NEW pc,
               d = Received(now, {t}) \/ \E p \in {"retry", "fail"} : d = Planned(now, {t}, p),
               UpdateWorker(w, next(d, pc))
        PROVE  SearchInv'
    <3>1. next(d, pc).rev = now.rev /\ next(d, pc).doc = d
      BY <2>1 DEF WorkerState
    <3> HIDE DEF next
    <3>2. Fresh(next(d, pc))
      BY <2>1, <2>2, <3>1, AnswersFresh
    <3> QED BY <1>1, <2>2, <3>2, FreshStep
  <2>3. CASE UpdateWorker(w, [me EXCEPT !.pc = "rollback", !.doc = NoDocs])
    <3> DEFINE s == [me EXCEPT !.pc = "rollback", !.doc = NoDocs]
    <3>1. s.rev = me.rev /\ s.doc = NoDocs
      BY <1>1 DEF WorkerState
    <3> HIDE DEF s
    <3>2. Fresh(s)
      BY <1>1, <1>2, <3>1, AnswersFresh
    <3>3. UpdateWorker(w, s)
      BY <2>3 DEF s
    <3> QED BY <1>1, <3>2, <3>3, FreshStep
  <2>4. CASE UpdateWorker(w, [now EXCEPT !.doc = Received(now, {t}), !.clock = 0,
                               !.pc = IF Pending(me.doc) = {t} THEN "commit" ELSE "single"])
    BY <2>2, <2>4
  <2>5. CASE \E f \in Faults : UpdateWorker(w, [now EXCEPT !.doc = Planned(now, {t}, FaultPlan(f)),
                                                           !.clock = 0, !.pc = "commit"])
    <3>1. PICK f \in Faults : UpdateWorker(w, [now EXCEPT !.doc = Planned(now, {t}, FaultPlan(f)),
                                                          !.clock = 0, !.pc = "commit"])
      BY <2>5
    <3>2. FaultPlan(f) \in {"retry", "fail"}
      BY DEF FaultPlan
    <3> QED BY <2>2, <3>1, <3>2
  <2> QED BY <1>4, <2>3, <2>4, <2>5 DEF EmbedOne, now
<1> QED BY <1>3, <1>4

LEMMA CommitFresh ==
  ASSUME Inv, SearchInv, NEW w \in Worker, Commit(w)
  PROVE  SearchInv'
<1> DEFINE me == worker[w]
           D == Dropped(me)
           left == [me EXCEPT !.pc = "single", !.expired = TRUE, !.clock = 0,
                              !.batch = @ \ {t \in Tx : me.doc[t].plan = "drop"},
                              !.doc = [t \in Tx |-> IF t \in Pending(me.doc)
                                                    THEN me.doc[t] ELSE NoDoc]]
           s == IF Pending(me.doc) = {} THEN NextBatch(me) ELSE left
<1>1. me \in WorkerState /\ Sound(me) /\ live' = live
  BY DEF Inv, TypeOK, PlansSound, Commit
<1>2. me.rev = live /\ me.rev \in Rev /\ Fresh(me)
  BY <1>1 DEF SearchInv, Fresh, Commit, Inv, TypeOK
<1>3. CASE UpdateWorker(w, [me EXCEPT !.pc = "rollback", !.doc = NoDocs]) /\ UNCHANGED vectors
  <2> DEFINE r == [me EXCEPT !.pc = "rollback", !.doc = NoDocs]
  <2>1. r.rev = me.rev /\ r.doc = NoDocs
    BY <1>1 DEF WorkerState
  <2> HIDE DEF r
  <2>2. Fresh(r)
    BY <1>1, <1>2, <2>1 DEF Fresh, NoDocs, NoDoc
  <2>3. UpdateWorker(w, r)
    BY <1>3 DEF r
  <2> QED BY <1>1, <1>3, <2>2, <2>3, FreshStep
<1>4. CASE
        /\ vectors' = [t \in Tx |->
             IF me.doc[t].plan = "store"
             THEN [vectors[t] EXCEPT ![me.rev] = [text |-> me.doc[t].text, by |-> me.doc[t].made]]
             ELSE vectors[t]]
        /\ worker' = [Forget(D) EXCEPT ![w] = s]
  <2>1. VectorsOwn'
    <3> SUFFICES ASSUME NEW t \in Tx, NEW r \in Rev, vectors'[t][r] # None
                 PROVE  vectors'[t][r].by = r
      BY DEF VectorsOwn, HasVector
    <3>1. CASE me.doc[t].plan = "store" /\ r = me.rev
      <4>1. vectors'[t][r] = [text |-> me.doc[t].text, by |-> me.doc[t].made]
        BY <1>4, <3>1 DEF Inv, TypeOK
      <4> QED BY <1>2, <3>1, <4>1 DEF Fresh
    <3>2. CASE ~(me.doc[t].plan = "store" /\ r = me.rev)
      <4>1. vectors'[t][r] = vectors[t][r]
        BY <1>4, <3>2 DEF Inv, TypeOK
      <4> QED BY <4>1 DEF SearchInv, VectorsOwn, HasVector
    <3> QED BY <3>1, <3>2
  <2>2. Fresh(s)
    <3>1. CASE Pending(me.doc) = {}
      BY <1>1, <1>2, <3>1, NextBatchFresh
    <3>2. CASE Pending(me.doc) # {}
      <4> DEFINE doc == [t \in Tx |-> IF t \in Pending(me.doc) THEN me.doc[t] ELSE NoDoc]
      <4>1. \A t \in Tx : doc[t].plan # "store"
        BY DEF Pending, NoDoc
      <4> HIDE DEF doc
      <4>2. left.rev = me.rev /\ left.doc = doc
        BY <1>1 DEF WorkerState, doc
      <4> HIDE DEF left
      <4>3. Fresh(left)
        BY <1>2, <4>1, <4>2 DEF Fresh
      <4> QED BY <3>2, <4>3
    <3> QED BY <3>1, <3>2
  <2> HIDE DEF s
  <2>3. ASSUME NEW v \in Worker PROVE Fresh(worker'[v])
    <3>1. CASE v = w
      <4>1. worker'[w] = s
        BY <1>4 DEF Forget
      <4> QED BY <2>2, <3>1, <4>1
    <3>2. CASE v # w
      <4>1. D \in SUBSET Tx
        BY DEF Dropped
      <4> HIDE DEF D
      <4>2. worker'[v] = Forget(D)[v]
        BY <1>4, <3>2 DEF Forget
      <4>3. /\ worker'[v].pc = worker[v].pc /\ worker'[v].rev = worker[v].rev
            /\ worker'[v].doc = worker[v].doc
        BY <4>1, <4>2, ForgetSame
      <4> QED BY <4>3 DEF SearchInv, Fresh
    <3> QED BY <3>1, <3>2
  <2>4. \A v \in Worker : Fresh(worker[v])'
    BY <1>1, <2>3 DEF Fresh
  <2> QED BY <2>1, <2>4 DEF SearchInv
<1> QED BY <1>3, <1>4 DEF Commit

LEMMA SearchNext ==
  ASSUME "upgrade" \in Quiet, Inv, SearchInv, [Next]_vars
  PROVE  SearchInv'
<1>1. CASE UNCHANGED <<vectors, live, worker>>
  BY <1>1, FreshFrame
<1>2. CASE CommitFlush
  <2>1. CASE UNCHANGED worker
    BY <1>2, <2>1, FreshFrame DEF CommitFlush
  <2>2. CASE worker' = Forget({edit.tx})
    <3>1. {edit.tx} \in SUBSET Tx
      BY <1>2 DEF CommitFlush, Inv, TypeOK, Edit
    <3>2. \A v \in Worker : /\ worker'[v].pc = worker[v].pc /\ worker'[v].rev = worker[v].rev
                            /\ worker'[v].doc = worker[v].doc
      BY <2>2, <3>1, ForgetSame
    <3> QED BY <1>2, <3>2, FreshFrame DEF CommitFlush
  <2> QED BY <1>2, <2>1, <2>2 DEF CommitFlush
<1>3. CASE LedgerStep /\ ~CommitFlush
  <2>1. UNCHANGED <<vectors, live, worker>>
    BY <1>3 DEF LedgerStep, CreateTransaction, EditTransaction, RenameCategory, Reclassify,
       OpenFlag, ReopenFlag, ResolveFlag, Flush
  <2> QED BY <1>1, <2>1
<1>4. ASSUME NEW w \in Worker, WorkerStep(w) \/ Crash(w) PROVE SearchInv'
  BY <1>4, PreparingFresh, CallingFresh, CommitFresh DEF WorkerStep
<1>5. ASSUME NEW r \in Rev, UpgradeService(r) PROVE SearchInv'
  <2>1. /\ \A w \in Worker : worker[w].pc = "idle"
        /\ UNCHANGED <<vectors, worker>>
    BY <1>5 DEF UpgradeService, NoCommandRuns
  <2>2. \A w \in Worker : Fresh(worker[w])'
    BY <2>1 DEF SearchInv, Fresh
  <2>3. VectorsOwn'
    BY <2>1 DEF SearchInv, VectorsOwn, HasVector
  <2> QED BY <2>2, <2>3 DEF SearchInv
<1>6. CASE Tick
  <2>1. \A w \in Worker : /\ worker'[w].pc = worker[w].pc /\ worker'[w].rev = worker[w].rev
                          /\ worker'[w].doc = worker[w].doc
    <3> SUFFICES ASSUME NEW w \in Worker
                 PROVE  /\ worker'[w].pc = worker[w].pc /\ worker'[w].rev = worker[w].rev
                        /\ worker'[w].doc = worker[w].doc
      OBVIOUS
    <3>1. worker'[w] = IF InCall(w) THEN [worker[w] EXCEPT !.clock = @ + 1] ELSE worker[w]
      BY <1>6 DEF Tick
    <3>2. worker[w] \in WorkerState
      BY DEF Inv, TypeOK
    <3> QED BY <3>1, <3>2 DEF WorkerState
  <2> QED BY <1>6, <2>1, FreshFrame DEF Tick
<1>7. CASE UNCHANGED vars
  BY <1>1, <1>7 DEF vars
<1> QED BY <1>2, <1>3, <1>4, <1>5, <1>6, <1>7 DEF Next

LEMMA SearchInit == Init => SearchInv
<1> SUFFICES ASSUME Init PROVE SearchInv
  OBVIOUS
<1>1. VectorsOwn
  BY DEF Init, VectorsOwn, HasVector
<1>2. \A w \in Worker : Fresh(worker[w])
  BY IdleFresh DEF Init
<1> QED BY <1>1, <1>2 DEF SearchInv

\* When the model is only swapped while no command runs, a search never compares the query
\* with a vector of another model (search_similar's filter on the contract of the query).
THEOREM SearchesOneModel == ASSUME "upgrade" \in Quiet PROVE Spec => []SearchCoherent
<1>1. Inv /\ SearchInv => SearchCoherent
  <2> SUFFICES ASSUME Inv, SearchInv, NEW hit \in SearchResults
               PROVE  vectors[hit[1]][hit[2]].by = live
    BY DEF SearchCoherent
  <2>1. hit[1] \in Tx /\ hit[2] = live /\ HasVector(hit[1], hit[2])
    BY DEF SearchResults, Matches
  <2>2. live \in Rev
    BY DEF Inv, TypeOK
  <2> QED BY <2>1, <2>2 DEF SearchInv, VectorsOwn
<1>2. Inv /\ SearchInv /\ [Next]_vars => (Inv /\ SearchInv)'
  BY NextInv, SearchNext
<1> QED BY <1>1, <1>2, InitInv, SearchInit, PTL DEF Spec

-----------------------------------------------------------------------------
(* Runs of one batch.                                                      *)

\* A command's claim fits one batch, nobody edits the ledger while a command runs, and a
\* batch is answered or fails as a whole.
OneBatch ==
  /\ "edit" \in Quiet
  /\ Commands \subseteq {"process"} /\ "rejected" \notin Faults
  /\ Limit <= BatchSize /\ IsFiniteSet(Tx)

\* The hook is told of every flag: none is set back to open, and one resolved is the only one.
EligibilityKnown ==
  /\ "reopen" \notin LedgerOps
  /\ \A i, j \in Issue : i = j

Mine(w) == worker[w].todo \cup worker[w].batch

\* A command is between two of these points, and has planned for its whole batch.
Stage(s) ==
  /\ s.pc \in {"idle", "ready", "claimed", "infer", "commit"}
  /\ s.gone = {}
  /\ s.pc # "claimed" => s.todo = {}
  /\ s.pc = "claimed" => IsFiniteSet(s.todo) /\ Cardinality(s.todo) <= BatchSize
  /\ s.pc \notin {"infer", "commit"} => s.batch = {}
  /\ \A t \in Tx : /\ s.doc[t].plan \notin {"insert", "rearm"}
                   /\ s.doc[t].plan = "none" <=> t \notin s.batch
                   /\ s.pc = "commit" => s.doc[t].plan # "infer"

\* What it read is still so.
Informed(s, rows, stored) ==
  \A t \in s.batch :
    LET d == s.doc[t]  x == rows[t].text  old == stored[t][s.rev] IN
    /\ d.plan = "drop" <=> ~Eligible(rows[t])
    /\ d.plan \in {"infer", "store"} => d.text = x
    /\ d.plan = "done" => old # None /\ old.text = x
    /\ d.plan = "store" => (d.known <=> old # None)

\* Its jobs are running, and not for longer than its call.
Leased(s, queue) ==
  \A t \in s.todo \cup s.batch :
    /\ queue[t] # None /\ queue[t].status = "running" /\ queue[t].age <= CallLimit
    /\ s.pc = "infer" => queue[t].age <= s.clock

Apart == \A v, w \in Worker : v # w => Mine(v) \cap Mine(w) = {}

\* A flush runs alone, so its verdict still holds when it commits.
EditAlone ==
  edit # None =>
    /\ NoCommandRuns
    /\ \E flagged \in BOOLEAN : /\ edit.verdict = HookVerdict(edit.tx, edit.row, flagged)
                                /\ flagged => Flagged(edit.row)

RunInv ==
  /\ EditAlone
  /\ Apart
  /\ \A w \in Worker : /\ Stage(worker[w])
                       /\ Informed(worker[w], ledger, vectors)
                       /\ Leased(worker[w], jobs)

\* A step of one command that leaves the rows of the others alone.
LEMMA RunsStep ==
  ASSUME Inv, RunInv, NEW w \in Worker, NEW s, UpdateWorker(w, s),
         edit = None, UNCHANGED <<ledger, edit>>,
         Stage(s), Informed(s, ledger, vectors'), Leased(s, jobs'),
         \A v \in Worker \ {w} :
           /\ Mine(v) \cap (s.todo \cup s.batch) = {}
           /\ \A t \in Mine(v) : jobs'[t] = jobs[t] /\ vectors'[t] = vectors[t]
  PROVE  RunInv'
<1>1. worker'[w] = s /\ \A v \in Worker \ {w} : worker'[v] = worker[v]
  BY DEF UpdateWorker, Inv, TypeOK
<1>2. EditAlone'
  BY DEF EditAlone
<1>3. Apart'
  <2>1. \A v \in Worker \ {w} : Mine(v)' = Mine(v)
    BY <1>1 DEF Mine
  <2>2. Mine(w)' = s.todo \cup s.batch
    BY <1>1 DEF Mine
  <2> QED BY <2>1, <2>2 DEF RunInv, Apart
<1>4. ASSUME NEW v \in Worker
      PROVE  Stage(worker'[v]) /\ Informed(worker'[v], ledger', vectors')
             /\ Leased(worker'[v], jobs')
  <2>1. CASE v = w
    BY <1>1, <2>1
  <2>2. CASE v # w
    <3>1. /\ Stage(worker[v]) /\ Informed(worker[v], ledger, vectors) /\ Leased(worker[v], jobs)
          /\ worker'[v] = worker[v]
      BY <1>1, <2>2 DEF RunInv
    <3>2. Informed(worker[v], ledger', vectors')
      BY <2>2, <3>1 DEF Informed, Mine
    <3>3. Leased(worker[v], jobs')
      BY <2>2, <3>1 DEF Leased, Mine
    <3> QED BY <3>1, <3>2, <3>3
  <2> QED BY <2>1, <2>2
<1>5. \A v \in Worker : /\ Stage(worker[v])' /\ Informed(worker[v], ledger, vectors)'
                        /\ Leased(worker[v], jobs)'
  BY <1>4 DEF Stage, Informed, Leased
<1> QED BY <1>2, <1>3, <1>5 DEF RunInv

LEMMA IdleStage ==
  /\ Stage(Idle) /\ Idle.todo = {} /\ Idle.batch = {}
  /\ \A rows, stored : Informed(Idle, rows, stored)
  /\ \A queue : Leased(Idle, queue)
<1>1. Stage(Idle) /\ Idle.todo = {} /\ Idle.batch = {}
  BY DEF Idle, Stage, NoDocs, NoDoc
<1> QED BY <1>1 DEF Informed, Leased

\* While no command runs the commands are sound whatever happens to the tables.
LEMMA NobodyRuns ==
  ASSUME Inv, RunInv, NoCommandRuns, worker' = worker, EditAlone'
  PROVE  RunInv'
<1>1. ASSUME NEW w \in Worker
      PROVE  Stage(worker[w]) /\ worker[w].todo = {} /\ worker[w].batch = {}
  BY DEF RunInv, Stage, NoCommandRuns
<1>2. Apart'
  BY <1>1 DEF Apart, Mine
<1>3. \A w \in Worker : /\ Stage(worker[w])' /\ Informed(worker[w], ledger, vectors)'
                        /\ Leased(worker[w], jobs)'
  BY <1>1 DEF Stage, Informed, Leased
<1> QED BY <1>2, <1>3 DEF RunInv

\* Whoever works, no flush is under way.
LEMMA NoFlush == ASSUME RunInv, NEW w \in Worker, worker[w].pc # "idle" PROVE edit = None
BY DEF RunInv, EditAlone, NoCommandRuns

-----------------------------------------------------------------------------
(* What a step does to jobs and vectors.                                   *)

Stay ==
  /\ UNCHANGED <<ledger, vectors>>
  /\ \A t \in Tx : /\ jobs'[t] = None <=> jobs[t] = None
                   /\ jobs[t] # None => jobs'[t].status = jobs[t].status
Kept == \A v \in Worker : Mine(v) \subseteq Mine(v)'

ClaimedBy(w) ==
  /\ UNCHANGED <<ledger, vectors>>
  /\ \E S \in SUBSET Tx :
       /\ S # {}
       /\ \A t \in Tx \ S : jobs'[t] = jobs[t]
       /\ \A t \in S : /\ HasStatus(t, {"pending", "running"})
                       /\ jobs'[t] # None /\ jobs'[t].status = "running"
                       /\ t \in Mine(w)'
  /\ Kept

SettledBy(w) ==
  /\ ledger' = ledger
  /\ \A t \in Tx \ Mine(w) : jobs'[t] = jobs[t] /\ vectors'[t] = vectors[t]
  /\ \A v \in Worker \ {w} : Mine(v) \subseteq Mine(v)'
  /\ \A t \in Mine(w) :
       LET x == ledger[t].text IN
       /\ HasStatus(t, {"running"})
       /\ ~Eligible(ledger[t]) => jobs'[t] = None
       /\ Eligible(ledger[t]) =>
            /\ jobs'[t] # None /\ jobs'[t].status \in {"done", "pending", "failed"}
            /\ jobs'[t].status = "done" =>
                 \E r \in Rev : vectors'[t][r] # None /\ vectors'[t][r].text = x
       /\ \A r \in Rev : vectors[t][r] # None /\ vectors[t][r].text = x
                           => vectors'[t][r] # None /\ vectors'[t][r].text = x

\* The hold of the others stays when one command moves.
LEMMA KeptStep ==
  ASSUME Inv, NEW w \in Worker, NEW s, UpdateWorker(w, s), Mine(w) \subseteq s.todo \cup s.batch
  PROVE  Kept
BY DEF UpdateWorker, Inv, TypeOK, Kept, Mine

LEMMA StartRunRuns ==
  ASSUME OneBatch, Inv, RunInv, NEW w \in Worker, StartRun(w)
  PROVE  RunInv' /\ Stay /\ Kept
<1> DEFINE s == [Idle EXCEPT !.pc = "ready", !.rev = live]
<1>1. /\ UpdateWorker(w, s) /\ worker[w].pc = "idle" /\ edit = None
      /\ UNCHANGED <<ledger, jobs, vectors, live, edit, spent>>
  BY DEF StartRun, OneBatch
<1>2. s.pc = "ready" /\ s.gone = {} /\ s.todo = {} /\ s.batch = {} /\ s.doc = NoDocs
  BY DEF Idle
<1> HIDE DEF s
<1>3. Stage(s)
  BY <1>2 DEF Stage, NoDocs, NoDoc
<1>4. Informed(s, ledger, vectors') /\ Leased(s, jobs')
  BY <1>2 DEF Informed, Leased
<1>5. Mine(w) = {}
  BY <1>1 DEF Mine, RunInv, Stage
<1>6. RunInv'
  BY <1>1, <1>2, <1>3, <1>4, RunsStep
<1>7. Stay /\ Kept
  BY <1>1, <1>5, KeptStep DEF Stay
<1> QED BY <1>6, <1>7

LEMMA CrashRuns ==
  ASSUME Inv, RunInv, NEW w \in Worker, Crash(w)
  PROVE  RunInv' /\ Stay
<1>1. edit = None /\ UpdateWorker(w, Idle) /\ UNCHANGED <<ledger, jobs, vectors, live, edit>>
  BY NoFlush DEF Crash
<1>2. RunInv'
  BY <1>1, IdleStage, RunsStep
<1> QED BY <1>1, <1>2 DEF Stay

\* What is held is running and within its lease, so nobody else may claim it.
LEMMA ClaimRuns ==
  ASSUME OneBatch, Inv, RunInv, NEW w \in Worker, Claim(w)
  PROVE  RunInv' /\ (ClaimedBy(w) \/ (Stay /\ Kept))
<1> DEFINE C == {t \in Tx : Claimable(t)}
           s(S) == [Idle EXCEPT !.pc = "claimed", !.rev = worker[w].rev, !.todo = S]
<1>1. PICK S \in UpTo(C, Limit) :
        /\ jobs' = [t \in Tx |-> IF t \in S THEN [jobs[t] EXCEPT !.status = "running", !.age = 0]
                                 ELSE jobs[t]]
        /\ UpdateWorker(w, IF S = {} THEN Idle ELSE s(S))
  BY DEF Claim
<1>2. worker[w].pc = "ready" /\ UNCHANGED <<ledger, vectors, live, edit, spent>> /\ edit = None
  <2>1. worker[w].pc # "queued" /\ worker[w].pc \in {"ready", "queued"}
    BY DEF RunInv, Stage, Claim
  <2> QED BY <2>1, NoFlush DEF Claim
<1>3. Mine(w) = {}
  BY <1>2 DEF Mine, RunInv, Stage
<1>4. S \subseteq C /\ C \subseteq Tx /\ IsFiniteSet(C) /\ IsFiniteSet(S)
  BY <1>1, FS_Subset DEF UpTo, OneBatch
<1>5. Cardinality(S) <= BatchSize
  <2>1. Cardinality(S) = Smaller(Limit, Cardinality(C)) /\ Cardinality(C) \in Nat
    BY <1>1, <1>4, FS_CardinalityType DEF UpTo
  <2>2. Limit \in Nat /\ BatchSize \in Nat
    BY ConstantsAssumption
  <2> HIDE DEF C
  <2> QED BY <2>1, <2>2 DEF OneBatch, Smaller
<1>6. ASSUME NEW v \in Worker, NEW t \in Mine(v) PROVE t \notin S
  <2>1. Leased(worker[v], jobs)
    BY DEF RunInv
  <2>2. jobs[t].status = "running" /\ jobs[t].age <= CallLimit /\ t \in Tx /\ jobs[t] \in Job
    BY <2>1 DEF Leased, Mine, Inv, TypeOK, WorkerState
  <2>3. jobs[t].age # StaleAfter
    BY <2>2, LeaseAssumption, ConstantsAssumption DEF Job
  <2>4. ~Claimable(t)
    BY <2>2, <2>3 DEF Claimable
  <2> QED BY <1>4, <2>4
<1>7. \A t \in Tx \ S : jobs'[t] = jobs[t]
  BY <1>1
<1>8. \A v \in Worker \ {w} : \A t \in Mine(v) : jobs'[t] = jobs[t] /\ vectors'[t] = vectors[t]
  BY <1>2, <1>6, <1>7 DEF Mine, Inv, TypeOK, WorkerState
<1>9. CASE S = {}
  <2>1. jobs' = jobs
    BY <1>1, <1>9 DEF Inv, TypeOK
  <2>2. UpdateWorker(w, Idle)
    BY <1>1, <1>9
  <2>3. RunInv'
    BY <1>2, <1>8, <2>2, IdleStage, RunsStep
  <2> QED BY <1>2, <1>3, <2>1, <2>2, <2>3, KeptStep DEF Stay
<1>10. CASE S # {}
  <2>1. UpdateWorker(w, s(S))
    BY <1>1, <1>10
  <2>2. /\ s(S).pc = "claimed" /\ s(S).gone = {} /\ s(S).todo = S
        /\ s(S).batch = {} /\ s(S).doc = NoDocs
    BY DEF Idle
  <2> HIDE DEF s
  <2>3. Stage(s(S))
    BY <1>4, <1>5, <2>2 DEF Stage, NoDocs, NoDoc
  <2>4. ASSUME NEW t \in S
        PROVE  /\ HasStatus(t, {"pending", "running"}) /\ t \in Tx
               /\ jobs'[t] # None /\ jobs'[t].status = "running" /\ jobs'[t].age = 0
    <3>1. t \in Tx /\ Claimable(t)
      BY <1>4
    <3>2. jobs[t] \in Job /\ jobs[t] # None /\ jobs[t].status \in {"pending", "running"}
      BY <3>1 DEF Claimable, Inv, TypeOK
    <3>3. jobs'[t] = [jobs[t] EXCEPT !.status = "running", !.age = 0]
      BY <1>1, <3>1
    <3>4. jobs'[t].status = "running" /\ jobs'[t].age = 0
      BY <3>2, <3>3 DEF Job
    <3>5. jobs'[t] \in Job
      <4>1. 0 \in 0..StaleAfter
        BY ConstantsAssumption
      <4> QED BY <3>2, <3>3, <4>1 DEF Job, Status
    <3> QED BY <3>1, <3>2, <3>4, <3>5, NoneAssumption DEF HasStatus
  <2>5. Informed(s(S), ledger, vectors') /\ Leased(s(S), jobs')
    BY <2>2, <2>4, ConstantsAssumption DEF Informed, Leased
  <2>6. RunInv'
    BY <1>2, <1>6, <1>8, <2>1, <2>2, <2>3, <2>5, RunsStep
  <2>7. worker'[w] = s(S)
    BY <2>1 DEF UpdateWorker, Inv, TypeOK
  <2>8. ClaimedBy(w)
    <3>1. Kept
      BY <1>3, <2>1, KeptStep
    <3>2. \A t \in S : t \in Mine(w)'
      BY <2>2, <2>7 DEF Mine
    <3>3. S \in SUBSET Tx
      BY <1>4
    <3> QED BY <1>2, <1>7, <1>10, <2>4, <3>1, <3>2, <3>3 DEF ClaimedBy
  <2> QED BY <2>6, <2>8
<1> QED BY <1>9, <1>10

LEMMA StartBatchRuns ==
  ASSUME OneBatch, Inv, RunInv, NEW w \in Worker, StartBatch(w)
  PROVE  RunInv' /\ Stay /\ Kept
<1> DEFINE me == worker[w]
           doc(B) == [t \in Tx |-> IF t \in B THEN ReadDoc(t, me.rev) ELSE NoDoc]
           s(B) == [me EXCEPT
             !.pc = IF Pending(doc(B)) = {} THEN "commit" ELSE "infer",
             !.todo = @ \ B, !.batch = B, !.doc = doc(B), !.expired = FALSE, !.clock = 0]
<1>1. me \in WorkerState /\ Stage(me) /\ Leased(me, jobs) /\ me.pc = "claimed" /\ me.gone = {}
  BY DEF Inv, TypeOK, StartBatch, RunInv, Stage
<1>2. edit = None /\ UNCHANGED <<ledger, vectors, live, edit, spent>>
  BY <1>1, NoFlush DEF StartBatch
<1>3. me.batch = {} /\ Mine(w) = me.todo /\ me.todo \subseteq Tx /\ IsFiniteSet(me.todo)
      /\ Cardinality(me.todo) <= BatchSize
  BY <1>1 DEF Stage, Mine, WorkerState
\* The batch is the whole claim.
<1>4. ASSUME NEW B \in UpTo(me.todo, BatchSize) PROVE B = me.todo
  <2>1. Cardinality(me.todo) \in Nat /\ BatchSize \in Nat
    BY <1>3, FS_CardinalityType, ConstantsAssumption
  <2>2. B \subseteq me.todo /\ Cardinality(B) = Smaller(BatchSize, Cardinality(me.todo))
    BY DEF UpTo
  <2>3. Cardinality(B) = Cardinality(me.todo)
    <3> HIDE DEF me
    <3> QED BY <1>3, <2>1, <2>2 DEF Smaller
  <2> QED BY <1>3, <2>2, <2>3, FS_Subset
<1> DEFINE B == me.todo
<1>5. /\ jobs' = [t \in Tx |-> IF t \in B THEN [jobs[t] EXCEPT !.age = 0] ELSE jobs[t]]
      /\ UpdateWorker(w, s(B))
  <2>1. PICK Z \in UpTo(me.todo, BatchSize) :
          \/ Z \cap me.gone # {}
          \/ /\ jobs' = [t \in Tx |-> IF t \in Z THEN [jobs[t] EXCEPT !.age = 0] ELSE jobs[t]]
             /\ UpdateWorker(w, s(Z))
    BY DEF StartBatch
  <2>2. Z = B /\ Z \cap me.gone = {}
    BY <1>1, <1>4
  <2> HIDE DEF s, B
  <2> QED BY <2>1, <2>2
<1>6. ASSUME NEW t \in Tx
      PROVE  LET d == doc(B)[t]  x == ledger[t].text IN
             /\ d.plan = "none" <=> t \notin B
             /\ d.plan \in {"none", "drop", "done", "infer"}
             /\ t \in B => /\ d.plan = "drop" <=> ~Eligible(ledger[t])
                           /\ d.plan = "infer" => d.text = x
                           /\ d.plan = "done" => Matches(t, me.rev, x)
  <2>1. CASE t \in B
    <3>1. doc(B)[t] = ReadDoc(t, me.rev)
      BY <2>1
    <3> QED BY <2>1, <3>1 DEF ReadDoc, NoDoc
  <2>2. CASE t \notin B
    <3>1. doc(B)[t] = NoDoc
      BY <2>2
    <3> QED BY <2>2, <3>1 DEF NoDoc
  <2> QED BY <2>1, <2>2
<1> HIDE DEF B
<1>7. /\ s(B).pc = IF Pending(doc(B)) = {} THEN "commit" ELSE "infer"
      /\ s(B).gone = {} /\ s(B).todo = {} /\ s(B).batch = B /\ s(B).doc = doc(B)
      /\ s(B).rev = me.rev /\ s(B).clock = 0
  <2> HIDE DEF doc
  <2> QED BY <1>1 DEF WorkerState, B
<1> HIDE DEF s
<1>8. Stage(s(B))
  <2>1. s(B).pc = "commit" => \A t \in Tx : doc(B)[t].plan # "infer"
    BY <1>7 DEF Pending
  <2> HIDE DEF doc
  <2> QED BY <1>6, <1>7, <2>1 DEF Stage
<1>9. Informed(s(B), ledger, vectors')
  <2> HIDE DEF doc
  <2> QED BY <1>2, <1>3, <1>6, <1>7 DEF Informed, Matches, HasVector, B
<1>10. ASSUME NEW t \in B
       PROVE  /\ t \in Tx /\ jobs[t] # None /\ jobs'[t] # None /\ jobs[t].status = "running"
              /\ jobs'[t].status = "running" /\ jobs'[t].age = 0
  <2>1. t \in Tx /\ jobs[t] # None /\ jobs[t] \in Job /\ jobs[t].status = "running"
    BY <1>1, <1>3 DEF Leased, B, Inv, TypeOK
  <2>2. jobs'[t] = [jobs[t] EXCEPT !.age = 0]
    BY <1>5, <2>1
  <2>3. 0 \in 0..StaleAfter
    BY ConstantsAssumption
  <2>4. jobs'[t] \in Job /\ jobs'[t].status = "running" /\ jobs'[t].age = 0
    BY <2>1, <2>2, <2>3 DEF Job
  <2> QED BY <2>1, <2>4, NoneAssumption
<1>11. Leased(s(B), jobs')
  BY <1>7, <1>10, ConstantsAssumption DEF Leased
<1>12. Mine(w) = B
  BY <1>3 DEF B
<1>13. ASSUME NEW v \in Worker \ {w}
       PROVE  /\ Mine(v) \cap (s(B).todo \cup s(B).batch) = {}
              /\ \A t \in Mine(v) : jobs'[t] = jobs[t] /\ vectors'[t] = vectors[t]
  <2>1. Mine(v) \cap B = {}
    BY <1>12 DEF RunInv, Apart
  <2>2. Mine(v) \subseteq Tx
    BY DEF Mine, Inv, TypeOK, WorkerState
  <2> QED BY <1>2, <1>5, <1>7, <2>1, <2>2
<1>14. RunInv'
  BY <1>2, <1>5, <1>8, <1>9, <1>11, <1>13, RunsStep
<1>15. Kept
  BY <1>5, <1>7, <1>12, KeptStep
<1>16. Stay
  BY <1>2, <1>5, <1>10 DEF Stay
<1> QED BY <1>14, <1>15, <1>16

\* The answer to a batch moves every document that was at the service.
LEMMA InferRuns ==
  ASSUME OneBatch, Inv, RunInv, NEW w \in Worker, Infer(w)
  PROVE  RunInv' /\ Stay /\ Kept
<1> DEFINE me == worker[w]
           S == Pending(me.doc)
<1>1. /\ me \in WorkerState /\ Stage(me) /\ Informed(me, ledger, vectors) /\ Leased(me, jobs)
      /\ me.pc = "infer" /\ me.gone = {} /\ me.todo = {}
  BY DEF Inv, TypeOK, Infer, RunInv, Stage
<1>2. edit = None /\ UNCHANGED <<ledger, jobs, vectors, live, edit>>
  BY <1>1, NoFlush DEF Infer
<1>3. ASSUME NEW doc, UpdateWorker(w, [me EXCEPT !.pc = "commit", !.doc = doc]),
             \A t \in Tx \ S : doc[t] = me.doc[t],
             \A t \in S : \/ doc[t].plan \in {"retry", "fail"}
                          \/ /\ doc[t].plan = "store" /\ doc[t].text = me.doc[t].text
                             /\ doc[t].known = HasVector(t, me.rev)
      PROVE  RunInv' /\ Stay /\ Kept
  <2> DEFINE s == [me EXCEPT !.pc = "commit", !.doc = doc]
  <2>1. /\ s.pc = "commit" /\ s.doc = doc /\ s.gone = {} /\ s.todo = {} /\ s.batch = me.batch
        /\ s.rev = me.rev
    BY <1>1 DEF WorkerState
  <2>2. UpdateWorker(w, s)
    BY <1>3
  <2> HIDE DEF s
  <2>3. S \subseteq Tx /\ \A t \in Tx : t \in S <=> me.doc[t].plan = "infer"
    BY DEF Pending
  <2>4. Stage(s)
    BY <1>1, <1>3, <2>1, <2>3 DEF Stage
  <2>5. me.batch \subseteq Tx
    BY <1>1 DEF WorkerState
  <2>6. Informed(s, ledger, vectors')
    <3> SUFFICES ASSUME NEW t \in me.batch
                 PROVE  LET d == doc[t]  x == ledger[t].text  old == vectors[t][me.rev] IN
                        /\ d.plan = "drop" <=> ~Eligible(ledger[t])
                        /\ d.plan \in {"infer", "store"} => d.text = x
                        /\ d.plan = "done" => old # None /\ old.text = x
                        /\ d.plan = "store" => (d.known <=> old # None)
      BY <1>2, <2>1 DEF Informed
    <3>1. CASE t \in S
      BY <1>1, <1>3, <2>3, <3>1 DEF Informed, HasVector
    <3>2. CASE t \notin S
      BY <1>1, <1>3, <2>5, <3>2 DEF Informed
    <3> QED BY <3>1, <3>2
  <2>7. Leased(s, jobs')
    BY <1>1, <1>2, <2>1 DEF Leased
  <2>8. Mine(w) = s.todo \cup s.batch
    BY <1>1, <2>1 DEF Mine
  <2>9. \A v \in Worker \ {w} : Mine(v) \cap (s.todo \cup s.batch) = {}
    BY <2>8 DEF RunInv, Apart
  <2>10. RunInv'
    BY <1>2, <2>2, <2>4, <2>6, <2>7, <2>9, RunsStep
  <2>11. Kept
    BY <2>2, <2>8, KeptStep
  <2> QED BY <1>2, <2>10, <2>11 DEF Stay
<1>4. me.doc \in [Tx -> Doc] /\ S \subseteq Tx
  BY <1>1 DEF WorkerState, Pending
<1>5. CASE UpdateWorker(w, [me EXCEPT !.pc = "commit", !.doc = Received(me, S)])
  <2> DEFINE doc == Received(me, S)
  <2>1. \A t \in Tx \ S : doc[t] = me.doc[t]
    BY DEF Received
  <2>2. ASSUME NEW t \in S
        PROVE  /\ doc[t].plan = "store" /\ doc[t].text = me.doc[t].text
               /\ doc[t].known = HasVector(t, me.rev)
    BY <1>4 DEF Received, Doc
  <2>3. UpdateWorker(w, [me EXCEPT !.pc = "commit", !.doc = doc])
    BY <1>5
  <2> HIDE DEF doc
  <2> QED BY <1>3, <2>1, <2>2, <2>3
<1>6. CASE \E f \in Faults \ {"rejected"} :
             UpdateWorker(w, [me EXCEPT !.pc = "commit", !.doc = Planned(me, S, FaultPlan(f))])
  <2>1. PICK f \in Faults \ {"rejected"} :
          UpdateWorker(w, [me EXCEPT !.pc = "commit", !.doc = Planned(me, S, FaultPlan(f))])
    BY <1>6
  <2> DEFINE doc == Planned(me, S, FaultPlan(f))
  <2>2. \A t \in Tx \ S : doc[t] = me.doc[t]
    BY DEF Planned
  <2>3. ASSUME NEW t \in S PROVE doc[t].plan \in {"retry", "fail"}
    <3>1. FaultPlan(f) \in {"retry", "fail"}
      BY DEF FaultPlan
    <3>2. doc[t].plan = FaultPlan(f)
      BY <1>4 DEF Planned, Doc
    <3> QED BY <3>1, <3>2
  <2>4. UpdateWorker(w, [me EXCEPT !.pc = "commit", !.doc = doc])
    BY <2>1
  <2> HIDE DEF doc
  <2> QED BY <1>3, <2>2, <2>3, <2>4
<1> QED BY <1>5, <1>6 DEF Infer, Fault, OneBatch

\* The statuses a commit may leave a job in.
LEMMA CommittedStatus ==
  ASSUME Inv, NEW t \in Tx, NEW d \in Doc, jobs[t] \in Job,
         d.plan \in {"done", "store", "retry", "fail"}
  PROVE  /\ JobAfter(t, d).status \in {"done", "pending", "failed"}
         /\ JobAfter(t, d).status = "done" => d.plan \in {"done", "store"}
<1>1. CASE d.plan \in {"done", "store"}
  <2>1. JobAfter(t, d) = MarkedDone(jobs[t])
    BY <1>1 DEF JobAfter
  <2> QED BY <1>1, <2>1, MarkedDoneType
<1>2. CASE d.plan = "retry"
  <2>1. JobAfter(t, d) = Deferred(d.tries)
    BY <1>2 DEF JobAfter
  <2> QED BY <2>1 DEF Deferred
<1>3. CASE d.plan = "fail"
  <2>1. JobAfter(t, d) = Failed(d.tries)
    BY <1>3 DEF JobAfter
  <2> QED BY <2>1 DEF Failed
<1> QED BY <1>1, <1>2, <1>3

\* Alone with its batch a command's commit never fails, and ends its run.
LEMMA CommitRuns ==
  ASSUME OneBatch, Inv, RunInv, NEW w \in Worker, Commit(w)
  PROVE  RunInv' /\ SettledBy(w)
<1> DEFINE me == worker[w]
           D == Dropped(me)
<1>1. /\ me \in WorkerState /\ Stage(me) /\ Informed(me, ledger, vectors) /\ Leased(me, jobs)
      /\ me.pc = "commit" /\ me.gone = {} /\ me.todo = {} /\ Sound(me) /\ me.rev \in Rev
  BY DEF Inv, TypeOK, Commit, RunInv, Stage, PlansSound, Sound
<1>2. edit = None /\ UNCHANGED <<ledger, live, spent>>
  BY <1>1, NoFlush DEF Commit
<1>3. /\ Mine(w) = me.batch /\ me.batch \subseteq Tx /\ Pending(me.doc) = {}
      /\ me.doc \in [Tx -> Doc] /\ NextBatch(me) = Idle
  BY <1>1 DEF Mine, WorkerState, Pending, Stage, NextBatch
<1>4. \A t \in Tx : me.doc[t].plan \in {"drop", "done", "store", "retry", "fail"} <=> t \in me.batch
  BY <1>1, <1>3 DEF Stage, Doc, Plan
<1>5. Updated(me) \cap me.gone = {} /\ Collides(me) = {}
  <2>1. ASSUME NEW t \in Collides(me) PROVE FALSE
    <3>1. t \in Tx /\ me.doc[t].plan = "store" /\ ~me.doc[t].known /\ HasVector(t, me.rev)
      BY DEF Collides
    <3> QED BY <1>1, <1>4, <3>1 DEF Informed, HasVector
  <2> QED BY <1>1, <2>1
<1>6. /\ jobs' = [t \in Tx |-> IF t \in Updated(me) \cup D THEN JobAfter(t, me.doc[t]) ELSE jobs[t]]
      /\ vectors' = [t \in Tx |->
           IF me.doc[t].plan = "store"
           THEN [vectors[t] EXCEPT ![me.rev] = [text |-> me.doc[t].text, by |-> me.doc[t].made]]
           ELSE vectors[t]]
      /\ edit' = ForgetInEdit(D)
      /\ worker' = [Forget(D) EXCEPT ![w] = Idle]
  BY <1>3, <1>5 DEF Commit
<1>7. D \subseteq me.batch /\ Updated(me) \subseteq me.batch
      /\ \A t \in me.batch : t \in Updated(me) \cup D
  BY <1>1, <1>3, <1>4 DEF Dropped, Updated
<1>8. \A v \in Worker \ {w} : Mine(v) \cap me.batch = {} /\ Mine(v) \subseteq Tx
  BY <1>3 DEF RunInv, Apart, Mine, Inv, TypeOK, WorkerState
<1>9. UpdateWorker(w, Idle)
  <2>1. ASSUME NEW v \in Worker \ {w} PROVE Forget(D)[v] = worker[v]
    <3>1. D \cap (worker[v].todo \cup worker[v].batch) = {}
      BY <1>7, <1>8 DEF Mine
    <3>2. Forget(D)[v] = [worker[v] EXCEPT !.gone = @ \cup {}]
      BY <3>1 DEF Forget
    <3>3. worker[v] \in WorkerState
      BY DEF Inv, TypeOK
    <3> QED BY <3>2, <3>3 DEF WorkerState
  <2>2. worker' = [v \in Worker |-> IF v = w THEN Idle ELSE Forget(D)[v]]
    BY <1>6 DEF Forget
  <2> HIDE DEF D
  <2> QED BY <2>1, <2>2 DEF UpdateWorker, Inv, TypeOK
<1>10. edit' = edit
  BY <1>2, <1>6 DEF ForgetInEdit
<1> HIDE DEF D
<1>11. ASSUME NEW t \in Tx \ me.batch PROVE jobs'[t] = jobs[t] /\ vectors'[t] = vectors[t]
  BY <1>4, <1>6, <1>7
<1>12. \A v \in Worker \ {w} :
         /\ Mine(v) \cap (Idle.todo \cup Idle.batch) = {}
         /\ \A t \in Mine(v) : jobs'[t] = jobs[t] /\ vectors'[t] = vectors[t]
  BY <1>8, <1>11, IdleStage
<1>13. RunInv'
  BY <1>2, <1>9, <1>10, <1>12, IdleStage, RunsStep
<1>14. \A v \in Worker \ {w} : Mine(v) \subseteq Mine(v)'
  BY <1>9 DEF UpdateWorker, Inv, TypeOK, Mine
<1>15. ASSUME NEW t \in me.batch
       PROVE  LET x == ledger[t].text IN
         /\ HasStatus(t, {"running"})
         /\ ~Eligible(ledger[t]) => jobs'[t] = None
         /\ Eligible(ledger[t]) =>
              /\ jobs'[t] # None /\ jobs'[t].status \in {"done", "pending", "failed"}
              /\ jobs'[t].status = "done" =>
                   \E r \in Rev : vectors'[t][r] # None /\ vectors'[t][r].text = x
         /\ \A r \in Rev : vectors[t][r] # None /\ vectors[t][r].text = x
                             => vectors'[t][r] # None /\ vectors'[t][r].text = x
  <2> DEFINE d == me.doc[t]
             x == ledger[t].text
             old == vectors[t][me.rev]
  <2>1. t \in Tx /\ d \in Doc /\ d.plan \in {"drop", "done", "store", "retry", "fail"}
    BY <1>3, <1>4
  <2>2. jobs[t] # None /\ jobs[t] \in Job /\ jobs[t].status = "running"
    BY <1>1, <2>1 DEF Leased, Inv, TypeOK
  <2>3. jobs'[t] = JobAfter(t, d)
    BY <1>6, <1>7, <2>1
  <2>4. /\ d.plan = "drop" <=> ~Eligible(ledger[t])
        /\ d.plan = "store" => d.text = x
        /\ d.plan = "done" => old # None /\ old.text = x
    BY <1>1 DEF Informed
  <2>5. d.plan = "store" => /\ vectors'[t][me.rev] = [text |-> x, by |-> d.made]
                            /\ vectors'[t][me.rev] # None
                            /\ \A r \in Rev \ {me.rev} : vectors'[t][r] = vectors[t][r]
    <3> SUFFICES ASSUME d.plan = "store"
                 PROVE  /\ vectors'[t][me.rev] = [text |-> x, by |-> d.made]
                        /\ vectors'[t][me.rev] # None
                        /\ \A r \in Rev \ {me.rev} : vectors'[t][r] = vectors[t][r]
      OBVIOUS
    <3>1. vectors'[t] = [vectors[t] EXCEPT ![me.rev] = [text |-> x, by |-> d.made]]
      BY <1>6, <2>1, <2>4
    <3>2. [text |-> x, by |-> d.made] \in Vector
      BY <1>1, <2>1, <2>4 DEF Sound, Vector
    <3>3. vectors[t] \in [Rev -> Vector \cup {None}]
      BY <2>1 DEF Inv, TypeOK
    <3> QED BY <1>1, <3>1, <3>2, <3>3, NoneAssumption
  <2>6. d.plan # "store" => vectors'[t] = vectors[t]
    BY <1>6, <2>1
  <2>7. ~Eligible(ledger[t]) => jobs'[t] = None
    BY <2>3, <2>4 DEF JobAfter
  <2>8. ASSUME Eligible(ledger[t])
        PROVE  /\ jobs'[t] # None /\ jobs'[t].status \in {"done", "pending", "failed"}
               /\ jobs'[t].status = "done" =>
                    \E r \in Rev : vectors'[t][r] # None /\ vectors'[t][r].text = x
    <3>1. d.plan \in {"done", "store", "retry", "fail"} /\ t \in Updated(me)
      BY <2>1, <2>4, <2>8 DEF Updated
    <3>2. jobs'[t] # None
      BY <1>1, <1>5, <2>3, <3>1, CommittedJobs
    <3> HIDE DEF d
    <3>3. /\ jobs'[t].status \in {"done", "pending", "failed"}
          /\ jobs'[t].status = "done" => d.plan \in {"done", "store"}
      BY <2>1, <2>2, <2>3, <3>1, CommittedStatus
    <3>4. d.plan = "store" => vectors'[t][me.rev] # None /\ vectors'[t][me.rev].text = x
      BY <2>5
    <3>5. d.plan = "done" => vectors'[t][me.rev] # None /\ vectors'[t][me.rev].text = x
      BY <2>4, <2>6
    <3> QED BY <1>1, <3>2, <3>3, <3>4, <3>5
  <2>9. ASSUME NEW r \in Rev, vectors[t][r] # None, vectors[t][r].text = x
        PROVE  vectors'[t][r] # None /\ vectors'[t][r].text = x
    <3>1. CASE d.plan = "store" /\ r = me.rev
      BY <2>5, <3>1
    <3>2. CASE ~(d.plan = "store" /\ r = me.rev)
      BY <2>5, <2>6, <2>9, <3>2
    <3> QED BY <3>1, <3>2
  <2> QED BY <2>2, <2>7, <2>8, <2>9 DEF HasStatus
<1>16. SettledBy(w)
  BY <1>2, <1>3, <1>11, <1>14, <1>15 DEF SettledBy
<1> QED BY <1>13, <1>16

\* Time ages a job no faster than the call it waits for.
LEMMA TickRuns ==
  ASSUME OneBatch, Inv, RunInv, Tick
  PROVE  RunInv' /\ Stay /\ Kept
<1>1. UNCHANGED <<ledger, vectors, live, edit, spent>>
  BY DEF Tick
<1>2. ASSUME NEW t \in Tx
      PROVE  /\ jobs'[t] = None <=> jobs[t] = None
             /\ jobs[t] # None => /\ jobs'[t].status = jobs[t].status
                                   /\ jobs'[t].age <= jobs[t].age + 1
                                  /\ jobs[t].age \in Nat /\ jobs'[t].age \in Nat
  <2>1. CASE jobs[t] = None
    BY <2>1 DEF Tick
  <2>2. CASE jobs[t] # None
    <3>1. jobs[t] \in Job /\ jobs'[t] = Aged(jobs[t])
      BY <2>2 DEF Tick, Inv, TypeOK
    <3> DEFINE j == jobs[t]
               age == IF j.status = "running" THEN Smaller(j.age + 1, StaleAfter) ELSE j.age
               pause == IF j.wait = 0 THEN 0 ELSE j.wait - 1
    <3>2. age \in 0..StaleAfter /\ pause \in Nat /\ age <= j.age + 1 /\ j.age \in Nat /\ age \in Nat
      BY <3>1, ConstantsAssumption DEF Job, Smaller
    <3>3. jobs'[t] = [j EXCEPT !.age = age, !.wait = pause]
      BY <3>1 DEF Aged, Job
    <3> HIDE DEF age, pause
    <3>4. jobs'[t] \in Job /\ jobs'[t].status = j.status /\ jobs'[t].age = age
      BY <3>1, <3>2, <3>3 DEF Job
    <3> QED BY <2>2, <3>2, <3>4, NoneAssumption
  <2> QED BY <2>1, <2>2
<1>3. ASSUME NEW w \in Worker
      PROVE  /\ worker'[w].pc = worker[w].pc /\ worker'[w].rev = worker[w].rev
             /\ worker'[w].todo = worker[w].todo /\ worker'[w].batch = worker[w].batch
             /\ worker'[w].gone = worker[w].gone /\ worker'[w].doc = worker[w].doc
             /\ worker[w].pc = "infer" => /\ worker[w].clock \in Nat /\ worker[w].clock < CallLimit
                                          /\ worker'[w].clock = worker[w].clock + 1
             /\ worker[w].pc \in {"idle", "ready", "infer"}
  <2>1. worker[w] \in WorkerState /\ Stage(worker[w])
    BY DEF Inv, TypeOK, RunInv
  <2>2. CASE worker[w].pc = "infer"
    <3>1. worker'[w] = [worker[w] EXCEPT !.clock = @ + 1] /\ worker[w].clock < CallLimit
      BY <2>2 DEF Tick, InCall
    <3> QED BY <2>1, <2>2, <3>1, ConstantsAssumption DEF WorkerState
  <2>3. CASE worker[w].pc # "infer"
    <3>1. ~InCall(w) /\ worker[w].pc \in {"idle", "ready"}
      BY <2>1, <2>3 DEF Tick, InCall, Stage
    <3> QED BY <3>1 DEF Tick
  <2> QED BY <2>2, <2>3
<1>4. ASSUME NEW w \in Worker
      PROVE  Stage(worker'[w]) /\ Informed(worker'[w], ledger', vectors')
             /\ Leased(worker'[w], jobs')
  <2>1. Stage(worker[w]) /\ Informed(worker[w], ledger, vectors) /\ Leased(worker[w], jobs)
    BY DEF RunInv
  <2>2. Stage(worker'[w]) /\ Informed(worker'[w], ledger', vectors')
    BY <1>1, <1>3, <2>1 DEF Stage, Informed
  <2>3. worker[w].todo \cup worker[w].batch \subseteq Tx
    BY DEF Inv, TypeOK, WorkerState
  <2>4. Leased(worker'[w], jobs')
    <3>1. CASE worker[w].pc = "infer"
      <4> SUFFICES ASSUME NEW t \in worker[w].todo \cup worker[w].batch
                   PROVE  /\ jobs'[t] # None /\ jobs'[t].status = "running"
                          /\ jobs'[t].age <= CallLimit /\ jobs'[t].age <= worker'[w].clock
        BY <1>3 DEF Leased
      <4>1. /\ jobs[t] # None /\ jobs[t].status = "running" /\ t \in Tx
            /\ jobs[t].age <= worker[w].clock
        BY <2>1, <2>3, <3>1 DEF Leased
      <4> QED BY <1>2, <1>3, <3>1, <4>1, ConstantsAssumption
    <3>2. CASE worker[w].pc # "infer"
      <4>1. worker[w].todo = {} /\ worker[w].batch = {}
        BY <1>3, <2>1, <3>2 DEF Stage
      <4> QED BY <1>3, <4>1 DEF Leased
    <3> QED BY <3>1, <3>2
  <2> QED BY <2>2, <2>4
<1>5. \A w \in Worker : /\ Stage(worker[w])' /\ Informed(worker[w], ledger, vectors)'
                        /\ Leased(worker[w], jobs)'
  BY <1>4 DEF Stage, Informed, Leased
<1>6. \A w \in Worker : Mine(w)' = Mine(w)
  BY <1>3 DEF Mine
<1>7. EditAlone'
  <2> SUFFICES ASSUME edit # None
               PROVE  /\ NoCommandRuns'
                      /\ \E flagged \in BOOLEAN :
                           /\ edit.verdict = HookVerdict(edit.tx, edit.row, flagged)'
                           /\ flagged => Flagged(edit.row)
    BY <1>1 DEF EditAlone
  <2>1. NoCommandRuns'
    BY <1>3 DEF RunInv, EditAlone, NoCommandRuns
  <2>2. PICK flagged \in BOOLEAN : /\ edit.verdict = HookVerdict(edit.tx, edit.row, flagged)
                                   /\ flagged => Flagged(edit.row)
    BY DEF RunInv, EditAlone
  <2>3. edit.tx \in Tx
    BY DEF Inv, TypeOK, Edit
  <2>4. HookVerdict(edit.tx, edit.row, flagged)' = HookVerdict(edit.tx, edit.row, flagged)
    BY <1>1, <1>2, <2>3 DEF HookVerdict, MatchesSomeKey, Matches, HasVector, HasStatus
  <2> QED BY <2>1, <2>2, <2>4
<1>8. RunInv'
  BY <1>5, <1>6, <1>7 DEF RunInv, Apart
<1> QED BY <1>1, <1>2, <1>6, <1>8 DEF Stay, Kept

-----------------------------------------------------------------------------
(* The ledger's side.                                                      *)

\* Every flush knows of the flags of the row it writes what the hook was told.
FlushOf(t, row, flagged) ==
  /\ \E op \in LedgerOps : Flush(op, t, row, flagged)
  /\ flagged => Flagged(row)
  /\ EligibilityKnown => (Flagged(row) => flagged)

LEMMA FlushFacts ==
  ASSUME Inv, LedgerStep
  PROVE  \/ CommitFlush
         \/ \E t \in Tx, x \in Text : RenameCategory(t, x)
         \/ \E t \in Tx, row \in Row, flagged \in BOOLEAN : FlushOf(t, row, flagged)
<1>1. ASSUME NEW t \in Tx, NEW x \in Text, CreateTransaction(t, x)
      PROVE  \E row \in Row, flagged \in BOOLEAN : FlushOf(t, row, flagged)
  <2> DEFINE row == [ledger[t] EXCEPT !.kind = "ledger", !.text = x]
  <2>1. ledger[t] \in Row /\ ledger[t].kind = "absent"
    BY <1>1 DEF CreateTransaction, Inv, TypeOK
  <2>2. \A i \in Issue : ledger[t].flag[i] = "none"
    BY <2>1 DEF Inv, TextKnown
  <2>3. row \in Row /\ row.flag = ledger[t].flag
    BY <2>1 DEF Row
  <2>4. Flush("create", t, row, FALSE) /\ "create" \in LedgerOps
    BY <1>1 DEF CreateTransaction, Flush, BeginEdit
  <2> HIDE DEF row
  <2>5. FlushOf(t, row, FALSE)
    BY <2>2, <2>3, <2>4 DEF FlushOf, Flagged
  <2> QED BY <2>3, <2>5
<1>2. ASSUME NEW t \in Tx, NEW x \in Text, EditTransaction(t, x)
      PROVE  \E row \in Row, flagged \in BOOLEAN : FlushOf(t, row, flagged)
  <2> DEFINE row == [ledger[t] EXCEPT !.text = x]
             flagged == Flagged(ledger[t])
  <2>1. ledger[t] \in Row
    BY DEF Inv, TypeOK
  <2>2. row \in Row /\ row.flag = ledger[t].flag
    BY <2>1 DEF Row
  <2>3. Flush("edit", t, row, flagged) /\ "edit" \in LedgerOps
    BY <1>2 DEF EditTransaction, Flush, BeginEdit
  <2> HIDE DEF row
  <2>4. flagged \in BOOLEAN /\ (flagged <=> Flagged(row))
    BY <2>2 DEF Flagged
  <2> HIDE DEF flagged
  <2>5. FlushOf(t, row, flagged)
    BY <2>3, <2>4 DEF FlushOf
  <2> QED BY <2>2, <2>4, <2>5
<1>3. ASSUME NEW t \in Tx, NEW k \in {"ledger", "excluded"}, Reclassify(t, k)
      PROVE  \E row \in Row, flagged \in BOOLEAN : FlushOf(t, row, flagged)
  <2> DEFINE row == [ledger[t] EXCEPT !.kind = k]
             flagged == Flagged(ledger[t])
  <2>1. ledger[t] \in Row
    BY DEF Inv, TypeOK
  <2>2. row \in Row /\ row.flag = ledger[t].flag
    BY <2>1 DEF Row
  <2>3. Flush("reclassify", t, row, flagged) /\ "reclassify" \in LedgerOps
    BY <1>3 DEF Reclassify, Flush, BeginEdit
  <2> HIDE DEF row
  <2>4. flagged \in BOOLEAN /\ (flagged <=> Flagged(row))
    BY <2>2 DEF Flagged
  <2> HIDE DEF flagged
  <2>5. FlushOf(t, row, flagged)
    BY <2>3, <2>4 DEF FlushOf
  <2> QED BY <2>2, <2>4, <2>5
<1>4. ASSUME NEW t \in Tx, NEW i \in Issue, OpenFlag(t, i)
      PROVE  \E row \in Row, flagged \in BOOLEAN : FlushOf(t, row, flagged)
  <2> DEFINE row == [ledger[t] EXCEPT !.flag[i] = "open"]
  <2>1. ledger[t] \in Row
    BY DEF Inv, TypeOK
  <2>2. row \in Row /\ row.flag = [ledger[t].flag EXCEPT ![i] = "open"]
    BY <2>1 DEF Row, FlagState
  <2>3. Flush("flag", t, row, TRUE) /\ "flag" \in LedgerOps
    BY <1>4 DEF OpenFlag, Flush, BeginEdit
  <2> HIDE DEF row
  <2>4. Flagged(row)
    BY <2>1, <2>2 DEF Flagged, Row
  <2>5. FlushOf(t, row, TRUE)
    BY <2>3, <2>4 DEF FlushOf
  <2> QED BY <2>2, <2>5
<1>5. ASSUME NEW t \in Tx, NEW i \in Issue, ReopenFlag(t, i)
      PROVE  \E row \in Row, flagged \in BOOLEAN : FlushOf(t, row, flagged)
  <2> DEFINE row == [ledger[t] EXCEPT !.flag[i] = "open"]
             flagged == Flagged(ledger[t])
  <2>1. ledger[t] \in Row
    BY DEF Inv, TypeOK
  <2>2. row \in Row /\ row.flag = [ledger[t].flag EXCEPT ![i] = "open"]
    BY <2>1 DEF Row, FlagState
  <2>3. Flush("reopen", t, row, flagged) /\ "reopen" \in LedgerOps
    BY <1>5 DEF ReopenFlag, Flush, BeginEdit
  <2> HIDE DEF row
  <2>4. flagged \in BOOLEAN /\ Flagged(row)
    BY <2>1, <2>2 DEF Flagged, Row
  <2> HIDE DEF flagged
  <2>5. FlushOf(t, row, flagged)
    BY <2>3, <2>4 DEF FlushOf, EligibilityKnown
  <2> QED BY <2>2, <2>4, <2>5
<1>6. ASSUME NEW t \in Tx, NEW i \in Issue, NEW k \in {ledger[t].kind, "excluded"},
             ResolveFlag(t, i, k)
      PROVE  \E row \in Row, flagged \in BOOLEAN : FlushOf(t, row, flagged)
  <2> DEFINE row == [ledger[t] EXCEPT !.flag[i] = "resolved", !.kind = k]
  <2>1. ledger[t] \in Row /\ k \in {"absent", "ledger", "excluded"}
    BY DEF Inv, TypeOK, Row
  <2>2. row \in Row /\ row.flag = [ledger[t].flag EXCEPT ![i] = "resolved"]
    BY <2>1 DEF Row, FlagState
  <2>3. Flush("resolve", t, row, FALSE) /\ "resolve" \in LedgerOps
    BY <1>6 DEF ResolveFlag, Flush, BeginEdit
  <2> HIDE DEF row
  <2>4. EligibilityKnown => ~Flagged(row)
    BY <2>1, <2>2 DEF Flagged, Row, EligibilityKnown
  <2>5. FlushOf(t, row, FALSE)
    BY <2>3, <2>4 DEF FlushOf
  <2> QED BY <2>2, <2>5
<1> QED BY <1>1, <1>2, <1>3, <1>4, <1>5, <1>6 DEF LedgerStep

\* A flush only begins while no command runs.
LEMMA FlushRuns ==
  ASSUME OneBatch, Inv, RunInv, NEW t \in Tx, NEW row \in Row, NEW flagged \in BOOLEAN,
         FlushOf(t, row, flagged)
  PROVE  RunInv' /\ Stay /\ Kept
<1>1. /\ NoCommandRuns /\ UNCHANGED <<ledger, jobs, vectors, live, worker>>
      /\ edit' = [tx |-> t, row |-> row, verdict |-> HookVerdict(t, row, flagged)]
      /\ flagged => Flagged(row)
  BY DEF FlushOf, Flush, BeginEdit, OneBatch
<1>2. HookVerdict(t, row, flagged)' = HookVerdict(t, row, flagged)
  BY <1>1 DEF HookVerdict, MatchesSomeKey, Matches, HasVector, HasStatus
<1>3. edit'.tx = t /\ edit'.row = row /\ edit'.verdict = HookVerdict(t, row, flagged)
  BY <1>1
<1>4. NoCommandRuns'
  BY <1>1 DEF NoCommandRuns
<1>5. EditAlone'
  <2>1. edit'.verdict = HookVerdict(edit.tx, edit.row, flagged)'
    BY <1>2, <1>3 DEF HookVerdict, MatchesSomeKey, Matches, HasVector, HasStatus
  <2>2. flagged => Flagged(edit.row)'
    BY <1>1, <1>3 DEF Flagged
  <2> QED BY <1>4, <2>1, <2>2 DEF EditAlone
<1>6. RunInv'
  BY <1>1, <1>5, NobodyRuns
<1>7. Kept
  BY <1>1 DEF Kept, Mine
<1> QED BY <1>1, <1>6, <1>7 DEF Stay

LEMMA CommitFlushRuns ==
  ASSUME Inv, RunInv, CommitFlush
  PROVE  RunInv' /\ Kept /\ worker' = worker
<1>1. edit # None /\ edit' = None /\ NoCommandRuns
  BY DEF CommitFlush, RunInv, EditAlone
<1>2. worker' = worker
  <2>1. ASSUME NEW v \in Worker PROVE Forget({edit.tx})[v] = worker[v]
    <3>1. worker[v].todo = {} /\ worker[v].batch = {} /\ worker[v] \in WorkerState
      BY <1>1 DEF RunInv, Stage, NoCommandRuns, Inv, TypeOK
    <3>2. Forget({edit.tx})[v] = [worker[v] EXCEPT !.gone = @ \cup {}]
      BY <3>1 DEF Forget
    <3> QED BY <3>1, <3>2 DEF WorkerState
  <2>2. Forget({edit.tx}) = [v \in Worker |-> Forget({edit.tx})[v]]
    BY DEF Forget
  <2>3. worker = [v \in Worker |-> worker[v]]
    BY DEF Inv, TypeOK
  <2>4. Forget({edit.tx}) = worker
    BY <2>1, <2>2, <2>3
  <2> QED BY <2>4 DEF CommitFlush
<1>3. EditAlone'
  BY <1>1 DEF EditAlone
<1>4. RunInv'
  BY <1>1, <1>2, <1>3, NobodyRuns
<1> QED BY <1>2, <1>4 DEF Kept, Mine

LEMMA RenameRuns ==
  ASSUME OneBatch, Inv, RunInv, NEW t \in Tx, NEW x \in Text, RenameCategory(t, x)
  PROVE  RunInv' /\ Kept /\ UNCHANGED <<jobs, vectors>>
<1>1. NoCommandRuns /\ edit = None /\ UNCHANGED <<jobs, vectors, live, edit, worker>>
  BY DEF RenameCategory, BeginEdit, OneBatch
<1>2. EditAlone'
  BY <1>1 DEF EditAlone
<1>3. RunInv'
  BY <1>1, <1>2, NobodyRuns
<1> QED BY <1>1, <1>3 DEF Kept, Mine

\* Every step leaves the jobs alone, claims, settles a batch, or is the ledger's.
Effect ==
  \/ Stay /\ (Kept \/ \E w \in Worker : Crash(w))
  \/ \E w \in Worker : ClaimedBy(w) \/ SettledBy(w)
  \/ CommitFlush /\ worker' = worker
  \/ /\ \E t \in Tx, x \in Text : RenameCategory(t, x)
     /\ Kept /\ UNCHANGED <<jobs, vectors>>

LEMMA RunsNext ==
  ASSUME OneBatch, Inv, RunInv, [Next]_vars
  PROVE  RunInv' /\ Effect
<1>1. CASE LedgerStep
  <2>1. CASE CommitFlush
    BY <2>1, CommitFlushRuns DEF Effect
  <2>2. CASE \E t \in Tx, x \in Text : RenameCategory(t, x)
    BY <2>2, RenameRuns DEF Effect
  <2>3. CASE \E t \in Tx, row \in Row, flagged \in BOOLEAN : FlushOf(t, row, flagged)
    BY <2>3, FlushRuns DEF Effect
  <2> QED BY <1>1, <2>1, <2>2, <2>3, FlushFacts
<1>2. ASSUME NEW w \in Worker, WorkerStep(w) PROVE RunInv' /\ Effect
  <2>1. worker[w].pc \notin {"enqueue", "single", "rollback"}
    BY DEF RunInv, Stage
  <2>2. \/ StartRun(w) \/ Claim(w) \/ StartBatch(w) \/ Infer(w) \/ Commit(w)
    BY <1>2, <2>1 DEF WorkerStep, ReadLedger, CommitEnqueue, EmbedOne, Backstop, OneBatch
  <2> QED BY <2>2, StartRunRuns, ClaimRuns, StartBatchRuns, InferRuns, CommitRuns DEF Effect
<1>3. ASSUME NEW w \in Worker, Crash(w) PROVE RunInv' /\ Effect
  BY <1>3, CrashRuns DEF Effect
<1>4. ASSUME NEW r \in Rev, UpgradeService(r) PROVE RunInv' /\ Effect
  <2>1. UNCHANGED <<ledger, jobs, vectors, edit, worker>>
    BY <1>4 DEF UpgradeService
  <2>2. RunInv'
    BY <2>1 DEF RunInv, EditAlone, Apart, Stage, Informed, Leased, NoCommandRuns, HookVerdict,
       MatchesSomeKey, Matches, HasVector, HasStatus, Mine
  <2> QED BY <2>1, <2>2 DEF Effect, Stay, Kept, Mine
<1>5. CASE Tick
  BY <1>5, TickRuns DEF Effect
<1>6. CASE UNCHANGED vars
  <2>1. RunInv'
    BY <1>6 DEF vars, RunInv, EditAlone, Apart, Stage, Informed, Leased, NoCommandRuns, HookVerdict,
       MatchesSomeKey, Matches, HasVector, HasStatus, Mine
  <2> QED BY <1>6, <2>1 DEF vars, Effect, Stay, Kept, Mine
<1> QED BY <1>1, <1>2, <1>3, <1>4, <1>5, <1>6 DEF Next

LEMMA RunsInit == Init => RunInv
<1> SUFFICES ASSUME Init PROVE RunInv
  OBVIOUS
<1>1. edit = None /\ \A w \in Worker : worker[w] = Idle
  BY DEF Init
<1>2. EditAlone
  BY <1>1 DEF EditAlone
<1>3. Apart
  BY <1>1, IdleStage DEF Apart, Mine
<1> QED BY <1>1, <1>2, <1>3, IdleStage DEF RunInv

-----------------------------------------------------------------------------
(* The theorems on runs of one batch.                                      *)

LEMMA RunsAlways == OneBatch => (Spec => [](Inv /\ RunInv))
<1>1. OneBatch /\ (Inv /\ RunInv) /\ [Next]_vars => (Inv /\ RunInv)'
  BY NextInv, RunsNext
<1>2. Init => Inv /\ RunInv
  BY InitInv, RunsInit
<1>3. ASSUME OneBatch PROVE Spec => [](Inv /\ RunInv)
  <2>1. (Inv /\ RunInv) /\ [Next]_vars => (Inv /\ RunInv)'
    BY <1>1, <1>3
  <2> QED BY <1>2, <2>1, PTL DEF Spec
<1> QED BY <1>3

\* What a command holds is what it has claimed.
LEMMA HeldMine == ASSUME RunInv, NEW w \in Worker PROVE Held(w) = Mine(w)
BY DEF RunInv, Stage, Held, Mine

\* No two commands ever work on the same job, although nothing but the stale window keeps
\* them apart: what is held has been running for less than that (_claim_jobs).
THEOREM ClaimsAreExclusive == OneBatch => (Spec => []ClaimsExclusive)
<1>1. Inv /\ RunInv => ClaimsExclusive
  BY HeldMine DEF RunInv, Apart, ClaimsExclusive
<1> QED BY <1>1, RunsAlways, PTL

LEMMA StrandingNext ==
  ASSUME OneBatch, MaxCrashes = 0, Inv, RunInv, RunInv', NoStranding, Effect
  PROVE  NoStranding'
<1> USE DEF HasStatus
<1>1. \A w \in Worker : Held(w) = Mine(w) /\ Held(w)' = Mine(w)'
  BY DEF RunInv, Stage, Held, Mine
<1> SUFFICES ASSUME NEW t \in Tx, jobs'[t] # None, jobs'[t].status = "running"
             PROVE  \E w \in Worker : t \in Mine(w)'
  BY <1>1 DEF NoStranding
<1>2. (jobs[t] # None /\ jobs[t].status = "running") => \E w \in Worker : t \in Mine(w)
  BY <1>1 DEF NoStranding
<1>3. CASE Stay /\ Kept
  BY <1>2, <1>3 DEF Stay, Kept
<1>4. \A w \in Worker : ~Crash(w)
  BY DEF Crash, Inv, TypeOK
<1>5. ASSUME NEW w \in Worker, ClaimedBy(w) PROVE \E v \in Worker : t \in Mine(v)'
  BY <1>2, <1>5 DEF ClaimedBy, Kept
<1>6. ASSUME NEW w \in Worker, SettledBy(w) PROVE \E v \in Worker : t \in Mine(v)'
  <2>1. t \notin Mine(w)
    BY <1>6 DEF SettledBy
  <2> QED BY <1>2, <1>6, <2>1 DEF SettledBy
<1>7. CASE CommitFlush /\ worker' = worker
  <2>1. jobs'[t] = jobs[t] \/ jobs'[t] = NewJob
    BY <1>7 DEF CommitFlush, Inv, TypeOK, Edit
  <2>2. jobs'[t] = jobs[t]
    BY <2>1 DEF NewJob
  <2> QED BY <1>2, <1>7, <2>2 DEF Mine
<1>8. CASE Kept /\ UNCHANGED <<jobs, vectors>>
  BY <1>2, <1>8 DEF Kept
<1> QED BY <1>3, <1>4, <1>5, <1>6, <1>7, <1>8 DEF Effect

\* Unless a command is killed, a running job is in the hands of a live command: every claim
\* is settled (process_embedding_jobs).
THEOREM NothingStranded == OneBatch /\ MaxCrashes = 0 => (Spec => []NoStranding)
<1>1. Init => NoStranding
  BY DEF Init, NoStranding, HasStatus
<1>2. ASSUME OneBatch, MaxCrashes = 0 PROVE Spec => []NoStranding
  <2>1. Inv /\ RunInv /\ NoStranding /\ [Next]_vars => (Inv /\ RunInv /\ NoStranding)'
    BY <1>2, NextInv, RunsNext, StrandingNext
  <2> QED BY <1>1, <2>1, InitInv, RunsInit, PTL DEF Spec
<1> QED BY <1>2

\* A job that failed for good is not retried by a processing run, and nobody else brings it
\* back but a flush of its row or an index command (failure table of docs/EMBEDDINGS.md).
THEOREM FailureIsFinal == OneBatch => (Spec => FailedStaysFailed)
<1> DEFINE A == \A t \in Tx :
                  HasStatus(t, {"failed"}) /\ HasStatus(t, {"pending", "running"})'
                    => \/ edit # None /\ edit' = None
                       \/ \E w \in Worker : worker[w].pc = "enqueue" /\ worker'[w].pc = "queued"
<1>1. ASSUME OneBatch, Inv, RunInv, [Next]_vars PROVE [A]_vars
  <2> SUFFICES ASSUME NEW t \in Tx, jobs[t] # None, jobs[t].status = "failed",
                      jobs'[t] # None, jobs'[t].status \in {"pending", "running"}
               PROVE  edit # None /\ edit' = None
    BY DEF HasStatus
  <2>1. Effect
    BY <1>1, RunsNext
  <2>2. ~Stay /\ ~UNCHANGED jobs
    BY DEF Stay
  <2>3. ASSUME NEW w \in Worker, ClaimedBy(w) \/ SettledBy(w) PROVE FALSE
    <3>1. ASSUME ClaimedBy(w) PROVE FALSE
      BY <3>1 DEF ClaimedBy, HasStatus
    <3>2. ASSUME SettledBy(w) PROVE FALSE
      BY <3>2 DEF SettledBy, HasStatus
    <3> QED BY <2>3, <3>1, <3>2
  <2>4. CommitFlush
    BY <2>1, <2>2, <2>3 DEF Effect
  <2> QED BY <2>4 DEF CommitFlush
<1>2. ASSUME OneBatch PROVE Spec => FailedStaysFailed
  <2>1. Inv /\ RunInv /\ [Next]_vars => [A]_vars
    BY <1>1, <1>2
  <2>2. Spec => [](Inv /\ RunInv)
    BY <1>2, RunsAlways
  <2>3. Spec => [][A]_vars
    <3> HIDE DEF A
    <3> QED BY <2>1, <2>2, PTL DEF Spec
  <2> QED BY <2>3 DEF FailedStaysFailed
<1> QED BY <1>2

LEMMA DriftNext ==
  ASSUME "rename" \notin LedgerOps, Inv, RunInv, NoSilentDrift, Effect
  PROVE  NoSilentDrift'
<1> USE DEF HasStatus
<1> DEFINE Owes(t) == Eligible(ledger[t]) /\ ~MatchesSomeKey(t, ledger[t].text)
           Due(j)  == j # None /\ j.status \in {"pending", "running", "failed"}
<1> SUFFICES ASSUME NEW t \in Tx \ Preexisting, Owes(t)' PROVE Due(jobs'[t])
  BY DEF NoSilentDrift
<1>1. Owes(t) => Due(jobs[t])
  BY DEF NoSilentDrift
<1>2. ASSUME vectors'[t] = vectors[t], ledger'[t] = ledger[t] PROVE Due(jobs[t])
  BY <1>1, <1>2 DEF MatchesSomeKey, Matches, HasVector, Eligible, Flagged
<1>3. CASE Stay
  BY <1>2, <1>3 DEF Stay
<1>4. ASSUME NEW w \in Worker, ClaimedBy(w) PROVE Due(jobs'[t])
  BY <1>2, <1>4 DEF ClaimedBy
<1>5. ASSUME NEW w \in Worker, SettledBy(w) PROVE Due(jobs'[t])
  <2>1. CASE t \notin Mine(w)
    BY <1>2, <1>5, <2>1 DEF SettledBy
  <2>2. CASE t \in Mine(w)
    <3>1. Eligible(ledger[t])
      BY <1>5 DEF SettledBy
    <3>2. jobs'[t].status # "done"
      BY <1>5, <2>2, <3>1 DEF SettledBy, MatchesSomeKey, Matches, HasVector
    <3> QED BY <1>5, <2>2, <3>1, <3>2 DEF SettledBy
  <2> QED BY <2>1, <2>2
<1>6. CASE CommitFlush
  <2>1. CASE ledger'[t] = ledger[t] /\ jobs'[t] = jobs[t]
    BY <1>2, <1>6, <2>1 DEF CommitFlush
  <2>2. CASE ~(ledger'[t] = ledger[t] /\ jobs'[t] = jobs[t])
    <3> DEFINE row == edit.row
    <3>1. /\ edit # None /\ edit \in Edit /\ edit.tx = t
          /\ edit.verdict # "stale" /\ vectors' = vectors
      BY <1>6, <2>2 DEF CommitFlush, Inv, TypeOK
    <3>2. ledger'[t] = row /\ Eligible(row) /\ ~MatchesSomeKey(t, row.text)
      BY <1>6, <3>1
      DEF CommitFlush, Inv, TypeOK, MatchesSomeKey, Matches, HasVector, Eligible, Flagged
    <3>3. PICK flagged \in BOOLEAN : /\ edit.verdict = HookVerdict(t, row, flagged)
                                     /\ flagged => Flagged(row)
      BY <3>1 DEF RunInv, EditAlone
    <3>4. row.kind = "ledger" /\ ~flagged
      BY <3>2, <3>3 DEF Eligible
    <3>5. edit.verdict = IF HasStatus(t, {"pending"}) THEN "skip"
                         ELSE IF jobs[t] = None THEN "insert" ELSE "rearm"
      BY <3>2, <3>3, <3>4 DEF HookVerdict
    <3>6. CASE edit.verdict = "skip"
      <4>1. jobs' = jobs /\ HasStatus(t, {"pending"})
        BY <1>6, <3>5, <3>6 DEF CommitFlush
      <4> QED BY <4>1
    <3>7. CASE edit.verdict \in {"insert", "rearm"}
      <4>1. jobs'[t] = NewJob
        BY <1>6, <3>1, <3>5, <3>7 DEF CommitFlush, Inv, TypeOK
      <4> QED BY <4>1, NewJobSound, NoneAssumption DEF NewJob
    <3> QED BY <3>5, <3>6, <3>7
  <2> QED BY <2>1, <2>2
<1>7. \A u \in Tx, x \in Text : ~RenameCategory(u, x)
  BY DEF RenameCategory, BeginEdit
<1> QED BY <1>3, <1>4, <1>5, <1>6, <1>7 DEF Effect

\* A row that should be indexed and is not always has a job to show for it, as long as every
\* change of its text goes through the hook: job state can never drift from the ledger, as
\* the comment of lifecycle.py has it.
THEOREM NothingDrifts == OneBatch /\ "rename" \notin LedgerOps => (Spec => []NoSilentDrift)
<1>1. Init => NoSilentDrift
  BY DEF Init, NoSilentDrift, Eligible
<1>2. ASSUME OneBatch, "rename" \notin LedgerOps PROVE Spec => []NoSilentDrift
  <2>1. Inv /\ RunInv /\ NoSilentDrift /\ [Next]_vars => (Inv /\ RunInv /\ NoSilentDrift)'
    BY <1>2, NextInv, RunsNext, DriftNext
  <2> QED BY <1>1, <2>1, InitInv, RunsInit, PTL DEF Spec
<1> QED BY <1>2

-----------------------------------------------------------------------------
(* When the hook is told of every flag.                                    *)

\* A flush removes the job of exactly the rows that are not to be indexed, and such a row
\* has no job.
EditExact == edit # None => (edit.verdict = "remove" <=> ~Eligible(edit.row))
NoneQueued == \A t \in Tx : ~Eligible(ledger[t]) => jobs[t] = None
EligibleInv == EditExact /\ NoneQueued

LEMMA EditExactNext ==
  ASSUME OneBatch, EligibilityKnown, Inv, RunInv, EditExact, [Next]_vars
  PROVE  EditExact'
<1>1. CASE edit' = edit \/ edit' = None
  BY <1>1 DEF EditExact, Eligible, Flagged
<1>2. CASE LedgerStep
  <2>1. CASE CommitFlush
    BY <1>1, <2>1 DEF CommitFlush
  <2>2. ASSUME NEW t \in Tx, NEW x \in Text, RenameCategory(t, x) PROVE EditExact'
    BY <1>1, <2>2 DEF RenameCategory
  <2>3. ASSUME NEW t \in Tx, NEW row \in Row, NEW flagged \in BOOLEAN, FlushOf(t, row, flagged)
        PROVE  EditExact'
    <3>1. /\ edit' = [tx |-> t, row |-> row, verdict |-> HookVerdict(t, row, flagged)]
          /\ flagged <=> Flagged(row)
      BY <2>3 DEF FlushOf, Flush
    <3>2. edit'.row = row /\ edit'.verdict = HookVerdict(t, row, flagged)
      BY <3>1
    <3>3. HookVerdict(t, row, flagged) = "remove" <=> ~Eligible(row)
      BY <3>1 DEF HookVerdict, Eligible
    <3> QED BY <3>2, <3>3 DEF EditExact, Eligible, Flagged
  <2> QED BY <1>2, <2>1, <2>2, <2>3, FlushFacts
<1>3. ASSUME NEW w \in Worker, WorkerStep(w) \/ Crash(w) PROVE EditExact'
  <2>1. CASE Commit(w)
    <3>1. edit = None
      BY <2>1, NoFlush DEF Commit
    <3> QED BY <1>1, <2>1, <3>1 DEF Commit, ForgetInEdit
  <2>2. CASE ~Commit(w)
    <3>1. edit' = edit
      BY <1>3, <2>2 DEF WorkerStep, Crash, StartRun, ReadLedger, CommitEnqueue, Claim, StartBatch,
         Infer, EmbedOne, Backstop
    <3> QED BY <1>1, <3>1
  <2> QED BY <2>1, <2>2
<1>4. ASSUME NEW r \in Rev, UpgradeService(r) PROVE EditExact'
  BY <1>1, <1>4 DEF UpgradeService
<1>5. CASE Tick
  BY <1>1, <1>5 DEF Tick
<1>6. CASE UNCHANGED vars
  BY <1>1, <1>6 DEF vars
<1> QED BY <1>2, <1>3, <1>4, <1>5, <1>6 DEF Next

LEMMA NoneQueuedNext ==
  ASSUME Inv, EligibleInv, Effect
  PROVE  NoneQueued'
<1> SUFFICES ASSUME NEW t \in Tx, ~Eligible(ledger[t])' PROVE jobs'[t] = None
  BY DEF NoneQueued
<1>1. ledger'[t] = ledger[t] => jobs[t] = None
  BY DEF EligibleInv, NoneQueued, Eligible, Flagged
<1>2. CASE Stay
  BY <1>1, <1>2 DEF Stay
<1>3. ASSUME NEW w \in Worker, ClaimedBy(w) PROVE jobs'[t] = None
  BY <1>1, <1>3 DEF ClaimedBy, HasStatus
<1>4. ASSUME NEW w \in Worker, SettledBy(w) PROVE jobs'[t] = None
  BY <1>1, <1>4 DEF SettledBy, HasStatus
<1>5. CASE CommitFlush
  <2>1. CASE ledger'[t] = ledger[t] /\ jobs'[t] = jobs[t]
    BY <1>1, <2>1
  <2>2. CASE ~(ledger'[t] = ledger[t] /\ jobs'[t] = jobs[t])
    <3>1. edit # None /\ edit \in Edit /\ edit.tx = t /\ edit.verdict # "stale"
      BY <1>5, <2>2 DEF CommitFlush, Inv, TypeOK
    <3>2. ledger'[t] = edit.row
      BY <1>5, <3>1 DEF CommitFlush, Inv, TypeOK
    <3>3. edit.verdict = "remove"
      BY <3>1, <3>2 DEF EligibleInv, EditExact, Eligible, Flagged
    <3> QED BY <1>5, <3>1, <3>3 DEF CommitFlush, Inv, TypeOK
  <2> QED BY <2>1, <2>2
<1>6. CASE (\E u \in Tx, x \in Text : RenameCategory(u, x)) /\ UNCHANGED jobs
  <2>1. PICK u \in Tx, x \in Text : ledger' = [ledger EXCEPT ![u].text = x]
    BY <1>6 DEF RenameCategory
  <2>2. ledger'[t].kind = ledger[t].kind /\ ledger'[t].flag = ledger[t].flag
    BY <2>1 DEF Inv, TypeOK, Row
  <2> QED BY <1>6, <2>2 DEF EligibleInv, NoneQueued, Eligible, Flagged
<1> QED BY <1>2, <1>3, <1>4, <1>5, <1>6 DEF Effect

LEMMA EligibleInit == ASSUME Init PROVE EligibleInv
BY DEF Init, EligibleInv, EditExact, NoneQueued

LEMMA EligibleAlways == OneBatch /\ EligibilityKnown => (Spec => [](Inv /\ RunInv /\ EligibleInv))
<1>1. ASSUME OneBatch, EligibilityKnown PROVE Spec => [](Inv /\ RunInv /\ EligibleInv)
  <2>1. Inv /\ RunInv /\ EligibleInv /\ [Next]_vars => (Inv /\ RunInv /\ EligibleInv)'
    <3> SUFFICES ASSUME Inv, RunInv, EligibleInv, [Next]_vars
                 PROVE  (Inv /\ RunInv /\ EligibleInv)'
      OBVIOUS
    <3>1. Inv' /\ RunInv' /\ Effect
      BY <1>1, NextInv, RunsNext
    <3>2. EditExact'
      BY <1>1, EditExactNext DEF EligibleInv
    <3>3. NoneQueued'
      BY <3>1, NoneQueuedNext
    <3> QED BY <3>1, <3>2, <3>3 DEF EligibleInv
  <2> QED BY <2>1, InitInv, RunsInit, EligibleInit, PTL DEF Spec
<1> QED BY <1>1

\* A transaction that is not to be indexed has no queued job: the hook cancels it in the
\* transaction that makes it so (docs/EMBEDDINGS.md, eligibility).
THEOREM IneligibleIsCancelled ==
  OneBatch /\ EligibilityKnown => (Spec => []IneligibleNotQueued)
<1>1. Inv /\ RunInv /\ EligibleInv => IneligibleNotQueued
  BY DEF EligibleInv, NoneQueued, IneligibleNotQueued, HasStatus
<1> QED BY <1>1, EligibleAlways, PTL

-----------------------------------------------------------------------------
(* The queue implements the life of a job.                                 *)

statusNow == [t \in Tx |-> IF jobs[t] = None THEN "absent" ELSE jobs[t].status]

\* Jobs that move as the lifecycle allows move one of its steps.
LEMMA MoveOf ==
  ASSUME NEW S \in SUBSET Tx, S # {}, NEW From, NEW To,
         \A t \in S : statusNow[t] \in From /\ statusNow'[t] \in To,
         \A t \in Tx \ S : statusNow'[t] = statusNow[t]
  PROVE  Lifecycle!Move(S, From, To)
<1> DEFINE to == [t \in S |-> statusNow'[t]]
<1>1. to \in [S -> To]
  OBVIOUS
<1>2. statusNow' = [t \in Tx |-> IF t \in S THEN to[t] ELSE statusNow[t]]
  BY DEF statusNow
<1> HIDE DEF to
<1>3. \E f \in [S -> To] : statusNow' = [t \in Tx |-> IF t \in S THEN f[t] ELSE statusNow[t]]
  BY <1>1, <1>2
<1> QED BY <1>3 DEF Lifecycle!Move, statusNow

LEMMA LifecycleNext ==
  ASSUME Inv, EligibleInv, Effect
  PROVE  Lifecycle!Next \/ statusNow' = statusNow
<1> DEFINE st(t) == IF jobs[t] = None THEN "absent" ELSE jobs[t].status
<1>0. \A t \in Tx : /\ statusNow[t] = st(t)
                    /\ statusNow'[t] = IF jobs'[t] = None THEN "absent" ELSE jobs'[t].status
  BY DEF statusNow
<1>1. CASE \A t \in Tx : statusNow'[t] = statusNow[t]
  BY <1>1 DEF statusNow
<1>2. CASE Stay
  BY <1>0, <1>1, <1>2 DEF Stay
<1>3. ASSUME NEW w \in Worker, ClaimedBy(w) PROVE Lifecycle!Next
  <2>1. PICK S \in SUBSET Tx :
          /\ S # {}
          /\ \A t \in Tx \ S : jobs'[t] = jobs[t]
          /\ \A t \in S : /\ HasStatus(t, {"pending", "running"})
                          /\ jobs'[t] # None /\ jobs'[t].status = "running"
    BY <1>3 DEF ClaimedBy
  <2>2. /\ \A t \in S : statusNow[t] \in {"pending", "running"} /\ statusNow'[t] \in {"running"}
        /\ \A t \in Tx \ S : statusNow'[t] = statusNow[t]
    BY <1>0, <2>1 DEF HasStatus
  <2>3. Lifecycle!Move(S, {"pending", "running"}, {"running"})
    BY <2>1, <2>2, MoveOf
  <2> QED BY <2>3 DEF Lifecycle!Next, Lifecycle!ClaimJobs
<1>4. ASSUME NEW w \in Worker, SettledBy(w) PROVE Lifecycle!Next \/ statusNow' = statusNow
  <2>1. Mine(w) \in SUBSET Tx
    BY DEF Mine, Inv, TypeOK, WorkerState
  <2>2. \A t \in Tx \ Mine(w) : statusNow'[t] = statusNow[t]
    BY <1>0, <1>4 DEF SettledBy
  <2>3. ASSUME NEW t \in Mine(w)
        PROVE  statusNow[t] \in {"running"} /\ statusNow'[t] \in {"done", "pending", "failed"}
    <3>1. jobs[t] # None /\ jobs[t].status = "running"
      BY <1>4 DEF SettledBy, HasStatus
    <3>2. Eligible(ledger[t])
      BY <2>1, <3>1 DEF EligibleInv, NoneQueued
    <3>3. jobs'[t] # None /\ jobs'[t].status \in {"done", "pending", "failed"}
      BY <1>4, <3>2 DEF SettledBy
    <3> QED BY <1>0, <2>1, <3>1, <3>3
  <2>4. CASE Mine(w) = {}
    BY <1>1, <2>2, <2>4
  <2>5. CASE Mine(w) # {}
    <3>1. Lifecycle!Move(Mine(w), {"running"}, {"done", "pending", "failed"})
      BY <2>1, <2>2, <2>3, <2>5, MoveOf
    <3> QED BY <2>1, <3>1 DEF Lifecycle!Next, Lifecycle!Settle
  <2> QED BY <2>4, <2>5
<1>5. CASE CommitFlush
  <2> DEFINE t == edit.tx
  <2>1. t \in Tx /\ \A u \in Tx : u # t => jobs'[u] = jobs[u]
    BY <1>5 DEF CommitFlush, Inv, TypeOK, Edit
  <2>2. jobs'[t] \in {jobs[t], None, NewJob}
    BY <1>5, <2>1 DEF CommitFlush, Inv, TypeOK
  <2>3. \A u \in Tx \ {t} : statusNow'[u] = statusNow[u]
    BY <1>0, <2>1
  <2>4. statusNow[t] \in {"absent", "pending", "running", "done", "failed"}
    BY <1>0, <2>1 DEF Inv, TypeOK, Job, Status
  <2>5. {t} \in SUBSET Tx /\ {t} # {}
    BY <2>1
  <2>6. CASE statusNow'[t] = statusNow[t]
    BY <1>1, <2>3, <2>6
  <2>7. CASE jobs'[t] = None /\ statusNow'[t] # statusNow[t]
    <3>1. /\ \A u \in {t} : /\ statusNow[u] \in {"pending", "running", "done", "failed"}
                            /\ statusNow'[u] \in {"absent"}
      BY <1>0, <2>1, <2>4, <2>7
    <3> HIDE DEF t
    <3>2. Lifecycle!Move({t}, {"pending", "running", "done", "failed"}, {"absent"})
      BY <2>3, <2>5, <3>1, MoveOf
    <3> QED BY <2>5, <3>2 DEF Lifecycle!Next, Lifecycle!Cancel
  <2>8. CASE jobs'[t] = NewJob /\ statusNow'[t] # statusNow[t]
    <3>1. statusNow'[t] = "pending"
      BY <1>0, <2>1, <2>8, NewJobSound, NoneAssumption DEF NewJob
    <3> HIDE DEF t
    <3>2. CASE statusNow[t] = "running"
      <4>1. Lifecycle!Move({t}, {"running"}, {"done", "pending", "failed"})
        BY <2>3, <2>5, <3>1, <3>2, MoveOf
      <4> QED BY <2>5, <4>1 DEF Lifecycle!Next, Lifecycle!Settle
    <3>3. CASE statusNow[t] \in {"absent", "done", "failed"}
      <4>1. Lifecycle!Move({t}, {"absent", "done", "failed"}, {"pending"})
        BY <2>3, <2>5, <3>1, <3>3, MoveOf
      <4> QED BY <2>5, <4>1 DEF Lifecycle!Next, Lifecycle!Enqueue
    <3> QED BY <2>4, <2>8, <3>1, <3>2, <3>3
  <2> QED BY <1>0, <2>1, <2>2, <2>6, <2>7, <2>8
<1>6. CASE UNCHANGED jobs
  BY <1>6 DEF statusNow
<1> QED BY <1>2, <1>3, <1>4, <1>5, <1>6 DEF Effect

\* A job lives as docs/EMBEDDINGS.md says it does: every step of the queue enqueues, claims,
\* settles or cancels jobs, or leaves their statuses alone.
THEOREM LifecycleImplemented == OneBatch /\ EligibilityKnown => (Spec => LifecycleSpec)
<1>1. Init => Lifecycle!Init
  BY DEF Init, Lifecycle!Init
<1>2. ASSUME OneBatch, EligibilityKnown PROVE Spec => LifecycleSpec
  <2>1. Inv /\ RunInv /\ EligibleInv /\ [Next]_vars => Lifecycle!Next \/ statusNow' = statusNow
    BY <1>2, RunsNext, LifecycleNext
  <2>2. Inv /\ RunInv /\ EligibleInv /\ [Next]_vars
          => [Lifecycle!Next]_([t \in Tx |-> IF jobs[t] = None THEN "absent" ELSE jobs[t].status])
    BY <2>1 DEF statusNow
  <2>3. Spec => [](Inv /\ RunInv /\ EligibleInv)
    BY <1>2, EligibleAlways
  <2> QED BY <1>1, <2>2, <2>3, PTL DEF Spec, LifecycleSpec, Lifecycle!Spec
<1> QED BY <1>2
=============================================================================
