-------------------------- MODULE IngestionProofs --------------------------
(***************************************************************************)
(* Ingestion keeps e-mails and transactions together, leaves processed     *)
(* messages alone, stores a message with a reference once and, as long as  *)
(* throttling is the only failure and no list is cut, skips no message.    *)
(*                                                                         *)
(* A run works on copies that a commit publishes, so each property needs   *)
(* its counterpart about the copies (RunSound, Listed, OnceInRun): what    *)
(* the copies may have lost against the committed rows is nothing, and a   *)
(* message they lack was either still to come in the list or arrived       *)
(* later than everything listed.                                           *)
(***************************************************************************)
EXTENDS Ingestion, FiniteSetTheorems, TLAPS

MailPast == \A m \in Msg : mail[m] # None => mail[m] <= today

RunSound ==
  run # None =>
    /\ \A m \in run.todo : mail[m] # None
    /\ run.newest # None => run.newest <= today
    /\ \A m \in Msg : /\ run.emails[m] = None => emails[m] = None
                      /\ run.emails[m] = "parsed" => run.txs[m] # {}
                      /\ run.emails[m] = None => run.txs[m] = {}
    /\ ~run.force =>
         \A m \in Msg : emails[m] \in {"parsed", "skipped"}
                          => run.emails[m] = emails[m] /\ run.txs[m] = txs[m]

Inv == TypeOK /\ MailPast /\ EmailsMatchRows /\ RunSound

-----------------------------------------------------------------------------
(* Helpers.                                                                *)

\* A list is part of the mailbox.
LEMMA ListingsInMailbox ==
  ASSUME TypeOK, NEW op \in Ops, NEW list \in Listings(op)
  PROVE  list \in SUBSET Msg /\ \A m \in list : mail[m] # None
<1>1. \A d \in Int : Since(d) \subseteq {m \in Msg : mail[m] # None}
  BY DEF Since
<1>2. \A S : \A L \in Cut(S) : L \subseteq S
  BY DEF Cut
<1>3. Window \subseteq {m \in Msg : mail[m] # None}
  BY DEF Window, Since
<1>4. SyncAfter \in Int /\ Day \subseteq Int /\ 0 \in Int
  BY ConstantsAssumption DEF Day
<1>5. CASE op = "sync"
  BY <1>2, <1>3, <1>5 DEF Listings
<1>6. CASE op = "after"
  BY <1>1, <1>2, <1>4, <1>6 DEF Listings
<1>7. CASE op = "pick"
  <2>1. PICK S \in SUBSET Since(0) : list \in Cut(S)
    BY <1>7 DEF Listings
  <2> QED BY <2>1, <1>1, <1>2, <1>4
<1>8. CASE op \notin {"sync", "after", "pick"}
  BY <1>1, <1>2, <1>4, <1>8 DEF Listings
<1> QED BY <1>5, <1>6, <1>7, <1>8

\* Storing a reading leaves at least one row, of known readings.
LEMMA StoredRows ==
  ASSUME NEW rows \in SUBSET Reading, NEW p \in Reading, NEW force \in BOOLEAN,
         NEW new \in Stored(rows, p, force)
  PROVE  new \in SUBSET Reading /\ new # {}
BY DEF Stored

\* The newest date of a run, the message at hand included.
LEMMA NewestType ==
  ASSUME TypeOK, run # None, NEW m \in Msg, mail[m] # None
  PROVE  /\ Newest(m) \in Day /\ Newest(m) \in Int
         /\ Newest(m) >= mail[m]
         /\ run.newest = None => Newest(m) = mail[m]
         /\ run.newest # None => Newest(m) = mail[m] \/ Newest(m) = run.newest
BY ConstantsAssumption DEF TypeOK, Newest, Run, Day

-----------------------------------------------------------------------------
(* Type correctness and agreement.                                         *)

LEMMA InitInv == Init => Inv
BY ConstantsAssumption, NoneAssumption
   DEF Init, Inv, TypeOK, MailPast, EmailsMatchRows, RunSound, Day, Status

LEMMA InvBegin ==
  ASSUME Inv, NEW op \in Ops, Begin(op)
  PROVE  Inv'
<1> USE DEF Inv
<1>1. PICK list \in Listings(op) :
         run' = [force |-> Forced(op), todo |-> list, newest |-> None,
                 throttled |-> FALSE, emails |-> emails, txs |-> txs]
  BY DEF Begin
<1>2. list \in SUBSET Msg /\ \A m \in list : mail[m] # None
  BY ListingsInMailbox
<1>3. run' \in Run /\ run' # None
  <2>1. Forced(op) \in BOOLEAN
    BY DEF Forced
  <2>2. emails \in [Msg -> Status \cup {None}] /\ txs \in [Msg -> SUBSET Reading]
    BY DEF TypeOK
  <2>3. [force |-> Forced(op), todo |-> list, newest |-> None,
         throttled |-> FALSE, emails |-> emails, txs |-> txs] \in Run
    BY <1>2, <2>1, <2>2 DEF Run
  <2> QED BY <1>1, <2>3, NoneAssumption
<1>4. UNCHANGED <<today, mail, parser, emails, txs, watermark, spent>>
  BY DEF Begin
<1>5. TypeOK'
  BY <1>3, <1>4 DEF TypeOK
<1>6. RunSound'
  BY <1>1, <1>2, <1>4 DEF RunSound, EmailsMatchRows
<1>7. MailPast' /\ EmailsMatchRows'
  BY <1>4 DEF MailPast, EmailsMatchRows
<1> QED BY <1>5, <1>6, <1>7

LEMMA InvSkipProcessed ==
  ASSUME Inv, NEW m \in Msg, SkipProcessed(m)
  PROVE  Inv'
<1> USE DEF Inv
<1>1. run # None /\ run \in Run
  BY DEF SkipProcessed, TypeOK
<1>2. run' = [run EXCEPT !.todo = @ \ {m}]
  BY DEF SkipProcessed
<1>3. run' \in Run /\ run' # None
  BY <1>1, <1>2, NoneAssumption DEF Run
<1>4. UNCHANGED <<today, mail, parser, emails, txs, watermark, spent>>
  BY DEF SkipProcessed
<1>5. TypeOK'
  BY <1>3, <1>4 DEF TypeOK
<1>6. RunSound'
  BY <1>1, <1>2, <1>4 DEF RunSound, Run
<1>7. MailPast' /\ EmailsMatchRows'
  BY <1>4 DEF MailPast, EmailsMatchRows
<1> QED BY <1>5, <1>6, <1>7

LEMMA InvFetchFails ==
  ASSUME Inv, NEW m \in Msg, FetchFails(m)
  PROVE  Inv'
<1> USE DEF Inv
<1>1. run # None /\ run \in Run
  BY DEF FetchFails, NeedsFetch, TypeOK
<1>2. PICK fault \in Faults :
         run' = [run EXCEPT !.todo = @ \ {m}, !.throttled = @ \/ IsRateLimit(fault)]
  BY DEF FetchFails
<1>3. run' \in Run /\ run' # None
  BY <1>1, <1>2, NoneAssumption DEF Run, IsRateLimit
<1>4. UNCHANGED <<today, mail, parser, emails, txs, watermark>>
  BY DEF FetchFails
<1>5. TypeOK'
  <2>1. spent' \in [faults : 0..MaxFaults, crashes : 0..MaxCrashes, upgrades : 0..MaxUpgrades]
    BY ConstantsAssumption DEF FetchFails, TypeOK
  <2> QED BY <1>3, <1>4, <2>1 DEF TypeOK
<1>6. RunSound'
  BY <1>1, <1>2, <1>4 DEF RunSound, Run
<1>7. MailPast' /\ EmailsMatchRows'
  BY <1>4 DEF MailPast, EmailsMatchRows
<1> QED BY <1>5, <1>6, <1>7

\* What Handle writes, whatever the outcome.
LEMMA HandleWrites ==
  ASSUME Inv, NEW m \in Msg, Handle(m)
  PROVE  /\ run # None /\ run \in Run /\ m \in run.todo /\ mail[m] # None
         /\ run.force \/ ~Processed(m)
         /\ \E status \in Status, rows \in SUBSET Reading :
              /\ run' = [run EXCEPT !.todo = @ \ {m}, !.newest = Newest(m),
                                    !.emails[m] = status, !.txs[m] = rows]
              /\ status = "parsed" => /\ rows # {}
                                      /\ parser[m] \in Reading
                                      /\ rows \in Stored(run.txs[m], parser[m], run.force)
              /\ status # "parsed" => rows = run.txs[m]
<1> USE DEF Inv
<1>1. run # None /\ run \in Run /\ m \in run.todo /\ mail[m] # None
  BY DEF Handle, NeedsFetch, IsNext, TypeOK, RunSound
<1>2. run.force \/ ~Processed(m)
  BY DEF Handle, NeedsFetch
<1>3. run.txs[m] \in SUBSET Reading /\ run.force \in BOOLEAN
  BY <1>1 DEF Run
<1>4. [run.txs EXCEPT ![m] = run.txs[m]] = run.txs
  BY <1>1 DEF Run
<1>5. CASE parser[m] \in Reading /\ \E rows \in Stored(run.txs[m], parser[m], run.force) :
             run' = [run EXCEPT !.todo = @ \ {m}, !.newest = Newest(m),
                                !.emails[m] = "parsed", !.txs[m] = rows]
  <2>1. PICK rows \in Stored(run.txs[m], parser[m], run.force) :
          run' = [run EXCEPT !.todo = @ \ {m}, !.newest = Newest(m),
                             !.emails[m] = "parsed", !.txs[m] = rows]
    BY <1>5
  <2>2. rows \in SUBSET Reading /\ rows # {}
    BY <1>3, <1>5, StoredRows
  <2> QED BY <1>1, <1>2, <1>5, <2>1, <2>2 DEF Status
<1>6. CASE run' = [run EXCEPT !.todo = @ \ {m}, !.newest = Newest(m), !.emails[m] = "skipped"]
  <2>1. run' = [run EXCEPT !.todo = @ \ {m}, !.newest = Newest(m),
                           !.emails[m] = "skipped", !.txs[m] = run.txs[m]]
    BY <1>1, <1>4, <1>6 DEF Run
  <2> QED BY <1>1, <1>2, <1>3, <2>1 DEF Status
<1>7. CASE run' = [run EXCEPT !.todo = @ \ {m}, !.newest = Newest(m), !.emails[m] = "error"]
  <2>1. run' = [run EXCEPT !.todo = @ \ {m}, !.newest = Newest(m),
                           !.emails[m] = "error", !.txs[m] = run.txs[m]]
    BY <1>1, <1>4, <1>7 DEF Run
  <2> QED BY <1>1, <1>2, <1>3, <2>1 DEF Status
<1> QED BY <1>5, <1>6, <1>7 DEF Handle

LEMMA InvHandle ==
  ASSUME Inv, NEW m \in Msg, Handle(m)
  PROVE  Inv'
<1> USE DEF Inv
<1>1. run # None /\ run \in Run /\ mail[m] # None /\ (run.force \/ ~Processed(m))
  BY HandleWrites
<1>2. PICK status \in Status, rows \in SUBSET Reading :
         /\ run' = [run EXCEPT !.todo = @ \ {m}, !.newest = Newest(m),
                               !.emails[m] = status, !.txs[m] = rows]
         /\ status = "parsed" => rows # {}
         /\ status # "parsed" => rows = run.txs[m]
  BY HandleWrites
<1>3. Newest(m) \in Day /\ Newest(m) <= today
  BY <1>1, NewestType, ConstantsAssumption DEF MailPast, RunSound, TypeOK, Day, Run
<1>4. run' \in Run /\ run' # None
  <2>1. run' = [force |-> run.force, todo |-> run.todo \ {m}, newest |-> Newest(m),
                throttled |-> run.throttled, emails |-> [run.emails EXCEPT ![m] = status],
                txs |-> [run.txs EXCEPT ![m] = rows]]
    BY <1>1, <1>2 DEF Run
  <2>2. /\ run.todo \ {m} \in SUBSET Msg
        /\ [run.emails EXCEPT ![m] = status] \in [Msg -> Status \cup {None}]
        /\ [run.txs EXCEPT ![m] = rows] \in [Msg -> SUBSET Reading]
        /\ run.force \in BOOLEAN /\ run.throttled \in BOOLEAN
    BY <1>1 DEF Run
  <2> QED BY <1>3, <2>1, <2>2, NoneAssumption DEF Run
<1>5. UNCHANGED <<today, mail, parser, emails, txs, watermark, spent>>
  BY DEF Handle
<1>6. TypeOK'
  BY <1>4, <1>5 DEF TypeOK
<1>7. RunSound'
  <2>1. /\ run'.todo = run.todo \ {m} /\ run'.newest = Newest(m) /\ run'.force = run.force
        /\ \A n \in Msg : /\ run'.emails[n] = IF n = m THEN status ELSE run.emails[n]
                          /\ run'.txs[n] = IF n = m THEN rows ELSE run.txs[n]
    BY <1>1, <1>2 DEF Run
  <2>2. \A n \in run'.todo : mail'[n] # None
    BY <1>1, <1>5, <2>1 DEF RunSound
  <2>3. run'.newest <= today'
    BY <1>3, <1>5, <2>1
  <2>4. status # None
    BY NoneAssumption
  <2>5. \A n \in Msg : /\ run'.emails[n] = None => emails'[n] = None
                       /\ run'.emails[n] = "parsed" => run'.txs[n] # {}
                       /\ run'.emails[n] = None => run'.txs[n] = {}
    BY <1>1, <1>2, <1>5, <2>1, <2>4 DEF RunSound
  <2>6. ASSUME ~run'.force, NEW n \in Msg, emails'[n] \in {"parsed", "skipped"}
        PROVE  run'.emails[n] = emails'[n] /\ run'.txs[n] = txs'[n]
    <3>1. run.emails[n] = emails[n] /\ run.txs[n] = txs[n]
      BY <1>1, <1>5, <2>1, <2>6 DEF RunSound
    <3>2. n # m
      BY <1>1, <1>5, <2>1, <2>6, <3>1 DEF Processed
    <3> QED BY <1>5, <2>1, <3>1, <3>2
  <2> QED BY <2>2, <2>3, <2>5, <2>6 DEF RunSound
<1>8. MailPast' /\ EmailsMatchRows'
  BY <1>5 DEF MailPast, EmailsMatchRows
<1> QED BY <1>6, <1>7, <1>8

LEMMA InvPersistFails ==
  ASSUME Inv, NEW m \in Msg, PersistFails(m)
  PROVE  Inv'
<1> USE DEF Inv
<1>1. run # None /\ run \in Run /\ mail[m] # None
  BY DEF PersistFails, NeedsFetch, IsNext, TypeOK, RunSound
<1>2. run' = [run EXCEPT !.todo = @ \ {m}, !.newest = Newest(m)]
  BY DEF PersistFails
<1>3. Newest(m) \in Day /\ Newest(m) <= today
  BY <1>1, NewestType, ConstantsAssumption DEF MailPast, RunSound, TypeOK, Day, Run
<1>4. run' \in Run /\ run' # None
  BY <1>1, <1>2, <1>3, NoneAssumption DEF Run
<1>5. UNCHANGED <<today, mail, parser, emails, txs, watermark>>
  BY DEF PersistFails
<1>6. TypeOK'
  <2>1. spent' \in [faults : 0..MaxFaults, crashes : 0..MaxCrashes, upgrades : 0..MaxUpgrades]
    BY ConstantsAssumption DEF PersistFails, TypeOK
  <2> QED BY <1>4, <1>5, <2>1 DEF TypeOK
<1>7. RunSound'
  BY <1>1, <1>2, <1>3, <1>5 DEF RunSound, Run
<1>8. MailPast' /\ EmailsMatchRows'
  BY <1>5 DEF MailPast, EmailsMatchRows
<1> QED BY <1>6, <1>7, <1>8

LEMMA InvFinish ==
  ASSUME Inv, Finish
  PROVE  Inv'
<1> USE DEF Inv
<1>1. run # None /\ run \in Run
  BY DEF Finish, TypeOK
<1>2. /\ emails' = run.emails /\ txs' = run.txs /\ watermark' = NextWatermark /\ run' = None
      /\ UNCHANGED <<today, mail, parser, spent>>
  BY DEF Finish
<1>3. TypeOK'
  BY <1>1, <1>2 DEF TypeOK, Run, NextWatermark
<1>4. EmailsMatchRows'
  BY <1>1, <1>2 DEF EmailsMatchRows, RunSound
<1>5. MailPast' /\ RunSound'
  BY <1>2 DEF MailPast, RunSound
<1> QED BY <1>3, <1>4, <1>5

LEMMA InvEnvironment ==
  ASSUME Inv, Crash \/ Tick \/ Upgrade \/ \E m \in Msg : Arrive(m)
  PROVE  Inv'
<1> USE DEF Inv
<1>1. CASE Crash
  <2>1. TypeOK'
    BY <1>1, ConstantsAssumption DEF Crash, TypeOK
  <2> QED BY <1>1, <2>1 DEF Crash, MailPast, EmailsMatchRows, RunSound
<1>2. CASE Tick
  <2>1. TypeOK' /\ today' >= today /\ today \in Int /\ today' \in Int
    BY <1>2, ConstantsAssumption DEF Tick, TypeOK, Day
  <2>2. MailPast'
    BY <1>2, <2>1, ConstantsAssumption DEF Tick, MailPast, TypeOK, Day
  <2>3. RunSound'
    BY <1>2, <2>1, ConstantsAssumption DEF Tick, RunSound, TypeOK, Run, Day
  <2> QED BY <1>2, <2>1, <2>2, <2>3 DEF Tick, EmailsMatchRows
<1>3. CASE Upgrade
  <2>1. TypeOK'
    BY <1>3, ConstantsAssumption DEF Upgrade, TypeOK
  <2> QED BY <1>3, <2>1 DEF Upgrade, MailPast, EmailsMatchRows, RunSound
<1>4. ASSUME NEW m \in Msg, Arrive(m)
      PROVE  Inv'
  <2>1. TypeOK'
    BY <1>4 DEF Arrive, TypeOK
  <2>2. today \in Int /\ today # None
    BY ConstantsAssumption, NoneAssumption DEF TypeOK, Day
  <2>3. MailPast'
    BY <1>4, <2>2 DEF Arrive, MailPast, TypeOK
  <2>4. RunSound'
    BY <1>4, <2>2 DEF Arrive, RunSound, TypeOK, Run
  <2> QED BY <1>4, <2>1, <2>3, <2>4 DEF Arrive, EmailsMatchRows
<1> QED BY <1>1, <1>2, <1>3, <1>4

LEMMA InvNext == Inv /\ [Next]_vars => Inv'
<1> SUFFICES ASSUME Inv, [Next]_vars
             PROVE  Inv'
  OBVIOUS
<1>1. CASE UNCHANGED vars
  BY <1>1 DEF vars, Inv, TypeOK, MailPast, EmailsMatchRows, RunSound
<1>2. CASE Next
  BY <1>2, InvBegin, InvSkipProcessed, InvFetchFails, InvHandle, InvPersistFails,
     InvFinish, InvEnvironment DEF Next, RunStep
<1> QED BY <1>1, <1>2

\* Every reachable state is well formed.
THEOREM TypeCorrect == Spec => []TypeOK
<1>1. Spec => []Inv
  BY InitInv, InvNext, PTL DEF Spec
<1> QED BY <1>1, PTL DEF Inv

\* An e-mail and its transaction are committed together or not at all, for any
\* messages, readings, failures and kills.
THEOREM KeptTogether == Spec => []EmailsMatchRows
<1>1. Spec => []Inv
  BY InitInv, InvNext, PTL DEF Spec
<1> QED BY <1>1, PTL DEF Inv

\* A run that is not forced changes nothing about messages parsed or skipped before:
\* only the commit of a run writes, and it publishes what the run started from.
THEOREM ProcessedKept == Spec => ProcessedUntouched
<1> DEFINE Untouched == \A m \in Msg : emails[m] \in {"parsed", "skipped"}
                                        => emails'[m] = emails[m] /\ txs'[m] = txs[m]
<1>1. Spec => []Inv
  BY InitInv, InvNext, PTL DEF Spec
<1>2. ASSUME Inv, [Next]_vars
      PROVE  [(run # None => ~run.force) => Untouched]_vars
  <2>1. CASE Finish
    BY <2>1, <1>2 DEF Finish, Inv, RunSound
  <2>2. CASE UNCHANGED <<emails, txs>>
    BY <2>2
  <2> QED BY <1>2, <2>1, <2>2 DEF Next, RunStep, Begin, SkipProcessed, FetchFails, Handle,
                                PersistFails, Crash, Tick, Upgrade, Arrive, vars
<1> QED BY <1>1, <1>2, PTL DEF Spec, ProcessedUntouched

-----------------------------------------------------------------------------
(* One transaction per message.                                            *)

\* All readings of a message carry the reference number of the payment.
SharedReference == \A p, q \in Reading : RefOf[p] # None /\ RefOf[p] = RefOf[q]

Once(rows) == \A p, q \in rows : p = q

OnceInRun == run # None => \A m \in Msg : Once(run.txs[m])

OnceInv == Inv /\ StoredOnce /\ OnceInRun

\* Storing a reading replaces the row it finds by reference, or leaves it.
LEMMA StoredKeepsOnce ==
  ASSUME SharedReference, NEW rows \in SUBSET Reading, Once(rows),
         NEW p \in Reading, NEW force \in BOOLEAN, NEW new \in Stored(rows, p, force)
  PROVE  Once(new)
<1>1. {q \in rows : RefOf[p] # None /\ RefOf[q] = RefOf[p]} = rows
  BY DEF SharedReference
<1>2. new = rows \/ new = {p}
  BY <1>1 DEF Stored, Once
<1> QED BY <1>2 DEF Once

LEMMA OnceNext ==
  ASSUME SharedReference, OnceInv, [Next]_vars
  PROVE  OnceInv'
<1>1. Inv'
  BY InvNext DEF OnceInv
<1>2. CASE UNCHANGED <<emails, txs, run>>
  BY <1>1, <1>2 DEF OnceInv, StoredOnce, OnceInRun, Once
<1>3. ASSUME NEW op \in Ops, Begin(op)
      PROVE  OnceInv'
  <2>1. run' # None => run'.txs = txs
    BY <1>3 DEF Begin
  <2> QED BY <1>1, <1>3, <2>1 DEF Begin, OnceInv, StoredOnce, OnceInRun, Once
<1>4. ASSUME NEW m \in Msg, SkipProcessed(m) \/ FetchFails(m) \/ PersistFails(m)
      PROVE  OnceInv'
  <2>1. run # None /\ run \in Run /\ run'.txs = run.txs /\ UNCHANGED txs
    BY <1>4 DEF SkipProcessed, FetchFails, PersistFails, NeedsFetch, OnceInv, Inv, TypeOK, Run
  <2> QED BY <1>1, <2>1 DEF OnceInv, StoredOnce, OnceInRun, Once
<1>5. ASSUME NEW m \in Msg, Handle(m)
      PROVE  OnceInv'
  <2>1. PICK status \in Status, rows \in SUBSET Reading :
          /\ run' = [run EXCEPT !.todo = @ \ {m}, !.newest = Newest(m),
                                !.emails[m] = status, !.txs[m] = rows]
          /\ status = "parsed" => /\ parser[m] \in Reading
                                  /\ rows \in Stored(run.txs[m], parser[m], run.force)
          /\ status # "parsed" => rows = run.txs[m]
    BY <1>5, HandleWrites DEF OnceInv
  <2>2. run # None /\ run \in Run
    BY <1>5, HandleWrites DEF OnceInv
  <2>3. run.txs[m] \in SUBSET Reading /\ run.force \in BOOLEAN /\ Once(run.txs[m])
    BY <2>2 DEF Run, OnceInv, OnceInRun
  <2>4. Once(rows)
    BY <2>1, <2>3, StoredKeepsOnce
  <2>5. run'.txs = [run.txs EXCEPT ![m] = rows]
    BY <2>1, <2>2 DEF Run
  <2>6. \A n \in Msg : Once(run'.txs[n])
    BY <2>2, <2>4, <2>5 DEF Run, OnceInv, OnceInRun
  <2> QED BY <1>1, <1>5, <2>6 DEF Handle, OnceInv, StoredOnce, OnceInRun
<1>6. CASE Finish
  BY <1>1, <1>6 DEF Finish, OnceInv, StoredOnce, OnceInRun, Once
<1>7. CASE Crash
  BY <1>1, <1>7 DEF Crash, OnceInv, StoredOnce, OnceInRun
<1> QED BY <1>2, <1>3, <1>4, <1>5, <1>6, <1>7
        DEF Next, RunStep, Tick, Upgrade, Arrive, vars

\* However often and with whatever parser versions a message is read, it has at most
\* one transaction, if its readings share their reference number.
THEOREM OneTransaction ==
  ASSUME SharedReference
  PROVE  Spec => []StoredOnce
<1>1. Init => OnceInv
  BY InitInv DEF Init, OnceInv, StoredOnce, OnceInRun
<1>2. OnceInv /\ [Next]_vars => OnceInv'
  BY OnceNext
<1>3. Spec => []OnceInv
  BY <1>1, <1>2, PTL DEF Spec
<1> QED BY <1>3, PTL DEF OnceInv

-----------------------------------------------------------------------------
(* No message is skipped.                                                  *)

\* Messages fail by throttling only, no list is cut, and runs start where the
\* watermark or sync_after_date says.
NoGaps ==
  /\ Ops \subseteq {"sync", "backfill", "reparse"}
  /\ Faults \subseteq {"throttled"}
  /\ Cardinality(Msg) <= MaxMessages

\* A message in scope that the run has no row for.
Unseen(m) == mail[m] # None /\ mail[m] >= SyncAfter /\ run.emails[m] = None

\* As long as nothing was throttled, an unseen message that is not still in the list
\* is no older than any listed message.
Listed ==
  (run # None /\ ~run.throttled) =>
    \A m \in Msg : (Unseen(m) /\ m \notin run.todo) =>
      /\ run.newest # None => mail[m] >= run.newest
      /\ \A n \in run.todo : mail[m] >= mail[n]

WatermarkPast == watermark # None => watermark <= today

SkipInv == Inv /\ NothingSkipped /\ Listed /\ WatermarkPast

\* Nothing is cut off a list that may be as long as the mailbox.
LEMMA NoCut ==
  ASSUME NoGaps, NEW S \in SUBSET Msg, NEW list \in Cut(S)
  PROVE  list = S
<1>1. CASE list # S
  <2>1. list \in SUBSET Msg /\ Cardinality(list) = MaxMessages
    BY <1>1 DEF Cut
  <2>2. Cardinality(list) <= Cardinality(Msg)
    BY <2>1, FS_Subset, ConstantsAssumption
  <2>3. Cardinality(Msg) \in Nat /\ MaxMessages \in Nat
    BY FS_CardinalityType, ConstantsAssumption
  <2>4. Cardinality(Msg) = Cardinality(list)
    BY <2>1, <2>2, <2>3 DEF NoGaps
  <2>5. list = Msg
    BY <2>1, <2>4, FS_Subset, ConstantsAssumption
  <2> QED BY <1>1, <2>5 DEF Cut
<1> QED BY <1>1

LEMMA SkipBegin ==
  ASSUME NoGaps, SkipInv, NEW op \in Ops, Begin(op)
  PROVE  Listed' /\ NothingSkipped'
<1> USE DEF SkipInv
<1>1. PICK list \in Listings(op) :
         run' = [force |-> Forced(op), todo |-> list, newest |-> None,
                 throttled |-> FALSE, emails |-> emails, txs |-> txs]
  BY DEF Begin
<1>2. UNCHANGED <<today, mail, parser, emails, txs, watermark, spent>>
  BY DEF Begin
<1>3. list = Window \/ list = Since(SyncAfter)
  <2>1. Window \in SUBSET Msg /\ Since(SyncAfter) \in SUBSET Msg
    BY DEF Window, Since
  <2> QED BY <2>1, NoCut DEF Listings, NoGaps
<1>4. ASSUME NEW m \in Msg, mail[m] # None, mail[m] >= SyncAfter, emails[m] = None
      PROVE  m \in list
  BY <1>3, <1>4 DEF NothingSkipped, Window, Since
<1>5. Listed'
  BY <1>1, <1>2, <1>4 DEF Listed, Unseen
<1> QED BY <1>2, <1>5 DEF NothingSkipped

LEMMA SkipMessage ==
  ASSUME NoGaps, SkipInv, NEW m \in Msg, SkipProcessed(m) \/ FetchFails(m) \/ Handle(m)
  PROVE  Listed' /\ NothingSkipped'
<1> USE DEF SkipInv
<1>1. /\ run # None /\ run \in Run /\ m \in run.todo /\ mail[m] # None
      /\ UNCHANGED <<today, mail, emails, watermark>>
  BY DEF SkipProcessed, FetchFails, Handle, NeedsFetch, IsNext, Inv, TypeOK, RunSound
<1>2. NothingSkipped'
  BY <1>1 DEF NothingSkipped
<1>3. \A n \in Msg : mail[n] # None => mail[n] \in Int
  BY ConstantsAssumption DEF Inv, TypeOK, Day
<1>4. CASE SkipProcessed(m)
  <2>1. run' = [run EXCEPT !.todo = @ \ {m}] /\ run.emails[m] # None
    BY <1>4, NoneAssumption DEF SkipProcessed, Processed, Status
  <2> QED BY <1>1, <1>2, <2>1 DEF Listed, Unseen, Run
<1>5. CASE FetchFails(m)
  <2>1. run'.throttled = TRUE
    BY <1>1, <1>5 DEF FetchFails, NoGaps, IsRateLimit, Run
  <2> QED BY <1>2, <2>1 DEF Listed
<1>6. CASE Handle(m)
  <2>1. PICK status \in Status, rows \in SUBSET Reading :
          /\ run' = [run EXCEPT !.todo = @ \ {m}, !.newest = Newest(m),
                                !.emails[m] = status, !.txs[m] = rows]
          /\ status # "parsed" => rows = run.txs[m]
    BY <1>6, HandleWrites, Zenon
  <2>2. /\ run'.todo = run.todo \ {m} /\ run'.newest = Newest(m)
        /\ run'.throttled = run.throttled
        /\ \A n \in Msg : run'.emails[n] = IF n = m THEN status ELSE run.emails[n]
    BY <1>1, <2>1 DEF Run
  <2>3. status # None
    BY NoneAssumption
  <2>4. Newest(m) = mail[m] \/ (run.newest # None /\ Newest(m) = run.newest)
    BY <1>1, NewestType DEF Inv
  <2>5. ASSUME ~run'.throttled, NEW n \in Msg, Unseen(n)', n \notin run'.todo
        PROVE  mail'[n] >= run'.newest /\ \A k \in run'.todo : mail'[n] >= mail'[k]
    <3>1. Unseen(n) /\ n # m
      BY <1>1, <2>2, <2>3, <2>5 DEF Unseen
    <3>2. n \notin run.todo
      BY <2>2, <2>5, <3>1
    <3>3. (run.newest # None => mail[n] >= run.newest) /\ \A k \in run.todo : mail[n] >= mail[k]
      BY <1>1, <2>2, <2>5, <3>1, <3>2 DEF Listed
    <3> QED BY <1>1, <2>2, <2>4, <3>3
  <2> QED BY <1>2, <2>5 DEF Listed
<1> QED BY <1>4, <1>5, <1>6

LEMMA SkipFinish ==
  ASSUME NoGaps, SkipInv, Finish
  PROVE  Listed' /\ NothingSkipped'
<1> USE DEF SkipInv
<1>1. /\ run # None /\ run.todo = {} /\ run' = None
      /\ emails' = run.emails /\ watermark' = NextWatermark /\ mail' = mail
  BY DEF Finish
<1>2. Listed'
  BY <1>1 DEF Listed
<1>3. ASSUME NEW m \in Msg, mail[m] # None, mail[m] >= SyncAfter, run.emails[m] = None
      PROVE  NextWatermark = None \/ mail[m] >= NextWatermark - 1
  <2>1. CASE run.throttled \/ run.newest = None
    BY <1>1, <1>3, <2>1 DEF NextWatermark, NothingSkipped, Inv, RunSound
  <2>2. CASE ~run.throttled /\ run.newest # None
    <3>1. mail[m] >= run.newest
      BY <1>1, <1>3, <2>2 DEF Listed, Unseen
    <3>2. mail[m] \in Int /\ run.newest \in Int
      BY <1>1, <1>3, <2>2, ConstantsAssumption DEF Inv, TypeOK, Run, Day
    <3> QED BY <2>2, <3>1, <3>2 DEF NextWatermark
  <2> QED BY <2>1, <2>2
<1> QED BY <1>1, <1>2, <1>3 DEF NothingSkipped

LEMMA SkipArrive ==
  ASSUME SkipInv, NEW m \in Msg, Arrive(m)
  PROVE  Listed' /\ NothingSkipped'
<1> USE DEF SkipInv
<1>1. /\ mail[m] = None /\ mail' = [mail EXCEPT ![m] = today]
      /\ UNCHANGED <<today, emails, watermark, run>>
  BY DEF Arrive
<1>2. /\ today \in Int /\ today # None /\ mail'[m] = today
      /\ \A n \in Msg : n # m => mail'[n] = mail[n]
  BY <1>1, ConstantsAssumption, NoneAssumption DEF Inv, TypeOK, Day
<1>3. watermark # None => watermark \in Int /\ watermark <= today
  BY ConstantsAssumption DEF WatermarkPast, Inv, TypeOK, Day
<1>4. NothingSkipped'
  BY <1>1, <1>2, <1>3 DEF NothingSkipped
<1>5. ASSUME run' # None, ~run'.throttled, NEW n \in Msg, Unseen(n)', n \notin run'.todo
      PROVE  /\ run'.newest # None => mail'[n] >= run'.newest
             /\ \A k \in run'.todo : mail'[n] >= mail'[k]
  <2>1. run # None /\ run \in Run /\ \A k \in run.todo : mail[k] # None /\ k \in Msg /\ k # m
    BY <1>1, <1>5 DEF Inv, RunSound, TypeOK, Run
  <2>2. CASE n = m
    BY <1>1, <1>2, <2>1, <2>2 DEF Inv, RunSound, MailPast
  <2>3. CASE n # m
    <3>1. Unseen(n) /\ n \notin run.todo
      BY <1>1, <1>2, <1>5, <2>3 DEF Unseen
    <3> QED BY <1>1, <1>2, <1>5, <2>1, <2>3, <3>1 DEF Listed
  <2> QED BY <2>2, <2>3
<1> QED BY <1>4, <1>5 DEF Listed

LEMMA WatermarkStaysPast ==
  ASSUME SkipInv, [Next]_vars
  PROVE  WatermarkPast'
<1> USE DEF SkipInv
<1>1. watermark' = watermark \/ (run # None /\ run.newest # None /\ watermark' = run.newest)
  BY DEF Next, RunStep, Begin, SkipProcessed, FetchFails, Handle, PersistFails, Finish,
         NextWatermark, Crash, Tick, Upgrade, Arrive, vars
<1>2. today' >= today /\ today' \in Int /\ today \in Int
  <2>1. today \in Int
    BY ConstantsAssumption DEF Inv, TypeOK, Day
  <2>2. today' = today \/ today' = today + 1
    BY DEF Next, RunStep, Begin, SkipProcessed, FetchFails, Handle, PersistFails, Finish,
           Crash, Tick, Upgrade, Arrive, vars
  <2> QED BY <2>1, <2>2
<1>3. /\ watermark # None => watermark \in Int /\ watermark <= today
      /\ (run # None /\ run.newest # None) => run.newest \in Int /\ run.newest <= today
  BY ConstantsAssumption DEF WatermarkPast, Inv, RunSound, TypeOK, Run, Day
<1> QED BY <1>1, <1>2, <1>3 DEF WatermarkPast

LEMMA SkipNext ==
  ASSUME NoGaps, SkipInv, [Next]_vars
  PROVE  SkipInv'
<1>1. Inv' /\ WatermarkPast'
  BY InvNext, WatermarkStaysPast DEF SkipInv
<1>2. CASE UNCHANGED <<mail, emails, watermark, run>>
  BY <1>1, <1>2 DEF SkipInv, NothingSkipped, Listed, Unseen
<1>3. CASE Crash
  BY <1>1, <1>3 DEF Crash, SkipInv, NothingSkipped, Listed
<1>4. ASSUME NEW m \in Msg, PersistFails(m)
      PROVE  FALSE
  BY <1>4 DEF PersistFails, NoGaps
<1> QED
  BY <1>1, <1>2, <1>3, <1>4, SkipBegin, SkipMessage, SkipFinish, SkipArrive
     DEF SkipInv, Next, RunStep, Tick, Upgrade, vars

\* For any mailbox and any interleaving of runs, arrivals, throttling and kills: a
\* message without an e-mail row lies in the window of the next incremental sync.
THEOREM NoMessageSkipped ==
  ASSUME NoGaps
  PROVE  Spec => []NothingSkipped
<1>1. Init => SkipInv
  BY InitInv DEF Init, SkipInv, NothingSkipped, Listed, WatermarkPast
<1>2. SkipInv /\ [Next]_vars => SkipInv'
  BY SkipNext
<1>3. Spec => []SkipInv
  BY <1>1, <1>2, PTL DEF Spec
<1> QED BY <1>3, PTL DEF SkipInv
=============================================================================
