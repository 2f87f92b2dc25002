------------------------ MODULE BackupRestoreProofs ------------------------
(***************************************************************************)
(* A restore that nobody was connected to has restored the backup when it  *)
(* ends, and the safety snapshot it names is the ledger it replaced.       *)
(*                                                                         *)
(* Between the copy and the end of a restore other sessions may come, write*)
(* and go, so the copy has to be there both in the file and in the log they*)
(* fill (CopySound); that a new log starts empty and that no connection    *)
(* uses a later one than the linked one (Generations) does the rest.       *)
(*                                                                         *)
(* Rotation takes no backup that fewer than Keep newer ones stand in for.  *)
(***************************************************************************)
EXTENDS BackupRestore, FiniteSetTheorems, WellFoundedInduction, TLAPS

\* Whatever the disk holds was committed once.
Committed ==
  /\ file \subseteq written
  /\ \A g \in Gen : logs[g] # None => logs[g] \subseteq written
  /\ \A b \in File : backups[b] # None => backups[b].content \subseteq written
  /\ restore # None => restore.before \subseteq written /\ restore.content \subseteq written

Generations ==
  /\ \A g \in Gen : g > gen => logs[g] = None
  /\ \A c \in Conn : conn[c] # None => conn[c] <= gen
  /\ gen <= spent.restores
  /\ restore # None => gen < spent.restores

FilesTaken ==
  /\ \A b \in File : b > taken => backups[b] = None
  /\ restore # None => restore.from <= taken

CopySound ==
  (restore # None /\ restore.step = "copied" /\ restore.clean) =>
    /\ \A c \in Conn : conn[c] \in {None, gen}
    /\ HasRestored(restore, file)
    /\ logs[gen] # None => HasRestored(restore, logs[gen])

SafetySound ==
  restore # None =>
    /\ restore.step = "verified" => restore.safety = None
    /\ ("window" \in Quiet /\ restore.step = "saved" /\ restore.safety # None) =>
         /\ backups[restore.safety] # None
         /\ backups[restore.safety].content = Live

Inv == TypeOK /\ Committed /\ Generations /\ FilesTaken /\ CopySound /\ SafetySound

-----------------------------------------------------------------------------
(* Helpers.                                                                *)

\* What a connection of the linked generation reads is a committed ledger.
LEMMA SeenCommitted ==
  ASSUME TypeOK, Committed, NEW g \in Gen
  PROVE  Seen(g) \in SUBSET Tx /\ Seen(g) \subseteq written
BY DEF TypeOK, Committed, Seen

\* Pruning removes backups and changes none.
LEMMA PrunedShrinks ==
  ASSUME NEW files \in [File -> Backup \cup {None}]
  PROVE  /\ Pruned(files) \in [File -> Backup \cup {None}]
         /\ \A b \in File : Pruned(files)[b] # None => Pruned(files)[b] = files[b]
BY DEF Pruned

\* The newest backup is never pruned.
LEMMA NewestStays ==
  ASSUME NEW files \in [File -> Backup \cup {None}], NEW n \in File,
         \A b \in File : b > n => files[b] = None
  PROVE  Pruned(files)[n] = files[n]
<1>1. Newer(n, files) = {}
  BY DEF Newer
<1>2. Cardinality(Newer(n, files)) = 0
  BY <1>1, FS_EmptySet
<1>3. ~(Cardinality(Newer(n, files)) >= Keep)
  BY <1>2, ConstantsAssumption
<1> QED BY <1>3 DEF Pruned

\* The file that is added is of a new name.
LEMMA WithFile ==
  ASSUME TypeOK, FilesTaken, taken < MaxFiles,
         NEW kind \in {"backup", "snapshot", "archive"}, NEW content \in SUBSET Tx
  PROVE  /\ taken + 1 \in File /\ taken + 1 \in 0..MaxFiles
         /\ With(kind, content) \in [File -> Backup \cup {None}]
         /\ With(kind, content)[taken + 1] = [kind |-> kind, content |-> content]
         /\ [kind |-> kind, content |-> content] # None
         /\ \A b \in File : b # taken + 1 => With(kind, content)[b] = backups[b]
         /\ \A b \in File : b > taken + 1 => With(kind, content)[b] = None
<1>1. taken + 1 \in File /\ taken + 1 \in 0..MaxFiles
  BY ConstantsAssumption DEF TypeOK, File
<1>2. [kind |-> kind, content |-> content] \in Backup
  BY DEF Backup
<1>3. [kind |-> kind, content |-> content] # None
  BY <1>2, NoneAssumption
<1>4. backups \in [File -> Backup \cup {None}] /\ taken \in Int
  BY DEF TypeOK
<1>5. With(kind, content) = [backups EXCEPT ![taken + 1] = [kind |-> kind, content |-> content]]
  BY DEF With, NextFile
<1>6. \A b \in File : b > taken + 1 => backups[b] = None /\ b # taken + 1
  BY <1>4 DEF FilesTaken, File
<1> QED BY <1>1, <1>2, <1>3, <1>4, <1>5, <1>6

\* A checkpoint changes neither what is committed nor what is read.
LEMMA CheckpointKeeps ==
  ASSUME Inv, Checkpoint, gen' = gen, conn' = conn, written' = written
  PROVE  /\ file' \in SUBSET Tx /\ file' \subseteq written
         /\ logs' \in [Gen -> {None} \cup SUBSET Tx]
         /\ \A g \in Gen : logs'[g] # None => logs'[g] = logs[g]
         /\ file' = Live /\ Live' = Live
<1>1. gen \in Gen /\ logs \in [Gen -> {None} \cup SUBSET Tx]
  BY DEF Inv, TypeOK
<1>2. file' = Live /\ file' \in SUBSET Tx /\ file' \subseteq written
  BY <1>1, SeenCommitted DEF Inv, Checkpoint, Live
<1>3. logs' = IF NobodyConnected THEN [logs EXCEPT ![gen] = None] ELSE logs
  BY DEF Checkpoint
<1>4. Live' = Live
  BY <1>1, <1>2, <1>3 DEF Live, Seen
<1> QED BY <1>1, <1>2, <1>3, <1>4

-----------------------------------------------------------------------------
(* The invariant.                                                          *)

LEMMA InitInv == Init => Inv
<1> SUFFICES ASSUME Init PROVE Inv
  OBVIOUS
<1>1. TypeOK
  BY ConstantsAssumption, NoneAssumption DEF Init, TypeOK, Gen
<1> QED BY <1>1, ConstantsAssumption
        DEF Init, Inv, Committed, Generations, FilesTaken, CopySound, SafetySound, Gen

LEMMA InvOpen ==
  ASSUME Inv, NEW c \in Conn, Open(c)
  PROVE  Inv'
<1> USE DEF Inv
<1>1. UNCHANGED <<file, logs, gen, written, backups, taken, restore, spent>>
  BY DEF Open
<1>2. conn' = [conn EXCEPT ![c] = gen]
  BY DEF Open
<1>3. TypeOK'
  BY <1>1, <1>2 DEF TypeOK
<1>4. Committed' /\ FilesTaken' /\ SafetySound'
  BY <1>1 DEF Committed, FilesTaken, SafetySound, Live, Seen
<1>5. Generations'
  BY <1>1, <1>2, ConstantsAssumption DEF Generations, TypeOK, Gen
<1>6. CopySound'
  BY <1>1, <1>2 DEF CopySound, TypeOK, HasRestored
<1> QED BY <1>3, <1>4, <1>5, <1>6

LEMMA InvWrite ==
  ASSUME Inv, NEW c \in Writers, NEW t \in Tx, Write(c, t)
  PROVE  Inv'
<1> USE DEF Inv
<1> DEFINE g == conn[c]
<1>1. UNCHANGED <<file, gen, conn, backups, taken, restore, spent>>
  BY DEF Write
<1>2. c \in Conn /\ g # None /\ g \in Gen /\ g <= gen /\ t \notin written
  BY DEF Write, TypeOK, Conn, Generations
<1>3. logs' = [logs EXCEPT ![g] = Seen(g) \cup {t}] /\ written' = written \cup {t}
  BY DEF Write
<1>4. Seen(g) \in SUBSET Tx /\ Seen(g) \subseteq written
  BY <1>2, SeenCommitted
<1>5. TypeOK'
  BY <1>1, <1>2, <1>3, <1>4 DEF TypeOK
<1>6. Committed'
  BY <1>1, <1>2, <1>3, <1>4 DEF Committed, TypeOK
<1>7. Generations' /\ FilesTaken'
  BY <1>1, <1>2, <1>3, ConstantsAssumption DEF Generations, FilesTaken, TypeOK, Gen
<1>8. CopySound'
  <2> SUFFICES ASSUME restore # None, restore.step = "copied", restore.clean
               PROVE  CopySound'
    BY <1>1 DEF CopySound
  <2>1. g = gen
    BY <1>2 DEF CopySound
  <2>2. HasRestored(restore, Seen(gen))
    BY DEF CopySound, Seen
  <2>3. HasRestored(restore, Seen(gen) \cup {t})
    BY <1>2, <2>2 DEF HasRestored, Committed
  <2>4. logs'[gen] = Seen(gen) \cup {t}
    BY <1>2, <1>3, <2>1 DEF TypeOK
  <2> QED BY <1>1, <2>3, <2>4 DEF CopySound, HasRestored
<1>9. SafetySound'
  BY <1>1 DEF Write, OthersMayAct, InWindow, SafetySound
<1> QED BY <1>5, <1>6, <1>7, <1>8, <1>9

LEMMA InvClose ==
  ASSUME Inv, NEW c \in Conn, Close(c)
  PROVE  Inv'
<1> USE DEF Inv
<1> DEFINE g == conn[c]
<1>1. UNCHANGED <<gen, written, backups, taken, restore, spent>>
  BY DEF Close
<1>2. g # None /\ g \in Gen /\ conn' = [conn EXCEPT ![c] = None]
  BY DEF Close, TypeOK
<1>3. Seen(g) \in SUBSET Tx /\ Seen(g) \subseteq written
  BY <1>2, SeenCommitted
<1>4. /\ file' \in {file, Seen(g)}
      /\ logs' \in [Gen -> {None} \cup SUBSET Tx]
      /\ \A h \in Gen : logs'[h] # None => logs'[h] = logs[h]
  BY <1>2 DEF Close, TypeOK
<1>5. TypeOK'
  BY <1>1, <1>2, <1>3, <1>4 DEF TypeOK
<1>6. Committed'
  BY <1>1, <1>3, <1>4 DEF Committed
<1>7. Generations' /\ FilesTaken'
  <2>1. \A h \in Gen : h > gen => logs'[h] = None
    BY <1>4 DEF Generations
  <2>2. \A d \in Conn : conn'[d] # None => conn'[d] = conn[d]
    BY <1>2 DEF TypeOK
  <2> QED BY <1>1, <2>1, <2>2 DEF Generations, FilesTaken
<1>8. CopySound'
  <2> SUFFICES ASSUME restore # None, restore.step = "copied", restore.clean
               PROVE  CopySound'
    BY <1>1 DEF CopySound
  <2>1. g = gen
    BY <1>2 DEF CopySound
  <2>2. HasRestored(restore, Seen(gen)) /\ HasRestored(restore, file)
    BY DEF CopySound, Seen
  <2>3. HasRestored(restore, file')
    BY <1>4, <2>1, <2>2
  <2>4. \A d \in Conn : conn'[d] \in {None, gen}
    BY <1>2 DEF CopySound, TypeOK
  <2>5. gen \in Gen
    BY DEF TypeOK
  <2>6. logs'[gen] # None => HasRestored(restore, logs'[gen])
    BY <1>4, <2>5 DEF CopySound
  <2> QED BY <1>1, <2>3, <2>4, <2>6 DEF CopySound, HasRestored
<1>9. SafetySound'
  BY <1>1 DEF Close, OthersMayAct, InWindow, SafetySound
<1> QED BY <1>5, <1>6, <1>7, <1>8, <1>9

\* A checkpoint, new files and shrunk ones: what the sessions' part of the
\* invariant needs when no restore moves.
LEMMA LedgerKept ==
  ASSUME Inv, Checkpoint, UNCHANGED <<gen, conn, written, restore, spent>>,
         taken' \in 0..MaxFiles, taken' >= taken,
         backups' \in [File -> Backup \cup {None}],
         \A b \in File : b > taken' => backups'[b] = None,
         \A b \in File : backups'[b] # None => backups'[b].content \subseteq written
  PROVE  TypeOK' /\ Committed' /\ Generations' /\ FilesTaken' /\ CopySound'
<1> USE DEF Inv
<1>1. /\ file' \in SUBSET Tx /\ file' \subseteq written
      /\ logs' \in [Gen -> {None} \cup SUBSET Tx]
      /\ \A g \in Gen : logs'[g] # None => logs'[g] = logs[g]
      /\ file' = Live
  BY CheckpointKeeps
<1>2. TypeOK'
  BY <1>1 DEF TypeOK
<1>3. Committed'
  BY <1>1 DEF Committed
<1>4. Generations'
  BY <1>1 DEF Generations
<1>5. FilesTaken'
  BY DEF FilesTaken, TypeOK, Restore, File
<1>6. CopySound'
  BY <1>1 DEF CopySound, Live, Seen, TypeOK, HasRestored
<1> QED BY <1>2, <1>3, <1>4, <1>5, <1>6

LEMMA InvCreateBackup ==
  ASSUME Inv, CreateBackup
  PROVE  Inv'
<1> USE DEF Inv
<1> DEFINE files == With("backup", Live)
<1>1. /\ Checkpoint /\ UNCHANGED <<gen, conn, written, restore, spent>>
      /\ taken < MaxFiles /\ taken' = taken + 1 /\ backups' = Pruned(files)
  BY DEF CreateBackup
<1>2. Live \in SUBSET Tx /\ Live \subseteq written
  BY SeenCommitted DEF Live, TypeOK
<1>3. /\ taken + 1 \in 0..MaxFiles
      /\ files \in [File -> Backup \cup {None}]
      /\ files[taken + 1] = [kind |-> "backup", content |-> Live]
      /\ \A b \in File : b # taken + 1 => files[b] = backups[b]
      /\ \A b \in File : b > taken + 1 => files[b] = None
  BY <1>1, <1>2, WithFile
<1>4. /\ backups' \in [File -> Backup \cup {None}]
      /\ \A b \in File : backups'[b] # None => backups'[b] = files[b]
  BY <1>1, <1>3, PrunedShrinks
<1>5. \A b \in File : backups'[b] # None => backups'[b].content \subseteq written
  BY <1>2, <1>3, <1>4 DEF Committed
<1>6. \A b \in File : b > taken' => backups'[b] = None
  BY <1>1, <1>3, <1>4
<1>7. taken' \in 0..MaxFiles /\ taken' >= taken
  BY <1>1, <1>3 DEF TypeOK
<1>8. TypeOK' /\ Committed' /\ Generations' /\ FilesTaken' /\ CopySound'
  BY <1>1, <1>4, <1>5, <1>6, <1>7, LedgerKept
<1>9. SafetySound'
  BY <1>1 DEF CreateBackup, OthersMayAct, InWindow, SafetySound
<1> QED BY <1>8, <1>9

LEMMA InvCreateArchive ==
  ASSUME Inv, CreateArchive
  PROVE  Inv'
<1> USE DEF Inv
<1>1. /\ Checkpoint /\ UNCHANGED <<gen, conn, written, restore, spent>>
      /\ taken < MaxFiles /\ taken' = taken + 1 /\ backups' = With("archive", Live)
  BY DEF CreateArchive
<1>2. Live \in SUBSET Tx /\ Live \subseteq written
  BY SeenCommitted DEF Live, TypeOK
<1>3. /\ taken + 1 \in 0..MaxFiles
      /\ backups' \in [File -> Backup \cup {None}]
      /\ backups'[taken + 1] = [kind |-> "archive", content |-> Live]
      /\ \A b \in File : b # taken + 1 => backups'[b] = backups[b]
      /\ \A b \in File : b > taken + 1 => backups'[b] = None
  BY <1>1, <1>2, WithFile
<1>4. \A b \in File : backups'[b] # None => backups'[b].content \subseteq written
  BY <1>2, <1>3 DEF Committed
<1>5. taken' \in 0..MaxFiles /\ taken' >= taken
  BY <1>1, <1>3 DEF TypeOK
<1>6. TypeOK' /\ Committed' /\ Generations' /\ FilesTaken' /\ CopySound'
  BY <1>1, <1>3, <1>4, <1>5, LedgerKept
<1>7. SafetySound'
  BY <1>1 DEF CreateArchive, OthersMayAct, InWindow, SafetySound
<1> QED BY <1>6, <1>7

LEMMA InvVacuum ==
  ASSUME Inv, VacuumAndOptimize
  PROVE  Inv'
<1> USE DEF Inv
<1>1. Checkpoint /\ UNCHANGED <<gen, conn, written, backups, taken, restore, spent>>
  BY DEF VacuumAndOptimize
<1>2. TypeOK' /\ Committed' /\ Generations' /\ FilesTaken' /\ CopySound'
  BY <1>1, LedgerKept DEF TypeOK, Committed, FilesTaken
<1>3. SafetySound'
  BY <1>1 DEF VacuumAndOptimize, OthersMayAct, InWindow, SafetySound
<1> QED BY <1>2, <1>3

\* The files that a failed snapshot may leave.
LEMMA LeftFiles ==
  ASSUME Inv, taken < MaxFiles, NEW kind \in {"backup", "snapshot"},
         NEW files \in {backups, With(kind, {})}
  PROVE  /\ taken + 1 \in 0..MaxFiles
         /\ files \in [File -> Backup \cup {None}]
         /\ \A b \in File : b > taken + 1 => files[b] = None
         /\ \A b \in File : files[b] # None => files[b].content \subseteq written
<1> USE DEF Inv
<1>1. /\ taken + 1 \in 0..MaxFiles
      /\ With(kind, {}) \in [File -> Backup \cup {None}]
      /\ With(kind, {})[taken + 1] = [kind |-> kind, content |-> {}]
      /\ \A b \in File : b # taken + 1 => With(kind, {})[b] = backups[b]
      /\ \A b \in File : b > taken + 1 => With(kind, {})[b] = None
  <2>1. {} \in SUBSET Tx /\ kind \in {"backup", "snapshot", "archive"}
    OBVIOUS
  <2> QED BY <2>1, WithFile
<1>2. CASE files = backups
  BY <1>1, <1>2 DEF TypeOK, FilesTaken, Committed, File
<1>3. CASE files = With(kind, {})
  BY <1>1, <1>3 DEF Committed
<1> QED BY <1>2, <1>3

LEMMA InvCreateFails ==
  ASSUME Inv, CreateFails
  PROVE  Inv'
<1> USE DEF Inv
<1>1. /\ UNCHANGED <<file, logs, gen, conn, written, restore>>
      /\ taken < MaxFiles /\ taken' = taken + 1
      /\ backups' \in {backups, With("backup", {})}
      /\ spent.faults < MaxFaults /\ spent' = [spent EXCEPT !.faults = @ + 1]
  BY DEF CreateFails
<1>2. /\ taken + 1 \in 0..MaxFiles
      /\ backups' \in [File -> Backup \cup {None}]
      /\ \A b \in File : b > taken + 1 => backups'[b] = None
      /\ \A b \in File : backups'[b] # None => backups'[b].content \subseteq written
  BY <1>1, LeftFiles
<1>3. TypeOK'
  BY <1>1, <1>2, ConstantsAssumption DEF TypeOK
<1>4. Committed' /\ Generations' /\ CopySound'
  BY <1>1, <1>2 DEF Committed, Generations, CopySound, TypeOK, HasRestored
<1>5. FilesTaken'
  BY <1>1, <1>2 DEF FilesTaken, TypeOK, Restore, File
<1>6. SafetySound'
  BY <1>1 DEF CreateFails, OthersMayAct, InWindow, SafetySound
<1> QED BY <1>3, <1>4, <1>5, <1>6

LEMMA InvDeleteBackup ==
  ASSUME Inv, NEW b \in File, DeleteBackup(b)
  PROVE  Inv'
<1> USE DEF Inv
<1>1. UNCHANGED <<file, logs, gen, conn, written, taken, restore, spent>>
  BY DEF DeleteBackup
<1>2. backups' = [backups EXCEPT ![b] = None]
  BY DEF DeleteBackup
<1>3. TypeOK'
  BY <1>1, <1>2 DEF TypeOK
<1>4. Committed' /\ Generations' /\ FilesTaken' /\ CopySound'
  BY <1>1, <1>2 DEF Committed, Generations, FilesTaken, CopySound, TypeOK, HasRestored
<1>5. SafetySound'
  BY <1>1 DEF DeleteBackup, OthersMayAct, InWindow, SafetySound
<1> QED BY <1>3, <1>4, <1>5

LEMMA InvStartRestore ==
  ASSUME Inv, NEW b \in File, StartRestore(b)
  PROVE  Inv'
<1> USE DEF Inv
<1> DEFINE r == [step |-> "verified", from |-> b, archive |-> backups[b].kind = "archive",
                 content |-> backups[b].content, before |-> Live, safety |-> None, clean |-> FALSE]
<1>1. /\ UNCHANGED <<file, logs, gen, conn, written, backups, taken>>
      /\ backups[b] # None /\ restore' = r
      /\ spent.restores < MaxRestores /\ spent' = [spent EXCEPT !.restores = @ + 1]
  BY DEF StartRestore
<1>2. Live \in SUBSET Tx /\ Live \subseteq written
  BY SeenCommitted DEF Live, TypeOK
<1>3. backups[b] \in Backup
  BY <1>1 DEF TypeOK
<1>4. r \in Restore /\ r # None
  <2>1. (backups[b].kind = "archive") \in BOOLEAN
    OBVIOUS
  <2>2. backups[b].content \in SUBSET Tx
    BY <1>3 DEF Backup
  <2>3. r \in Restore
    BY <1>2, <2>1, <2>2 DEF Restore
  <2> QED BY <2>3, NoneAssumption
<1>5. TypeOK'
  BY <1>1, <1>4, ConstantsAssumption DEF TypeOK
<1>6. Committed'
  BY <1>1, <1>2 DEF Committed
<1>7. Generations'
  BY <1>1, ConstantsAssumption DEF Generations, TypeOK, Gen
<1>8. b <= taken
  BY <1>1 DEF FilesTaken, TypeOK, File
<1>9. FilesTaken' /\ CopySound' /\ SafetySound'
  BY <1>1, <1>8 DEF FilesTaken, CopySound, SafetySound
<1> QED BY <1>5, <1>6, <1>7, <1>9

LEMMA InvSafetySnapshot ==
  ASSUME Inv, SafetySnapshot
  PROVE  Inv'
<1> USE DEF Inv
<1> DEFINE kind == IF restore.archive THEN "snapshot" ELSE "backup"
           files == With(kind, Live)
<1>1. /\ UNCHANGED <<gen, conn, written, spent>> /\ Checkpoint
      /\ restore # None /\ taken < MaxFiles /\ taken' = taken + 1
      /\ backups' \in {files, Pruned(files)}
      /\ restore' = [restore EXCEPT !.step = "saved", !.safety = taken + 1]
  BY DEF SafetySnapshot, NextFile
<1>2. Live \in SUBSET Tx /\ Live \subseteq written
  BY SeenCommitted DEF Live, TypeOK
<1>3. /\ taken + 1 \in File /\ taken + 1 \in 0..MaxFiles
      /\ files \in [File -> Backup \cup {None}]
      /\ files[taken + 1] = [kind |-> kind, content |-> Live]
      /\ [kind |-> kind, content |-> Live] # None
      /\ \A b \in File : b # taken + 1 => files[b] = backups[b]
      /\ \A b \in File : b > taken + 1 => files[b] = None
  BY <1>1, <1>2, WithFile
<1>4. /\ backups' \in [File -> Backup \cup {None}]
      /\ \A b \in File : backups'[b] # None => backups'[b] = files[b]
      /\ backups'[taken + 1] = files[taken + 1]
  BY <1>1, <1>3, PrunedShrinks, NewestStays
<1>5. \A b \in File : backups'[b] # None => backups'[b].content \subseteq written
  BY <1>2, <1>3, <1>4 DEF Committed
<1>6. /\ file' \in SUBSET Tx /\ file' \subseteq written
      /\ logs' \in [Gen -> {None} \cup SUBSET Tx]
      /\ \A g \in Gen : logs'[g] # None => logs'[g] = logs[g]
      /\ Live' = Live
  BY <1>1, CheckpointKeeps
<1>7. /\ restore \in Restore /\ restore' \in Restore /\ restore' # None
      /\ restore'.step = "saved" /\ restore'.safety = taken + 1
      /\ restore'.from = restore.from /\ restore'.before = restore.before
      /\ restore'.content = restore.content
  <2>1. restore \in Restore
    BY <1>1 DEF TypeOK
  <2>2. restore' \in Restore
    BY <1>1, <1>3, <2>1 DEF Restore
  <2> QED BY <1>1, <2>1, <2>2, NoneAssumption DEF Restore
<1>8. TypeOK'
  BY <1>1, <1>3, <1>4, <1>6, <1>7 DEF TypeOK
<1>9. Committed' /\ Generations'
  BY <1>1, <1>5, <1>6, <1>7 DEF Committed, Generations
<1>10. FilesTaken'
  BY <1>1, <1>3, <1>4, <1>7 DEF FilesTaken, TypeOK, Restore, File
<1>11. CopySound'
  BY <1>7 DEF CopySound
<1>12. SafetySound'
  BY <1>3, <1>4, <1>6, <1>7 DEF SafetySound
<1> QED BY <1>8, <1>9, <1>10, <1>11, <1>12

LEMMA InvSafetyFails ==
  ASSUME Inv, SafetyFails
  PROVE  Inv'
<1> USE DEF Inv
<1> DEFINE kind == IF restore.archive THEN "snapshot" ELSE "backup"
<1>1. /\ UNCHANGED <<file, logs, gen, conn, written>>
      /\ restore # None /\ restore.step = "verified"
      /\ taken < MaxFiles /\ taken' = taken + 1
      /\ backups' \in {backups, With(kind, {})}
      /\ spent.faults < MaxFaults /\ spent' = [spent EXCEPT !.faults = @ + 1]
      /\ restore' = [restore EXCEPT !.step = "saved"]
  BY DEF SafetyFails
<1>2. /\ taken + 1 \in 0..MaxFiles
      /\ backups' \in [File -> Backup \cup {None}]
      /\ \A b \in File : b > taken + 1 => backups'[b] = None
      /\ \A b \in File : backups'[b] # None => backups'[b].content \subseteq written
  BY <1>1, LeftFiles
<1>3. /\ restore \in Restore /\ restore' \in Restore /\ restore' # None
      /\ restore'.step = "saved" /\ restore'.safety = restore.safety
      /\ restore'.from = restore.from /\ restore'.before = restore.before
      /\ restore'.content = restore.content
  BY <1>1, NoneAssumption DEF TypeOK, Restore
<1>4. TypeOK'
  BY <1>1, <1>2, <1>3, ConstantsAssumption DEF TypeOK
<1>5. Committed' /\ Generations' /\ CopySound'
  BY <1>1, <1>2, <1>3 DEF Committed, Generations, CopySound, TypeOK
<1>6. FilesTaken'
  BY <1>1, <1>2, <1>3 DEF FilesTaken, TypeOK, Restore, File
<1>7. SafetySound'
  BY <1>1, <1>3 DEF SafetySound
<1> QED BY <1>4, <1>5, <1>6, <1>7

LEMMA InvSwap ==
  ASSUME Inv, Swap
  PROVE  Inv'
<1> USE DEF Inv
<1>1. /\ UNCHANGED <<gen, conn, written, taken, spent>>
      /\ restore # None /\ Copied(Source)
      /\ restore' = [restore EXCEPT !.step = "copied",
                       !.clean = NobodyConnected /\ Source = restore.content]
  BY DEF Swap
<1>2. /\ restore \in Restore /\ restore' \in Restore /\ restore' # None
      /\ restore'.step = "copied" /\ restore'.safety = restore.safety
      /\ restore'.from = restore.from /\ restore'.before = restore.before
      /\ restore'.content = restore.content
      /\ restore'.clean = (NobodyConnected /\ Source = restore.content)
  <2> DEFINE clean == NobodyConnected /\ Source = restore.content
  <2>1. restore \in Restore /\ clean \in BOOLEAN
    BY <1>1 DEF TypeOK, NobodyConnected
  <2>2. restore' = [restore EXCEPT !.step = "copied", !.clean = clean]
    BY <1>1
  <2> HIDE DEF clean
  <2>3. restore' \in Restore /\ restore'.clean = clean
    BY <2>1, <2>2 DEF Restore
  <2>4. restore' # None
    BY <2>3, NoneAssumption
  <2> QED BY <2>1, <2>2, <2>3, <2>4 DEF Restore, clean
<1>3. Source \in SUBSET Tx /\ Source \subseteq written
  <2>1. restore.from \in File /\ restore.content \in SUBSET Tx /\ restore.content \subseteq written
    BY <1>1, <1>2 DEF Restore, Committed
  <2>2. backups[restore.from] # None
          => /\ backups[restore.from].content \in SUBSET Tx
             /\ backups[restore.from].content \subseteq written
    BY <2>1 DEF TypeOK, Backup, Committed
  <2> QED BY <2>1, <2>2 DEF Source
<1>4. gen \in Gen /\ logs \in [Gen -> {None} \cup SUBSET Tx]
  BY DEF TypeOK
<1>5. /\ file' \in {file, Source}
      /\ logs' \in [Gen -> {None} \cup SUBSET Tx]
      /\ logs'[gen] \in {None, Source}
      /\ \A g \in Gen : g # gen => logs'[g] = logs[g]
      /\ NobodyConnected => file' = Source /\ logs'[gen] = None
  BY <1>1, <1>3, <1>4 DEF Copied
<1>6. /\ backups' \in [File -> Backup \cup {None}]
      /\ \A b \in File : b # restore.from => backups'[b] = backups[b]
      /\ backups[restore.from] # None => backups'[restore.from] = backups[restore.from]
      /\ backups'[restore.from] # backups[restore.from] => backups'[restore.from].content = {}
  <2>1. restore.from \in File
    BY <1>2 DEF Restore
  <2>2. [kind |-> "backup", content |-> {}] \in Backup
    BY DEF Backup
  <2>3. backups' \in {backups, [backups EXCEPT ![restore.from] = [kind |-> "backup", content |-> {}]]}
    BY DEF Swap
  <2>4. backups[restore.from] # None => backups' = backups
    BY DEF Swap
  <2> QED BY <2>1, <2>2, <2>3, <2>4 DEF TypeOK
<1>7. TypeOK'
  BY <1>1, <1>2, <1>3, <1>5, <1>6 DEF TypeOK
<1>8. Committed'
  BY <1>1, <1>2, <1>3, <1>4, <1>5, <1>6 DEF Committed
<1>9. Generations'
  BY <1>1, <1>2, <1>4, <1>5 DEF Generations, Gen
<1>10. FilesTaken'
  BY <1>1, <1>2, <1>6 DEF FilesTaken, TypeOK, Restore, File
<1>11. CopySound'
  <2> SUFFICES ASSUME NobodyConnected, Source = restore.content
               PROVE  CopySound'
    BY <1>2 DEF CopySound
  <2>1. file' = restore.content /\ logs'[gen] = None
    BY <1>5
  <2>2. HasRestored(restore', file')
    BY <1>2, <2>1 DEF HasRestored
  <2> QED BY <1>1, <2>1, <2>2 DEF CopySound, NobodyConnected
<1>12. SafetySound'
  BY <1>2 DEF SafetySound
<1> QED BY <1>7, <1>8, <1>9, <1>10, <1>11, <1>12

LEMMA InvUnlink ==
  ASSUME Inv, Unlink
  PROVE  Inv' /\ (restore.clean => HasRestored(restore, Live'))
<1> USE DEF Inv
<1>1. /\ UNCHANGED <<file, conn, written, backups, taken, spent>>
      /\ restore # None /\ restore.step = "copied" /\ restore' = None
  BY DEF Unlink
<1>2. gen \in Gen /\ gen \in Int /\ gen + 1 \in Gen
  BY <1>1, ConstantsAssumption DEF TypeOK, Generations, Gen
<1>3. /\ gen' \in {gen, gen + 1}
      /\ logs' \in [Gen -> {None} \cup SUBSET Tx]
      /\ \A g \in Gen : logs'[g] # None => logs'[g] = logs[g]
      /\ logs'[gen'] = None
  <2>1. CASE \E c \in Conn : conn[c] = gen
    <3>1. gen' = gen + 1 /\ logs' = logs
      BY <2>1 DEF Unlink
    <3>2. logs \in [Gen -> {None} \cup SUBSET Tx]
      BY DEF TypeOK
    <3>3. logs[gen + 1] = None
      BY <1>2 DEF Generations
    <3> QED BY <3>1, <3>2, <3>3
  <2>2. CASE ~ \E c \in Conn : conn[c] = gen
    BY <1>2, <2>2 DEF Unlink, TypeOK
  <2> QED BY <2>1, <2>2
<1>4. TypeOK'
  BY <1>1, <1>2, <1>3 DEF TypeOK
<1>5. Committed' /\ FilesTaken' /\ CopySound' /\ SafetySound'
  BY <1>1, <1>3 DEF Committed, FilesTaken, CopySound, SafetySound
<1>6. Generations'
  BY <1>1, <1>2, <1>3, ConstantsAssumption DEF Generations, TypeOK, Gen
<1>7. Live' = file
  BY <1>1, <1>3 DEF Live, Seen
<1>8. restore.clean => HasRestored(restore, Live')
  BY <1>1, <1>7 DEF CopySound
<1> QED BY <1>4, <1>5, <1>6, <1>8

LEMMA InvKill ==
  ASSUME Inv, Kill
  PROVE  Inv'
<1> USE DEF Inv
<1>1. UNCHANGED <<file, logs, gen, conn, written, backups, taken>> /\ restore' = None
  BY DEF Kill
<1>2. spent.kills < MaxKills /\ spent' = [spent EXCEPT !.kills = @ + 1]
  BY DEF Kill
<1>3. TypeOK'
  BY <1>1, <1>2, ConstantsAssumption DEF TypeOK
<1> QED BY <1>1, <1>2, <1>3
        DEF Committed, Generations, FilesTaken, CopySound, SafetySound, TypeOK

LEMMA InvNext ==
  ASSUME Inv, [Next]_vars
  PROVE  Inv'
<1>1. CASE UNCHANGED vars
  BY <1>1 DEF vars, Inv, TypeOK, Committed, Generations, FilesTaken, CopySound, SafetySound,
               Live, Seen, HasRestored
<1>2. CASE \E c \in Conn : Open(c) \/ Close(c)
  BY <1>2, InvOpen, InvClose
<1>3. CASE \E c \in Writers, t \in Tx : Write(c, t)
  BY <1>3, InvWrite
<1>4. CASE CreateBackup \/ CreateFails \/ CreateArchive \/ VacuumAndOptimize
  BY <1>4, InvCreateBackup, InvCreateFails, InvCreateArchive, InvVacuum
<1>5. CASE \E b \in File : DeleteBackup(b) \/ StartRestore(b)
  BY <1>5, InvDeleteBackup, InvStartRestore
<1>6. CASE SafetySnapshot \/ SafetyFails \/ Swap \/ Unlink \/ Kill
  BY <1>6, InvSafetySnapshot, InvSafetyFails, InvSwap, InvUnlink, InvKill
<1> QED BY <1>1, <1>2, <1>3, <1>4, <1>5, <1>6 DEF Next

\* The state of database, log and files is well formed, and what the invariant says holds.
THEOREM InvariantHolds == Spec => []Inv
<1>1. Init => Inv
  BY InitInv
<1>2. Inv /\ [Next]_vars => Inv'
  BY InvNext
<1> QED BY <1>1, <1>2, PTL DEF Spec

\* The variables of the model (backup.py, archive.py and the sessions next to them) keep their types.
THEOREM TypeCorrect == Spec => []TypeOK
<1>1. Inv => TypeOK
  BY DEF Inv
<1> QED BY <1>1, InvariantHolds, PTL

\* restore_backup and restore_archive: a restore that nobody was connected to, of a
\* candidate that was still there, has restored it when it reports success.
THEOREM RestoreWorksAlone == Spec => RestoreTakesAlone
<1>1. Inv /\ [Next]_vars => [(Unlink /\ restore.clean) => HasRestored(restore, Live')]_vars
  BY InvUnlink
<1> QED BY <1>1, InvariantHolds, PTL DEF Spec, RestoreTakesAlone

\* The pre-restore safety snapshot, if one is reported, survives rotation and holds
\* the ledger that is replaced, when nobody acts between it and the copy.
THEOREM SafetySnapshotKept ==
  ASSUME "window" \in Quiet
  PROVE  Spec => SafetyIsThePast
<1>1. Inv /\ [Next]_vars
        => [(Swap /\ restore.safety # None) =>
              /\ backups[restore.safety] # None
              /\ backups[restore.safety].content = Live]_vars
  BY DEF Inv, SafetySound, Swap
<1> QED BY <1>1, InvariantHolds, PTL DEF Spec, SafetyIsThePast

-----------------------------------------------------------------------------
(* Rotation.                                                               *)

\* A set of files that is not empty has a newest one.
LEMMA NewestOf ==
  ASSUME NEW S \in SUBSET File, S # {}
  PROVE  \E m \in S : \A c \in S : c <= m
<1> DEFINE T == {n \in Nat : MaxFiles - n \in S}
           R == OpToRel(<, Nat)
<1>1. T \subseteq Nat
  OBVIOUS
<1>2. \A c \in S : MaxFiles - c \in T
  <2>1. ASSUME NEW c \in S PROVE MaxFiles - c \in T
    <3>1. c \in Int /\ c <= MaxFiles /\ MaxFiles \in Int
      BY ConstantsAssumption DEF File
    <3>2. MaxFiles - c \in Nat /\ MaxFiles - (MaxFiles - c) = c
      BY <3>1
    <3> QED BY <3>2
  <2> QED BY <2>1
<1>3. T # {}
  BY <1>2
<1>4. \A x, y \in Nat : y < x => <<y, x>> \in R
  BY DEF OpToRel
<1>5. IsWellFoundedOn(R, Nat)
  BY NatLessThanWellFounded
<1>6. \A d \in T : d \in Nat /\ MaxFiles - d \in S
  OBVIOUS
<1> HIDE DEF R, T
<1>7. PICK least \in T : \A d \in T : ~(<<d, least>> \in R)
  BY <1>1, <1>3, <1>5, WFMin
<1>8. \A d \in T : ~(d < least)
  BY <1>4, <1>6, <1>7
<1>9. ASSUME NEW c \in S PROVE c <= MaxFiles - least
  <2>1. ~(MaxFiles - c < least) /\ least \in Nat
    BY <1>2, <1>6, <1>8
  <2> QED BY <2>1, ConstantsAssumption DEF File
<1> QED BY <1>6, <1>9

LEMMA NewerFinite ==
  ASSUME NEW files, NEW b \in File
  PROVE  IsFiniteSet(Newer(b, files)) /\ Newer(b, files) \in SUBSET File
<1>1. IsFiniteSet(File)
  BY FS_Interval, ConstantsAssumption DEF File
<1> QED BY <1>1, FS_Subset DEF Newer

\* A backup that pruning removes leaves enough newer ones behind: the newest of those that
\* go with it still had Keep newer ones, and these stay.
LEMMA PrunedLeaves ==
  ASSUME NEW files \in [File -> Backup \cup {None}], NEW b \in File,
         files[b] # None, Pruned(files)[b] = None
  PROVE  files[b].kind = "backup" /\ Cardinality(Newer(b, Pruned(files))) >= Keep
<1> DEFINE after == Pruned(files)
           gone  == Newer(b, files) \ Newer(b, after)
<1>1. files[b].kind = "backup" /\ Cardinality(Newer(b, files)) >= Keep
  BY DEF Pruned, Listed
<1>2. \A c \in File : after[c] # None => after[c] = files[c]
  BY PrunedShrinks
<1>3. CASE gone = {}
  <2>1. Newer(b, after) = Newer(b, files)
    BY <1>2, <1>3 DEF Newer
  <2> QED BY <1>1, <2>1
<1>4. CASE gone # {}
  <2>1. gone \in SUBSET File
    BY DEF Newer
  <2>2. PICK m \in gone : \A c \in gone : c <= m
    BY <1>4, <2>1, NewestOf
  <2>3. m \in File /\ m > b /\ files[m] # None /\ files[m].kind = "backup" /\ after[m] = None
    BY <1>2, <2>2 DEF Newer
  <2>4. Cardinality(Newer(m, files)) >= Keep
    BY <2>3 DEF Pruned, Listed
  <2>5. Newer(m, files) \subseteq Newer(b, after)
    <3>1. ASSUME NEW c \in Newer(m, files) PROVE c \in Newer(b, after)
      <4>1. c \in File /\ c > m /\ c > b /\ c \in Newer(b, files)
        BY <2>3 DEF Newer, File
      <4>2. c \notin gone
        BY <2>2, <4>1, <2>3 DEF File
      <4> QED BY <4>1, <4>2
    <3> QED BY <3>1
  <2>6. Cardinality(Newer(m, files)) <= Cardinality(Newer(b, after))
    BY <2>5, NewerFinite, FS_Subset
  <2>7. /\ Cardinality(Newer(m, files)) \in Nat
        /\ Cardinality(Newer(b, after)) \in Nat
    BY <2>3, NewerFinite, FS_CardinalityType
  <2> QED BY <1>1, <2>4, <2>6, <2>7, ConstantsAssumption
<1> QED BY <1>3, <1>4

\* The same of the rotation after a snapshot, whose file is a new one.
LEMMA RotationLeaves ==
  ASSUME Inv, taken < MaxFiles, NEW content \in SUBSET Tx,
         backups' = Pruned(With("backup", content)),
         NEW b \in File, backups[b] # None, backups'[b] = None
  PROVE  backups[b].kind = "backup" /\ Cardinality(Newer(b, backups')) >= Keep
<1> DEFINE files == With("backup", content)
<1>1. /\ files \in [File -> Backup \cup {None}]
      /\ \A c \in File : c # taken + 1 => files[c] = backups[c]
  <2>1. backups \in [File -> Backup \cup {None}]
    BY DEF Inv, TypeOK
  <2>2. [kind |-> "backup", content |-> content] \in Backup
    BY DEF Backup
  <2>3. files = [backups EXCEPT ![taken + 1] = [kind |-> "backup", content |-> content]]
    BY DEF With, NextFile
  <2> QED BY <2>1, <2>2, <2>3
<1>2. b # taken + 1
  BY DEF Inv, TypeOK, FilesTaken
<1>3. files[b] = backups[b] /\ backups' = Pruned(files)
  BY <1>1, <1>2
<1> HIDE DEF files
<1> QED BY <1>1, <1>3, PrunedLeaves

\* A step that only adds a file takes none away.
LEMMA AddedOnly ==
  ASSUME Inv, taken < MaxFiles, NEW kind \in {"backup", "snapshot", "archive"},
         NEW content \in SUBSET Tx, backups' \in {backups, With(kind, content)}
  PROVE  \A b \in File : backups[b] # None => backups'[b] # None
<1>1. \A b \in File : b # taken + 1 => With(kind, content)[b] = backups[b]
  BY DEF Inv, TypeOK, With, NextFile
<1>2. \A b \in File : backups[b] # None => b # taken + 1
  BY DEF Inv, TypeOK, FilesTaken
<1> QED BY <1>1, <1>2

\* prune_old_backups: nothing but a deletion or Keep newer backups takes a backup away,
\* whoever took them, the safety snapshots of restores included; and nothing an archive.
THEOREM RotationIsSafe == Spec => BackupsRetained
<1> DEFINE Retained ==
      \A b \in File : (backups[b] # None /\ backups'[b] = None) =>
        /\ backups[b].kind = "backup"
        /\ DeleteBackup(b) \/ Cardinality(Newer(b, backups')) >= Keep
<1>1. ASSUME Inv, Next PROVE Retained
  <2>0. Live \in SUBSET Tx /\ {} \in SUBSET Tx
    BY <1>1, SeenCommitted DEF Inv, TypeOK, Live
  <2>1. CASE CreateBackup
    BY <1>1, <2>0, <2>1, RotationLeaves DEF CreateBackup
  <2>2. CASE CreateArchive
    BY <1>1, <2>0, <2>2, AddedOnly DEF CreateArchive
  <2>3. CASE CreateFails
    BY <1>1, <2>0, <2>3, AddedOnly DEF CreateFails
  <2>4. CASE SafetySnapshot
    <3>1. taken < MaxFiles
      BY <2>4 DEF SafetySnapshot
    <3>2. CASE backups' = With("snapshot", Live)
      BY <1>1, <2>0, <3>1, <3>2, AddedOnly
    <3>3. CASE backups' = Pruned(With("backup", Live))
      BY <1>1, <2>0, <3>1, <3>3, RotationLeaves
    <3> QED BY <2>4, <3>2, <3>3 DEF SafetySnapshot
  <2>5. CASE SafetyFails
    <3>1. taken < MaxFiles
      BY <2>5 DEF SafetyFails
    <3>2. \/ backups' \in {backups, With("snapshot", {})}
          \/ backups' \in {backups, With("backup", {})}
      BY <2>5 DEF SafetyFails
    <3> QED BY <1>1, <2>0, <3>1, <3>2, AddedOnly
  <2>6. ASSUME NEW d \in File, DeleteBackup(d) PROVE Retained
    <3>1. backups' = [backups EXCEPT ![d] = None] /\ Listed(d, backups)
      BY <2>6 DEF DeleteBackup
    <3>2. backups \in [File -> Backup \cup {None}]
      BY <1>1 DEF Inv, TypeOK
    <3>3. \A b \in File : backups[b] # None /\ backups'[b] = None => b = d
      BY <3>1, <3>2
    <3>4. backups[d].kind = "backup"
      BY <3>1 DEF Listed
    <3> QED BY <2>6, <3>3, <3>4
  <2>7. CASE Swap
    <3>1. backups \in [File -> Backup \cup {None}] /\ restore \in Restore
      BY <1>1, <2>7 DEF Inv, TypeOK, Swap
    <3>2. [kind |-> "backup", content |-> {}] # None
      <4>1. [kind |-> "backup", content |-> {}] \in Backup
        BY DEF Backup
      <4> QED BY <4>1, NoneAssumption
    <3>3. \A b \in File : backups[b] # None => backups'[b] # None
      BY <2>7, <3>1, <3>2 DEF Swap
    <3> QED BY <3>3
  <2>8. CASE UNCHANGED backups
    BY <2>8
  <2>9. CASE \E b \in File : StartRestore(b)
    BY <2>8, <2>9 DEF StartRestore
  <2>10. CASE \/ \E c \in Conn : Open(c) \/ Close(c)
              \/ \E c \in Writers, t \in Tx : Write(c, t)
              \/ VacuumAndOptimize \/ Unlink \/ Kill
    BY <2>8, <2>10 DEF Open, Close, Write, VacuumAndOptimize, Unlink, Kill
  <2> HIDE DEF Retained
  <2> QED BY <1>1, <2>1, <2>2, <2>3, <2>4, <2>5, <2>6, <2>7, <2>9, <2>10 DEF Next
<1>2. Inv /\ [Next]_vars => [Retained]_vars
  BY <1>1
<1> QED BY <1>2, InvariantHolds, PTL DEF Spec, BackupsRetained
=============================================================================
