--------------------------- MODULE BackupRestore ---------------------------
(***************************************************************************)
(* Backups of the ledger database and its restoration, mymonee.services:   *)
(* backup.py (snapshots under data/backups, kept to the newest Keep) and   *)
(* archive.py (.mmb archives). A restore copies the backup into the live   *)
(* file through SQLite and then unlinks the write-ahead log, while the     *)
(* sessions of other processes may have the database open.                 *)
(*                                                                         *)
(* SQLite in WAL mode is external: commits go to the log, readers see the  *)
(* log over the file, the last writer to disconnect copies the log into    *)
(* the file. A log that is unlinked while connections use it goes on       *)
(* existing for them alone; each unlinking starts a new generation.        *)
(***************************************************************************)
EXTENDS Integers, FiniteSets

CONSTANTS
  Tx,             \* writes to the ledger
  Writers,        \* sessions of other processes (commands, the API server)
  Readers,        \* read-only connections, pooled by the MCP server
  None,
  Keep,           \* backups retained (15)
  Quiet,          \* {"window"}: only the restore acts between its verification and its copy
  MaxFiles, MaxRestores, MaxFaults, MaxKills    \* bounds

Conn == Writers \cup Readers
File == 1..MaxFiles       \* files under data/backups, by their timestamps
Gen  == 0..MaxRestores    \* generations of the log

ASSUME ConstantsAssumption ==
  /\ Writers \cap Readers = {}
  /\ Keep \in Nat \ {0}
  /\ Quiet \subseteq {"window"}
  /\ MaxFiles \in Nat /\ MaxRestores \in Nat /\ MaxFaults \in Nat /\ MaxKills \in Nat

VARIABLES
  file,       \* what the database file holds
  logs,       \* [Gen -> SUBSET Tx or None]: the contents a log gives, if it holds any
  gen,        \* the generation linked next to the database file
  conn,       \* [Conn -> Gen or None]: the log a connection uses
  written,    \* every write ever committed
  backups,    \* [File -> Backup or None]
  taken,      \* how many file names have been used
  restore,    \* the restore in progress, or None
  spent       \* how much of each bound is used

vars == <<file, logs, gen, conn, written, backups, taken, restore, spent>>

-----------------------------------------------------------------------------
\* "backup": listed, pruned and deletable; "snapshot": what restore_archive saves
\* first, and any file that is not listed; "archive": an .mmb archive.
Backup  == [kind : {"backup", "snapshot", "archive"}, content : SUBSET Tx]

\* content: what was verified; before: the ledger when the restore began;
\* clean (history): at the copy, nobody was connected and the candidate was there.
Restore == [step : {"verified", "saved", "copied"}, from : File, archive : BOOLEAN,
            content : SUBSET Tx, before : SUBSET Tx, safety : File \cup {None}, clean : BOOLEAN]

ASSUME NoneAssumption ==
  /\ \A S \in SUBSET Tx : S # None
  /\ None \notin Gen /\ None \notin File /\ None \notin Backup /\ None \notin Restore

TypeOK ==
  /\ file \in SUBSET Tx
  /\ logs \in [Gen -> {None} \cup SUBSET Tx]
  /\ gen \in Gen
  /\ conn \in [Conn -> Gen \cup {None}]
  /\ written \in SUBSET Tx
  /\ backups \in [File -> Backup \cup {None}]
  /\ taken \in 0..MaxFiles
  /\ restore \in Restore \cup {None}
  /\ spent \in [restores : 0..MaxRestores, faults : 0..MaxFaults, kills : 0..MaxKills]

Init ==
  /\ file = {}
  /\ logs = [g \in Gen |-> None]
  /\ gen = 0
  /\ conn = [c \in Conn |-> None]
  /\ written = {}
  /\ backups = [b \in File |-> None]
  /\ taken = 0
  /\ restore = None
  /\ spent = [restores |-> 0, faults |-> 0, kills |-> 0]

-----------------------------------------------------------------------------
(* SQLite.                                                                 *)

Seen(g) == IF logs[g] # None THEN logs[g] ELSE file

\* What a connection opened now would read.
Live == Seen(gen)

NobodyConnected == \A c \in Conn : conn[c] = None

InWindow == restore # None /\ restore.step \in {"verified", "saved"}

OthersMayAct == ~("window" \in Quiet /\ InWindow)

Open(c) ==
  /\ OthersMayAct
  /\ conn[c] = None
  /\ conn' = [conn EXCEPT ![c] = gen]
  /\ UNCHANGED <<file, logs, gen, written, backups, taken, restore, spent>>

Write(c, t) ==
  /\ OthersMayAct
  /\ conn[c] # None /\ t \notin written
  /\ logs' = [logs EXCEPT ![conn[c]] = Seen(conn[c]) \cup {t}]
  /\ written' = written \cup {t}
  /\ UNCHANGED <<file, gen, conn, backups, taken, restore, spent>>

Last(c) == \A d \in Conn \ {c} : conn[d] = None

\* The last writer copies its log into the file and unlinks whatever log is
\* there; a read-only connection leaves the log behind. An unlinked log
\* disappears with the last connection that uses it.
Close(c) ==
  /\ OthersMayAct
  /\ conn[c] # None
  /\ conn' = [conn EXCEPT ![c] = None]
  /\ \/ /\ c \in Writers /\ Last(c)
        /\ file' = Seen(conn[c])
        /\ logs' = [g \in Gen |-> None]
     \/ /\ ~(c \in Writers /\ Last(c))
        /\ logs' = IF conn[c] # gen /\ \A d \in Conn \ {c} : conn[d] # conn[c]
                   THEN [logs EXCEPT ![conn[c]] = None] ELSE logs
        /\ file' = file
  /\ UNCHANGED <<gen, written, backups, taken, restore, spent>>

\* A full checkpoint by a connection of its own, which it then closes.
Checkpoint ==
  /\ file' = Live
  /\ logs' = IF NobodyConnected THEN [logs EXCEPT ![gen] = None] ELSE logs

-----------------------------------------------------------------------------
(* Backups.                                                                *)

Newer(b, files) == {c \in File : c > b /\ files[c] # None /\ files[c].kind = "backup"}

\* For the mutant below it.
Older(b, files) == {c \in File : c < b /\ files[c] # None /\ files[c].kind = "backup"}

Listed(b, files) == files[b] # None /\ files[b].kind = "backup"

\* Mutant: one too few is kept.
PrunedTooFar(files) ==
  [b \in File |-> IF Listed(b, files) /\ Cardinality(Newer(b, files)) >= Keep - 1
                  THEN None ELSE files[b]]

\* Mutant: the list is sorted the other way round.
PrunedNewest(files) ==
  [b \in File |-> IF Listed(b, files) /\ Cardinality(Older(b, files)) >= Keep
                  THEN None ELSE files[b]]

\* prune_old_backups: everything behind the first Keep of the list, newest first.
Pruned(files) ==
  [b \in File |-> IF Listed(b, files) /\ Cardinality(Newer(b, files)) >= Keep
                  THEN None ELSE files[b]]

\* Mutant: a later timestamp than the one of the file.
LaterFile == taken + 2

\* The timestamp in the name of the next file.
NextFile == taken + 1

With(kind, content) == [backups EXCEPT ![NextFile] = [kind |-> kind, content |-> content]]

\* An online copy of the live database, verified, then the retention policy.
CreateBackup ==
  /\ OthersMayAct
  /\ taken < MaxFiles
  /\ taken' = taken + 1
  /\ Checkpoint
  /\ backups' = Pruned(With("backup", Live))
  /\ UNCHANGED <<gen, conn, written, restore, spent>>

\* A snapshot that fails before its verification may leave an empty file in the list.
CreateFails ==
  /\ OthersMayAct
  /\ taken < MaxFiles
  /\ spent.faults < MaxFaults
  /\ spent' = [spent EXCEPT !.faults = @ + 1]
  /\ taken' = taken + 1
  /\ backups' \in {backups, With("backup", {})}
  /\ UNCHANGED <<file, logs, gen, conn, written, restore>>

CreateArchive ==
  /\ OthersMayAct
  /\ taken < MaxFiles
  /\ taken' = taken + 1
  /\ Checkpoint
  /\ backups' = With("archive", Live)
  /\ UNCHANGED <<gen, conn, written, restore, spent>>

DeleteBackup(b) ==
  /\ OthersMayAct
  /\ Listed(b, backups)
  /\ backups' = [backups EXCEPT ![b] = None]
  /\ UNCHANGED <<file, logs, gen, conn, written, taken, restore, spent>>

VacuumAndOptimize ==
  /\ OthersMayAct
  /\ Checkpoint
  /\ UNCHANGED <<gen, conn, written, backups, taken, restore, spent>>

-----------------------------------------------------------------------------
(* A restore.                                                              *)

StartRestore(b) ==
  /\ restore = None
  /\ backups[b] # None /\ taken < MaxFiles
  /\ spent.restores < MaxRestores
  /\ spent' = [spent EXCEPT !.restores = @ + 1]
  /\ restore' = [step |-> "verified", from |-> b, archive |-> backups[b].kind = "archive",
                 content |-> backups[b].content, before |-> Live, safety |-> None, clean |-> FALSE]
  /\ UNCHANGED <<file, logs, gen, conn, written, backups, taken>>

\* restore_backup saves the live database as another backup, which prunes;
\* restore_archive saves a file outside the list.
SafetySnapshot ==
  /\ restore # None /\ restore.step = "verified"
  /\ taken < MaxFiles
  /\ taken' = taken + 1
  /\ Checkpoint
  /\ backups' = IF restore.archive THEN With("snapshot", Live) ELSE Pruned(With("backup", Live))
  /\ restore' = [restore EXCEPT !.step = "saved", !.safety = NextFile]
  /\ UNCHANGED <<gen, conn, written, spent>>

\* Without a safety snapshot the restore goes on.
SafetyFails ==
  /\ restore # None /\ restore.step = "verified"
  /\ taken < MaxFiles
  /\ spent.faults < MaxFaults
  /\ spent' = [spent EXCEPT !.faults = @ + 1]
  /\ taken' = taken + 1
  /\ backups' \in {backups, With(IF restore.archive THEN "snapshot" ELSE "backup", {})}
  /\ restore' = [restore EXCEPT !.step = "saved"]
  /\ UNCHANGED <<file, logs, gen, conn, written>>

\* An archive has been extracted before; connecting to a backup that has been
\* pruned or deleted since creates an empty file of its name.
Source ==
  IF restore.archive THEN restore.content
  ELSE IF backups[restore.from] # None THEN backups[restore.from].content ELSE {}

\* Mutant: the copy is not closed, so it stays in the log.
CopiedNotClosed(content) ==
  /\ logs' = [logs EXCEPT ![gen] = content]
  /\ file' = file

\* SQLite's backup into the live file: a transaction, in the log while others are connected.
Copied(content) ==
  IF NobodyConnected
  THEN file' = content /\ logs' = [logs EXCEPT ![gen] = None]
  ELSE logs' = [logs EXCEPT ![gen] = content] /\ file' = file

Swap ==
  /\ restore # None /\ restore.step = "saved"
  /\ Copied(Source)
  /\ backups' = IF restore.archive \/ backups[restore.from] # None THEN backups
                ELSE [backups EXCEPT ![restore.from] = [kind |-> "backup", content |-> {}]]
  /\ restore' = [restore EXCEPT !.step = "copied",
                                !.clean = NobodyConnected /\ Source = restore.content]
  /\ UNCHANGED <<gen, conn, written, taken, spent>>

\* The log is unlinked and the restore reports success.
Unlink ==
  /\ restore # None /\ restore.step = "copied"
  /\ IF \E c \in Conn : conn[c] = gen
     THEN gen' = gen + 1 /\ logs' = logs
     ELSE gen' = gen /\ logs' = [logs EXCEPT ![gen] = None]
  /\ restore' = None
  /\ UNCHANGED <<file, conn, written, backups, taken, spent>>

Kill ==
  /\ restore # None
  /\ spent.kills < MaxKills
  /\ spent' = [spent EXCEPT !.kills = @ + 1]
  /\ restore' = None
  /\ UNCHANGED <<file, logs, gen, conn, written, backups, taken>>

-----------------------------------------------------------------------------
Next ==
  \/ \E c \in Conn : Open(c) \/ Close(c)
  \/ \E c \in Writers, t \in Tx : Write(c, t)
  \/ CreateBackup \/ CreateFails \/ CreateArchive \/ VacuumAndOptimize
  \/ \E b \in File : DeleteBackup(b) \/ StartRestore(b)
  \/ SafetySnapshot \/ SafetyFails \/ Swap \/ Unlink \/ Kill

Spec == Init /\ [][Next]_vars

-----------------------------------------------------------------------------
(* Properties.                                                             *)

\* The ledger is the backup's, and whatever was written after the copy.
HasRestored(r, ledger) == r.content \subseteq ledger /\ ledger \cap (r.before \ r.content) = {}

\* "Clean WAL & SHM files so restored database starts clean": when a restore
\* reports success, the ledger is the one that was restored.
RestoreTakes == [][Unlink => HasRestored(restore, Live')]_vars

\* A restore does take if nobody is connected during the copy and the candidate
\* is still there, whatever is opened and written before it ends.
RestoreTakesAlone == [][(Unlink /\ restore.clean) => HasRestored(restore, Live')]_vars

\* The safety snapshot a restore reports is the ledger that it replaces.
SafetyIsThePast ==
  [][(Swap /\ restore.safety # None) =>
       /\ backups[restore.safety] # None
       /\ backups[restore.safety].content = Live]_vars

\* "Keep last 15 backups": nothing but a deletion or Keep newer backups
\* takes a backup away, and nothing at all an archive.
BackupsRetained ==
  [][\A b \in File : (backups[b] # None /\ backups'[b] = None) =>
        /\ backups[b].kind = "backup"
        /\ DeleteBackup(b) \/ Cardinality(Newer(b, backups')) >= Keep]_vars
=============================================================================
