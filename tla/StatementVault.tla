--------------------------- MODULE StatementVault ---------------------------
(***************************************************************************)
(* The statement vault, mymonee.statements: PDF statements are discovered  *)
(* in Gmail or uploaded, stored, unlocked with passwords a profile yields, *)
(* extracted into lines, validated, and matched against the ledger.        *)
(*                                                                         *)
(* A session is one request or script. Everything between two of its       *)
(* commits is one step; what it read before its first write is an earlier  *)
(* one. Statements are processed in a transaction that ends when they are  *)
(* ready; extraction commits three times: EXTRACTING, the lines, the       *)
(* verdict.                                                                *)
(***************************************************************************)
EXTENDS Integers, FiniteSets

CONSTANTS
  Sess,             \* requests and scripts that work on the vault
  Att, PdfOf,       \* attachments of statement mails, and what they contain
  Pdf, KindOf,      \* contents: "broken", "plain" or "locked"
  Uploads,          \* the contents that are uploaded
  Key, KeyOf,       \* passwords, and the one that opens a locked content
  Details,          \* sets of passwords that name, birthday, card and PAN can yield
  Account,          \* accounts of the ledger
  AccountOf,        \* [Att -> Account or None]: what find_matching_account makes of a mail
  CardIn,           \* [Pdf -> Account or None]: whose card number the first page shows
  Line, LinesOf,    \* purchases, and the ones a content lists
  ReadsAs,          \* what parser and validator make of a content
  Referenced,       \* lines with a reference number: an entry that has it too is a certain match
  None,
  Quiet,            \* what is assumed not to happen at the same time
  MaxStatements, MaxRequests, MaxDecisions, MaxFaults   \* bounds

Id      == 1..MaxStatements
Report  == {"PENDING", "VALIDATED", "REVIEW_REQUIRED", "VALIDATION_FAILED"}
Locked  == {"PASSWORD_REQUIRED", "PASSWORD_FAILED"}
Status  == Locked \cup {"DOWNLOAD_FAILED", "INVALID_PDF", "READY_FOR_EXTRACTION", "EXTRACTING",
                        "VALIDATED", "REVIEW_REQUIRED", "EXTRACTION_FAILED"}

ASSUME ConstantsAssumption ==
  /\ PdfOf \in [Att -> Pdf]
  /\ KindOf \in [Pdf -> {"broken", "plain", "locked"}]
  /\ Uploads \subseteq Pdf
  /\ KeyOf \in [Pdf -> Key]
  /\ AccountOf \in [Att -> Account \cup {None}]
  /\ CardIn \in [Pdf -> Account \cup {None}]
  /\ LinesOf \in [Pdf -> SUBSET Line] /\ \A p \in Pdf : IsFiniteSet(LinesOf[p])
  /\ ReadsAs \in [Pdf -> Report \ {"PENDING"}]
  /\ Details \subseteq SUBSET Key
  /\ Referenced \subseteq Line
  /\ IsFiniteSet(Sess)
  /\ Quiet \subseteq {"ingest", "statement", "lines"}
  /\ MaxStatements \in Nat /\ MaxRequests \in Nat /\ MaxDecisions \in Nat /\ MaxFaults \in Nat

VARIABLES
  stmt,      \* [Id -> Statement or None]: credit_card_statements
  disk,      \* [Id -> SUBSET File]: the files of a statement that exist
  lines,     \* [Id -> SUBSET LineRow]: statement_transactions
  profile,   \* [Account -> Profile or None]: password_profiles
  ledger,    \* SUBSET Entry: transactions that stand for a purchase
  job,       \* [Sess -> Job or None]: the request a session is working on
  spent      \* how much of each bound is used

vars == <<stmt, disk, lines, profile, ledger, job, spent>>

-----------------------------------------------------------------------------
File      == {"original", "unlocked"}
Statement == [src : Att \cup {None}, pdf : Pdf \cup {None}, account : Account \cup {None},
              status : Status, unlocked : BOOLEAN, report : Report]
\* The passwords its strategies yield, and the custom one.
Profile   == [derived : Details \cup {{}}, custom : Key \cup {None}]
Entry     == [line : Line, kind : {"alert", "import"}, n : Nat \ {0}]
Match     == [status : {"UNMATCHED", "POSSIBLE_MATCH", "MATCHED", "LIABILITY_PAYMENT"}, tx : Entry \cup {None},
              sure : BOOLEAN, mark : {"auto", "confirmed", "imported", "rejected", "other"}]
Tag       == Nat \ {0}
LineRow   == [line : Line, tag : Tag, match : Match]
\* A PDF to take in, the account found for it, and the one the uploader names.
Candidate == [att : Att \cup {None}, pdf : Pdf, account : Account \cup {None}, given : Account \cup {None}]
Step      == {"check", "fetch", "store", "assign", "profile", "reprocess", "extract", "parse",
              "publish", "verdict", "reconcile"}
Job       == [step : Step, mails : SUBSET Candidate, work : SUBSET Id, again : {"extract", "reprocess"},
              cand : Candidate \cup {None}, at : Id \cup {None}, account : Account \cup {None},
              config : Profile \cup {None}, old : SUBSET LineRow, seen : SUBSET Entry]

ASSUME NoneAssumption ==
  /\ None \notin Att /\ None \notin Pdf /\ None \notin Account /\ None \notin Key /\ None \notin Id
  /\ None \notin Statement /\ None \notin Profile /\ None \notin Entry /\ None \notin Candidate
  /\ None \notin Job

TypeOK ==
  /\ stmt \in [Id -> Statement \cup {None}]
  /\ disk \in [Id -> SUBSET File]
  /\ lines \in [Id -> SUBSET LineRow]
  /\ profile \in [Account -> Profile \cup {None}]
  /\ ledger \subseteq Entry
  /\ job \in [Sess -> Job \cup {None}]
  /\ spent \in [requests : 0..MaxRequests, decisions : 0..MaxDecisions, kills : 0..MaxFaults,
                losses : 0..MaxFaults]

Init ==
  /\ stmt = [i \in Id |-> None]
  /\ disk = [i \in Id |-> {}]
  /\ lines = [i \in Id |-> {}]
  /\ profile = [a \in Account |-> None]
  /\ ledger = {}
  /\ job = [s \in Sess |-> None]
  /\ spent = [requests |-> 0, decisions |-> 0, kills |-> 0, losses |-> 0]

-----------------------------------------------------------------------------
(* Sessions.                                                               *)

Idle == [step |-> "check", mails |-> {}, work |-> {}, again |-> "extract", cand |-> None, at |-> None,
         account |-> None, config |-> None, old |-> {}, seen |-> {}]

Exists(i) == stmt[i] # None
\* A request is taken by a session; sessions are alike, and the first that is free will do.
Free(s) == /\ job[s] = None /\ s = CHOOSE z \in Sess : job[z] = None
           /\ spent.requests < MaxRequests
           /\ spent' = [spent EXCEPT !.requests = @ + 1]
At(s, step) == job[s] # None /\ job[s].step = step
Ingesting(s) == job[s] # None /\ (job[s].mails # {} \/ job[s].cand # None)

\* What a profile opens. Mutants: only the statements a password was asked for are tried
\* again, or all that have no verdict yet.
AskedOf(a)  == {i \in Id : Exists(i) /\ stmt[i].account = a /\ stmt[i].status = "PASSWORD_REQUIRED"}
UnreadOf(a) == {i \in Id : /\ Exists(i) /\ stmt[i].account = a
                           /\ stmt[i].status \in Locked \cup {"READY_FOR_EXTRACTION"}}
LockedOf(a) == {i \in Id : Exists(i) /\ stmt[i].account = a /\ stmt[i].status \in Locked}

\* The statements a request works on; with Quiet "statement" no two work on the same one.
Holds(s) == IF job[s] = None THEN {}
            ELSE job[s].work \cup (IF job[s].step = "assign" THEN {} ELSE {job[s].at} \ {None})
                   \cup IF job[s].step = "profile" THEN LockedOf(job[s].account) ELSE {}
Undisturbed(s, S) == "statement" \in Quiet => \A z \in Sess \ {s} : Holds(z) \cap S = {}
\* Nor do two save the profile of one account.
Unsaved(s, a) == "statement" \in Quiet =>
                   \A z \in Sess \ {s} : ~(At(z, "profile") /\ job[z].account = a)

\* The request goes on: an upload's account, the next mail, the next statement; or is over.
Continue(j) ==
  LET rest == [j EXCEPT !.cand = None, !.at = None, !.old = {}, !.seen = {}]
  IN IF j.cand # None /\ j.cand.given # None THEN [j EXCEPT !.step = "assign", !.old = {}]
     ELSE IF j.mails # {} THEN [rest EXCEPT !.step = "check"]
     ELSE IF j.work # {} THEN [rest EXCEPT !.step = j.again]
     ELSE None

Fault(kind) == spent.kills + spent.losses < MaxFaults /\ spent' = [spent EXCEPT ![kind] = @ + 1]

-----------------------------------------------------------------------------
(* Ingestion of one candidate, ingest_candidate.                           *)

Mail(a) == [att |-> a, pdf |-> PdfOf[a], account |-> AccountOf[a], given |-> None]

StartIngest(s, cands) ==
  /\ Free(s)
  /\ "ingest" \in Quiet => \A z \in Sess : ~Ingesting(z)
  /\ job' = [job EXCEPT ![s] = [Idle EXCEPT !.mails = cands]]
  /\ UNCHANGED <<stmt, disk, lines, profile, ledger>>

DiscoverStatements(s) == \E S \in SUBSET Att \ {{}} : StartIngest(s, {Mail(a) : a \in S})

\* An account that is named need not be the one found for the file, if one is.
UploadStatement(s) ==
  \E p \in Uploads, g \in Account \cup {None}, c \in Account \cup {None} :
    /\ g = None => c = None
    /\ StartIngest(s, {[att |-> None, pdf |-> p, account |-> c, given |-> g]})

\* Mutant: a failed download is tried again.
KnownWithFile(c) == c.att # None /\ \E i \in Id : Exists(i) /\ stmt[i].src = c.att /\ stmt[i].pdf # None
Known(c) == c.att # None /\ \E i \in Id : Exists(i) /\ stmt[i].src = c.att
Stored(p) == {i \in Id : Exists(i) /\ stmt[i].pdf = p}

\* Idempotency check A, before the download.
CheckSource(s) ==
  /\ At(s, "check")
  /\ \E c \in job[s].mails :
       LET rest == [job[s] EXCEPT !.mails = @ \ {c}] IN
       job' = [job EXCEPT ![s] = IF Known(c) THEN Continue(rest)
                                 ELSE [rest EXCEPT !.cand = c, !.step = "fetch"]]
  /\ UNCHANGED <<stmt, disk, lines, profile, ledger, spent>>

Fresh(i) == ~Exists(i) /\ \A k \in Id : k < i => Exists(k)

Row(c, status) == [src |-> c.att, pdf |-> None, account |-> None, status |-> status,
                   unlocked |-> FALSE, report |-> "PENDING"]

\* The attachment could not be downloaded: a row of its own says so.
DownloadFails(s) ==
  /\ At(s, "fetch") /\ job[s].cand.att # None /\ Fault("losses")
  /\ \E i \in Id : Fresh(i) /\ stmt' = [stmt EXCEPT ![i] = Row(job[s].cand, "DOWNLOAD_FAILED")]
  /\ job' = [job EXCEPT ![s] = Continue([@ EXCEPT !.cand = None])]
  /\ UNCHANGED <<disk, lines, profile, ledger>>

\* The content is there: idempotency check B, by its hash.
Download(s) ==
  /\ At(s, "fetch")
  /\ LET same == Stored(job[s].cand.pdf)
     IN job' = [job EXCEPT ![s] = IF same = {} THEN [@ EXCEPT !.step = "store"]
                                  ELSE Continue([@ EXCEPT !.at = CHOOSE i \in same : TRUE])]
  /\ UNCHANGED <<stmt, disk, lines, profile, ledger, spent>>

\* The account an uploader named is set last, if the statement has none.
AssignAccount(s) ==
  /\ At(s, "assign") /\ Undisturbed(s, {job[s].at})
  /\ stmt' = [stmt EXCEPT ![job[s].at].account = IF @ = None THEN job[s].cand.given ELSE @]
  /\ job' = [job EXCEPT ![s] = Continue([@ EXCEPT !.cand = None])]
  /\ UNCHANGED <<disk, lines, profile, ledger, spent>>

-----------------------------------------------------------------------------
(* Inspection and unlocking, process_statement_bytes.                      *)

Yields(config) == config.derived \cup ({config.custom} \ {None})
Passwords(a) == IF a = None \/ profile[a] = None THEN {} ELSE Yields(profile[a])

Outcome(p, tries) ==
  CASE KindOf[p] = "broken" -> "INVALID_PDF"
    [] KindOf[p] = "plain" \/ (KindOf[p] = "locked" /\ KeyOf[p] \in tries) -> "READY_FOR_EXTRACTION"
    [] KindOf[p] = "locked" /\ tries = {} -> "PASSWORD_REQUIRED"
    [] OTHER -> "PASSWORD_FAILED"

\* What becomes of a row r whose content is p. A card number on the first page of a PDF
\* that was locked names its account (enrich_statement_metadata).
Processed(r, p) ==
  LET status == Outcome(p, Passwords(r.account))
      ready  == status = "READY_FOR_EXTRACTION"
  IN [r EXCEPT !.status = status, !.unlocked = @ \/ ready,
               !.pdf = IF status = "INVALID_PDF" THEN @ ELSE p,
               !.account = IF ready /\ KindOf[p] = "locked" /\ CardIn[p] # None THEN CardIn[p] ELSE @]

\* Its files: the original is written again, the unlocked one when there is one.
Written(i, r) == disk[i] \cup {f \in File : r.pdf # None /\ (f = "original" \/ r.status = "READY_FOR_EXTRACTION")}

\* One transaction of request j: process statement i, and go on to extract it if it is ready.
Process(s, j, i, r, p) ==
  LET q == Processed(r, p) IN
  /\ stmt' = [stmt EXCEPT ![i] = q]
  /\ disk' = [disk EXCEPT ![i] = Written(i, q)]
  /\ job' = [job EXCEPT ![s] = IF q.status = "READY_FOR_EXTRACTION"
                               THEN [j EXCEPT !.step = "extract", !.at = i]
                               ELSE Continue([j EXCEPT !.at = i])]
  /\ UNCHANGED <<lines, profile, ledger, spent>>

StoreCandidate(s) ==
  /\ At(s, "store")
  /\ LET c == job[s].cand
     IN \E i \in Id : /\ Fresh(i)
                      /\ Process(s, job[s], i, [Row(c, "INVALID_PDF") EXCEPT !.account = c.account], c.pdf)

-----------------------------------------------------------------------------
(* Password profiles.                                                      *)

\* A blank password means "unchanged": the stored one is read before anything is written.
StartProfile(s) ==
  /\ Free(s)
  /\ \E a \in Account, D \in Details \cup {{}}, k \in Key \cup {None} :
       LET known == IF profile[a] = None THEN None ELSE profile[a].custom
           given == [derived |-> D, custom |-> IF k = None THEN known ELSE k]
       IN /\ Undisturbed(s, LockedOf(a)) /\ Unsaved(s, a)
          /\ job' = [job EXCEPT ![s] = [Idle EXCEPT !.step = "profile", !.account = a, !.config = given]]
  /\ UNCHANGED <<stmt, disk, lines, profile, ledger>>

SaveProfile(s) ==
  /\ At(s, "profile")
  /\ profile' = [profile EXCEPT ![job[s].account] = job[s].config]
  /\ job' = [job EXCEPT ![s] = Continue([@ EXCEPT !.work = LockedOf(job[s].account), !.again = "reprocess"])]
  /\ UNCHANGED <<stmt, disk, lines, ledger, spent>>

\* reprocess_locked_statements_for_account: the next one, if its file is still there.
Reprocess(s) ==
  /\ At(s, "reprocess")
  /\ \E i \in job[s].work :
       LET rest == [job[s] EXCEPT !.work = @ \ {i}] IN
       \/ /\ "original" \notin disk[i]
          /\ job' = [job EXCEPT ![s] = Continue(rest)]
          /\ UNCHANGED <<stmt, disk, lines, profile, ledger, spent>>
       \/ /\ "original" \in disk[i]
          /\ Process(s, rest, i, stmt[i], stmt[i].pdf)

\* The user types a password; saving it replaces the whole configuration of the profile.
UnlockManually(s, i) ==
  /\ Free(s)
  /\ Exists(i) /\ stmt[i].pdf # None /\ "original" \in disk[i]
  /\ Undisturbed(s, {i})
  /\ \E save \in BOOLEAN, k \in Key :
       /\ KindOf[stmt[i].pdf] = "locked" => k = KeyOf[stmt[i].pdf]
       /\ profile' = IF save /\ stmt[i].account # None
                     THEN [profile EXCEPT ![stmt[i].account] = [derived |-> {}, custom |-> k]]
                     ELSE profile
  /\ stmt' = [stmt EXCEPT ![i].unlocked = TRUE, ![i].status = "READY_FOR_EXTRACTION"]
  /\ disk' = [disk EXCEPT ![i] = @ \cup {"unlocked"}]
  /\ job' = [job EXCEPT ![s] = [Idle EXCEPT !.step = "extract", !.at = i]]
  /\ UNCHANGED <<lines, ledger>>

-----------------------------------------------------------------------------
(* Extraction, extract_and_validate_statement.                             *)

ReExtract(s, i) ==
  /\ Free(s) /\ Exists(i)
  /\ Undisturbed(s, {i})
  /\ job' = [job EXCEPT ![s] = [Idle EXCEPT !.step = "extract", !.at = i]]
  /\ UNCHANGED <<stmt, disk, lines, profile, ledger>>

Extractable == {i \in Id : /\ Exists(i) /\ stmt[i].unlocked
                           /\ stmt[i].status \in {"READY_FOR_EXTRACTION", "VALIDATED", "REVIEW_REQUIRED"}}

BatchExtract(s) ==
  /\ Free(s)
  /\ Extractable # {} /\ Undisturbed(s, Extractable)
  /\ job' = [job EXCEPT ![s] = Continue([Idle EXCEPT !.work = Extractable])]
  /\ UNCHANGED <<stmt, disk, lines, profile, ledger>>

\* The statement at hand: the one just made ready, or the next of a batch.
AtHand(s) == IF job[s].at # None THEN {job[s].at} ELSE job[s].work
Taken(s, i) == [job[s] EXCEPT !.at = i, !.work = @ \ {i}]

\* Mutant: any file of the statement will do.
HasFile(i) == disk[i] # {}
Readable(i) == stmt[i].unlocked /\ "unlocked" \in disk[i]

BeginExtraction(s) ==
  /\ At(s, "extract")
  /\ \E i \in AtHand(s) :
       /\ stmt' = [stmt EXCEPT ![i].status = IF Readable(i) THEN "EXTRACTING" ELSE "EXTRACTION_FAILED"]
       /\ job' = [job EXCEPT ![s] = IF Readable(i) THEN [Taken(s, i) EXCEPT !.step = "parse"]
                                    ELSE Continue(Taken(s, i))]
  /\ UNCHANGED <<disk, lines, profile, ledger, spent>>

\* The PDF cannot be read: the lines of an earlier extraction stay.
ParserRaises(s) ==
  /\ At(s, "parse")
  /\ stmt' = [stmt EXCEPT ![job[s].at].status = "EXTRACTION_FAILED"]
  /\ job' = [job EXCEPT ![s] = Continue(@)]
  /\ UNCHANGED <<disk, lines, profile, ledger, spent>>

\* The statement is parsed and the children to be cleared are loaded.
Parse(s) ==
  /\ At(s, "parse")
  /\ job' = [job EXCEPT ![s].step = "publish", ![s].old = lines[job[s].at]]
  /\ UNCHANGED <<stmt, disk, lines, profile, ledger, spent>>

Unmatched == [status |-> "UNMATCHED", tx |-> None, sure |-> FALSE, mark |-> "auto"]

\* match_statement_transaction: what amounts, dates and wording make of line l among these
\* entries. They may propose or accept any entry, another purchase's too, or none; a shared
\* reference number is the only certain match. Two matchings of a line need not agree: more
\* than the code does, as its scores are not modelled.
Matches(l, entries) ==
  {Unmatched}
    \cup [status : {"MATCHED", "POSSIBLE_MATCH", "LIABILITY_PAYMENT"}, tx : entries, sure : {FALSE}, mark : {"auto"}]
    \cup [status : {"MATCHED"}, tx : {e \in entries : e.line = l /\ l \in Referenced}, sure : {TRUE}, mark : {"auto"}]
Matchings(L, entries) ==
  {m \in [L -> UNION {Matches(l, entries) : l \in L}] : \A l \in L : m[l] \in Matches(l, entries)}

InUse(i) == {r.tag : r \in lines[i] \cup UNION {job[z].old : z \in {z \in Sess : job[z] # None}}}
FreshTag(i) == CHOOSE t \in 1..(Cardinality(InUse(i)) + 1) : t \notin InUse(i)

\* Mutant: the report is stored as the status.
ReportAsVerdict(i) == ReadsAs[stmt[i].pdf]
Verdict(i) == IF ReadsAs[stmt[i].pdf] = "VALIDATED" THEN "VALIDATED" ELSE "REVIEW_REQUIRED"

Extracted(i, L, m) == {[line |-> l, tag |-> FreshTag(i), match |-> m[l]] : l \in L}
SameLine(r, o) == r.line = o.line /\ r.tag = o.tag

\* Mutant: the earlier lines are not cleared.
ReplacedNothing(s, i, L, m) == lines[i] \cup Extracted(i, L, m)
Replaced(s, i, L, m) == {r \in lines[i] : \A o \in job[s].old : ~SameLine(r, o)} \cup Extracted(i, L, m)

\* Earlier lines are deleted, the new ones inserted, validated and matched: one commit,
\* which is also the last when there are no lines to match.
PublishLines(s) ==
  /\ At(s, "publish")
  /\ LET i    == job[s].at
         L    == LinesOf[stmt[i].pdf]
         last == L = {}
     IN /\ \E m \in Matchings(L, ledger) : lines' = [lines EXCEPT ![i] = Replaced(s, i, L, m)]
        /\ stmt' = [stmt EXCEPT ![i].report = ReadsAs[stmt[i].pdf],
                                ![i].status = IF last THEN Verdict(i) ELSE @]
        /\ job' = [job EXCEPT ![s] = IF last THEN Continue(@) ELSE [@ EXCEPT !.step = "verdict", !.old = {}]]
  /\ UNCHANGED <<disk, profile, ledger, spent>>

\* Something raises later on. What was written until then is committed: some of the new
\* lines for the earlier ones, the report if the validator got that far; or all of it, when
\* only the verdict was missing.
ExtractionRaises(s) ==
  /\ \/ /\ At(s, "publish")
        /\ LET i == job[s].at
               all == LinesOf[stmt[i].pdf]
           IN \E L \in SUBSET all, report \in {stmt[i].report, ReadsAs[stmt[i].pdf]} :
                /\ report # stmt[i].report => L = all
                /\ \E m \in Matchings(L, ledger) : lines' = [lines EXCEPT ![i] = Replaced(s, i, L, m)]
                /\ stmt' = [stmt EXCEPT ![i].status = "EXTRACTION_FAILED", ![i].report = report]
     \/ /\ At(s, "verdict")
        /\ stmt' = [stmt EXCEPT ![job[s].at].status = "EXTRACTION_FAILED"]
        /\ UNCHANGED lines
  /\ job' = [job EXCEPT ![s] = Continue(@)]
  /\ UNCHANGED <<disk, profile, ledger, spent>>

Conclude(s) ==
  /\ At(s, "verdict")
  /\ stmt' = [stmt EXCEPT ![job[s].at].status = Verdict(job[s].at)]
  /\ job' = [job EXCEPT ![s] = Continue(@)]
  /\ UNCHANGED <<disk, lines, profile, ledger, spent>>

-----------------------------------------------------------------------------
(* Lines and the ledger.                                                   *)

\* "Preserve manual user confirmations": what reconciliation passes over. Mutant: not rejections.
DecidedConfirmed(m) == m.status = "MATCHED" /\ (m.sure \/ m.mark \in {"confirmed", "imported"})
Decided(m) == \/ m.status = "MATCHED" /\ (m.sure \/ m.mark \in {"confirmed", "imported"})
              \/ m.status = "UNMATCHED" /\ m.mark = "rejected"

\* reconcile_statement_in_db: read lines and ledger ...
StartReconcile(s, i) ==
  /\ Free(s) /\ Exists(i) /\ lines[i] # {}
  /\ Undisturbed(s, {i})
  /\ job' = [job EXCEPT ![s] = [Idle EXCEPT !.step = "reconcile", !.at = i, !.old = lines[i], !.seen = ledger]]
  /\ UNCHANGED <<stmt, disk, lines, profile, ledger>>

\* An UPDATE writes the columns whose new value differs from the one read.
Column(now, read, new) == IF new = read THEN now ELSE new
Merged(now, read, new) ==
  [status |-> Column(now.status, read.status, new.status), tx |-> Column(now.tx, read.tx, new.tx),
   sure |-> Column(now.sure, read.sure, new.sure), mark |-> Column(now.mark, read.mark, new.mark)]

Rematched(s, r, m) ==
  LET read == {o \in job[s].old : SameLine(r, o) /\ ~Decided(o.match)} IN
  IF read = {} THEN r
  ELSE LET o == CHOOSE o \in read : TRUE
       IN [r EXCEPT !.match = Merged(@, o.match, m[r.line])]

\* ... and commit what changed; a line deleted meanwhile fails the whole commit.
Reconcile(s) ==
  /\ At(s, "reconcile")
  /\ \E m \in Matchings({o.line : o \in job[s].old}, job[s].seen) :
       LET i    == job[s].at
           gone == {o \in job[s].old : /\ ~Decided(o.match) /\ m[o.line] # o.match
                                       /\ \A r \in lines[i] : ~SameLine(r, o)}
       IN lines' = IF gone # {} THEN lines ELSE [lines EXCEPT ![i] = {Rematched(s, r, m) : r \in @}]
  /\ job' = [job EXCEPT ![s] = Continue(@)]
  /\ UNCHANGED <<stmt, disk, profile, ledger, spent>>

\* The user decides; with Quiet "lines" not while a request works on the statement.
Decides(i) ==
  /\ spent.decisions < MaxDecisions
  /\ \A s \in Sess : i \in Holds(s) => "lines" \notin Quiet
  /\ spent' = [spent EXCEPT !.decisions = @ + 1]

SetMatch(i, r, m) == lines' = [lines EXCEPT ![i] = (@ \ {r}) \cup {[r EXCEPT !.match = m]}]

\* The user confirms a match (with this entry or the one proposed) or rejects it, in
\* words the reconciliation knows or in others.
DecideLine(i, r) ==
  /\ Decides(i)
  /\ \/ \E e \in ledger \cup {r.match.tx} :
          SetMatch(i, r, [status |-> "MATCHED", tx |-> e, sure |-> TRUE, mark |-> "confirmed"])
     \/ \E mark \in {"rejected", "other"} :
          SetMatch(i, r, [status |-> "UNMATCHED", tx |-> None, sure |-> FALSE, mark |-> mark])
     \/ SetMatch(i, r, [r.match EXCEPT !.status = "POSSIBLE_MATCH"])
  /\ UNCHANGED <<stmt, disk, profile, ledger, job>>

Imports(l) == {e \in ledger : e.line = l /\ e.kind = "import"}

\* A new ledger row for the line, whatever its match is.
ImportLine(i, r) ==
  /\ Decides(i)
  /\ LET e == [line |-> r.line, kind |-> "import", n |-> Cardinality(Imports(r.line)) + 1]
     IN /\ ledger' = ledger \cup {e}
        /\ SetMatch(i, r, [status |-> "MATCHED", tx |-> e, sure |-> TRUE, mark |-> "imported"])
  /\ UNCHANGED <<stmt, disk, profile, job>>

\* scan_gmail_for_upi_rrn: a mail with the line's reference is looked for and stored as
\* ingestion would; its row is the match. Nothing changes when there is none to read.
ScanGmail(i, r) ==
  /\ Decides(i) /\ r.line \in Referenced
  /\ LET e == [line |-> r.line, kind |-> "alert", n |-> 1]
     IN /\ ledger' = ledger \cup {e}
        /\ SetMatch(i, r, [status |-> "MATCHED", tx |-> e, sure |-> TRUE, mark |-> "auto"])
  /\ UNCHANGED <<stmt, disk, profile, job>>

-----------------------------------------------------------------------------
(* Environment.                                                            *)

\* Ingestion reads the bank's alert about a purchase.
AlertArrives(l) ==
  LET e == [line |-> l, kind |-> "alert", n |-> 1] IN
  /\ e \notin ledger
  /\ ledger' = ledger \cup {e}
  /\ UNCHANGED <<stmt, disk, lines, profile, job, spent>>

\* A kill, or a commit that finds the database busy: the request ends where it is.
Interrupt(s) ==
  /\ job[s] # None /\ Fault("kills")
  /\ job' = [job EXCEPT ![s] = None]
  /\ UNCHANGED <<stmt, disk, lines, profile, ledger>>

\* Files go missing (moved by hand, or a backup restored without them).
LoseFile(i) ==
  /\ Fault("losses")
  /\ \E f \in disk[i] : disk' = [disk EXCEPT ![i] = @ \ {f}]
  /\ UNCHANGED <<stmt, lines, profile, ledger, job>>

-----------------------------------------------------------------------------
Advance(s) ==
  \/ CheckSource(s) \/ Download(s) \/ StoreCandidate(s) \/ AssignAccount(s)
  \/ SaveProfile(s) \/ Reprocess(s)
  \/ BeginExtraction(s) \/ ParserRaises(s) \/ Parse(s) \/ PublishLines(s) \/ ExtractionRaises(s)
  \/ Conclude(s) \/ Reconcile(s)

Next ==
  \/ \E s \in Sess :
       \/ DiscoverStatements(s) \/ UploadStatement(s) \/ StartProfile(s) \/ BatchExtract(s)
       \/ Advance(s) \/ DownloadFails(s) \/ Interrupt(s)
  \/ \E s \in Sess, i \in Id : UnlockManually(s, i) \/ ReExtract(s, i) \/ StartReconcile(s, i)
  \/ \E i \in Id : LoseFile(i)
  \/ \E i \in Id : \E r \in lines[i] : DecideLine(i, r) \/ ImportLine(i, r) \/ ScanGmail(i, r)
  \/ \E l \in Line : AlertArrives(l)

Spec == Init /\ [][Next]_vars

\* Requests run to their end.
FairSpec == Spec /\ \A s \in Sess : WF_vars(Advance(s))

-----------------------------------------------------------------------------
(* Properties.                                                             *)

\* However often and in whatever form a mail is found and a file uploaded, an attachment
\* and a content have at most one statement (checks A and B of ingest_candidate), as long
\* as one request ingests at a time.
OneStatementPerSource ==
  \A i, k \in Id : Exists(i) /\ Exists(k) /\ i # k =>
    ~(stmt[i].src = stmt[k].src /\ stmt[i].src # None) /\ ~(stmt[i].pdf = stmt[k].pdf /\ stmt[i].pdf # None)

\* A statement shown as VALIDATED was found so by the validator, and has each purchase of its
\* content exactly once, whatever re-extractions, unlocks and kills came before.
VerdictEvidenced ==
  \A i \in Id : Exists(i) /\ stmt[i].status = "VALIDATED" =>
    /\ stmt[i].report = "VALIDATED" /\ stmt[i].unlocked
    /\ {r.line : r \in lines[i]} = LinesOf[stmt[i].pdf]
    /\ \A r, o \in lines[i] : r.line = o.line => r = o

LockedIds == {i \in Id : Exists(i) /\ stmt[i].status \in Locked}

\* A statement that waits for a password has not been opened: it has no unlocked copy and no
\* lines, so that a new password can neither hide nor double what was read.
LockedIsLocked == \A i \in LockedIds : ~stmt[i].unlocked /\ lines[i] = {}

Settled(m) == \/ m.status = "MATCHED" /\ m.mark \in {"confirmed", "imported"}
              \/ m.status = "UNMATCHED" /\ m.mark = "rejected"

\* "Preserve manual user confirmations and imported ledger entries" (reconcile_statement_in_db):
\* a request leaves what the user decided about a line alone, unless it extracts the lines anew.
DecisionsKept ==
  [][job' # job => \A i \in Id : \A r \in lines[i] :
       Settled(r.match) /\ (\E q \in lines'[i] : SameLine(q, r))
         => r \in lines'[i]]_vars

\* A profile is being saved that holds the password of i.
KeyComes(i) ==
  \E s \in Sess : /\ At(s, "profile") /\ i \in LockedIds /\ stmt[i].account = job[s].account
                  /\ "original" \in disk[i] /\ KeyOf[stmt[i].pdf] \in Yields(job[s].config)

\* Saving a profile that holds a statement's password opens the statement: whichever way the
\* password had been asked for, unless its file is gone, another profile saved after this one
\* or the server killed.
SavedKeyOpens ==
  \A i \in Id :
    KeyComes(i) ~> \/ i \notin LockedIds \/ "original" \notin disk[i] \/ spent.kills > 0
                   \/ KeyOf[stmt[i].pdf] \notin Passwords(stmt[i].account) /\ ~KeyComes(i)

\* The vault implements its promise: readings only of opened statements, verdicts only on readings.
Lifecycle == INSTANCE StatementLifecycle WITH
  Statements <- Id,
  open    <- {i \in Id : Exists(i) /\ stmt[i].unlocked},
  reading <- {i \in Id : Exists(i) /\ stmt[i].status = "EXTRACTING"},
  judged  <- {i \in Id : Exists(i) /\ stmt[i].status \in {"VALIDATED", "REVIEW_REQUIRED"}}
Implements == Lifecycle!Spec

=============================================================================
