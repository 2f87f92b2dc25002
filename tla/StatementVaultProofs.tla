------------------------ MODULE StatementVaultProofs ------------------------
(***************************************************************************)
(* The vault keeps its types; and, when no two requests work on the same   *)
(* statement, what waits for a password was never opened, a verdict has    *)
(* the evidence for it, and the vault implements its promised lifecycle.   *)
(*                                                                         *)
(* The argument has two layers. Sound and RowSound hold whatever runs at   *)
(* the same time, since a statement, its content and its being open are    *)
(* never taken back. Apart says that sessions hold disjoint statements; on *)
(* it rests Phase, what a session may rely on between two of its commits.  *)
(* Both are about one job and are given the statements and lines as        *)
(* parameters, so that a lemma about them can be used before and after a   *)
(* step.                                                                   *)
(***************************************************************************)
EXTENDS StatementVault, FiniteSetTheorems, TLAPS

-----------------------------------------------------------------------------
(* What holds whatever runs at the same time.                              *)

\* What was opened or asked for a password has a content.
RowSound(r) == r # None => (r.unlocked \/ r.status \in Locked => r.pdf # None)

\* A job knows only statements that exist, and has at each step what the step uses.
Sound(j, st) ==
  /\ \A i \in j.work : st[i] # None /\ (j.again = "reprocess" => st[i].pdf # None)
  /\ j.at # None => st[j.at] # None
  /\ j.step = "reprocess" => j.again = "reprocess"
  /\ j.step \in {"fetch", "store", "assign"} => j.cand # None
  /\ j.step \in {"check", "profile", "reprocess", "reconcile"} => j.cand = None
  /\ j.step \in {"assign", "parse", "publish", "verdict", "reconcile"} => j.at # None
  /\ j.step \in {"parse", "publish", "verdict"} => st[j.at].unlocked
  /\ j.step = "assign" => j.cand.given # None
  /\ j.step = "profile" => j.account # None /\ j.config # None /\ j.mails = {}
  /\ j.cand # None => j.step \in {"fetch", "store"} \/ j.at # None
  /\ j.cand # None \/ j.mails # {} => j.work = {}
  /\ IsFiniteSet(j.old)

\* A line is known by its row's tag.
Distinct(S) == \A r, o \in S : SameLine(r, o) => r = o

RowsSound  == \A i \in Id : RowSound(stmt[i])
JobsSound  == \A s \in Sess : job[s] # None => Sound(job[s], stmt)
LinesSound == \A i \in Id : /\ IsFiniteSet(lines[i]) /\ Distinct(lines[i])
                            /\ lines[i] # {} => Exists(i)
Imported   == {e \in ledger : e.kind = "import"}

Inv == TypeOK /\ RowsSound /\ JobsSound /\ LinesSound /\ IsFiniteSet(Imported)

-----------------------------------------------------------------------------
(* What holds when no two requests work on the same statement.             *)

Apart == \A s, z \in Sess : s # z =>
           /\ Holds(s) \cap Holds(z) = {}
           /\ At(s, "profile") /\ At(z, "profile") => job[s].account # job[z].account

\* The purchases of the content, each once.
Exact(S, p) == {r.line : r \in S} = LinesOf[p] /\ \A r, o \in S : r.line = o.line => r = o

\* What a session may rely on at its next step.
Phase(j, st, ls) ==
  /\ j.step \in {"parse", "publish", "verdict"} => st[j.at].status = "EXTRACTING"
  /\ j.step = "publish" => \A r \in ls[j.at] : \E o \in j.old : SameLine(r, o)
  /\ j.step = "verdict" => st[j.at].report = ReadsAs[st[j.at].pdf] /\ Exact(ls[j.at], st[j.at].pdf)
  /\ j.again = "reprocess" => \A i \in j.work : st[i].status \in Locked

\* LockedIsLocked and VerdictEvidenced of one statement.
Closed(r, S)    == r # None /\ r.status \in Locked => ~r.unlocked /\ S = {}
Evidenced(r, S) == r # None /\ r.status = "VALIDATED" =>
                     r.report = "VALIDATED" /\ r.unlocked /\ Exact(S, r.pdf)

Phases == \A s \in Sess : job[s] # None => Phase(job[s], stmt, lines)
Judged == \A i \in Id : Closed(stmt[i], lines[i]) /\ Evidenced(stmt[i], lines[i])

InvApart == Apart /\ Phases /\ Judged

\* Reconciliation has read the lines as they are, when the user does not decide meanwhile either.
ReadCurrent == \A s \in Sess : At(s, "reconcile") => job[s].old = lines[job[s].at]

\* The ingesting session, if there is one, has not found its candidate among the statements.
Alone == \A s, z \in Sess : Ingesting(s) /\ Ingesting(z) => s = z
Novel == \A s \in Sess : /\ At(s, "fetch") \/ At(s, "store") => ~Known(job[s].cand)
                         /\ At(s, "store") => Stored(job[s].cand.pdf) = {}
InvIngest == Alone /\ Novel /\ OneStatementPerSource

-----------------------------------------------------------------------------
(* Jobs.                                                                   *)

\* Statements, their contents and their being open are never taken back.
Grows == \A i \in Id : stmt[i] # None => /\ stmt'[i] # None
                                         /\ stmt[i].pdf # None => stmt'[i].pdf # None
                                         /\ stmt[i].unlocked => stmt'[i].unlocked

\* A request that goes on is sound if it knew what it worked on.
LEMMA ContinueSound ==
  ASSUME NEW st, NEW j \in Job,
         \A i \in j.work : st[i] # None /\ (j.again = "reprocess" => st[i].pdf # None),
         j.at # None => st[j.at] # None,
         j.cand # None => j.at # None,
         j.cand # None \/ j.mails # {} => j.work = {}
  PROVE  /\ Continue(j) \in Job \cup {None}
         /\ Continue(j) # None => Sound(Continue(j), st)
<1> DEFINE rest == [j EXCEPT !.cand = None, !.at = None, !.old = {}, !.seen = {}]
<1>1. CASE j.cand # None /\ j.cand.given # None
  <2>1. Continue(j) = [j EXCEPT !.step = "assign", !.old = {}]
    BY <1>1 DEF Continue
  <2>2. [j EXCEPT !.step = "assign", !.old = {}] \in Job
    BY DEF Job, Step
  <2>3. Sound([j EXCEPT !.step = "assign", !.old = {}], st)
    BY <1>1, FS_EmptySet DEF Sound, Job
  <2> QED BY <2>1, <2>2, <2>3
<1>2. CASE ~(j.cand # None /\ j.cand.given # None) /\ j.mails # {}
  <2>1. Continue(j) = [rest EXCEPT !.step = "check"]
    BY <1>2 DEF Continue
  <2>2. [rest EXCEPT !.step = "check"] \in Job
    BY DEF Job, Step
  <2>3. Sound([rest EXCEPT !.step = "check"], st)
    BY <1>2, FS_EmptySet DEF Sound, Job
  <2> QED BY <2>1, <2>2, <2>3
<1>3. CASE ~(j.cand # None /\ j.cand.given # None) /\ j.mails = {} /\ j.work # {}
  <2>1. Continue(j) = [rest EXCEPT !.step = j.again]
    BY <1>3 DEF Continue
  <2>2. [rest EXCEPT !.step = j.again] \in Job
    BY DEF Job, Step
  <2>3. Sound([rest EXCEPT !.step = j.again], st)
    BY <1>3, FS_EmptySet DEF Sound, Job
  <2> QED BY <2>1, <2>2, <2>3
<1>4. CASE ~(j.cand # None /\ j.cand.given # None) /\ j.mails = {} /\ j.work = {}
  BY <1>4 DEF Continue
<1> QED BY <1>1, <1>2, <1>3, <1>4

\* What a job knew, it knows when statements have grown.
LEMMA SoundGrows ==
  ASSUME Grows, NEW j \in Job, Sound(j, stmt), j.at \in Id \cup {None}, j.work \subseteq Id
  PROVE  Sound(j, stmt')
BY DEF Grows, Sound

\* A step of session s that leaves it with job j leaves all jobs sound.
LEMMA JobsFrame ==
  ASSUME Inv, Grows, NEW s \in Sess, NEW j \in Job \cup {None}, j # None => Sound(j, stmt'),
         job' = [job EXCEPT ![s] = j]
  PROVE  job' \in [Sess -> Job \cup {None}] /\ JobsSound'
<1>1. job' \in [Sess -> Job \cup {None}]
  BY DEF Inv, TypeOK
<1>2. ASSUME NEW z \in Sess, job'[z] # None PROVE Sound(job'[z], stmt')
  <2>1. CASE z = s
    BY <1>2, <2>1 DEF Inv, TypeOK
  <2>2. CASE z # s
    <3>1. job'[z] = job[z] /\ job[z] \in Job
      BY <1>2, <2>2 DEF Inv, TypeOK
    <3>2. job[z].at \in Id \cup {None} /\ job[z].work \subseteq Id
      BY <3>1 DEF Job
    <3>3. Sound(job[z], stmt)
      BY <1>2, <3>1 DEF Inv, JobsSound
    <3> QED BY <3>1, <3>2, <3>3, SoundGrows
  <2> QED BY <2>1, <2>2
<1> QED BY <1>1, <1>2 DEF JobsSound

\* Also when no job moves.
LEMMA JobsStay ==
  ASSUME Inv, Grows, job' = job
  PROVE  JobsSound'
<1> SUFFICES ASSUME NEW z \in Sess, job[z] # None PROVE Sound(job[z], stmt')
  BY DEF JobsSound
<1>1. job[z] \in Job
  BY DEF Inv, TypeOK
<1>2. job[z].at \in Id \cup {None} /\ job[z].work \subseteq Id
  BY <1>1 DEF Job
<1> QED BY <1>1, <1>2, SoundGrows DEF Inv, JobsSound

LEMMA IdleJob == Idle \in Job
BY DEF Idle, Job, Step

-----------------------------------------------------------------------------
(* Rows.                                                                   *)

\* What processing makes of a row: it grows, it is open if it was or is now ready, and what
\* waits for a password has its content.
LEMMA ProcessedRow ==
  ASSUME NEW r \in Statement, RowSound(r), NEW p \in Pdf,
         NEW q, q = Processed(r, p)
  PROVE  /\ q \in Statement /\ q # None /\ RowSound(q)
         /\ q.src = r.src /\ q.report = r.report
         /\ q.pdf = p \/ (q.pdf = r.pdf /\ q.status = "INVALID_PDF")
         /\ q.unlocked <=> r.unlocked \/ q.status = "READY_FOR_EXTRACTION"
         /\ q.status \in Locked \cup {"INVALID_PDF", "READY_FOR_EXTRACTION"}
         /\ q.status # "READY_FOR_EXTRACTION" => q.account = r.account
<1> DEFINE o == Outcome(p, Passwords(r.account))
<1>1. o \in Locked \cup {"INVALID_PDF", "READY_FOR_EXTRACTION"}
  BY DEF Outcome, Locked
<1>2. CardIn[p] \in Account \cup {None}
  BY ConstantsAssumption
<1>3. q = [r EXCEPT !.status = o, !.unlocked = @ \/ o = "READY_FOR_EXTRACTION",
                    !.pdf = IF o = "INVALID_PDF" THEN @ ELSE p,
                    !.account = IF o = "READY_FOR_EXTRACTION" /\ KindOf[p] = "locked" /\ CardIn[p] # None
                                THEN CardIn[p] ELSE @]
  BY DEF Processed
<1> HIDE DEF o
<1>4. q \in Statement
  BY <1>1, <1>2, <1>3 DEF Statement, Status
<1>5. /\ q.status = o /\ (q.unlocked <=> r.unlocked \/ o = "READY_FOR_EXTRACTION")
      /\ q.pdf = (IF o = "INVALID_PDF" THEN r.pdf ELSE p)
      /\ q.src = r.src /\ q.report = r.report
      /\ o # "READY_FOR_EXTRACTION" => q.account = r.account
  BY <1>3 DEF Statement
<1>6. RowSound(q)
  <2>1. r # None /\ None \notin Pdf
    BY NoneAssumption
  <2> QED BY <1>1, <1>5, <2>1 DEF RowSound, Locked
<1> QED BY <1>1, <1>4, <1>5, <1>6, NoneAssumption

\* What a function yields on a finite set is finite.
LEMMA ImageFinite ==
  ASSUME NEW S, IsFiniteSet(S), NEW f
  PROVE  IsFiniteSet({f[x] : x \in S})
<1> DEFINE T == {f[x] : x \in S}
           g == [x \in S |-> f[x]]
<1>1. g \in Surjection(S, T)
  BY DEF Surjection
<1> QED BY <1>1, FS_Surjection

\* A new tag is a tag nobody uses.
LEMMA FreshTagNew ==
  ASSUME NEW i \in Id, IsFiniteSet(InUse(i))
  PROVE  FreshTag(i) \in Tag /\ FreshTag(i) \notin InUse(i)
<1> DEFINE n == Cardinality(InUse(i))
<1>1. n \in Nat
  BY FS_CardinalityType
<1>2. \E t \in 1..(n + 1) : t \notin InUse(i)
  <2> SUFFICES ASSUME \A t \in 1..(n + 1) : t \in InUse(i) PROVE FALSE
    OBVIOUS
  <2>1. 1..(n + 1) \subseteq InUse(i)
    OBVIOUS
  <2>2. Cardinality(1..(n + 1)) <= n
    BY <2>1, FS_Subset
  <2>3. Cardinality(1..(n + 1)) = n + 1
    BY <1>1, FS_Interval
  <2> QED BY <1>1, <2>2, <2>3
<1>3. FreshTag(i) \in 1..(n + 1) /\ FreshTag(i) \notin InUse(i)
  BY <1>2 DEF FreshTag
<1> QED BY <1>1, <1>3 DEF Tag

LEMMA InUseFinite ==
  ASSUME Inv, NEW i \in Id
  PROVE  IsFiniteSet(InUse(i))
<1> DEFINE Busy == {z \in Sess : job[z] # None}
           Olds == {job[z].old : z \in Busy}
<1>1. IsFiniteSet(Busy)
  BY ConstantsAssumption, FS_Subset
<1>2. IsFiniteSet(Olds)
  <2> DEFINE f == [z \in Busy |-> job[z].old]
  <2>1. Olds = {f[z] : z \in Busy}
    OBVIOUS
  <2> HIDE DEF Busy, Olds, f
  <2> QED BY <1>1, <2>1, ImageFinite
<1>3. \A S \in Olds : IsFiniteSet(S)
  BY DEF Inv, JobsSound, Sound
<1>4. IsFiniteSet(UNION Olds)
  BY <1>2, <1>3, FS_UNION
<1>5. IsFiniteSet(lines[i] \cup UNION Olds)
  BY <1>4, FS_Union DEF Inv, LinesSound
<1>6. InUse(i) = {r.tag : r \in lines[i] \cup UNION Olds}
  BY DEF InUse
<1> DEFINE Rows == lines[i] \cup UNION Olds
           tags == [r \in Rows |-> r.tag]
<1>7. InUse(i) = {tags[r] : r \in Rows}
  BY <1>6
<1> HIDE DEF Rows, tags
<1>8. IsFiniteSet(Rows)
  BY <1>5 DEF Rows
<1> QED BY <1>7, <1>8, ImageFinite

\* What a matching makes of the lines.
LEMMA MatchingsType ==
  ASSUME NEW L \in SUBSET Line, NEW E \in SUBSET Entry, NEW m \in Matchings(L, E)
  PROVE  m \in [L -> Match]
<1>1. ASSUME NEW l \in L, NEW c \in Matches(l, E) PROVE c \in Match
  <2>1. CASE c = Unmatched
    BY <2>1 DEF Unmatched, Match
  <2>2. CASE c \in [status : {"MATCHED", "POSSIBLE_MATCH", "LIABILITY_PAYMENT"}, tx : E, sure : {FALSE},
                    mark : {"auto"}]
    BY <2>2 DEF Match
  <2>3. CASE c \in [status : {"MATCHED"}, tx : {e \in E : e.line = l /\ l \in Referenced}, sure : {TRUE},
                    mark : {"auto"}]
    BY <2>3 DEF Match
  <2> QED BY <1>1, <2>1, <2>2, <2>3 DEF Matches
<1>2. \A l \in L : m[l] \in Matches(l, E)
  BY DEF Matchings
<1>3. m \in [L -> UNION {Matches(l, E) : l \in L}]
  BY DEF Matchings
<1> QED BY <1>1, <1>2, <1>3

\* Rows of the same lines, each with the match something makes of it.
Rewrites(T, S) == \E m \in [S -> Match] : T = {[r EXCEPT !.match = m[r]] : r \in S}

LEMMA RewrittenRows ==
  ASSUME NEW S \in SUBSET LineRow, NEW T, Rewrites(T, S)
  PROVE  /\ T \in SUBSET LineRow
         /\ IsFiniteSet(S) => IsFiniteSet(T)
         /\ Distinct(S) => Distinct(T)
         /\ \A p : Exact(S, p) => Exact(T, p)
         /\ \A r \in S : \E t \in T : SameLine(t, r)
         /\ \A t \in T : \E r \in S : SameLine(t, r)
         /\ T = {} <=> S = {}
<1>1. PICK m \in [S -> Match] : T = {[r EXCEPT !.match = m[r]] : r \in S}
  BY DEF Rewrites
<1> DEFINE new == [r \in S |-> [r EXCEPT !.match = m[r]]]
<1>2. \A r \in S : new[r] \in LineRow /\ new[r].line = r.line /\ new[r].tag = r.tag
  BY DEF LineRow
<1>3. T = {new[r] : r \in S}
  BY <1>1
<1> HIDE DEF new
<1>4. IsFiniteSet(S) => IsFiniteSet(T)
  BY <1>3, ImageFinite
<1>5. T \in SUBSET LineRow /\ (T = {} <=> S = {})
  BY <1>2, <1>3
<1>6. /\ \A r \in S : \E t \in T : SameLine(t, r)
      /\ \A t \in T : \E r \in S : SameLine(t, r)
  BY <1>2, <1>3 DEF SameLine
<1>7. Distinct(S) => Distinct(T)
  BY <1>2, <1>3 DEF Distinct, SameLine
<1>8. ASSUME NEW p, Exact(S, p) PROVE Exact(T, p)
  <2>1. {t.line : t \in T} = {r.line : r \in S}
    BY <1>2, <1>3
  <2>2. \A t, u \in T : t.line = u.line => t = u
    BY <1>2, <1>3, <1>8 DEF Exact
  <2> QED BY <1>8, <2>1, <2>2 DEF Exact
<1> QED BY <1>4, <1>5, <1>6, <1>7, <1>8

-----------------------------------------------------------------------------
(* Steps that hold whatever runs at the same time.                         *)

Spent == [requests : 0..MaxRequests, decisions : 0..MaxDecisions, kills : 0..MaxFaults,
          losses : 0..MaxFaults]

LEMMA JobAt ==
  ASSUME Inv, NEW s \in Sess, job[s] # None
  PROVE  job[s] \in Job /\ Sound(job[s], stmt)
BY DEF Inv, TypeOK, JobsSound

\* A statement that is written stays what it was, or is new.
LEMMA StmtFrame ==
  ASSUME Inv, NEW i \in Id, NEW q \in Statement, RowSound(q), stmt' = [stmt EXCEPT ![i] = q],
         stmt[i] # None => /\ stmt[i].pdf # None => q.pdf # None
                           /\ stmt[i].unlocked => q.unlocked
  PROVE  stmt' \in [Id -> Statement \cup {None}] /\ Grows /\ RowsSound' /\ stmt'[i] = q /\ q # None
<1>1. q # None
  BY NoneAssumption
<1>2. stmt' \in [Id -> Statement \cup {None}] /\ stmt'[i] = q
  BY DEF Inv, TypeOK
<1>3. \A k \in Id \ {i} : stmt'[k] = stmt[k]
  BY DEF Inv, TypeOK
<1>4. Grows
  BY <1>1, <1>2, <1>3 DEF Grows
<1>5. RowsSound'
  BY <1>2, <1>3 DEF RowsSound, RowSound, Inv
<1> QED BY <1>1, <1>2, <1>4, <1>5

LEMMA StmtStays ==
  ASSUME Inv, stmt' = stmt
  PROVE  stmt' \in [Id -> Statement \cup {None}] /\ Grows /\ RowsSound'
BY DEF Inv, TypeOK, Grows, RowsSound

\* A step of a session that writes neither lines nor ledger.
LEMMA InvFrame ==
  ASSUME Inv, Grows, stmt' \in [Id -> Statement \cup {None}], RowsSound',
         NEW s \in Sess, NEW j \in Job \cup {None}, j # None => Sound(j, stmt'),
         job' = [job EXCEPT ![s] = j],
         disk' \in [Id -> SUBSET File], profile' \in [Account -> Profile \cup {None}],
         spent' \in Spent, UNCHANGED <<lines, ledger>>
  PROVE  Inv'
<1>1. job' \in [Sess -> Job \cup {None}] /\ JobsSound'
  BY JobsFrame
<1>2. TypeOK'
  BY <1>1 DEF Inv, TypeOK, Spent
<1>3. LinesSound' /\ IsFiniteSet(Imported)'
  BY DEF Inv, LinesSound, Grows, Exists, Imported
<1> QED BY <1>1, <1>2, <1>3 DEF Inv

LEMMA RestStays ==
  ASSUME Inv
  PROVE  /\ disk \in [Id -> SUBSET File] /\ profile \in [Account -> Profile \cup {None}]
         /\ spent \in Spent
         /\ \A s \in Sess : Free(s) => spent' \in Spent
         /\ Fault("kills") => spent' \in Spent
         /\ Fault("losses") => spent' \in Spent
<1>1. disk \in [Id -> SUBSET File] /\ profile \in [Account -> Profile \cup {None}] /\ spent \in Spent
  BY DEF Inv, TypeOK, Spent
<1>2. ASSUME NEW s \in Sess, Free(s) PROVE spent' \in Spent
  BY <1>1, <1>2, ConstantsAssumption DEF Free, Spent
<1>3. ASSUME Fault("kills") PROVE spent' \in Spent
  BY <1>1, <1>3, ConstantsAssumption DEF Fault, Spent
<1>4. ASSUME Fault("losses") PROVE spent' \in Spent
  BY <1>1, <1>4, ConstantsAssumption DEF Fault, Spent
<1> QED BY <1>1, <1>2, <1>3, <1>4

LEMMA InvInit == Init => Inv
<1> SUFFICES ASSUME Init PROVE Inv
  OBVIOUS
<1>1. TypeOK
  BY ConstantsAssumption DEF Init, TypeOK
<1>2. RowsSound /\ JobsSound
  BY DEF Init, RowsSound, RowSound, JobsSound
<1>3. LinesSound /\ IsFiniteSet(Imported)
  BY FS_EmptySet DEF Init, LinesSound, Distinct, Imported
<1> QED BY <1>1, <1>2, <1>3 DEF Inv

LEMMA InvStartIngest ==
  ASSUME Inv, NEW s \in Sess, NEW cands \in SUBSET Candidate, StartIngest(s, cands)
  PROVE  Inv'
<1> DEFINE j == [Idle EXCEPT !.mails = cands]
<1>1. j \in Job
  BY IdleJob DEF Job
<1>2. Sound(j, stmt')
  BY FS_EmptySet DEF Idle, Sound
<1>3. job' = [job EXCEPT ![s] = j]
  BY DEF StartIngest
<1> HIDE DEF j
<1> QED BY <1>1, <1>2, <1>3, StmtStays, RestStays, InvFrame DEF StartIngest

LEMMA InvDiscoverStatements ==
  ASSUME Inv, NEW s \in Sess, DiscoverStatements(s)
  PROVE  Inv'
<1>1. \A a \in Att : Mail(a) \in Candidate
  BY ConstantsAssumption DEF Mail, Candidate
<1>2. PICK S \in SUBSET Att \ {{}} : StartIngest(s, {Mail(a) : a \in S})
  BY DEF DiscoverStatements
<1>3. {Mail(a) : a \in S} \in SUBSET Candidate
  BY <1>1
<1> QED BY <1>2, <1>3, InvStartIngest

LEMMA InvUploadStatement ==
  ASSUME Inv, NEW s \in Sess, UploadStatement(s)
  PROVE  Inv'
<1>1. PICK p \in Uploads, g \in Account \cup {None}, c \in Account \cup {None} :
         StartIngest(s, {[att |-> None, pdf |-> p, account |-> c, given |-> g]})
  BY DEF UploadStatement
<1>2. {[att |-> None, pdf |-> p, account |-> c, given |-> g]} \in SUBSET Candidate
  BY ConstantsAssumption DEF Candidate
<1> QED BY <1>1, <1>2, InvStartIngest

LEMMA InvCheckSource ==
  ASSUME Inv, NEW s \in Sess, CheckSource(s)
  PROVE  Inv'
<1>1. job[s] \in Job /\ Sound(job[s], stmt) /\ job[s].step = "check"
  BY JobAt DEF CheckSource, At
<1>2. PICK c \in job[s].mails :
         job' = [job EXCEPT ![s] = IF Known(c) THEN Continue([job[s] EXCEPT !.mails = @ \ {c}])
                                   ELSE [job[s] EXCEPT !.mails = @ \ {c}, !.cand = c, !.step = "fetch"]]
  BY <1>1 DEF CheckSource, Job
<1> DEFINE rest == [job[s] EXCEPT !.mails = @ \ {c}]
           next == [job[s] EXCEPT !.mails = @ \ {c}, !.cand = c, !.step = "fetch"]
<1>3. stmt' = stmt
  BY DEF CheckSource
<1>4. rest \in Job /\ next \in Job
  BY <1>1 DEF Job, Step
<1>5. Continue(rest) \in Job \cup {None} /\ (Continue(rest) # None => Sound(Continue(rest), stmt))
  <2>1. /\ rest.work = job[s].work /\ rest.again = job[s].again /\ rest.at = job[s].at
        /\ rest.cand = None /\ (rest.mails # {} => job[s].mails # {})
    BY <1>1 DEF Job, Sound
  <2> HIDE DEF rest, next
  <2>2. /\ \A i \in rest.work : stmt[i] # None /\ (rest.again = "reprocess" => stmt[i].pdf # None)
        /\ rest.at # None => stmt[rest.at] # None
        /\ rest.cand # None \/ rest.mails # {} => rest.work = {}
    BY <1>1, <2>1 DEF Sound
  <2> QED BY <1>4, <2>1, <2>2, ContinueSound
<1>6. Sound(next, stmt)
  BY <1>1, NoneAssumption DEF Sound, Job
<1> DEFINE j == IF Known(c) THEN Continue(rest) ELSE next
<1>7. j \in Job \cup {None} /\ (j # None => Sound(j, stmt'))
  BY <1>3, <1>4, <1>5, <1>6
<1>8. job' = [job EXCEPT ![s] = j]
  BY <1>2
<1> HIDE DEF j
<1> QED BY <1>3, <1>7, <1>8, StmtStays, RestStays, InvFrame DEF CheckSource

LEMMA InvDownloadFails ==
  ASSUME Inv, NEW s \in Sess, DownloadFails(s)
  PROVE  Inv'
<1>1. job[s] \in Job /\ Sound(job[s], stmt) /\ job[s].step = "fetch"
  BY JobAt DEF DownloadFails, At
<1>2. PICK i \in Id : Fresh(i) /\ stmt' = [stmt EXCEPT ![i] = Row(job[s].cand, "DOWNLOAD_FAILED")]
  BY DEF DownloadFails
<1>3. job[s].cand \in Candidate
  BY <1>1 DEF Sound, Job
<1>4. Row(job[s].cand, "DOWNLOAD_FAILED") \in Statement /\ RowSound(Row(job[s].cand, "DOWNLOAD_FAILED"))
  BY <1>3 DEF Row, Candidate, Statement, Status, Report, RowSound, Locked
<1>5. stmt' \in [Id -> Statement \cup {None}] /\ Grows /\ RowsSound'
  BY <1>2, <1>4, StmtFrame DEF Fresh, Exists
<1> DEFINE k == [job[s] EXCEPT !.cand = None]
<1>6. k \in Job
  BY <1>1 DEF Job
<1>7. Continue(k) \in Job \cup {None} /\ (Continue(k) # None => Sound(Continue(k), stmt'))
  BY <1>1, <1>5, <1>6, ContinueSound DEF Sound, Job, Grows
<1>8. job' = [job EXCEPT ![s] = Continue(k)]
  BY DEF DownloadFails
<1>9. UNCHANGED <<disk, lines, profile, ledger>> /\ Fault("losses")
  BY DEF DownloadFails
<1> HIDE DEF k
<1> QED BY <1>5, <1>7, <1>8, <1>9, RestStays, InvFrame

LEMMA InvDownload ==
  ASSUME Inv, NEW s \in Sess, Download(s)
  PROVE  Inv'
<1>1. job[s] \in Job /\ Sound(job[s], stmt) /\ job[s].step = "fetch"
  BY JobAt DEF Download, At
<1> DEFINE same == Stored(job[s].cand.pdf)
           at   == CHOOSE i \in same : TRUE
           store == [job[s] EXCEPT !.step = "store"]
           known == [job[s] EXCEPT !.at = at]
<1>2. stmt' = stmt
  BY DEF Download
<1>3. store \in Job /\ Sound(store, stmt)
  BY <1>1 DEF Job, Step, Sound
<1>4. ASSUME same # {}
      PROVE  Continue(known) \in Job \cup {None} /\ (Continue(known) # None => Sound(Continue(known), stmt))
  <2>1. at \in Id /\ stmt[at] # None
    BY <1>4 DEF Stored, Exists
  <2>2. known \in Job
    BY <1>1, <2>1 DEF Job
  <2>3. at # None
    BY <2>1, NoneAssumption
  <2>4. /\ known.work = job[s].work /\ known.again = job[s].again /\ known.at = at
        /\ known.cand = job[s].cand /\ known.mails = job[s].mails
    BY <1>1 DEF Job
  <2> HIDE DEF known, at
  <2> QED BY <1>1, <2>1, <2>2, <2>3, <2>4, ContinueSound DEF Sound
<1> DEFINE j == IF same = {} THEN store ELSE Continue(known)
<1>5. j \in Job \cup {None} /\ (j # None => Sound(j, stmt'))
  BY <1>2, <1>3, <1>4
<1>6. job' = [job EXCEPT ![s] = j]
  BY DEF Download
<1> HIDE DEF j
<1> QED BY <1>2, <1>5, <1>6, StmtStays, RestStays, InvFrame DEF Download

\* The request goes on with less work than it had.
LEMMA GoesOn ==
  ASSUME Inv, Grows, NEW s \in Sess, job[s] # None, NEW k \in Job,
         k.work \subseteq job[s].work, k.again = job[s].again, k.mails \subseteq job[s].mails,
         k.at # None => stmt'[k.at] # None,
         k.cand # None => k.cand = job[s].cand /\ k.at # None
  PROVE  /\ Continue(k) \in Job \cup {None}
         /\ Continue(k) # None => Sound(Continue(k), stmt')
<1>1. job[s] \in Job /\ Sound(job[s], stmt)
  BY JobAt
<1>2. /\ \A i \in k.work : stmt'[i] # None /\ (k.again = "reprocess" => stmt'[i].pdf # None)
      /\ k.cand # None \/ k.mails # {} => k.work = {}
  BY <1>1 DEF Sound, Grows, Job
<1> QED BY <1>2, ContinueSound

LEMMA InvAssignAccount ==
  ASSUME Inv, NEW s \in Sess, AssignAccount(s)
  PROVE  Inv'
<1>1. job[s] \in Job /\ Sound(job[s], stmt) /\ job[s].step = "assign" /\ job[s] # None
  BY JobAt DEF AssignAccount, At
<1> DEFINE i == job[s].at
           k == [job[s] EXCEPT !.cand = None]
           q == [stmt[i] EXCEPT !.account = IF @ = None THEN job[s].cand.given ELSE @]
<1>2. i \in Id /\ stmt[i] \in Statement /\ job[s].cand.given \in Account
  BY <1>1 DEF Sound, Job, Candidate, Inv, TypeOK
<1>3. stmt' = [stmt EXCEPT ![i] = q] /\ job' = [job EXCEPT ![s] = Continue(k)]
  BY DEF AssignAccount
<1>4. q \in Statement /\ q.pdf = stmt[i].pdf /\ q.status = stmt[i].status /\ q.unlocked = stmt[i].unlocked
  BY <1>2 DEF Statement
<1>5. RowSound(q)
  <2>1. RowSound(stmt[i]) /\ stmt[i] # None
    BY <1>2, NoneAssumption DEF Inv, RowsSound
  <2> QED BY <1>4, <2>1 DEF RowSound
<1> HIDE DEF q
<1>6. stmt' \in [Id -> Statement \cup {None}] /\ Grows /\ RowsSound' /\ stmt'[i] # None
  BY <1>2, <1>3, <1>4, <1>5, StmtFrame
<1>7. k \in Job /\ k.work = job[s].work /\ k.again = job[s].again /\ k.mails = job[s].mails
      /\ k.at = i /\ k.cand = None
  BY <1>1 DEF Job
<1> HIDE DEF k, i
<1>8. Continue(k) \in Job \cup {None} /\ (Continue(k) # None => Sound(Continue(k), stmt'))
  BY <1>1, <1>6, <1>7, GoesOn
<1>9. UNCHANGED <<disk, lines, profile, ledger, spent>>
  BY DEF AssignAccount
<1> QED BY <1>3, <1>6, <1>8, <1>9, RestStays, InvFrame

\* The transaction of one statement, new or at hand.
LEMMA InvProcess ==
  ASSUME Inv, NEW s \in Sess, job[s] # None, NEW j \in Job, NEW i \in Id, NEW r \in Statement,
         NEW p \in Pdf, RowSound(r), stmt[i] = None \/ stmt[i] = r, r.unlocked => stmt[i] = r,
         j.work \subseteq job[s].work, j.again = job[s].again, j.mails \subseteq job[s].mails,
         j.cand = job[s].cand, IsFiniteSet(j.old),
         Process(s, j, i, r, p)
  PROVE  Inv'
<1> DEFINE q == Processed(r, p)
<1>1. /\ q \in Statement /\ q # None /\ RowSound(q)
      /\ (q.pdf = p \/ (q.pdf = r.pdf /\ q.status = "INVALID_PDF"))
      /\ (q.unlocked <=> r.unlocked \/ q.status = "READY_FOR_EXTRACTION")
  BY ProcessedRow
<1>2. /\ stmt' = [stmt EXCEPT ![i] = q] /\ disk' = [disk EXCEPT ![i] = Written(i, q)]
      /\ job' = [job EXCEPT ![s] = IF q.status = "READY_FOR_EXTRACTION"
                                   THEN [j EXCEPT !.step = "extract", !.at = i]
                                   ELSE Continue([j EXCEPT !.at = i])]
      /\ UNCHANGED <<lines, profile, ledger, spent>>
  BY DEF Process
<1> HIDE DEF q
<1>3. stmt' \in [Id -> Statement \cup {None}] /\ Grows /\ RowsSound' /\ stmt'[i] = q
  BY <1>1, <1>2, NoneAssumption, StmtFrame
<1>4. disk' \in [Id -> SUBSET File]
  <2>1. Written(i, q) \subseteq File
    BY DEF Written, Inv, TypeOK
  <2> QED BY <1>2, <2>1 DEF Inv, TypeOK
<1> DEFINE ready == [j EXCEPT !.step = "extract", !.at = i]
           on    == [j EXCEPT !.at = i]
<1>5. i # None
  BY NoneAssumption
<1>6. on \in Job /\ on.work = j.work /\ on.again = j.again /\ on.mails = j.mails /\ on.at = i /\ on.cand = j.cand
  BY DEF Job
<1>7. Continue(on) \in Job \cup {None} /\ (Continue(on) # None => Sound(Continue(on), stmt'))
  <2> HIDE DEF on
  <2> QED BY <1>1, <1>3, <1>5, <1>6, GoesOn
<1>8. ready \in Job /\ Sound(ready, stmt')
  <2>1. ready \in Job
    BY DEF Job, Step
  <2>2. /\ ready.step = "extract" /\ ready.at = i /\ ready.work = j.work /\ ready.again = j.again
        /\ ready.cand = j.cand /\ ready.mails = j.mails /\ ready.old = j.old
    BY DEF Job
  <2>3. job[s] \in Job /\ Sound(job[s], stmt)
    BY JobAt
  <2>4. \A k \in ready.work : stmt'[k] # None /\ (ready.again = "reprocess" => stmt'[k].pdf # None)
    BY <1>3, <2>2, <2>3 DEF Sound, Grows, Job
  <2>5. ready.cand # None \/ ready.mails # {} => ready.work = {}
    BY <2>2, <2>3 DEF Sound
  <2> HIDE DEF ready
  <2> QED BY <1>1, <1>3, <1>5, <2>1, <2>2, <2>4, <2>5 DEF Sound
<1> DEFINE next == IF q.status = "READY_FOR_EXTRACTION" THEN ready ELSE Continue(on)
<1>9. next \in Job \cup {None} /\ (next # None => Sound(next, stmt')) /\ job' = [job EXCEPT ![s] = next]
  BY <1>2, <1>7, <1>8
<1> HIDE DEF next
<1> QED BY <1>2, <1>3, <1>4, <1>9, RestStays, InvFrame

LEMMA InvStoreCandidate ==
  ASSUME Inv, NEW s \in Sess, StoreCandidate(s)
  PROVE  Inv'
<1>1. job[s] \in Job /\ Sound(job[s], stmt) /\ job[s].step = "store" /\ job[s] # None
  BY JobAt DEF StoreCandidate, At
<1> DEFINE c == job[s].cand
           r == [Row(c, "INVALID_PDF") EXCEPT !.account = c.account]
<1>2. c \in Candidate /\ IsFiniteSet(job[s].old)
  BY <1>1 DEF Sound, Job
<1>3. PICK i \in Id : Fresh(i) /\ Process(s, job[s], i, r, c.pdf)
  BY DEF StoreCandidate
<1>4. r \in Statement /\ RowSound(r) /\ ~r.unlocked
  BY <1>2 DEF Row, Candidate, Statement, Status, Report, RowSound, Locked
<1>5. c.pdf \in Pdf /\ stmt[i] = None
  BY <1>2, <1>3 DEF Candidate, Fresh, Exists
<1> HIDE DEF c, r
<1> QED BY <1>1, <1>2, <1>3, <1>4, <1>5, InvProcess

LEMMA InvReprocess ==
  ASSUME Inv, NEW s \in Sess, Reprocess(s)
  PROVE  Inv'
<1>1. job[s] \in Job /\ Sound(job[s], stmt) /\ job[s].step = "reprocess" /\ job[s] # None
  BY JobAt DEF Reprocess, At
<1>2. PICK i \in job[s].work :
        \/ /\ job' = [job EXCEPT ![s] = Continue([job[s] EXCEPT !.work = @ \ {i}])]
           /\ UNCHANGED <<stmt, disk, lines, profile, ledger, spent>>
        \/ Process(s, [job[s] EXCEPT !.work = @ \ {i}], i, stmt[i], stmt[i].pdf)
  BY DEF Reprocess
<1> DEFINE rest == [job[s] EXCEPT !.work = @ \ {i}]
<1>3. /\ rest \in Job /\ rest.work \subseteq job[s].work /\ rest.again = job[s].again
      /\ rest.mails = job[s].mails /\ rest.at = job[s].at /\ rest.cand = job[s].cand
      /\ rest.old = job[s].old
  BY <1>1 DEF Job
<1>4. /\ rest.cand = None /\ (rest.at # None => stmt[rest.at] # None) /\ IsFiniteSet(rest.old)
  BY <1>1, <1>3 DEF Sound
<1>5. i \in Id /\ stmt[i] \in Statement /\ RowSound(stmt[i])
  BY <1>1 DEF Sound, Job, Inv, TypeOK, RowsSound
<1> HIDE DEF rest
<1>6. CASE /\ job' = [job EXCEPT ![s] = Continue(rest)]
           /\ UNCHANGED <<stmt, disk, lines, profile, ledger, spent>>
  <2>1. Grows /\ stmt' \in [Id -> Statement \cup {None}] /\ RowsSound'
    BY <1>6, StmtStays
  <2>2. Continue(rest) \in Job \cup {None} /\ (Continue(rest) # None => Sound(Continue(rest), stmt'))
    BY <1>1, <1>3, <1>4, <1>6, <2>1, GoesOn
  <2> QED BY <1>6, <2>1, <2>2, RestStays, InvFrame
<1>7. CASE Process(s, rest, i, stmt[i], stmt[i].pdf)
  <2>1. stmt[i].pdf \in Pdf
    <3>1. stmt[i].pdf \in Pdf \cup {None}
      BY <1>5 DEF Statement
    <3> QED BY <1>1, <3>1 DEF Sound
  <2> QED BY <1>1, <1>3, <1>4, <1>5, <1>7, <2>1, InvProcess
<1> QED BY <1>2, <1>6, <1>7 DEF rest

LEMMA InvStartProfile ==
  ASSUME Inv, NEW s \in Sess, StartProfile(s)
  PROVE  Inv'
<1>1. PICK a \in Account, D \in Details \cup {{}}, k \in Key \cup {None} :
         LET known == IF profile[a] = None THEN None ELSE profile[a].custom
             given == [derived |-> D, custom |-> IF k = None THEN known ELSE k]
         IN job' = [job EXCEPT ![s] = [Idle EXCEPT !.step = "profile", !.account = a, !.config = given]]
  BY DEF StartProfile
<1> DEFINE known == IF profile[a] = None THEN None ELSE profile[a].custom
           given == [derived |-> D, custom |-> IF k = None THEN known ELSE k]
           j == [Idle EXCEPT !.step = "profile", !.account = a, !.config = given]
<1>2. known \in Key \cup {None}
  BY DEF Inv, TypeOK, Profile
<1>3. given \in Profile
  BY <1>2 DEF Profile
<1> HIDE DEF given
<1>4. j \in Job
  BY <1>3, IdleJob DEF Job, Step
<1>5. Sound(j, stmt')
  BY <1>3, FS_EmptySet, NoneAssumption DEF Idle, Sound
<1>6. job' = [job EXCEPT ![s] = j]
  BY <1>1 DEF given
<1>7. UNCHANGED <<stmt, disk, lines, profile, ledger>> /\ Free(s)
  BY DEF StartProfile
<1> HIDE DEF j
<1> QED BY <1>4, <1>5, <1>6, <1>7, StmtStays, RestStays, InvFrame

LEMMA InvSaveProfile ==
  ASSUME Inv, NEW s \in Sess, SaveProfile(s)
  PROVE  Inv'
<1>1. job[s] \in Job /\ Sound(job[s], stmt) /\ job[s].step = "profile" /\ job[s] # None
  BY JobAt DEF SaveProfile, At
<1> DEFINE a == job[s].account
           k == [job[s] EXCEPT !.work = LockedOf(a), !.again = "reprocess"]
<1>2. /\ job' = [job EXCEPT ![s] = Continue(k)] /\ profile' = [profile EXCEPT ![a] = job[s].config]
      /\ UNCHANGED <<stmt, disk, lines, ledger, spent>>
  BY DEF SaveProfile
<1>3. profile' \in [Account -> Profile \cup {None}]
  <2>1. job[s].config \in Profile
    BY <1>1 DEF Sound, Job
  <2> QED BY <1>2, <2>1 DEF Inv, TypeOK
<1>4. \A i \in LockedOf(a) : i \in Id /\ stmt[i] # None /\ stmt[i].pdf # None
  BY DEF LockedOf, Exists, Inv, RowsSound, RowSound
<1>5. k \in Job
  BY <1>1, <1>4 DEF Job
<1>6. /\ k.work = LockedOf(a) /\ k.again = "reprocess" /\ k.at = job[s].at /\ k.cand = None
      /\ k.mails = job[s].mails
  BY <1>1 DEF Job, Sound
<1>7. k.mails = {}
  BY <1>1, <1>6 DEF Sound
<1>8. /\ \A i \in k.work : stmt[i] # None /\ (k.again = "reprocess" => stmt[i].pdf # None)
      /\ k.at # None => stmt[k.at] # None
      /\ k.cand # None \/ k.mails # {} => k.work = {}
  BY <1>1, <1>4, <1>6, <1>7 DEF Sound
<1> HIDE DEF k
<1>9. Continue(k) \in Job \cup {None} /\ (Continue(k) # None => Sound(Continue(k), stmt'))
  BY <1>2, <1>5, <1>6, <1>8, ContinueSound
<1> QED BY <1>2, <1>3, <1>9, StmtStays, RestStays, InvFrame

LEMMA InvUnlockManually ==
  ASSUME Inv, NEW s \in Sess, NEW i \in Id, UnlockManually(s, i)
  PROVE  Inv'
<1>1. stmt[i] \in Statement /\ stmt[i].pdf \in Pdf /\ Free(s)
  BY DEF UnlockManually, Exists, Inv, TypeOK, Statement
<1> DEFINE q == [stmt[i] EXCEPT !.unlocked = TRUE, !.status = "READY_FOR_EXTRACTION"]
           j == [Idle EXCEPT !.step = "extract", !.at = i]
<1>2. /\ stmt' = [stmt EXCEPT ![i] = q] /\ job' = [job EXCEPT ![s] = j]
      /\ disk' = [disk EXCEPT ![i] = @ \cup {"unlocked"}] /\ UNCHANGED <<lines, ledger>>
  BY DEF UnlockManually
<1>3. PICK save \in BOOLEAN, k \in Key :
        profile' = IF save /\ stmt[i].account # None
                   THEN [profile EXCEPT ![stmt[i].account] = [derived |-> {}, custom |-> k]]
                   ELSE profile
  BY DEF UnlockManually
<1>4. profile' \in [Account -> Profile \cup {None}]
  <2>1. [derived |-> {}, custom |-> k] \in Profile
    BY DEF Profile
  <2> QED BY <1>3, <2>1 DEF Inv, TypeOK
<1>5. q \in Statement /\ RowSound(q) /\ q.pdf = stmt[i].pdf /\ q.unlocked
  BY <1>1, NoneAssumption DEF Statement, Status, RowSound
<1> HIDE DEF q
<1>6. stmt' \in [Id -> Statement \cup {None}] /\ Grows /\ RowsSound' /\ stmt'[i] # None
  BY <1>2, <1>5, StmtFrame
<1>7. j \in Job
  BY IdleJob DEF Job, Step
<1>8. Sound(j, stmt')
  BY <1>6, FS_EmptySet DEF Idle, Sound
<1>9. disk' \in [Id -> SUBSET File]
  BY <1>2 DEF Inv, TypeOK, File
<1> HIDE DEF j
<1> QED BY <1>1, <1>2, <1>4, <1>6, <1>7, <1>8, <1>9, RestStays, InvFrame

LEMMA InvReExtract ==
  ASSUME Inv, NEW s \in Sess, NEW i \in Id, ReExtract(s, i)
  PROVE  Inv'
<1> DEFINE j == [Idle EXCEPT !.step = "extract", !.at = i]
<1>1. /\ job' = [job EXCEPT ![s] = j] /\ UNCHANGED <<stmt, disk, lines, profile, ledger>>
      /\ Free(s) /\ stmt[i] # None
  BY DEF ReExtract, Exists
<1>2. j \in Job
  BY IdleJob DEF Job, Step
<1>3. Sound(j, stmt')
  BY <1>1, FS_EmptySet DEF Idle, Sound
<1> HIDE DEF j
<1> QED BY <1>1, <1>2, <1>3, StmtStays, RestStays, InvFrame

LEMMA InvBatchExtract ==
  ASSUME Inv, NEW s \in Sess, BatchExtract(s)
  PROVE  Inv'
<1> DEFINE k == [Idle EXCEPT !.work = Extractable]
<1>1. /\ job' = [job EXCEPT ![s] = Continue(k)] /\ UNCHANGED <<stmt, disk, lines, profile, ledger>>
      /\ Free(s)
  BY DEF BatchExtract
<1>2. \A i \in Extractable : i \in Id /\ stmt[i] # None
  BY DEF Extractable, Exists
<1>3. k \in Job
  BY <1>2, IdleJob DEF Job
<1>4. k.work = Extractable /\ k.again = "extract" /\ k.at = None /\ k.cand = None /\ k.mails = {}
  BY DEF Idle
<1> HIDE DEF k
<1>5. Continue(k) \in Job \cup {None} /\ (Continue(k) # None => Sound(Continue(k), stmt'))
  BY <1>1, <1>2, <1>3, <1>4, ContinueSound
<1> QED BY <1>1, <1>5, StmtStays, RestStays, InvFrame

\* A statement's status moves, and the request goes to its next step or goes on.
LEMMA InvMove ==
  ASSUME Inv, NEW s \in Sess, job[s] # None, NEW i \in Id, stmt[i] # None, NEW q \in Statement,
         q.pdf = stmt[i].pdf, q.unlocked = stmt[i].unlocked, q.status \notin Locked,
         NEW k \in Job, k.work \subseteq job[s].work, k.again = job[s].again, k.mails \subseteq job[s].mails,
         k.at # None => stmt[k.at] # None, k.cand # None => k.cand = job[s].cand /\ k.at # None,
         NEW j, j = Continue(k) \/ (j \in Job /\ Sound(j, stmt)),
         stmt' = [stmt EXCEPT ![i] = q], job' = [job EXCEPT ![s] = j],
         UNCHANGED <<disk, lines, profile, ledger, spent>>
  PROVE  Inv'
<1>1. RowSound(q)
  BY DEF Inv, RowsSound, RowSound
<1>2. stmt' \in [Id -> Statement \cup {None}] /\ Grows /\ RowsSound'
  BY <1>1, StmtFrame
<1>3. k.at # None => stmt'[k.at] # None
  BY <1>2 DEF Grows, Job
<1>4. Continue(k) \in Job \cup {None} /\ (Continue(k) # None => Sound(Continue(k), stmt'))
  BY <1>2, <1>3, GoesOn
<1>5. j \in Job /\ Sound(j, stmt) => Sound(j, stmt')
  BY <1>2, SoundGrows DEF Job
<1> QED BY <1>2, <1>4, <1>5, RestStays, InvFrame

LEMMA InvBeginExtraction ==
  ASSUME Inv, NEW s \in Sess, BeginExtraction(s)
  PROVE  Inv'
<1>1. job[s] \in Job /\ Sound(job[s], stmt) /\ job[s].step = "extract" /\ job[s] # None
  BY JobAt DEF BeginExtraction, At
<1>2. PICK i \in AtHand(s) :
        /\ stmt' = [stmt EXCEPT ![i].status = IF Readable(i) THEN "EXTRACTING" ELSE "EXTRACTION_FAILED"]
        /\ job' = [job EXCEPT ![s] = IF Readable(i) THEN [Taken(s, i) EXCEPT !.step = "parse"]
                                     ELSE Continue(Taken(s, i))]
  BY DEF BeginExtraction
<1>3. i \in Id /\ stmt[i] # None /\ stmt[i] \in Statement /\ i # None
  BY <1>1, NoneAssumption DEF AtHand, Sound, Job, Inv, TypeOK
<1> DEFINE q == [stmt[i] EXCEPT !.status = IF Readable(i) THEN "EXTRACTING" ELSE "EXTRACTION_FAILED"]
           k == Taken(s, i)
           parse == [k EXCEPT !.step = "parse"]
<1>4. /\ q \in Statement /\ q.pdf = stmt[i].pdf /\ q.unlocked = stmt[i].unlocked
      /\ q.status \notin Locked
  BY <1>3 DEF Statement, Status, Locked
<1>5. /\ k \in Job /\ k.work = job[s].work \ {i} /\ k.again = job[s].again /\ k.mails = job[s].mails
      /\ k.at = i /\ k.cand = job[s].cand /\ k.old = job[s].old
  BY <1>1, <1>3 DEF Job, Taken
<1>6. Readable(i) => parse \in Job /\ Sound(parse, stmt)
  <2> HIDE DEF k
  <2>1. parse \in Job
    BY <1>5 DEF Job, Step
  <2>2. /\ parse.step = "parse" /\ parse.at = i /\ parse.work = k.work /\ parse.again = k.again
        /\ parse.cand = k.cand /\ parse.mails = k.mails /\ parse.old = k.old
    BY <1>5 DEF Job
  <2> HIDE DEF parse
  <2> QED BY <1>1, <1>3, <1>5, <2>1, <2>2 DEF Sound, Readable
<1> DEFINE j == IF Readable(i) THEN parse ELSE Continue(k)
<1>7. j = Continue(k) \/ (j \in Job /\ Sound(j, stmt))
  BY <1>6
<1>8. stmt' = [stmt EXCEPT ![i] = q] /\ job' = [job EXCEPT ![s] = j]
  BY <1>2
<1>9. UNCHANGED <<disk, lines, profile, ledger, spent>>
  BY DEF BeginExtraction
<1> HIDE DEF q, k, j, parse
<1> QED BY <1>1, <1>3, <1>4, <1>5, <1>7, <1>8, <1>9, InvMove

\* What a job that has begun to extract has at hand.
LEMMA AtWork ==
  ASSUME Inv, NEW s \in Sess, job[s] # None, job[s].step \in {"parse", "publish", "verdict"}
  PROVE  /\ job[s] \in Job /\ Sound(job[s], stmt) /\ job[s].at \in Id /\ job[s].at # None
         /\ stmt[job[s].at] # None /\ stmt[job[s].at] \in Statement
         /\ stmt[job[s].at].unlocked /\ stmt[job[s].at].pdf \in Pdf
<1>1. job[s] \in Job /\ Sound(job[s], stmt)
  BY JobAt
<1>2. job[s].at \in Id /\ job[s].at # None /\ stmt[job[s].at] # None /\ stmt[job[s].at].unlocked
  BY <1>1, NoneAssumption DEF Sound, Job
<1>3. stmt[job[s].at] \in Statement /\ RowSound(stmt[job[s].at])
  BY <1>2 DEF Inv, TypeOK, RowsSound
<1>4. stmt[job[s].at].pdf \in Pdf
  BY <1>2, <1>3 DEF RowSound, Statement
<1> QED BY <1>1, <1>2, <1>3, <1>4

LEMMA InvParserRaises ==
  ASSUME Inv, NEW s \in Sess, ParserRaises(s)
  PROVE  Inv'
<1> DEFINE i == job[s].at
           q == [stmt[i] EXCEPT !.status = "EXTRACTION_FAILED"]
<1>1. job[s].step = "parse" /\ job[s] # None
  BY DEF ParserRaises, At
<1>2. i \in Id /\ i # None /\ stmt[i] # None /\ stmt[i] \in Statement /\ job[s] \in Job
  BY <1>1, AtWork
<1>3. q \in Statement /\ q.pdf = stmt[i].pdf /\ q.unlocked = stmt[i].unlocked /\ q.status \notin Locked
  BY <1>2 DEF Statement, Status, Locked
<1>4. stmt' = [stmt EXCEPT ![i] = q] /\ job' = [job EXCEPT ![s] = Continue(job[s])]
  BY DEF ParserRaises
<1>5. UNCHANGED <<disk, lines, profile, ledger, spent>>
  BY DEF ParserRaises
<1> HIDE DEF q
<1> QED BY <1>1, <1>2, <1>3, <1>4, <1>5, InvMove

LEMMA InvConclude ==
  ASSUME Inv, NEW s \in Sess, Conclude(s)
  PROVE  Inv'
<1> DEFINE i == job[s].at
           q == [stmt[i] EXCEPT !.status = Verdict(i)]
<1>1. job[s].step = "verdict" /\ job[s] # None
  BY DEF Conclude, At
<1>2. i \in Id /\ i # None /\ stmt[i] # None /\ stmt[i] \in Statement /\ job[s] \in Job
  BY <1>1, AtWork
<1>3. q \in Statement /\ q.pdf = stmt[i].pdf /\ q.unlocked = stmt[i].unlocked /\ q.status \notin Locked
  BY <1>2 DEF Statement, Status, Locked, Verdict
<1>4. stmt' = [stmt EXCEPT ![i] = q] /\ job' = [job EXCEPT ![s] = Continue(job[s])]
  BY DEF Conclude
<1>5. UNCHANGED <<disk, lines, profile, ledger, spent>>
  BY DEF Conclude
<1> HIDE DEF q
<1> QED BY <1>1, <1>2, <1>3, <1>4, <1>5, InvMove

LEMMA InvParse ==
  ASSUME Inv, NEW s \in Sess, Parse(s)
  PROVE  Inv'
<1> DEFINE i == job[s].at
           j == [job[s] EXCEPT !.step = "publish", !.old = lines[i]]
<1>1. job[s].step = "parse" /\ job[s] # None
  BY DEF Parse, At
<1>2. i \in Id /\ job[s] \in Job /\ Sound(job[s], stmt)
  BY <1>1, AtWork
<1>3. lines[i] \in SUBSET LineRow /\ IsFiniteSet(lines[i])
  BY <1>2 DEF Inv, TypeOK, LinesSound
<1>4. j \in Job
  BY <1>2, <1>3 DEF Job, Step
<1>5. /\ j.step = "publish" /\ j.at = i /\ j.work = job[s].work /\ j.again = job[s].again
      /\ j.cand = job[s].cand /\ j.mails = job[s].mails /\ j.old = lines[i]
  BY <1>2 DEF Job
<1>6. job' = [job EXCEPT ![s] = j] /\ UNCHANGED <<stmt, disk, lines, profile, ledger, spent>>
  BY DEF Parse, Inv, TypeOK
<1> HIDE DEF j
<1>7. Sound(j, stmt')
  BY <1>1, <1>2, <1>3, <1>5, <1>6 DEF Sound
<1> QED BY <1>4, <1>6, <1>7, StmtStays, RestStays, InvFrame

-----------------------------------------------------------------------------
(* Steps that write lines or ledger.                                       *)

\* What an extraction yields: the purchases it got to, each once, with a tag nobody uses; all
\* of the content's when it was not cut short.
LEMMA ExtractedRows ==
  ASSUME Inv, NEW i \in Id, stmt[i].pdf \in Pdf,
         NEW L \in SUBSET LinesOf[stmt[i].pdf], NEW m \in Matchings(L, ledger)
  PROVE  /\ Extracted(i, L, m) \in SUBSET LineRow /\ IsFiniteSet(Extracted(i, L, m))
         /\ Distinct(Extracted(i, L, m))
         /\ L = LinesOf[stmt[i].pdf] => Exact(Extracted(i, L, m), stmt[i].pdf)
         /\ \A r \in Extracted(i, L, m) : r.tag \notin InUse(i)
<1> DEFINE row == [l \in L |-> [line |-> l, tag |-> FreshTag(i), match |-> m[l]]]
<1>1. FreshTag(i) \in Tag /\ FreshTag(i) \notin InUse(i)
  BY InUseFinite, FreshTagNew
<1>2. L \in SUBSET Line /\ IsFiniteSet(L)
  BY ConstantsAssumption, FS_Subset
<1>3. \A l \in L : m[l] \in Match
  BY <1>2, MatchingsType DEF Inv, TypeOK
<1>4. \A l \in L : row[l] \in LineRow /\ row[l].line = l /\ row[l].tag = FreshTag(i)
  BY <1>1, <1>2, <1>3 DEF LineRow
<1>5. Extracted(i, L, m) = {row[l] : l \in L}
  BY DEF Extracted
<1> HIDE DEF row
<1>6. IsFiniteSet(Extracted(i, L, m))
  BY <1>2, <1>5, ImageFinite
<1>7. Extracted(i, L, m) \in SUBSET LineRow /\ \A r \in Extracted(i, L, m) : r.tag \notin InUse(i)
  BY <1>1, <1>4, <1>5
<1>8. /\ {r.line : r \in Extracted(i, L, m)} = L
      /\ \A r, o \in Extracted(i, L, m) : r.line = o.line => r = o
  BY <1>4, <1>5
<1>9. Distinct(Extracted(i, L, m))
  BY <1>8 DEF Distinct, SameLine
<1>10. L = LinesOf[stmt[i].pdf] => Exact(Extracted(i, L, m), stmt[i].pdf)
  BY <1>8 DEF Exact
<1> QED BY <1>6, <1>7, <1>9, <1>10

\* New rows of a statement.
LEMMA LinesFrame ==
  ASSUME Inv, NEW i \in Id, stmt[i] # None, NEW T \in SUBSET LineRow, IsFiniteSet(T), Distinct(T),
         lines' = [lines EXCEPT ![i] = T], Grows
  PROVE  lines' \in [Id -> SUBSET LineRow] /\ LinesSound'
<1>1. lines' \in [Id -> SUBSET LineRow] /\ lines'[i] = T /\ \A k \in Id \ {i} : lines'[k] = lines[k]
  BY DEF Inv, TypeOK
<1>2. \A k \in Id : Exists(k) => Exists(k)'
  BY DEF Grows, Exists
<1>3. Exists(i)'
  BY <1>2 DEF Exists
<1> QED BY <1>1, <1>2, <1>3 DEF LinesSound, Inv

LEMMA ReplacedRows ==
  ASSUME Inv, NEW s \in Sess, NEW i \in Id, stmt[i].pdf \in Pdf,
         NEW L \in SUBSET LinesOf[stmt[i].pdf], NEW m \in Matchings(L, ledger)
  PROVE  /\ Replaced(s, i, L, m) \in SUBSET LineRow /\ IsFiniteSet(Replaced(s, i, L, m))
         /\ Distinct(Replaced(s, i, L, m))
<1> DEFINE kept == {r \in lines[i] : \A o \in job[s].old : ~SameLine(r, o)}
<1>1. lines[i] \in SUBSET LineRow /\ IsFiniteSet(lines[i]) /\ Distinct(lines[i])
  BY DEF Inv, TypeOK, LinesSound
<1>2. IsFiniteSet(kept)
  BY <1>1, FS_Subset
<1>3. IsFiniteSet(kept \cup Extracted(i, L, m))
  BY <1>2, ExtractedRows, FS_Union
<1>4. Replaced(s, i, L, m) = kept \cup Extracted(i, L, m)
  BY DEF Replaced
<1>5. \A r \in kept : r.tag \in InUse(i)
  BY DEF InUse
<1>6. Distinct(kept \cup Extracted(i, L, m))
  BY <1>1, <1>5, ExtractedRows DEF Distinct, SameLine
<1> QED BY <1>1, <1>3, <1>4, <1>6, ExtractedRows

LEMMA InvPublishLines ==
  ASSUME Inv, NEW s \in Sess, PublishLines(s)
  PROVE  Inv'
<1> DEFINE i == job[s].at
           L == LinesOf[stmt[i].pdf]
           last == L = {}
           q == [stmt[i] EXCEPT !.report = ReadsAs[stmt[i].pdf],
                                !.status = IF last THEN Verdict(i) ELSE @]
           go == [job[s] EXCEPT !.step = "verdict", !.old = {}]
           j == IF last THEN Continue(job[s]) ELSE go
<1>1. job[s].step = "publish" /\ job[s] # None
  BY DEF PublishLines, At
<1>2. /\ i \in Id /\ i # None /\ stmt[i] # None /\ stmt[i] \in Statement /\ stmt[i].pdf \in Pdf
      /\ job[s] \in Job /\ Sound(job[s], stmt)
  BY <1>1, AtWork
<1>0. PICK m \in Matchings(L, ledger) : lines' = [lines EXCEPT ![i] = Replaced(s, i, L, m)]
  BY DEF PublishLines
<1>3. /\ stmt' = [stmt EXCEPT ![i] = q]
      /\ job' = [job EXCEPT ![s] = j] /\ UNCHANGED <<disk, profile, ledger, spent>>
  BY DEF PublishLines, Inv, TypeOK
<1>4. /\ q \in Statement /\ q.pdf = stmt[i].pdf /\ q.unlocked = stmt[i].unlocked
      /\ q.status \in Locked => stmt[i].status \in Locked
  <2>1. ReadsAs[stmt[i].pdf] \in Report
    BY <1>2, ConstantsAssumption
  <2> QED BY <1>2, <2>1 DEF Statement, Status, Locked, Verdict
<1>5. RowSound(q)
  BY <1>2, <1>4 DEF Inv, RowsSound, RowSound
<1> HIDE DEF q
<1>6. stmt' \in [Id -> Statement \cup {None}] /\ Grows /\ RowsSound'
  BY <1>2, <1>3, <1>4, <1>5, StmtFrame
<1>7. Continue(job[s]) \in Job \cup {None} /\ (Continue(job[s]) # None => Sound(Continue(job[s]), stmt'))
  BY <1>1, <1>2, <1>6, GoesOn DEF Grows
<1>8. go \in Job /\ Sound(go, stmt')
  <2>1. go \in Job
    BY <1>2 DEF Job, Step
  <2>2. /\ go.step = "verdict" /\ go.at = i /\ go.work = job[s].work /\ go.again = job[s].again
        /\ go.cand = job[s].cand /\ go.mails = job[s].mails /\ go.old = {}
    BY <1>2 DEF Job
  <2> HIDE DEF go
  <2>3. Sound(go, stmt)
    BY <1>1, <1>2, <2>2, FS_EmptySet DEF Sound
  <2> QED BY <1>6, <2>1, <2>3, SoundGrows DEF Job
<1>9. j \in Job \cup {None} /\ (j # None => Sound(j, stmt'))
  BY <1>7, <1>8
<1> HIDE DEF j
<1>10. job' \in [Sess -> Job \cup {None}] /\ JobsSound'
  BY <1>3, <1>6, <1>9, JobsFrame
<1>11. lines' \in [Id -> SUBSET LineRow] /\ LinesSound'
  BY <1>0, <1>2, <1>6, ReplacedRows, LinesFrame
<1>12. TypeOK' /\ IsFiniteSet(Imported)'
  BY <1>3, <1>6, <1>10, <1>11 DEF Inv, TypeOK, Imported
<1> QED BY <1>6, <1>10, <1>11, <1>12 DEF Inv

\* What an extraction that raises leaves: the statement it worked on, failed.
LEMMA RaisedStatement ==
  ASSUME Inv, NEW s \in Sess, ExtractionRaises(s)
  PROVE  /\ job[s] # None /\ job[s].step \in {"publish", "verdict"} /\ job[s].at \in Id
         /\ stmt[job[s].at].pdf \in Pdf
         /\ job' = [job EXCEPT ![s] = Continue(job[s])] /\ UNCHANGED <<disk, profile, ledger, spent>>
         /\ \E q \in Statement :
              /\ stmt' = [stmt EXCEPT ![job[s].at] = q]
              /\ q.status = "EXTRACTION_FAILED" /\ q.unlocked = stmt[job[s].at].unlocked
              /\ q.src = stmt[job[s].at].src /\ q.pdf = stmt[job[s].at].pdf
              /\ q.account = stmt[job[s].at].account
<1> DEFINE i == job[s].at
<1>1. job[s] # None /\ job[s].step \in {"publish", "verdict"}
  BY DEF ExtractionRaises, At
<1>2. i \in Id /\ stmt[i] \in Statement /\ stmt[i].pdf \in Pdf
  BY <1>1, AtWork
<1>3. job' = [job EXCEPT ![s] = Continue(job[s])] /\ UNCHANGED <<disk, profile, ledger, spent>>
  BY DEF ExtractionRaises
<1>4. PICK report \in {stmt[i].report, ReadsAs[stmt[i].pdf]} :
         stmt' = [stmt EXCEPT ![i] = [stmt[i] EXCEPT !.status = "EXTRACTION_FAILED", !.report = report]]
  <2>1. CASE job[s].step = "publish"
    <3>1. \E report \in {stmt[i].report, ReadsAs[stmt[i].pdf]} :
            stmt' = [stmt EXCEPT ![i].status = "EXTRACTION_FAILED", ![i].report = report]
      BY <2>1 DEF ExtractionRaises, At
    <3> QED BY <1>2, <3>1 DEF Inv, TypeOK
  <2>2. CASE job[s].step = "verdict"
    <3>1. stmt' = [stmt EXCEPT ![i].status = "EXTRACTION_FAILED"]
      BY <2>2 DEF ExtractionRaises, At
    <3>2. [stmt[i] EXCEPT !.status = "EXTRACTION_FAILED"]
            = [stmt[i] EXCEPT !.status = "EXTRACTION_FAILED", !.report = stmt[i].report]
      BY <1>2 DEF Statement
    <3> QED BY <3>1, <3>2
  <2> QED BY <1>1, <2>1, <2>2
<1> DEFINE q == [stmt[i] EXCEPT !.status = "EXTRACTION_FAILED", !.report = report]
<1>5. report \in Report
  BY <1>2, ConstantsAssumption DEF Statement
<1>6. q \in Statement
  BY <1>2, <1>5 DEF Statement, Status
<1>7. /\ q.status = "EXTRACTION_FAILED" /\ q.unlocked = stmt[i].unlocked
      /\ q.src = stmt[i].src /\ q.pdf = stmt[i].pdf /\ q.account = stmt[i].account
  BY <1>2 DEF Statement
<1> HIDE DEF q
<1>8. stmt' = [stmt EXCEPT ![i] = q]
  BY <1>4 DEF q
<1> QED BY <1>1, <1>2, <1>3, <1>6, <1>7, <1>8

\* ... and its lines: as they were, or some of the new ones for the earlier ones.
LEMMA RaisedLines ==
  ASSUME NEW s \in Sess, ExtractionRaises(s)
  PROVE  \/ lines' = lines
         \/ /\ job[s].step = "publish"
            /\ \E L \in SUBSET LinesOf[stmt[job[s].at].pdf] :
                 \E m \in Matchings(L, ledger) :
                   lines' = [lines EXCEPT ![job[s].at] = Replaced(s, job[s].at, L, m)]
BY DEF ExtractionRaises, At

LEMMA InvExtractionRaises ==
  ASSUME Inv, NEW s \in Sess, ExtractionRaises(s)
  PROVE  Inv'
<1> DEFINE i == job[s].at
<1>1. job[s] # None /\ job[s].step \in {"publish", "verdict"}
  BY RaisedStatement
<1>2. /\ i \in Id /\ i # None /\ stmt[i] # None /\ stmt[i] \in Statement /\ stmt[i].pdf \in Pdf
      /\ job[s] \in Job /\ Sound(job[s], stmt)
  BY <1>1, AtWork
<1>3. job' = [job EXCEPT ![s] = Continue(job[s])] /\ UNCHANGED <<disk, profile, ledger, spent>>
  BY RaisedStatement
<1>4. PICK q \in Statement : /\ stmt' = [stmt EXCEPT ![i] = q] /\ q.status \notin Locked
                             /\ q.pdf = stmt[i].pdf /\ q.unlocked = stmt[i].unlocked
  BY RaisedStatement DEF Locked
<1>5. RowSound(q)
  BY <1>2, <1>4, NoneAssumption DEF RowSound
<1>6. stmt' \in [Id -> Statement \cup {None}] /\ Grows /\ RowsSound'
  BY <1>2, <1>4, <1>5, StmtFrame
<1>7. Continue(job[s]) \in Job \cup {None} /\ (Continue(job[s]) # None => Sound(Continue(job[s]), stmt'))
  BY <1>1, <1>2, <1>6, GoesOn DEF Grows
<1>8. job' \in [Sess -> Job \cup {None}] /\ JobsSound'
  BY <1>3, <1>6, <1>7, JobsFrame
<1>9. lines' \in [Id -> SUBSET LineRow] /\ LinesSound'
  <2>1. CASE lines' = lines
    BY <1>6, <2>1 DEF Inv, TypeOK, LinesSound, Grows, Exists
  <2>2. CASE \E L \in SUBSET LinesOf[stmt[i].pdf] :
               \E m \in Matchings(L, ledger) : lines' = [lines EXCEPT ![i] = Replaced(s, i, L, m)]
    BY <1>2, <1>6, <2>2, ReplacedRows, LinesFrame
  <2> QED BY <2>1, <2>2, RaisedLines
<1>10. TypeOK' /\ IsFiniteSet(Imported)'
  BY <1>3, <1>6, <1>8, <1>9 DEF Inv, TypeOK, Imported
<1> QED BY <1>6, <1>8, <1>9, <1>10 DEF Inv

LEMMA InvStartReconcile ==
  ASSUME Inv, NEW s \in Sess, NEW i \in Id, StartReconcile(s, i)
  PROVE  Inv'
<1> DEFINE j == [Idle EXCEPT !.step = "reconcile", !.at = i, !.old = lines[i], !.seen = ledger]
<1>1. /\ job' = [job EXCEPT ![s] = j] /\ UNCHANGED <<stmt, disk, lines, profile, ledger>>
      /\ Free(s) /\ stmt[i] # None
  BY DEF StartReconcile, Exists
<1>2. lines[i] \in SUBSET LineRow /\ IsFiniteSet(lines[i]) /\ ledger \in SUBSET Entry
  BY DEF Inv, TypeOK, LinesSound
<1>3. j \in Job
  BY <1>2, IdleJob DEF Job, Step
<1>4. Sound(j, stmt')
  BY <1>1, <1>2, NoneAssumption DEF Idle, Sound
<1> HIDE DEF j
<1> QED BY <1>1, <1>3, <1>4, StmtStays, RestStays, InvFrame

\* Reconciliation keeps the rows and writes matches.
LEMMA ReconciledRows ==
  ASSUME Inv, NEW s \in Sess, job[s] # None, NEW i \in Id,
         NEW m \in Matchings({p.line : p \in job[s].old}, job[s].seen)
  PROVE  Rewrites({Rematched(s, r, m) : r \in lines[i]}, lines[i])
<1> DEFINE read(r) == {p \in job[s].old : SameLine(r, p) /\ ~Decided(p.match)}
           o(r) == CHOOSE o \in read(r) : TRUE
           n == [r \in lines[i] |-> IF read(r) = {} THEN r.match
                                    ELSE Merged(r.match, o(r).match, m[r.line])]
<1>1. job[s] \in Job /\ lines[i] \in SUBSET LineRow
  BY JobAt DEF Inv, TypeOK
<1>2. m \in [{p.line : p \in job[s].old} -> Match]
  <2>1. {p.line : p \in job[s].old} \in SUBSET Line /\ job[s].seen \in SUBSET Entry
    BY <1>1 DEF Job, LineRow
  <2> QED BY <2>1, MatchingsType
<1>3. ASSUME NEW r \in lines[i] PROVE n[r] \in Match /\ Rematched(s, r, m) = [r EXCEPT !.match = n[r]]
  <2>1. r \in LineRow /\ r.match \in Match
    BY <1>1 DEF LineRow
  <2>2. CASE read(r) = {}
    BY <2>1, <2>2 DEF Rematched, LineRow
  <2>3. CASE read(r) # {}
    <3>1. o(r) \in LineRow
      BY <1>1, <2>3 DEF Job
    <3>2. o(r).match \in Match
      BY <3>1 DEF LineRow
    <3>3. m[r.line] \in Match
      <4>1. o(r) \in job[s].old /\ o(r).line = r.line
        BY <2>3 DEF SameLine
      <4> QED BY <1>2, <4>1
    <3>4. n[r] = Merged(r.match, o(r).match, m[r.line])
      BY <2>3
    <3>5. Rematched(s, r, m) = [r EXCEPT !.match = Merged(r.match, o(r).match, m[r.line])]
      BY <2>3 DEF Rematched
    <3> HIDE DEF o, n, read
    <3>6. Merged(r.match, o(r).match, m[r.line]) \in Match
      BY <2>1, <3>2, <3>3 DEF Merged, Column, Match
    <3> QED BY <3>4, <3>5, <3>6
  <2> QED BY <2>2, <2>3
<1>4. n \in [lines[i] -> Match]
  BY <1>3
<1> HIDE DEF n
<1>5. {Rematched(s, r, m) : r \in lines[i]} = {[r EXCEPT !.match = n[r]] : r \in lines[i]}
  BY <1>3
<1> QED BY <1>4, <1>5 DEF Rewrites

\* Rewriting the matches of a statement's rows.
LEMMA RewrittenLines ==
  ASSUME Inv, NEW i \in Id, NEW T, Rewrites(T, lines[i]), lines' = [lines EXCEPT ![i] = T], Grows
  PROVE  lines' \in [Id -> SUBSET LineRow] /\ LinesSound'
<1>1. lines[i] \in SUBSET LineRow /\ IsFiniteSet(lines[i]) /\ Distinct(lines[i])
  BY DEF Inv, TypeOK, LinesSound
<1>2. T \in SUBSET LineRow /\ IsFiniteSet(T) /\ Distinct(T) /\ (T = {} <=> lines[i] = {})
  BY <1>1, RewrittenRows
<1>3. CASE stmt[i] # None
  BY <1>2, <1>3, LinesFrame
<1>4. CASE stmt[i] = None
  <2>1. lines[i] = {}
    BY <1>4 DEF Inv, LinesSound, Exists
  <2>2. lines' = lines
    BY <1>2, <2>1 DEF Inv, TypeOK
  <2> QED BY <2>2 DEF Inv, TypeOK, LinesSound, Grows, Exists
<1> QED BY <1>3, <1>4

LEMMA InvReconcile ==
  ASSUME Inv, NEW s \in Sess, Reconcile(s)
  PROVE  Inv'
<1> DEFINE i == job[s].at
           T(m) == {Rematched(s, r, m) : r \in lines[i]}
           read == {o.line : o \in job[s].old}
<1>1. job[s] \in Job /\ Sound(job[s], stmt) /\ job[s].step = "reconcile" /\ job[s] # None
  BY JobAt DEF Reconcile, At
<1>2. i \in Id /\ i # None /\ stmt[i] # None
  BY <1>1 DEF Sound, Job
<1>0. \/ lines' = lines
      \/ \E m \in Matchings(read, job[s].seen) : lines' = [lines EXCEPT ![i] = T(m)]
  BY DEF Reconcile
<1>3. /\ job' = [job EXCEPT ![s] = Continue(job[s])]
      /\ UNCHANGED <<stmt, disk, profile, ledger, spent>>
  BY DEF Reconcile, Inv, TypeOK
<1>4. stmt' \in [Id -> Statement \cup {None}] /\ Grows /\ RowsSound'
  BY <1>3, StmtStays
<1>5. Continue(job[s]) \in Job \cup {None} /\ (Continue(job[s]) # None => Sound(Continue(job[s]), stmt'))
  BY <1>1, <1>2, <1>3, <1>4, GoesOn
<1>6. job' \in [Sess -> Job \cup {None}] /\ JobsSound'
  BY <1>3, <1>4, <1>5, JobsFrame
<1>7. lines' \in [Id -> SUBSET LineRow] /\ LinesSound'
  <2>1. CASE lines' = lines
    BY <1>3, <2>1 DEF Inv, TypeOK, LinesSound, Exists
  <2>2. ASSUME NEW m \in Matchings(read, job[s].seen), lines' = [lines EXCEPT ![i] = T(m)]
        PROVE  lines' \in [Id -> SUBSET LineRow] /\ LinesSound'
    <3>1. Rewrites(T(m), lines[i])
      BY <1>1, <1>2, ReconciledRows
    <3> HIDE DEF T
    <3> QED BY <1>2, <1>4, <2>2, <3>1, RewrittenLines
  <2> QED BY <1>0, <2>1, <2>2
<1>8. TypeOK' /\ IsFiniteSet(Imported)'
  BY <1>3, <1>4, <1>6, <1>7 DEF Inv, TypeOK, Imported
<1> QED BY <1>4, <1>6, <1>7, <1>8 DEF Inv

\* The user's decision about a row is a rewriting.
LEMMA SetMatchRewrites ==
  ASSUME Inv, NEW i \in Id, NEW r \in lines[i], NEW m \in Match, SetMatch(i, r, m)
  PROVE  \E T : Rewrites(T, lines[i]) /\ lines' = [lines EXCEPT ![i] = T]
<1> DEFINE T == (lines[i] \ {r}) \cup {[r EXCEPT !.match = m]}
           f == [o \in lines[i] |-> IF o = r THEN m ELSE o.match]
           new == [o \in lines[i] |-> [o EXCEPT !.match = f[o]]]
<1>1. lines[i] \in SUBSET LineRow
  BY DEF Inv, TypeOK
<1>2. f \in [lines[i] -> Match]
  BY <1>1 DEF LineRow
<1>3. \A o \in lines[i] : new[o] = IF o = r THEN [r EXCEPT !.match = m] ELSE o
  BY <1>1 DEF LineRow
<1>4. T = {[o EXCEPT !.match = f[o]] : o \in lines[i]}
  <2>1. T = {new[o] : o \in lines[i]}
    <3> HIDE DEF new
    <3> QED BY <1>3
  <2> QED BY <2>1
<1>5. lines' = [lines EXCEPT ![i] = T]
  BY DEF SetMatch, Inv, TypeOK
<1> QED BY <1>2, <1>4, <1>5 DEF Rewrites

\* A step that is not a session's, and its effect on lines and ledger.
LEMMA InvDecision ==
  ASSUME Inv, NEW i \in Id, NEW r \in lines[i], NEW m \in Match, SetMatch(i, r, m), Decides(i),
         ledger' \in SUBSET Entry, IsFiniteSet(Imported'),
         UNCHANGED <<stmt, disk, profile, job>>
  PROVE  Inv'
<1>1. stmt' \in [Id -> Statement \cup {None}] /\ Grows /\ RowsSound'
  BY StmtStays
<1>2. JobsSound'
  BY <1>1, JobsStay
<1>3. PICK T : Rewrites(T, lines[i]) /\ lines' = [lines EXCEPT ![i] = T]
  BY SetMatchRewrites
<1>4. lines' \in [Id -> SUBSET LineRow] /\ LinesSound'
  BY <1>1, <1>3, RewrittenLines
<1>5. spent' \in Spent
  BY ConstantsAssumption DEF Decides, Inv, TypeOK, Spent
<1>6. TypeOK'
  BY <1>1, <1>4, <1>5 DEF Inv, TypeOK, Spent
<1> QED BY <1>1, <1>2, <1>4, <1>6 DEF Inv

\* Decisions about a line are matches.
LEMMA DecisionTypes ==
  ASSUME Inv, NEW i \in Id, NEW r \in lines[i]
  PROVE  /\ r.line \in Line /\ r.match \in Match
         /\ \A e \in Entry \cup {None} :
              [status |-> "MATCHED", tx |-> e, sure |-> TRUE, mark |-> "confirmed"] \in Match
         /\ \A mark \in {"rejected", "other"} :
              [status |-> "UNMATCHED", tx |-> None, sure |-> FALSE, mark |-> mark] \in Match
         /\ [r.match EXCEPT !.status = "POSSIBLE_MATCH"] \in Match
         /\ \A e \in Entry : \A mark \in {"imported", "auto"} :
              [status |-> "MATCHED", tx |-> e, sure |-> TRUE, mark |-> mark] \in Match
         /\ r.match.tx \in Entry \cup {None}
<1>1. r.line \in Line /\ r.match \in Match
  BY DEF Inv, TypeOK, LineRow
<1> QED BY <1>1 DEF Match

LEMMA InvDecideLine ==
  ASSUME Inv, NEW i \in Id, NEW r \in lines[i], DecideLine(i, r)
  PROVE  Inv'
<1>1. ledger \in SUBSET Entry /\ ledger' = ledger /\ Decides(i) /\ UNCHANGED <<stmt, disk, profile, job>>
  BY DEF DecideLine, Inv, TypeOK
<1>2. ledger' \in SUBSET Entry /\ IsFiniteSet(Imported')
  BY <1>1 DEF Inv, Imported
<1>3. \E m \in Match : SetMatch(i, r, m)
  BY <1>1, DecisionTypes DEF DecideLine
<1> QED BY <1>1, <1>2, <1>3, InvDecision

LEMMA InvImportLine ==
  ASSUME Inv, NEW i \in Id, NEW r \in lines[i], ImportLine(i, r)
  PROVE  Inv'
<1> DEFINE e == [line |-> r.line, kind |-> "import", n |-> Cardinality(Imports(r.line)) + 1]
<1>1. IsFiniteSet(Imports(r.line))
  <2>1. Imports(r.line) \subseteq Imported
    BY DEF Imports, Imported
  <2> QED BY <2>1, FS_Subset DEF Inv
<1>2. e \in Entry
  <2>1. r.line \in Line
    BY DecisionTypes
  <2>2. Cardinality(Imports(r.line)) \in Nat
    BY <1>1, FS_CardinalityType
  <2> QED BY <2>1, <2>2 DEF Entry
<1>3. /\ Decides(i) /\ UNCHANGED <<stmt, disk, profile, job>> /\ ledger' = ledger \cup {e}
      /\ SetMatch(i, r, [status |-> "MATCHED", tx |-> e, sure |-> TRUE, mark |-> "imported"])
  BY DEF ImportLine
<1>4. e.kind = "import"
  OBVIOUS
<1> HIDE DEF e
<1>5. ledger' \in SUBSET Entry
  BY <1>2, <1>3 DEF Inv, TypeOK
<1>6. IsFiniteSet(Imported')
  <2>1. Imported' = Imported \cup {e}
    BY <1>3, <1>4 DEF Imported
  <2> QED BY <2>1, FS_AddElement DEF Inv
<1> QED BY <1>2, <1>3, <1>5, <1>6, DecisionTypes, InvDecision

LEMMA InvScanGmail ==
  ASSUME Inv, NEW i \in Id, NEW r \in lines[i], ScanGmail(i, r)
  PROVE  Inv'
<1> DEFINE e == [line |-> r.line, kind |-> "alert", n |-> 1]
<1>1. e \in Entry /\ e.kind # "import"
  <2>1. r.line \in Line
    BY DecisionTypes
  <2> QED BY <2>1 DEF Entry
<1>2. /\ Decides(i) /\ UNCHANGED <<stmt, disk, profile, job>> /\ ledger' = ledger \cup {e}
      /\ SetMatch(i, r, [status |-> "MATCHED", tx |-> e, sure |-> TRUE, mark |-> "auto"])
  BY DEF ScanGmail
<1> HIDE DEF e
<1>3. ledger' \in SUBSET Entry
  BY <1>1, <1>2 DEF Inv, TypeOK
<1>4. Imported' = Imported
  BY <1>1, <1>2 DEF Imported
<1> QED BY <1>1, <1>2, <1>3, <1>4, DecisionTypes, InvDecision DEF Inv

LEMMA InvAlertArrives ==
  ASSUME Inv, NEW l \in Line, AlertArrives(l)
  PROVE  Inv'
<1> DEFINE e == [line |-> l, kind |-> "alert", n |-> 1]
<1>1. e \in Entry /\ e.kind # "import"
  BY DEF Entry
<1>2. ledger' = ledger \cup {e} /\ UNCHANGED <<stmt, disk, lines, profile, job, spent>>
  BY DEF AlertArrives
<1> HIDE DEF e
<1>3. ledger' \in SUBSET Entry /\ Imported' = Imported
  BY <1>1, <1>2 DEF Imported, Inv, TypeOK
<1>4. RowsSound' /\ JobsSound' /\ LinesSound'
  BY <1>2, StmtStays, JobsStay DEF Inv, LinesSound, Exists
<1>5. TypeOK'
  BY <1>2, <1>3 DEF Inv, TypeOK
<1> QED BY <1>3, <1>4, <1>5 DEF Inv

LEMMA InvInterrupt ==
  ASSUME Inv, NEW s \in Sess, Interrupt(s)
  PROVE  Inv'
<1>1. job' = [job EXCEPT ![s] = None] /\ Fault("kills") /\ UNCHANGED <<stmt, disk, lines, profile, ledger>>
  BY DEF Interrupt
<1> QED BY <1>1, StmtStays, RestStays, InvFrame

LEMMA InvLoseFile ==
  ASSUME Inv, NEW i \in Id, LoseFile(i)
  PROVE  Inv'
<1>1. /\ UNCHANGED <<stmt, lines, profile, ledger, job>> /\ Fault("losses")
      /\ \E f \in disk[i] : disk' = [disk EXCEPT ![i] = @ \ {f}]
  BY DEF LoseFile
<1>2. disk' \in [Id -> SUBSET File]
  BY <1>1 DEF Inv, TypeOK
<1>3. RowsSound' /\ JobsSound' /\ LinesSound'
  BY <1>1, StmtStays, JobsStay DEF Inv, LinesSound, Exists
<1>4. TypeOK'
  BY <1>1, <1>2, RestStays DEF Inv, TypeOK, Spent
<1> QED BY <1>1, <1>3, <1>4 DEF Inv, Imported

LEMMA InvStep == Inv /\ [Next]_vars => Inv'
<1> SUFFICES ASSUME Inv, [Next]_vars PROVE Inv'
  OBVIOUS
<1>1. ASSUME NEW s \in Sess,
             \/ DiscoverStatements(s) \/ UploadStatement(s) \/ StartProfile(s) \/ BatchExtract(s)
             \/ DownloadFails(s) \/ Interrupt(s)
      PROVE  Inv'
  BY <1>1, InvDiscoverStatements, InvUploadStatement, InvStartProfile, InvBatchExtract,
     InvDownloadFails, InvInterrupt
<1>2. ASSUME NEW s \in Sess, Advance(s) PROVE Inv'
  BY <1>2, InvCheckSource, InvDownload, InvStoreCandidate, InvAssignAccount, InvSaveProfile,
     InvReprocess, InvBeginExtraction, InvParserRaises, InvParse, InvPublishLines,
     InvExtractionRaises, InvConclude, InvReconcile DEF Advance
<1>3. ASSUME NEW s \in Sess, NEW i \in Id, UnlockManually(s, i) \/ ReExtract(s, i) \/ StartReconcile(s, i)
      PROVE  Inv'
  BY <1>3, InvUnlockManually, InvReExtract, InvStartReconcile
<1>4. ASSUME NEW i \in Id, LoseFile(i) PROVE Inv'
  BY <1>4, InvLoseFile
<1>5. ASSUME NEW i \in Id, NEW r \in lines[i], DecideLine(i, r) \/ ImportLine(i, r) \/ ScanGmail(i, r)
      PROVE  Inv'
  BY <1>5, InvDecideLine, InvImportLine, InvScanGmail
<1>6. ASSUME NEW l \in Line, AlertArrives(l) PROVE Inv'
  BY <1>6, InvAlertArrives
<1>7. CASE UNCHANGED vars
  <2>1. TypeOK' /\ LinesSound' /\ IsFiniteSet(Imported')
    BY <1>7 DEF Inv, TypeOK, LinesSound, Exists, Imported, vars
  <2> QED BY <1>7, <2>1, StmtStays, JobsStay DEF Inv, vars
<1> QED BY <1>1, <1>2, <1>3, <1>4, <1>5, <1>6, <1>7 DEF Next

\* The inductive invariant of what holds whatever runs at the same time.
THEOREM Invariance == Spec => []Inv
<1>1. Init => Inv
  BY InvInit
<1>2. Inv /\ [Next]_vars => Inv'
  BY InvStep
<1> QED BY <1>1, <1>2, PTL DEF Spec

\* Whatever is discovered, uploaded, unlocked, extracted and decided, and in whatever order
\* requests interleave, the vault's tables, files and requests keep their types: in
\* particular an extraction only ever has a content to parse, and a row its own tag.
THEOREM TypeCorrect == Spec => []TypeOK
<1>1. Inv => TypeOK
  BY DEF Inv
<1> QED BY <1>1, Invariance, PTL

-----------------------------------------------------------------------------
(* When no two requests work on the same statement.                        *)

\* Holds of a job.
HeldBy(j, st) ==
  IF j = None THEN {}
  ELSE j.work \cup (IF j.step = "assign" THEN {} ELSE {j.at} \ {None})
         \cup IF j.step = "profile"
              THEN {i \in Id : st[i] # None /\ st[i].account = j.account /\ st[i].status \in Locked}
              ELSE {}

LEMMA HoldsIsHeld == \A s \in Sess : Holds(s) = HeldBy(job[s], stmt) /\ Holds(s)' = HeldBy(job'[s], stmt')
BY DEF Holds, HeldBy, LockedOf, Exists

\* A request holds only what exists.
LEMMA HeldExists ==
  ASSUME Inv, NEW s \in Sess
  PROVE  \A i \in Holds(s) : i \in Id /\ stmt[i] # None
<1>1. CASE job[s] = None
  BY <1>1 DEF Holds
<1>2. CASE job[s] # None
  <2>1. job[s] \in Job /\ Sound(job[s], stmt)
    BY <1>2, JobAt
  <2>2. \A i \in LockedOf(job[s].account) : i \in Id /\ stmt[i] # None
    BY DEF LockedOf, Exists
  <2> QED BY <1>2, <2>1, <2>2 DEF Holds, Sound, Job
<1> QED BY <1>1, <1>2

\* A request that goes on holds nothing but the work it has left.
LEMMA ContinuePhase ==
  ASSUME NEW j \in Job, NEW st, NEW ls, j.again = "reprocess" => \A i \in j.work : st[i].status \in Locked
  PROVE  /\ HeldBy(Continue(j), st) \subseteq j.work
         /\ Continue(j) # None => /\ Phase(Continue(j), st, ls)
                                  /\ Continue(j).step \notin {"profile", "reconcile"}
<1> DEFINE rest == [j EXCEPT !.cand = None, !.at = None, !.old = {}, !.seen = {}]
<1>1. CASE j.cand # None /\ j.cand.given # None
  <2>1. Continue(j) = [j EXCEPT !.step = "assign", !.old = {}]
    BY <1>1 DEF Continue
  <2>2. /\ Continue(j).step = "assign" /\ Continue(j).work = j.work /\ Continue(j).again = j.again
    BY <2>1 DEF Job
  <2> QED BY <2>2 DEF HeldBy, Phase
<1>2. CASE ~(j.cand # None /\ j.cand.given # None) /\ j.mails # {}
  <2>1. Continue(j) = [rest EXCEPT !.step = "check"]
    BY <1>2 DEF Continue
  <2>2. /\ Continue(j).step = "check" /\ Continue(j).work = j.work /\ Continue(j).again = j.again
        /\ Continue(j).at = None
    BY <2>1 DEF Job
  <2> QED BY <2>2 DEF HeldBy, Phase
<1>3. CASE ~(j.cand # None /\ j.cand.given # None) /\ j.mails = {} /\ j.work # {}
  <2>1. Continue(j) = [rest EXCEPT !.step = j.again]
    BY <1>3 DEF Continue
  <2>2. /\ Continue(j).step = j.again /\ Continue(j).work = j.work /\ Continue(j).again = j.again
        /\ Continue(j).at = None /\ j.again \in {"extract", "reprocess"}
    BY <2>1 DEF Job
  <2> QED BY <2>2 DEF HeldBy, Phase
<1>4. CASE ~(j.cand # None /\ j.cand.given # None) /\ j.mails = {} /\ j.work = {}
  BY <1>4 DEF Continue, HeldBy
<1> QED BY <1>1, <1>2, <1>3, <1>4

\* A step of session s that touches only the statements T, which nobody else holds.
LEMMA ApartFrame ==
  ASSUME Inv, InvApart, NEW s \in Sess, NEW j \in Job \cup {None}, job' = [job EXCEPT ![s] = j],
         NEW T \in SUBSET Id,
         \A k \in Id \ T : stmt'[k] = stmt[k] /\ lines'[k] = lines[k],
         \A z \in Sess \ {s} : Holds(z) \cap T = {},
         \A z \in Sess \ {s} : Holds(z) \cap HeldBy(j, stmt') = {},
         \A k \in T : \/ stmt'[k] = stmt[k]
                      \/ stmt'[k].status \in Locked => k \notin HeldBy(j, stmt'),
         j # None /\ j.step = "profile" =>
           \A z \in Sess \ {s} : At(z, "profile") => job[z].account # j.account,
         j # None => Phase(j, stmt', lines'),
         \A k \in T : Closed(stmt'[k], lines'[k]) /\ Evidenced(stmt'[k], lines'[k])
  PROVE  InvApart'
<1>1. job'[s] = j /\ \A z \in Sess \ {s} : job'[z] = job[z]
  BY DEF Inv, TypeOK
<1>2. \A z \in Sess \ {s} : Holds(z) = HeldBy(job[z], stmt) /\ Holds(z)' = HeldBy(job[z], stmt')
  BY <1>1, HoldsIsHeld
<1>3. Holds(s)' = HeldBy(j, stmt')
  BY <1>1, HoldsIsHeld
\* What another session holds anew is touched, and waits for the profile it is saving.
<1>4. ASSUME NEW z \in Sess \ {s}, NEW k \in Holds(z)', k \notin Holds(z)
      PROVE  /\ k \in T /\ At(z, "profile") /\ stmt'[k].account = job[z].account
             /\ stmt'[k].status \in Locked /\ stmt'[k] # stmt[k]
  BY <1>2, <1>4 DEF HeldBy, At
<1>5. Apart'
  <2> SUFFICES ASSUME NEW y \in Sess, NEW z \in Sess, y # z
               PROVE  /\ Holds(y)' \cap Holds(z)' = {}
                      /\ At(y, "profile")' /\ At(z, "profile")' => job'[y].account # job'[z].account
    BY DEF Apart
  <2>1. /\ Holds(y) \cap Holds(z) = {}
        /\ At(y, "profile") /\ At(z, "profile") => job[y].account # job[z].account
    BY DEF InvApart, Apart
  <2>2. CASE y = s
    BY <1>1, <1>3, <1>4, <2>2 DEF At
  <2>3. CASE z = s
    BY <1>1, <1>3, <1>4, <2>3 DEF At
  <2>4. CASE y # s /\ z # s
    <3>1. Holds(y)' \cap Holds(z)' = {}
      <4> SUFFICES ASSUME NEW k \in Holds(y)' \cap Holds(z)' PROVE FALSE
        OBVIOUS
      <4> QED BY <1>4, <2>1, <2>4
    <3> QED BY <1>1, <2>1, <2>4, <3>1 DEF At
  <2> QED BY <2>2, <2>3, <2>4
<1>6. Phases'
  <2> SUFFICES ASSUME NEW z \in Sess, job'[z] # None PROVE Phase(job'[z], stmt', lines')
    BY DEF Phases
  <2>1. CASE z = s
    BY <1>1, <2>1
  <2>2. CASE z # s
    <3>1. job'[z] = job[z] /\ job[z] \in Job /\ Sound(job[z], stmt) /\ Phase(job[z], stmt, lines)
      BY <1>1, <2>2, JobAt DEF InvApart, Phases
    <3>2. ASSUME NEW k \in Holds(z) PROVE stmt'[k] = stmt[k] /\ lines'[k] = lines[k]
      BY <2>2, <3>2, HeldExists
    <3>3. job[z].work \subseteq Holds(z)
      BY <1>2, <2>2, <3>1 DEF HeldBy
    <3>4. job[z].step \in {"parse", "publish", "verdict"} => job[z].at \in Holds(z)
      BY <1>2, <2>2, <3>1 DEF HeldBy, Sound
    <3> QED BY <3>1, <3>2, <3>3, <3>4 DEF Phase
  <2> QED BY <2>1, <2>2
<1>7. Judged'
  BY DEF InvApart, Judged
<1> QED BY <1>5, <1>6, <1>7 DEF InvApart

\* A step of a session that writes neither statements nor lines.
LEMMA ApartStays ==
  ASSUME Inv, InvApart, NEW s \in Sess, NEW j \in Job \cup {None}, job' = [job EXCEPT ![s] = j],
         UNCHANGED <<stmt, lines>>,
         \A z \in Sess \ {s} : Holds(z) \cap HeldBy(j, stmt) = {},
         j # None /\ j.step = "profile" =>
           \A z \in Sess \ {s} : At(z, "profile") => job[z].account # j.account,
         j # None => Phase(j, stmt, lines)
  PROVE  InvApart'
<1> DEFINE T == {}
<1>1. T \in SUBSET Id
  OBVIOUS
<1>2. /\ \A z \in Sess \ {s} : Holds(z) \cap HeldBy(j, stmt') = {}
      /\ j # None => Phase(j, stmt', lines')
  OBVIOUS
<1> HIDE DEF T
<1> QED BY <1>1, <1>2, ApartFrame, ZenonT(60) DEF T

LEMMA Others ==
  ASSUME Inv, InvApart, NEW s \in Sess
  PROVE  /\ \A z \in Sess \ {s} : Holds(z) \cap Holds(s) = {}
         /\ job[s] # None => /\ Phase(job[s], stmt, lines) /\ job[s].work \subseteq Holds(s)
                             /\ job[s].step # "assign" /\ job[s].at # None => job[s].at \in Holds(s)
BY DEF InvApart, Apart, Phases, Holds

LEMMA NobodyElse ==
  ASSUME "statement" \in Quiet, NEW s, NEW S, Undisturbed(s, S)
  PROVE  \A z \in Sess \ {s} : Holds(z) \cap S = {}
BY DEF Undisturbed

LEMMA JobTyped ==
  ASSUME Inv, Inv', NEW s \in Sess, NEW j, job' = [job EXCEPT ![s] = j]
  PROVE  j \in Job \cup {None}
<1>1. job' \in [Sess -> Job \cup {None}] /\ job \in [Sess -> Job \cup {None}]
  BY DEF Inv, TypeOK
<1>2. job'[s] = j
  BY <1>1
<1> QED BY <1>1, <1>2

\* Requests that only move on.
LEMMA ApartGoesOn ==
  ASSUME Inv, InvApart, NEW s \in Sess, job[s] # None, NEW k \in Job, k.work \subseteq job[s].work,
         k.again = job[s].again, job' = [job EXCEPT ![s] = Continue(k)], Inv',
         UNCHANGED <<stmt, lines>>
  PROVE  InvApart'
<1>1. job[s] \in Job
  BY JobAt
<1>2. k.again = "reprocess" => \A i \in k.work : stmt[i].status \in Locked
  BY Others DEF Phase
<1>3. /\ HeldBy(Continue(k), stmt) \subseteq k.work
      /\ Continue(k) # None => Phase(Continue(k), stmt, lines) /\ Continue(k).step # "profile"
  BY <1>2, ContinuePhase
<1>4. Continue(k) \in Job \cup {None}
  BY JobTyped
<1>5. \A z \in Sess \ {s} : Holds(z) \cap HeldBy(Continue(k), stmt) = {}
  BY <1>3, Others
<1> QED BY <1>3, <1>4, <1>5, ApartStays

LEMMA ApartStartIngest ==
  ASSUME Inv, InvApart, NEW s \in Sess, NEW cands \in SUBSET Candidate, StartIngest(s, cands)
  PROVE  InvApart'
<1> DEFINE j == [Idle EXCEPT !.mails = cands]
<1>1. j \in Job
  BY IdleJob DEF Job
<1>2. HeldBy(j, stmt) = {} /\ Phase(j, stmt, lines) /\ j.step # "profile"
  BY DEF Idle, HeldBy, Phase
<1>3. job' = [job EXCEPT ![s] = j] /\ UNCHANGED <<stmt, lines>>
  BY DEF StartIngest
<1> HIDE DEF j
<1> QED BY <1>1, <1>2, <1>3, ApartStays

LEMMA ApartCheckSource ==
  ASSUME Inv, Inv', InvApart, NEW s \in Sess, CheckSource(s)
  PROVE  InvApart'
<1>1. job[s] \in Job /\ job[s].step = "check" /\ job[s] # None
  BY JobAt DEF CheckSource, At
<1>2. PICK c \in job[s].mails :
         job' = [job EXCEPT ![s] = IF Known(c) THEN Continue([job[s] EXCEPT !.mails = @ \ {c}])
                                   ELSE [job[s] EXCEPT !.mails = @ \ {c}, !.cand = c, !.step = "fetch"]]
  BY <1>1 DEF CheckSource, Job
<1> DEFINE rest == [job[s] EXCEPT !.mails = @ \ {c}]
           next == [job[s] EXCEPT !.mails = @ \ {c}, !.cand = c, !.step = "fetch"]
<1>3. UNCHANGED <<stmt, lines>>
  BY DEF CheckSource
<1>4. CASE Known(c)
  <2>1. rest \in Job /\ rest.work = job[s].work /\ rest.again = job[s].again
    BY <1>1 DEF Job
  <2>2. job' = [job EXCEPT ![s] = Continue(rest)]
    BY <1>2, <1>4
  <2> HIDE DEF rest
  <2> QED BY <1>1, <1>3, <2>1, <2>2, ApartGoesOn
<1>5. CASE ~Known(c)
  <2>1. /\ next \in Job /\ next.work = job[s].work /\ next.again = job[s].again /\ next.step = "fetch"
        /\ next.at = job[s].at
    BY <1>1 DEF Job, Step
  <2>2. job' = [job EXCEPT ![s] = next]
    BY <1>2, <1>5
  <2> HIDE DEF next
  <2>3. next # None
    BY <2>1, NoneAssumption
  <2>4. HeldBy(next, stmt) \subseteq Holds(s)
    BY <1>1, <2>1 DEF HeldBy, Holds
  <2>5. Phase(next, stmt, lines)
    BY <1>1, <2>1, Others DEF Phase
  <2>6. \A z \in Sess \ {s} : Holds(z) \cap HeldBy(next, stmt) = {}
    BY <2>4, Others
  <2> QED BY <1>3, <2>1, <2>2, <2>5, <2>6, ApartStays
<1> QED BY <1>4, <1>5

LEMMA ApartDownload ==
  ASSUME Inv, Inv', InvApart, NEW s \in Sess, Download(s)
  PROVE  InvApart'
<1>1. job[s] \in Job /\ job[s].step = "fetch" /\ job[s] # None
  BY JobAt DEF Download, At
<1> DEFINE same == Stored(job[s].cand.pdf)
           at   == CHOOSE i \in same : TRUE
           store == [job[s] EXCEPT !.step = "store"]
           known == [job[s] EXCEPT !.at = at]
<1>2. UNCHANGED <<stmt, lines>>
  BY DEF Download
<1>3. job' = [job EXCEPT ![s] = IF same = {} THEN store ELSE Continue(known)]
  BY DEF Download
<1>4. CASE same = {}
  <2>1. /\ store \in Job /\ store.work = job[s].work /\ store.again = job[s].again /\ store.step = "store"
        /\ store.at = job[s].at
    BY <1>1 DEF Job, Step
  <2>2. job' = [job EXCEPT ![s] = store]
    BY <1>3, <1>4
  <2> HIDE DEF store
  <2>3. HeldBy(store, stmt) \subseteq Holds(s)
    BY <1>1, <2>1, NoneAssumption DEF HeldBy, Holds
  <2>4. Phase(store, stmt, lines)
    BY <1>1, <2>1, Others DEF Phase
  <2>5. \A z \in Sess \ {s} : Holds(z) \cap HeldBy(store, stmt) = {}
    BY <2>3, Others
  <2> QED BY <1>2, <2>1, <2>2, <2>4, <2>5, ApartStays
<1>5. CASE same # {}
  <2>1. at \in Id
    BY <1>5 DEF Stored
  <2>2. known \in Job /\ known.work = job[s].work /\ known.again = job[s].again
    BY <1>1, <2>1 DEF Job
  <2>3. job' = [job EXCEPT ![s] = Continue(known)]
    BY <1>3, <1>5
  <2> HIDE DEF known, at
  <2> QED BY <1>1, <1>2, <2>2, <2>3, ApartGoesOn
<1> QED BY <1>4, <1>5

LEMMA ApartStartProfile ==
  ASSUME Inv, InvApart, "statement" \in Quiet, NEW s \in Sess, StartProfile(s), Inv'
  PROVE  InvApart'
<1>1. PICK a \in Account, D \in Details \cup {{}}, k \in Key \cup {None} :
         LET known == IF profile[a] = None THEN None ELSE profile[a].custom
             given == [derived |-> D, custom |-> IF k = None THEN known ELSE k]
         IN /\ Undisturbed(s, LockedOf(a)) /\ Unsaved(s, a)
            /\ job' = [job EXCEPT ![s] = [Idle EXCEPT !.step = "profile", !.account = a, !.config = given]]
  BY DEF StartProfile
<1> DEFINE known == IF profile[a] = None THEN None ELSE profile[a].custom
           given == [derived |-> D, custom |-> IF k = None THEN known ELSE k]
           j == [Idle EXCEPT !.step = "profile", !.account = a, !.config = given]
<1>2. job' = [job EXCEPT ![s] = j] /\ UNCHANGED <<stmt, lines>>
  BY <1>1 DEF StartProfile
<1>3. /\ j.step = "profile" /\ j.account = a /\ j.work = {} /\ j.at = None /\ j.again = "extract"
  BY DEF Idle
<1> HIDE DEF j
<1>4. j \in Job \cup {None}
  BY <1>2, JobTyped
<1>5. HeldBy(j, stmt) \subseteq LockedOf(a)
  BY <1>3 DEF HeldBy, LockedOf, Exists
<1>6. \A z \in Sess \ {s} : Holds(z) \cap LockedOf(a) = {}
  BY <1>1, NobodyElse
<1>7. Phase(j, stmt, lines)
  BY <1>3 DEF Phase
<1>8. \A z \in Sess \ {s} : At(z, "profile") => job[z].account # j.account
  BY <1>1, <1>3 DEF Unsaved
<1>9. \A z \in Sess \ {s} : Holds(z) \cap HeldBy(j, stmt) = {}
  BY <1>5, <1>6
<1> QED BY <1>2, <1>4, <1>7, <1>8, <1>9, ApartStays

LEMMA ApartSaveProfile ==
  ASSUME Inv, Inv', InvApart, NEW s \in Sess, SaveProfile(s)
  PROVE  InvApart'
<1>1. job[s] \in Job /\ job[s].step = "profile" /\ job[s] # None
  BY JobAt DEF SaveProfile, At
<1> DEFINE a == job[s].account
           k == [job[s] EXCEPT !.work = LockedOf(a), !.again = "reprocess"]
<1>2. job' = [job EXCEPT ![s] = Continue(k)] /\ UNCHANGED <<stmt, lines>>
  BY DEF SaveProfile
<1>3. k \in Job /\ k.work = LockedOf(a)
  BY <1>1 DEF Job, LockedOf
<1>4. \A i \in k.work : stmt[i].status \in Locked
  BY <1>3 DEF LockedOf
<1> HIDE DEF k
<1>5. /\ HeldBy(Continue(k), stmt) \subseteq k.work
      /\ Continue(k) # None => Phase(Continue(k), stmt, lines) /\ Continue(k).step # "profile"
  BY <1>3, <1>4, ContinuePhase
<1>6. Continue(k) \in Job \cup {None}
  BY <1>2, JobTyped
<1>7. k.work \subseteq Holds(s)
  BY <1>1, <1>3 DEF Holds
<1>8. \A z \in Sess \ {s} : Holds(z) \cap HeldBy(Continue(k), stmt) = {}
  BY <1>5, <1>7, Others
<1> QED BY <1>2, <1>5, <1>6, <1>8, ApartStays

\* A request about one statement that starts.
LEMMA ApartStarts ==
  ASSUME Inv, InvApart, NEW s \in Sess, NEW i \in Id, \A z \in Sess \ {s} : Holds(z) \cap {i} = {},
         NEW j \in Job, job' = [job EXCEPT ![s] = j], j.step \in {"extract", "reconcile"},
         j.at = i, j.work = {}, UNCHANGED <<stmt, lines>>
  PROVE  InvApart'
<1>1. HeldBy(j, stmt) \subseteq {i} /\ Phase(j, stmt, lines) /\ j.step # "profile"
  BY DEF HeldBy, Phase
<1>2. \A z \in Sess \ {s} : Holds(z) \cap HeldBy(j, stmt) = {}
  BY <1>1
<1> QED BY <1>1, <1>2, ApartStays

LEMMA ApartReExtract ==
  ASSUME Inv, InvApart, "statement" \in Quiet, NEW s \in Sess, NEW i \in Id, ReExtract(s, i)
  PROVE  InvApart'
<1> DEFINE j == [Idle EXCEPT !.step = "extract", !.at = i]
<1>1. job' = [job EXCEPT ![s] = j] /\ UNCHANGED <<stmt, lines>> /\ Undisturbed(s, {i})
  BY DEF ReExtract
<1>2. j \in Job /\ j.step = "extract" /\ j.at = i /\ j.work = {}
  BY IdleJob DEF Job, Step, Idle
<1> HIDE DEF j
<1> QED BY <1>1, <1>2, NobodyElse, ApartStarts

LEMMA ApartStartReconcile ==
  ASSUME Inv, InvApart, "statement" \in Quiet, NEW s \in Sess, NEW i \in Id, StartReconcile(s, i)
  PROVE  InvApart'
<1> DEFINE j == [Idle EXCEPT !.step = "reconcile", !.at = i, !.old = lines[i], !.seen = ledger]
<1>1. job' = [job EXCEPT ![s] = j] /\ UNCHANGED <<stmt, lines>> /\ Undisturbed(s, {i})
  BY DEF StartReconcile
<1>2. lines[i] \in SUBSET LineRow /\ ledger \in SUBSET Entry
  BY DEF Inv, TypeOK
<1>3. j \in Job /\ j.step = "reconcile" /\ j.at = i /\ j.work = {}
  BY <1>2, IdleJob DEF Job, Step, Idle
<1> HIDE DEF j
<1> QED BY <1>1, <1>3, NobodyElse, ApartStarts

LEMMA ApartBatchExtract ==
  ASSUME Inv, Inv', InvApart, "statement" \in Quiet, NEW s \in Sess, BatchExtract(s)
  PROVE  InvApart'
<1> DEFINE k == [Idle EXCEPT !.work = Extractable]
<1>1. /\ job' = [job EXCEPT ![s] = Continue(k)] /\ UNCHANGED <<stmt, lines>>
      /\ Undisturbed(s, Extractable)
  BY DEF BatchExtract
<1>2. k \in Job /\ k.work = Extractable /\ k.again = "extract"
  BY IdleJob DEF Job, Extractable, Idle
<1> HIDE DEF k
<1>3. /\ HeldBy(Continue(k), stmt) \subseteq k.work
      /\ Continue(k) # None => Phase(Continue(k), stmt, lines) /\ Continue(k).step # "profile"
  BY <1>2, ContinuePhase
<1>4. Continue(k) \in Job \cup {None}
  BY <1>1, JobTyped
<1>5. \A z \in Sess \ {s} : Holds(z) \cap HeldBy(Continue(k), stmt) = {}
  BY <1>1, <1>2, <1>3, NobodyElse
<1> QED BY <1>1, <1>3, <1>4, <1>5, ApartStays

\* Requests that write the statement i they hold, or that is new, and move on with job j.
LEMMA ApartTouches ==
  ASSUME Inv, InvApart, NEW s \in Sess, NEW i \in Id, \A z \in Sess \ {s} : i \notin Holds(z),
         NEW j \in Job \cup {None}, job' = [job EXCEPT ![s] = j],
         NEW q, stmt' = [stmt EXCEPT ![i] = q],
         NEW S, lines' = [lines EXCEPT ![i] = S],
         HeldBy(j, stmt') \subseteq Holds(s) \cup {i},
         q = stmt[i] \/ (q.status \in Locked => i \notin HeldBy(j, stmt')),
         j # None => j.step # "profile" /\ Phase(j, stmt', lines'),
         Closed(q, S), Evidenced(q, S)
  PROVE  InvApart'
<1>1. /\ stmt'[i] = q /\ lines'[i] = S
      /\ \A k \in Id \ {i} : stmt'[k] = stmt[k] /\ lines'[k] = lines[k]
  BY DEF Inv, TypeOK
<1>2. ASSUME NEW z \in Sess \ {s}
      PROVE  Holds(z) \cap HeldBy(j, stmt') = {} /\ Holds(z) \cap {i} = {}
  <2>1. Holds(z) \cap Holds(s) = {} /\ i \notin Holds(z)
    BY Others
  <2> QED BY <2>1
<1> DEFINE T == {i}
<1>3. /\ T \in SUBSET Id
      /\ \A k \in Id \ T : stmt'[k] = stmt[k] /\ lines'[k] = lines[k]
      /\ \A k \in T : Closed(stmt'[k], lines'[k]) /\ Evidenced(stmt'[k], lines'[k])
      /\ \A k \in T : \/ stmt'[k] = stmt[k]
                      \/ stmt'[k].status \in Locked => k \notin HeldBy(j, stmt')
      /\ \A z \in Sess \ {s} : Holds(z) \cap T = {}
  BY <1>1, <1>2
<1> HIDE DEF T
<1> QED BY <1>2, <1>3, ApartFrame

\* The same when the request goes on without i.
LEMMA ApartLeaves ==
  ASSUME Inv, Inv', InvApart, NEW s \in Sess, job[s] # None,
         NEW i \in Id, \A z \in Sess \ {s} : i \notin Holds(z),
         NEW k \in Job, k.work \subseteq job[s].work \ {i}, k.again = job[s].again,
         job' = [job EXCEPT ![s] = Continue(k)],
         NEW q, stmt' = [stmt EXCEPT ![i] = q],
         NEW S, lines' = [lines EXCEPT ![i] = S], Closed(q, S), Evidenced(q, S)
  PROVE  InvApart'
<1>1. \A n \in Id \ {i} : stmt'[n] = stmt[n]
  BY DEF Inv, TypeOK
<1>2. k.again = "reprocess" => \A n \in k.work : stmt'[n].status \in Locked
  BY <1>1, Others DEF Phase, Job
<1>3. /\ HeldBy(Continue(k), stmt') \subseteq k.work
      /\ Continue(k) # None => Phase(Continue(k), stmt', lines') /\ Continue(k).step # "profile"
  BY <1>2, ContinuePhase
<1>4. Continue(k) \in Job \cup {None}
  BY JobTyped
<1>5. HeldBy(Continue(k), stmt') \subseteq Holds(s) \cup {i} /\ i \notin HeldBy(Continue(k), stmt')
  BY <1>3, Others
<1> QED BY <1>3, <1>4, <1>5, ApartTouches

LEMMA LinesSame ==
  ASSUME Inv, NEW i \in Id, lines' = lines
  PROVE  lines' = [lines EXCEPT ![i] = lines[i]]
BY DEF Inv, TypeOK

\* A new statement is nobody's and has no lines.
LEMMA FreshFree ==
  ASSUME Inv, NEW i \in Id, Fresh(i)
  PROVE  stmt[i] = None /\ lines[i] = {} /\ \A z \in Sess : i \notin Holds(z)
BY HeldExists DEF Fresh, Exists, Inv, LinesSound

LEMMA ApartDownloadFails ==
  ASSUME Inv, Inv', InvApart, NEW s \in Sess, DownloadFails(s)
  PROVE  InvApart'
<1>1. job[s] \in Job /\ Sound(job[s], stmt) /\ job[s].step = "fetch" /\ job[s] # None
  BY JobAt DEF DownloadFails, At
<1>2. PICK i \in Id : Fresh(i) /\ stmt' = [stmt EXCEPT ![i] = Row(job[s].cand, "DOWNLOAD_FAILED")]
  BY DEF DownloadFails
<1> DEFINE k == [job[s] EXCEPT !.cand = None]
           q == Row(job[s].cand, "DOWNLOAD_FAILED")
<1>3. k \in Job /\ k.work = {} /\ k.again = job[s].again
  BY <1>1 DEF Job, Sound
<1>4. job' = [job EXCEPT ![s] = Continue(k)] /\ lines' = lines
  BY DEF DownloadFails
<1>5. Closed(q, lines[i]) /\ Evidenced(q, lines[i])
  BY DEF Row, Closed, Evidenced, Locked
<1>6. stmt' = [stmt EXCEPT ![i] = q]
  BY <1>2
<1> HIDE DEF k, q
<1> QED BY <1>1, <1>2, <1>3, <1>4, <1>5, <1>6, FreshFree, LinesSame, ApartLeaves

\* One transaction of a request on a statement it holds alone and that was not read.
LEMMA ApartProcess ==
  ASSUME Inv, Inv', InvApart, NEW s \in Sess, job[s] # None, NEW j \in Job, NEW i \in Id,
         NEW r \in Statement, NEW p \in Pdf, RowSound(r),
         \A z \in Sess \ {s} : i \notin Holds(z), ~r.unlocked, lines[i] = {},
         j.work \subseteq job[s].work \ {i}, j.again = job[s].again,
         Process(s, j, i, r, p)
  PROVE  InvApart'
<1> DEFINE q == Processed(r, p)
<1>1. /\ q \in Statement /\ q # None
      /\ (q.unlocked <=> r.unlocked \/ q.status = "READY_FOR_EXTRACTION")
      /\ q.status \in Locked \cup {"INVALID_PDF", "READY_FOR_EXTRACTION"}
  BY ProcessedRow
<1>2. /\ stmt' = [stmt EXCEPT ![i] = q]
      /\ job' = [job EXCEPT ![s] = IF q.status = "READY_FOR_EXTRACTION"
                                   THEN [j EXCEPT !.step = "extract", !.at = i]
                                   ELSE Continue([j EXCEPT !.at = i])]
      /\ lines' = lines
  BY DEF Process
<1> HIDE DEF q
<1>3. Closed(q, lines[i]) /\ Evidenced(q, lines[i])
  BY <1>1 DEF Closed, Evidenced, Locked
<1>4. lines' = [lines EXCEPT ![i] = lines[i]]
  BY <1>2, LinesSame
<1>5. CASE q.status # "READY_FOR_EXTRACTION"
  <2> DEFINE on == [j EXCEPT !.at = i]
  <2>1. on \in Job /\ on.work \subseteq job[s].work \ {i} /\ on.again = job[s].again
    BY DEF Job
  <2>2. job' = [job EXCEPT ![s] = Continue(on)]
    BY <1>2, <1>5
  <2> HIDE DEF on
  <2>3. stmt' = [stmt EXCEPT ![i] = q]
    BY <1>2
  <2> QED BY <1>3, <1>4, <2>1, <2>2, <2>3, ApartLeaves
<1>6. CASE q.status = "READY_FOR_EXTRACTION"
  <2> DEFINE ready == [j EXCEPT !.step = "extract", !.at = i]
  <2>1. /\ ready \in Job /\ ready.step = "extract" /\ ready.at = i /\ ready.work = j.work
        /\ ready.again = j.again
    BY DEF Job, Step
  <2>2. job' = [job EXCEPT ![s] = ready]
    BY <1>2, <1>6
  <2> HIDE DEF ready
  <2>3. HeldBy(ready, stmt') \subseteq Holds(s) \cup {i}
    BY <2>1, Others DEF HeldBy
  <2>4. \A n \in Id \ {i} : stmt'[n] = stmt[n]
    BY <1>2 DEF Inv, TypeOK
  <2>5. Phase(ready, stmt', lines')
    BY <2>1, <2>4, Others DEF Phase, Job
  <2>6. q.status \notin Locked
    BY <1>6 DEF Locked
  <2> QED BY <1>2, <1>3, <1>4, <2>1, <2>2, <2>3, <2>5, <2>6, ApartTouches
<1> QED BY <1>5, <1>6

LEMMA ApartStoreCandidate ==
  ASSUME Inv, Inv', InvApart, NEW s \in Sess, StoreCandidate(s)
  PROVE  InvApart'
<1>1. job[s] \in Job /\ Sound(job[s], stmt) /\ job[s].step = "store" /\ job[s] # None
  BY JobAt DEF StoreCandidate, At
<1> DEFINE c == job[s].cand
           r == [Row(c, "INVALID_PDF") EXCEPT !.account = c.account]
<1>2. c \in Candidate /\ job[s].work = {}
  BY <1>1 DEF Sound, Job
<1>3. PICK i \in Id : Fresh(i) /\ Process(s, job[s], i, r, c.pdf)
  BY DEF StoreCandidate
<1>4. r \in Statement /\ RowSound(r) /\ ~r.unlocked
  BY <1>2 DEF Row, Candidate, Statement, Status, Report, RowSound, Locked
<1>5. c.pdf \in Pdf
  BY <1>2 DEF Candidate
<1> HIDE DEF c, r
<1> QED BY <1>1, <1>2, <1>3, <1>4, <1>5, FreshFree, ApartProcess

LEMMA ApartReprocess ==
  ASSUME Inv, Inv', InvApart, NEW s \in Sess, Reprocess(s)
  PROVE  InvApart'
<1>1. job[s] \in Job /\ Sound(job[s], stmt) /\ job[s].step = "reprocess" /\ job[s] # None
  BY JobAt DEF Reprocess, At
<1>2. PICK i \in job[s].work :
        \/ /\ job' = [job EXCEPT ![s] = Continue([job[s] EXCEPT !.work = @ \ {i}])]
           /\ UNCHANGED <<stmt, disk, lines, profile, ledger, spent>>
        \/ Process(s, [job[s] EXCEPT !.work = @ \ {i}], i, stmt[i], stmt[i].pdf)
  BY DEF Reprocess
<1> DEFINE rest == [job[s] EXCEPT !.work = @ \ {i}]
<1>3. rest \in Job /\ rest.work = job[s].work \ {i} /\ rest.again = job[s].again
  BY <1>1 DEF Job
<1> HIDE DEF rest
<1>4. CASE /\ job' = [job EXCEPT ![s] = Continue(rest)]
           /\ UNCHANGED <<stmt, disk, lines, profile, ledger, spent>>
  BY <1>1, <1>3, <1>4, ApartGoesOn
<1>5. CASE Process(s, rest, i, stmt[i], stmt[i].pdf)
  <2>1. i \in Id /\ stmt[i] # None /\ stmt[i] \in Statement /\ RowSound(stmt[i])
    BY <1>1 DEF Sound, Job, Inv, TypeOK, RowsSound
  <2>2. stmt[i].status \in Locked
    BY <1>1, Others DEF Phase, Sound
  <2>3. ~stmt[i].unlocked /\ lines[i] = {}
    BY <2>1, <2>2 DEF InvApart, Judged, Closed
  <2>4. stmt[i].pdf \in Pdf
    BY <2>1, <2>2 DEF RowSound, Statement
  <2>5. \A z \in Sess \ {s} : i \notin Holds(z)
    BY <1>1, Others
  <2> QED BY <1>1, <1>3, <1>5, <2>1, <2>3, <2>4, <2>5, ApartProcess
<1> QED BY <1>2, <1>4, <1>5 DEF rest

LEMMA ApartAssignAccount ==
  ASSUME Inv, Inv', InvApart, "statement" \in Quiet, NEW s \in Sess, AssignAccount(s)
  PROVE  InvApart'
<1>1. job[s] \in Job /\ Sound(job[s], stmt) /\ job[s].step = "assign" /\ job[s] # None
  BY JobAt DEF AssignAccount, At
<1> DEFINE i == job[s].at
           k == [job[s] EXCEPT !.cand = None]
           q == [stmt[i] EXCEPT !.account = IF @ = None THEN job[s].cand.given ELSE @]
<1>2. i \in Id /\ stmt[i] # None /\ stmt[i] \in Statement
  BY <1>1 DEF Sound, Job, Inv, TypeOK
<1>3. /\ stmt' = [stmt EXCEPT ![i] = q] /\ job' = [job EXCEPT ![s] = Continue(k)] /\ lines' = lines
      /\ Undisturbed(s, {i})
  BY DEF AssignAccount
<1>4. k \in Job /\ k.work = {} /\ k.again = job[s].again
  BY <1>1 DEF Job, Sound
<1>5. /\ q.status = stmt[i].status /\ q.unlocked = stmt[i].unlocked /\ q.report = stmt[i].report
      /\ q.pdf = stmt[i].pdf
  BY <1>2 DEF Statement
<1>6. Closed(q, lines[i]) /\ Evidenced(q, lines[i])
  BY <1>2, <1>5 DEF InvApart, Judged, Closed, Evidenced
<1>7. \A z \in Sess \ {s} : i \notin Holds(z)
  BY <1>3, NobodyElse
<1> HIDE DEF q, k, i
<1> QED BY <1>1, <1>2, <1>3, <1>4, <1>6, <1>7, LinesSame, ApartLeaves

LEMMA ApartUnlockManually ==
  ASSUME Inv, Inv', InvApart, "statement" \in Quiet, NEW s \in Sess, NEW i \in Id, UnlockManually(s, i)
  PROVE  InvApart'
<1> DEFINE q == [stmt[i] EXCEPT !.unlocked = TRUE, !.status = "READY_FOR_EXTRACTION"]
           j == [Idle EXCEPT !.step = "extract", !.at = i]
<1>1. /\ stmt' = [stmt EXCEPT ![i] = q] /\ job' = [job EXCEPT ![s] = j] /\ lines' = lines
      /\ Undisturbed(s, {i}) /\ stmt[i] \in Statement
  BY DEF UnlockManually, Exists, Inv, TypeOK
<1>2. q.status = "READY_FOR_EXTRACTION"
  BY <1>1 DEF Statement
<1>3. Closed(q, lines[i]) /\ Evidenced(q, lines[i]) /\ q.status \notin Locked
  BY <1>2 DEF Closed, Evidenced, Locked
<1>4. j \in Job /\ j.step = "extract" /\ j.at = i /\ j.work = {}
  BY IdleJob DEF Job, Step, Idle
<1> HIDE DEF q, j
<1>5. HeldBy(j, stmt') \subseteq {i} /\ Phase(j, stmt', lines')
  BY <1>4 DEF HeldBy, Phase
<1>6. \A z \in Sess \ {s} : i \notin Holds(z)
  BY <1>1, NobodyElse
<1> QED BY <1>1, <1>3, <1>4, <1>5, <1>6, LinesSame, ApartTouches

LEMMA ApartBeginExtraction ==
  ASSUME Inv, Inv', InvApart, NEW s \in Sess, BeginExtraction(s)
  PROVE  InvApart'
<1>1. job[s] \in Job /\ Sound(job[s], stmt) /\ job[s].step = "extract" /\ job[s] # None
  BY JobAt DEF BeginExtraction, At
<1>2. PICK i \in AtHand(s) :
        /\ stmt' = [stmt EXCEPT ![i].status = IF Readable(i) THEN "EXTRACTING" ELSE "EXTRACTION_FAILED"]
        /\ job' = [job EXCEPT ![s] = IF Readable(i) THEN [Taken(s, i) EXCEPT !.step = "parse"]
                                     ELSE Continue(Taken(s, i))]
  BY DEF BeginExtraction
<1>3. i \in Id /\ i # None /\ stmt[i] \in Statement /\ i \in Holds(s)
  BY <1>1, NoneAssumption, Others DEF AtHand, Sound, Job, Inv, TypeOK
<1> DEFINE q == [stmt[i] EXCEPT !.status = IF Readable(i) THEN "EXTRACTING" ELSE "EXTRACTION_FAILED"]
           k == Taken(s, i)
           parse == [k EXCEPT !.step = "parse"]
<1>4. /\ stmt' = [stmt EXCEPT ![i] = q] /\ lines' = lines
      /\ job' = [job EXCEPT ![s] = IF Readable(i) THEN parse ELSE Continue(k)]
  BY <1>2 DEF BeginExtraction
<1>5. q.status = IF Readable(i) THEN "EXTRACTING" ELSE "EXTRACTION_FAILED"
  BY <1>3 DEF Statement
<1>6. Closed(q, lines[i]) /\ Evidenced(q, lines[i]) /\ q.status \notin Locked
  BY <1>5 DEF Closed, Evidenced, Locked
<1>7. k \in Job /\ k.work = job[s].work \ {i} /\ k.again = job[s].again /\ k.at = i
  BY <1>1, <1>3 DEF Job, Taken
<1>8. \A z \in Sess \ {s} : i \notin Holds(z)
  BY <1>3, Others
<1> HIDE DEF q, k
<1>9. CASE ~Readable(i)
  <2>1. job' = [job EXCEPT ![s] = Continue(k)]
    BY <1>4, <1>9
  <2> HIDE DEF parse
  <2>2. lines' = [lines EXCEPT ![i] = lines[i]] /\ k.work \subseteq job[s].work \ {i}
    BY <1>3, <1>4, <1>7, LinesSame
  <2>3. stmt' = [stmt EXCEPT ![i] = q]
    BY <1>4
  <2> QED BY <1>1, <1>3, <1>6, <1>7, <1>8, <2>1, <2>2, <2>3, ApartLeaves
<1>10. CASE Readable(i)
  <2>1. /\ parse \in Job /\ parse.step = "parse" /\ parse.at = i /\ parse.work = k.work
        /\ parse.again = k.again
    BY <1>7 DEF Job, Step
  <2>2. job' = [job EXCEPT ![s] = parse]
    BY <1>4, <1>10
  <2> HIDE DEF parse
  <2>3. HeldBy(parse, stmt') \subseteq Holds(s) \cup {i}
    BY <1>1, <1>7, <2>1, Others DEF HeldBy
  <2>4. stmt'[i] = q /\ \A n \in Id \ {i} : stmt'[n] = stmt[n]
    BY <1>3, <1>4 DEF Inv, TypeOK
  <2>5. Phase(parse, stmt', lines')
    <3>1. parse.again = "reprocess" => \A n \in parse.work : stmt'[n].status \in Locked
      BY <1>1, <1>7, <2>1, <2>4, Others DEF Phase, Job
    <3> QED BY <1>5, <1>10, <2>1, <2>4, <3>1 DEF Phase
  <2> QED BY <1>3, <1>4, <1>6, <1>8, <2>1, <2>2, <2>3, <2>5, LinesSame, ApartTouches
<1> QED BY <1>9, <1>10

\* A statement that is being extracted is at hand of one request, and not among its work.
LEMMA AtHandAlone ==
  ASSUME Inv, InvApart, NEW s \in Sess, job[s] # None, job[s].step \in {"parse", "publish", "verdict"}
  PROVE  /\ \A z \in Sess \ {s} : job[s].at \notin Holds(z)
         /\ stmt[job[s].at].status = "EXTRACTING"
         /\ job[s].again = "reprocess" => job[s].at \notin job[s].work
<1>1. job[s].at \in Holds(s) /\ Phase(job[s], stmt, lines)
  BY AtWork, Others
<1>2. stmt[job[s].at].status = "EXTRACTING"
  BY <1>1 DEF Phase
<1>3. job[s].again = "reprocess" => job[s].at \notin job[s].work
  BY <1>1, <1>2 DEF Phase, Locked
<1>4. \A z \in Sess \ {s} : job[s].at \notin Holds(z)
  BY <1>1, Others
<1> QED BY <1>2, <1>3, <1>4

\* A request writes the statement at hand and goes on.
LEMMA ApartEnds ==
  ASSUME Inv, Inv', InvApart, NEW s \in Sess, job[s] # None, NEW i \in Id,
         \A z \in Sess \ {s} : i \notin Holds(z),
         job[s].again = "reprocess" => i \notin job[s].work,
         job' = [job EXCEPT ![s] = Continue(job[s])],
         NEW q, q.status \notin Locked, stmt' = [stmt EXCEPT ![i] = q],
         NEW S, lines' = [lines EXCEPT ![i] = S], Evidenced(q, S), i \in Holds(s)
  PROVE  InvApart'
<1>1. \A n \in Id \ {i} : stmt'[n] = stmt[n]
  BY DEF Inv, TypeOK
<1>2. job[s] \in Job
  BY JobAt
<1>3. job[s].again = "reprocess" => \A n \in job[s].work : stmt'[n].status \in Locked
  BY <1>1, <1>2, Others DEF Phase, Job
<1>4. /\ HeldBy(Continue(job[s]), stmt') \subseteq job[s].work
      /\ Continue(job[s]) # None =>
           Phase(Continue(job[s]), stmt', lines') /\ Continue(job[s]).step # "profile"
  BY <1>2, <1>3, ContinuePhase
<1>5. Continue(job[s]) \in Job \cup {None}
  BY JobTyped
<1>6. HeldBy(Continue(job[s]), stmt') \subseteq Holds(s) \cup {i}
  BY <1>4, Others
<1>7. Closed(q, S)
  BY DEF Closed
<1> QED BY <1>4, <1>5, <1>6, <1>7, ApartTouches

LEMMA ApartParserRaises ==
  ASSUME Inv, Inv', InvApart, NEW s \in Sess, ParserRaises(s)
  PROVE  InvApart'
<1> DEFINE i == job[s].at
           q == [stmt[i] EXCEPT !.status = "EXTRACTION_FAILED"]
<1>1. job[s].step = "parse" /\ job[s] # None
  BY DEF ParserRaises, At
<1>2. i \in Id /\ stmt[i] \in Statement /\ i \in Holds(s)
  BY <1>1, AtWork, Others
<1>3. q.status = "EXTRACTION_FAILED"
  BY <1>2 DEF Statement
<1>4. Evidenced(q, lines[i]) /\ q.status \notin Locked
  BY <1>3 DEF Evidenced, Locked
<1>5. /\ stmt' = [stmt EXCEPT ![i] = q] /\ job' = [job EXCEPT ![s] = Continue(job[s])]
      /\ lines' = lines
  BY DEF ParserRaises
<1>6. /\ \A z \in Sess \ {s} : i \notin Holds(z)
      /\ job[s].again = "reprocess" => i \notin job[s].work
  BY <1>1, AtHandAlone
<1>7. lines' = [lines EXCEPT ![i] = lines[i]]
  BY <1>2, <1>5, LinesSame
<1> HIDE DEF q, i
<1> QED BY <1>1, <1>2, <1>4, <1>5, <1>6, <1>7, ApartEnds

LEMMA ApartConclude ==
  ASSUME Inv, Inv', InvApart, NEW s \in Sess, Conclude(s)
  PROVE  InvApart'
<1> DEFINE i == job[s].at
           q == [stmt[i] EXCEPT !.status = Verdict(i)]
<1>1. job[s].step = "verdict" /\ job[s] # None
  BY DEF Conclude, At
<1>2. i \in Id /\ stmt[i] \in Statement /\ stmt[i].unlocked /\ i \in Holds(s)
  BY <1>1, AtWork, Others
<1>3. stmt[i].report = ReadsAs[stmt[i].pdf] /\ Exact(lines[i], stmt[i].pdf)
  BY <1>1, Others DEF Phase
<1>4. /\ q.status = Verdict(i) /\ q.report = stmt[i].report /\ q.pdf = stmt[i].pdf
      /\ q.unlocked = stmt[i].unlocked
  BY <1>2 DEF Statement
<1>5. Evidenced(q, lines[i]) /\ q.status \notin Locked
  BY <1>2, <1>3, <1>4 DEF Evidenced, Locked, Verdict
<1>6. /\ stmt' = [stmt EXCEPT ![i] = q] /\ job' = [job EXCEPT ![s] = Continue(job[s])]
      /\ lines' = lines
  BY DEF Conclude
<1>7. /\ \A z \in Sess \ {s} : i \notin Holds(z)
      /\ job[s].again = "reprocess" => i \notin job[s].work
  BY <1>1, AtHandAlone
<1>8. lines' = [lines EXCEPT ![i] = lines[i]]
  BY <1>2, <1>6, LinesSame
<1> HIDE DEF q, i
<1> QED BY <1>1, <1>2, <1>5, <1>6, <1>7, <1>8, ApartEnds

LEMMA ApartParse ==
  ASSUME Inv, Inv', InvApart, NEW s \in Sess, Parse(s)
  PROVE  InvApart'
<1> DEFINE i == job[s].at
           j == [job[s] EXCEPT !.step = "publish", !.old = lines[i]]
<1>1. job[s].step = "parse" /\ job[s] # None
  BY DEF Parse, At
<1>2. i \in Id /\ job[s] \in Job /\ i \in Holds(s) /\ stmt[i].status = "EXTRACTING"
  BY <1>1, AtWork, Others, AtHandAlone
<1>3. job' = [job EXCEPT ![s] = j] /\ UNCHANGED <<stmt, lines>>
  BY DEF Parse, Inv, TypeOK
<1>4. j \in Job \cup {None}
  BY <1>3, JobTyped
<1>5. /\ j.step = "publish" /\ j.at = i /\ j.work = job[s].work /\ j.again = job[s].again
      /\ j.old = lines[i]
  BY <1>2 DEF Job
<1> HIDE DEF j
<1>6. HeldBy(j, stmt) \subseteq Holds(s)
  BY <1>1, <1>2, <1>5, Others DEF HeldBy
<1>7. Phase(j, stmt, lines)
  BY <1>1, <1>2, <1>5, Others DEF Phase, SameLine
<1>8. \A z \in Sess \ {s} : Holds(z) \cap HeldBy(j, stmt) = {}
  BY <1>6, Others
<1> QED BY <1>3, <1>4, <1>5, <1>7, <1>8, ApartStays

LEMMA ApartPublishLines ==
  ASSUME Inv, Inv', InvApart, NEW s \in Sess, PublishLines(s)
  PROVE  InvApart'
<1> DEFINE i == job[s].at
           L == LinesOf[stmt[i].pdf]
           last == L = {}
           q == [stmt[i] EXCEPT !.report = ReadsAs[stmt[i].pdf],
                                !.status = IF last THEN Verdict(i) ELSE @]
           go == [job[s] EXCEPT !.step = "verdict", !.old = {}]
<1>1. job[s].step = "publish" /\ job[s] # None
  BY DEF PublishLines, At
<1>2. /\ i \in Id /\ i # None /\ stmt[i] \in Statement /\ stmt[i].pdf \in Pdf /\ stmt[i].unlocked
      /\ job[s] \in Job /\ i \in Holds(s)
  BY <1>1, AtWork, Others
\* Everything there was has been loaded and is cleared.
<1>3. PICK m \in Matchings(L, ledger) : lines' = [lines EXCEPT ![i] = Replaced(s, i, L, m)]
  BY DEF PublishLines
<1> DEFINE S == Extracted(i, L, m)
<1>11. Replaced(s, i, L, m) = S
  BY <1>1, Others DEF Phase, Replaced
<1>4. /\ lines' = [lines EXCEPT ![i] = S] /\ stmt' = [stmt EXCEPT ![i] = q]
      /\ job' = [job EXCEPT ![s] = IF last THEN Continue(job[s]) ELSE go]
  BY <1>3, <1>11 DEF PublishLines
<1>5. Exact(S, stmt[i].pdf)
  BY <1>2, ExtractedRows
<1>6. /\ \A z \in Sess \ {s} : i \notin Holds(z)
      /\ stmt[i].status = "EXTRACTING"
      /\ job[s].again = "reprocess" => i \notin job[s].work
  BY <1>1, AtHandAlone
<1>7. /\ q.report = ReadsAs[stmt[i].pdf] /\ q.unlocked = stmt[i].unlocked /\ q.pdf = stmt[i].pdf
      /\ q.status = IF last THEN Verdict(i) ELSE "EXTRACTING"
  BY <1>2, <1>6 DEF Statement
<1> HIDE DEF q, S
<1>8. q.status \notin Locked /\ Evidenced(q, S)
  <2>1. q.status \in {"EXTRACTING", "VALIDATED", "REVIEW_REQUIRED"}
    BY <1>7 DEF Verdict
  <2>2. q.status = "VALIDATED" => ReadsAs[stmt[i].pdf] = "VALIDATED"
    BY <1>7 DEF Verdict
  <2> HIDE DEF i, last
  <2> QED BY <1>2, <1>5, <1>7, <2>1, <2>2 DEF Locked, Evidenced
<1>9. CASE last
  <2>1. job' = [job EXCEPT ![s] = Continue(job[s])]
    BY <1>4, <1>9
  <2>2. stmt' = [stmt EXCEPT ![i] = q] /\ lines' = [lines EXCEPT ![i] = S]
    BY <1>4
  <2> HIDE DEF i, last, go
  <2> QED BY <1>1, <1>2, <1>6, <1>8, <2>1, <2>2, ApartEnds
<1>10. CASE ~last
  <2>1. job' = [job EXCEPT ![s] = go]
    BY <1>4, <1>10
  <2>2. stmt' = [stmt EXCEPT ![i] = q] /\ lines' = [lines EXCEPT ![i] = S]
    BY <1>4
  <2>3. /\ go \in Job /\ go.step = "verdict" /\ go.at = i /\ go.work = job[s].work
        /\ go.again = job[s].again
    BY <1>2 DEF Job, Step
  <2>4. /\ stmt'[i] = q /\ lines'[i] = S /\ \A n \in Id \ {i} : stmt'[n] = stmt[n]
    BY <1>2, <2>2 DEF Inv, TypeOK
  <2>5. q.status = "EXTRACTING" /\ Closed(q, S)
    BY <1>7, <1>8, <1>10 DEF Closed
  <2> HIDE DEF go, last, i
  <2>6. HeldBy(go, stmt') \subseteq Holds(s) \cup {i}
    BY <1>1, <2>3, Others DEF HeldBy
  <2>7. Phase(go, stmt', lines')
    <3>1. go.again = "reprocess" => \A n \in go.work : stmt'[n].status \in Locked
      BY <1>1, <1>2, <1>6, <2>3, <2>4, Others DEF Phase, Job
    <3> QED BY <1>5, <1>7, <2>3, <2>4, <2>5, <3>1 DEF Phase
  <2> QED BY <1>2, <1>6, <1>8, <2>1, <2>2, <2>3, <2>5, <2>6, <2>7, ApartTouches
<1> QED BY <1>9, <1>10

\* What was not read to the end has no verdict.
LEMMA ApartExtractionRaises ==
  ASSUME Inv, Inv', InvApart, NEW s \in Sess, ExtractionRaises(s)
  PROVE  InvApart'
<1> DEFINE i == job[s].at
<1>1. /\ job[s] # None /\ job[s].step \in {"publish", "verdict"}
      /\ job' = [job EXCEPT ![s] = Continue(job[s])]
  BY RaisedStatement
<1>2. i \in Id /\ i \in Holds(s)
  BY <1>1, AtWork, Others
<1>3. PICK q : stmt' = [stmt EXCEPT ![i] = q] /\ q.status = "EXTRACTION_FAILED"
  BY RaisedStatement
<1>4. PICK S : lines' = [lines EXCEPT ![i] = S]
  <2>1. lines' = lines => lines' = [lines EXCEPT ![i] = lines[i]]
    BY <1>2, LinesSame
  <2> QED BY <2>1, RaisedLines
<1>5. Evidenced(q, S) /\ q.status \notin Locked
  BY <1>3 DEF Evidenced, Locked
<1>6. /\ \A z \in Sess \ {s} : i \notin Holds(z)
      /\ job[s].again = "reprocess" => i \notin job[s].work
  BY <1>1, AtHandAlone
<1> HIDE DEF i
<1> QED BY <1>1, <1>2, <1>3, <1>4, <1>5, <1>6, ApartEnds

LEMMA ApartReconcile ==
  ASSUME Inv, Inv', InvApart, NEW s \in Sess, Reconcile(s)
  PROVE  InvApart'
<1> DEFINE i == job[s].at
           T(m) == {Rematched(s, r, m) : r \in lines[i]}
           read == {o.line : o \in job[s].old}
<1>1. job[s] \in Job /\ Sound(job[s], stmt) /\ job[s].step = "reconcile" /\ job[s] # None
  BY JobAt DEF Reconcile, At
<1>2. i \in Id /\ i \in Holds(s)
  BY <1>1, Others DEF Sound, Job
<1>0. \/ lines' = lines
      \/ \E m \in Matchings(read, job[s].seen) : lines' = [lines EXCEPT ![i] = T(m)]
  BY DEF Reconcile
<1>3. job' = [job EXCEPT ![s] = Continue(job[s])] /\ UNCHANGED stmt
  BY DEF Reconcile
<1>4. \A m \in Matchings(read, job[s].seen) : Rewrites(T(m), lines[i])
  BY <1>1, <1>2, ReconciledRows
<1>5. lines[i] \in SUBSET LineRow
  BY <1>2 DEF Inv, TypeOK
<1> HIDE DEF T
<1>6. CASE lines' = lines
  BY <1>1, <1>3, <1>6, ApartGoesOn
<1>7. ASSUME NEW m \in Matchings(read, job[s].seen), lines' = [lines EXCEPT ![i] = T(m)]
      PROVE  InvApart'
  <2>1. stmt' = [stmt EXCEPT ![i] = stmt[i]]
    BY <1>2, <1>3 DEF Inv, TypeOK
  <2>2. Closed(stmt[i], T(m)) /\ Evidenced(stmt[i], T(m))
    <3>1. Closed(stmt[i], lines[i]) /\ Evidenced(stmt[i], lines[i])
      BY <1>2 DEF InvApart, Judged
    <3>2. (T(m) = {} <=> lines[i] = {}) /\ (\A p : Exact(lines[i], p) => Exact(T(m), p))
      BY <1>4, <1>5, RewrittenRows
    <3> QED BY <3>1, <3>2 DEF Closed, Evidenced
  <2>3. job[s].again = "reprocess" => \A n \in job[s].work : stmt'[n].status \in Locked
    BY <1>1, <1>3, Others DEF Phase
  <2>4. /\ HeldBy(Continue(job[s]), stmt') \subseteq job[s].work
        /\ Continue(job[s]) # None =>
             Phase(Continue(job[s]), stmt', lines') /\ Continue(job[s]).step # "profile"
    BY <1>1, <2>3, ContinuePhase
  <2>5. Continue(job[s]) \in Job \cup {None}
    BY <1>3, JobTyped
  <2>6. HeldBy(Continue(job[s]), stmt') \subseteq Holds(s) \cup {i}
    BY <1>1, <2>4, Others
  <2>7. \A z \in Sess \ {s} : i \notin Holds(z)
    BY <1>2, Others
  <2>8. job' = [job EXCEPT ![s] = Continue(job[s])]
    BY <1>3
  <2> HIDE DEF i
  <2> QED BY <1>2, <1>7, <2>1, <2>2, <2>4, <2>5, <2>6, <2>7, <2>8, ApartTouches
<1> QED BY <1>0, <1>6, <1>7

LEMMA ApartInterrupt ==
  ASSUME Inv, InvApart, NEW s \in Sess, Interrupt(s)
  PROVE  InvApart'
<1>1. job' = [job EXCEPT ![s] = None] /\ UNCHANGED <<stmt, lines>> /\ HeldBy(None, stmt) = {}
  BY DEF Interrupt, HeldBy
<1> QED BY <1>1, ApartStays

\* Steps that change no statement, line or request.
LEMMA ApartSame ==
  ASSUME InvApart, UNCHANGED <<stmt, lines, job>>
  PROVE  InvApart'
<1>1. Apart'
  BY DEF InvApart, Apart, Holds, LockedOf, Exists, At
<1> QED BY <1>1 DEF InvApart, Phases, Judged

\* What the user decides about a line changes no more than its match.
LEMMA ApartDecision ==
  ASSUME Inv, InvApart, NEW i \in Id, NEW r \in lines[i], NEW m \in Match, SetMatch(i, r, m),
         UNCHANGED <<stmt, job>>
  PROVE  InvApart'
<1>1. PICK T : Rewrites(T, lines[i]) /\ lines' = [lines EXCEPT ![i] = T]
  BY SetMatchRewrites
<1>2. lines'[i] = T /\ \A k \in Id \ {i} : lines'[k] = lines[k]
  BY <1>1 DEF Inv, TypeOK
<1>3. /\ T = {} <=> lines[i] = {}
      /\ \A p : Exact(lines[i], p) => Exact(T, p)
      /\ \A t \in T : \E o \in lines[i] : SameLine(t, o)
  <2>1. lines[i] \in SUBSET LineRow
    BY DEF Inv, TypeOK
  <2> QED BY <1>1, <2>1, RewrittenRows
<1>4. Apart'
  BY DEF InvApart, Apart, Holds, LockedOf, Exists, At
<1>5. Judged'
  BY <1>2, <1>3 DEF InvApart, Judged, Closed, Evidenced
<1>6. ASSUME NEW z \in Sess, job[z] # None PROVE Phase(job[z], stmt, lines')
  <2>1. job[z] \in Job /\ Sound(job[z], stmt) /\ Phase(job[z], stmt, lines)
    BY <1>6, JobAt DEF InvApart, Phases
  <2>2. job[z].step \in {"publish", "verdict"} => job[z].at \in Id
    BY <2>1 DEF Sound, Job
  <2>3. job[z].step = "publish" => \A t \in lines'[job[z].at] : \E o \in job[z].old : SameLine(t, o)
    BY <1>2, <1>3, <2>1, <2>2 DEF Phase, SameLine
  <2>4. job[z].step = "verdict" => Exact(lines'[job[z].at], stmt[job[z].at].pdf)
    BY <1>2, <1>3, <2>1, <2>2 DEF Phase
  <2> QED BY <2>1, <2>3, <2>4 DEF Phase
<1> QED BY <1>4, <1>5, <1>6 DEF InvApart, Phases

\* The user's three ways to decide about a line set its match, and change no request.
LEMMA Decision ==
  ASSUME Inv, NEW i \in Id, NEW r \in lines[i], DecideLine(i, r) \/ ImportLine(i, r) \/ ScanGmail(i, r),
         Inv'
  PROVE  /\ \E m \in Match : SetMatch(i, r, m)
         /\ Decides(i) /\ UNCHANGED <<stmt, job>>
<1>1. CASE DecideLine(i, r)
  <2>1. ledger \in SUBSET Entry
    BY DEF Inv, TypeOK
  <2> QED BY <1>1, <2>1, DecisionTypes DEF DecideLine
<1>2. CASE ImportLine(i, r)
  <2> DEFINE e == [line |-> r.line, kind |-> "import", n |-> Cardinality(Imports(r.line)) + 1]
  <2>1. /\ Decides(i) /\ UNCHANGED <<stmt, job>> /\ ledger' = ledger \cup {e}
        /\ SetMatch(i, r, [status |-> "MATCHED", tx |-> e, sure |-> TRUE, mark |-> "imported"])
    BY <1>2 DEF ImportLine
  <2> HIDE DEF e
  <2>2. e \in Entry
    BY <2>1 DEF Inv, TypeOK
  <2> QED BY <2>1, <2>2, DecisionTypes
<1>3. CASE ScanGmail(i, r)
  <2> DEFINE e == [line |-> r.line, kind |-> "alert", n |-> 1]
  <2>1. /\ Decides(i) /\ UNCHANGED <<stmt, job>> /\ ledger' = ledger \cup {e}
        /\ SetMatch(i, r, [status |-> "MATCHED", tx |-> e, sure |-> TRUE, mark |-> "auto"])
    BY <1>3 DEF ScanGmail
  <2> HIDE DEF e
  <2>2. e \in Entry
    BY <2>1 DEF Inv, TypeOK
  <2> QED BY <2>1, <2>2, DecisionTypes
<1> QED BY <1>1, <1>2, <1>3

LEMMA ApartInit == Init => InvApart
<1> SUFFICES ASSUME Init PROVE InvApart
  OBVIOUS
<1>1. Apart
  BY DEF Init, Apart, Holds, At
<1> QED BY <1>1 DEF Init, InvApart, Phases, Judged, Closed, Evidenced

LEMMA ApartStep ==
  ASSUME "statement" \in Quiet, Inv, Inv', InvApart, [Next]_vars
  PROVE  InvApart'
<1>1. ASSUME NEW s \in Sess, DiscoverStatements(s) PROVE InvApart'
  <2>1. \A a \in Att : Mail(a) \in Candidate
    BY ConstantsAssumption DEF Mail, Candidate
  <2>2. PICK S \in SUBSET Att \ {{}} : StartIngest(s, {Mail(a) : a \in S})
    BY <1>1 DEF DiscoverStatements
  <2>3. {Mail(a) : a \in S} \in SUBSET Candidate
    BY <2>1
  <2> QED BY <2>2, <2>3, ApartStartIngest
<1>2. ASSUME NEW s \in Sess, UploadStatement(s) PROVE InvApart'
  <2>1. PICK p \in Uploads, g \in Account \cup {None}, c \in Account \cup {None} :
          StartIngest(s, {[att |-> None, pdf |-> p, account |-> c, given |-> g]})
    BY <1>2 DEF UploadStatement
  <2>2. {[att |-> None, pdf |-> p, account |-> c, given |-> g]} \in SUBSET Candidate
    BY ConstantsAssumption DEF Candidate
  <2> QED BY <2>1, <2>2, ApartStartIngest
<1>3. ASSUME NEW s \in Sess,
             StartProfile(s) \/ BatchExtract(s) \/ DownloadFails(s) \/ Interrupt(s)
      PROVE  InvApart'
  BY <1>3, ApartStartProfile, ApartBatchExtract, ApartDownloadFails, ApartInterrupt
<1>4. ASSUME NEW s \in Sess, Advance(s) PROVE InvApart'
  BY <1>4, ApartCheckSource, ApartDownload, ApartStoreCandidate, ApartAssignAccount, ApartSaveProfile,
     ApartReprocess, ApartBeginExtraction, ApartParserRaises, ApartParse, ApartPublishLines,
     ApartExtractionRaises, ApartConclude, ApartReconcile DEF Advance
<1>5. ASSUME NEW s \in Sess, NEW i \in Id, UnlockManually(s, i) \/ ReExtract(s, i) \/ StartReconcile(s, i)
      PROVE  InvApart'
  BY <1>5, ApartUnlockManually, ApartReExtract, ApartStartReconcile
<1>6. ASSUME NEW i \in Id, NEW r \in lines[i], DecideLine(i, r) \/ ImportLine(i, r) \/ ScanGmail(i, r)
      PROVE  InvApart'
  <2>1. (\E m \in Match : SetMatch(i, r, m)) /\ UNCHANGED <<stmt, job>>
    BY <1>6, Decision
  <2> QED BY <2>1, ApartDecision
<1>7. ASSUME NEW i \in Id, LoseFile(i) PROVE InvApart'
  BY <1>7, ApartSame DEF LoseFile
<1>8. ASSUME NEW l \in Line, AlertArrives(l) PROVE InvApart'
  BY <1>8, ApartSame DEF AlertArrives
<1>9. CASE UNCHANGED vars
  BY <1>9, ApartSame DEF vars
<1> QED BY <1>1, <1>2, <1>3, <1>4, <1>5, <1>6, <1>7, <1>8, <1>9 DEF Next

LEMMA ApartInvariance ==
  ASSUME "statement" \in Quiet
  PROVE  Spec => [](Inv /\ InvApart)
<1>1. Init => Inv /\ InvApart
  BY InvInit, ApartInit
<1>2. Inv /\ InvApart /\ [Next]_vars => (Inv /\ InvApart)'
  BY InvStep, ApartStep
<1> QED BY <1>1, <1>2, PTL DEF Spec

\* A statement that waits for a password has not been opened and has no lines, as long as no
\* two requests work on one statement: a password saved later can neither hide nor double
\* what was read.
THEOREM LockedStaysLocked ==
  ASSUME "statement" \in Quiet
  PROVE  Spec => []LockedIsLocked
<1>1. InvApart => LockedIsLocked
  BY DEF InvApart, Judged, Closed, LockedIsLocked, LockedIds, Exists
<1> QED BY <1>1, ApartInvariance, PTL

\* Whatever re-extractions, unlocks, failures and kills came before, what is shown as
\* VALIDATED was found so by the validator and has each purchase of its content once.
THEOREM VerdictsHaveEvidence ==
  ASSUME "statement" \in Quiet
  PROVE  Spec => []VerdictEvidenced
<1>1. InvApart => VerdictEvidenced
  BY DEF InvApart, Judged, Evidenced, Exact, VerdictEvidenced, Exists
<1> QED BY <1>1, ApartInvariance, PTL

-----------------------------------------------------------------------------
(* The lifecycle that the vault implements.                                *)

\* What the lifecycle tells apart: being read, having a verdict, and neither.
Verdicts == {"VALIDATED", "REVIEW_REQUIRED"}
WasOpen(i) == stmt[i] # None /\ stmt[i].unlocked

\* A step that writes one statement is a step of the lifecycle, or a stutter.
LEMMA OneChange ==
  ASSUME Inv, NEW i \in Id, NEW q \in Statement, stmt' = [stmt EXCEPT ![i] = q],
         \/ q.unlocked /\ q.status \notin Verdicts \cup {"EXTRACTING"}
         \/ WasOpen(i) /\ q.unlocked /\ q.status = "EXTRACTING"
         \/ /\ stmt[i] # None /\ stmt[i].status = "EXTRACTING" /\ q.status \in Verdicts
            /\ q.unlocked = stmt[i].unlocked
         \/ (q.unlocked <=> WasOpen(i)) /\ q.status \notin Verdicts \cup {"EXTRACTING"}
         \/ stmt[i] # None /\ q.unlocked = stmt[i].unlocked /\ q.status = stmt[i].status
  PROVE  [Lifecycle!Next]_Lifecycle!vars
<1> DEFINE O == {k \in Id : Exists(k) /\ stmt[k].unlocked}
           R == {k \in Id : Exists(k) /\ stmt[k].status = "EXTRACTING"}
           J == {k \in Id : Exists(k) /\ stmt[k].status \in {"VALIDATED", "REVIEW_REQUIRED"}}
<1>1. q # None /\ stmt'[i] = q /\ \A k \in Id \ {i} : stmt'[k] = stmt[k]
  BY NoneAssumption DEF Inv, TypeOK
<1>2. /\ O' = IF q.unlocked THEN O \cup {i} ELSE O \ {i}
      /\ R' = IF q.status = "EXTRACTING" THEN R \cup {i} ELSE R \ {i}
      /\ J' = IF q.status \in Verdicts THEN J \cup {i} ELSE J \ {i}
  BY <1>1 DEF Exists, Verdicts
<1>3. /\ i \in O <=> WasOpen(i)
      /\ i \in R <=> stmt[i] # None /\ stmt[i].status = "EXTRACTING"
      /\ i \in J <=> stmt[i] # None /\ stmt[i].status \in Verdicts
  BY DEF Exists, WasOpen, Verdicts
<1>4. /\ Lifecycle!vars = <<O, R, J>>
      /\ Lifecycle!Open(i) <=> O' = O \cup {i} /\ R' = R \ {i} /\ J' = J \ {i}
      /\ Lifecycle!Begin(i) <=> i \in O /\ R' = R \cup {i} /\ J' = J \ {i} /\ O' = O
      /\ Lifecycle!Judge(i) <=> i \in R /\ R' = R \ {i} /\ J' = J \cup {i} /\ O' = O
      /\ Lifecycle!Fail(i) <=> R' = R \ {i} /\ J' = J \ {i} /\ O' = O
      /\ Lifecycle!vars' = <<O', R', J'>>
  BY DEF Lifecycle!vars, Lifecycle!Open, Lifecycle!Begin, Lifecycle!Judge, Lifecycle!Fail
<1> HIDE DEF O, R, J
<1>5. CASE q.unlocked /\ q.status \notin Verdicts \cup {"EXTRACTING"}
  BY <1>2, <1>4, <1>5 DEF Lifecycle!Next
<1>6. CASE WasOpen(i) /\ q.unlocked /\ q.status = "EXTRACTING"
  <2>1. q.status \notin Verdicts
    BY <1>6 DEF Verdicts
  <2>2. Lifecycle!Begin(i)
    BY <1>2, <1>3, <1>4, <1>6, <2>1
  <2> QED BY <2>2 DEF Lifecycle!Next
<1>7. CASE /\ stmt[i] # None /\ stmt[i].status = "EXTRACTING" /\ q.status \in Verdicts
           /\ q.unlocked = stmt[i].unlocked
  <2>1. q.status # "EXTRACTING" /\ (q.unlocked <=> WasOpen(i))
    BY <1>7 DEF Verdicts, WasOpen
  <2>2. O' = O
    BY <1>2, <1>3, <2>1
  <2>3. Lifecycle!Judge(i)
    BY <1>2, <1>3, <1>4, <1>7, <2>1, <2>2
  <2> QED BY <2>3 DEF Lifecycle!Next
<1>8. CASE (q.unlocked <=> WasOpen(i)) /\ q.status \notin Verdicts \cup {"EXTRACTING"}
  <2>1. Lifecycle!Fail(i)
    BY <1>2, <1>3, <1>4, <1>8
  <2> QED BY <2>1 DEF Lifecycle!Next
<1>9. CASE stmt[i] # None /\ q.unlocked = stmt[i].unlocked /\ q.status = stmt[i].status
  <2>1. O' = O /\ R' = R /\ J' = J
    BY <1>2, <1>3, <1>9 DEF WasOpen
  <2> QED BY <1>4, <2>1
<1> QED BY <1>5, <1>6, <1>7, <1>8, <1>9

LEMMA NoChange ==
  ASSUME UNCHANGED stmt
  PROVE  UNCHANGED Lifecycle!vars
BY DEF Lifecycle!vars, Exists

\* Processing a statement that is not open opens it, or is a reading that could not be begun.
LEMMA ProcessImplements ==
  ASSUME Inv, NEW s \in Sess, NEW j, NEW i \in Id, NEW r \in Statement, NEW p \in Pdf, RowSound(r),
         r.unlocked <=> WasOpen(i), Process(s, j, i, r, p)
  PROVE  [Lifecycle!Next]_Lifecycle!vars
<1> DEFINE q == Processed(r, p)
<1>1. /\ q \in Statement /\ (q.unlocked <=> r.unlocked \/ q.status = "READY_FOR_EXTRACTION")
      /\ q.status \in Locked \cup {"INVALID_PDF", "READY_FOR_EXTRACTION"}
  BY ProcessedRow
<1>2. stmt' = [stmt EXCEPT ![i] = q]
  BY DEF Process
<1> HIDE DEF q
<1>3. q.status \notin Verdicts \cup {"EXTRACTING"}
  BY <1>1 DEF Locked, Verdicts
<1> QED BY <1>1, <1>2, <1>3, OneChange

LEMMA StoreImplements ==
  ASSUME Inv, NEW s \in Sess, StoreCandidate(s)
  PROVE  [Lifecycle!Next]_Lifecycle!vars
<1>1. job[s] \in Job /\ Sound(job[s], stmt) /\ job[s].step = "store" /\ job[s] # None
  BY JobAt DEF StoreCandidate, At
<1> DEFINE c == job[s].cand
           r == [Row(c, "INVALID_PDF") EXCEPT !.account = c.account]
<1>2. c \in Candidate
  BY <1>1 DEF Sound, Job
<1>3. PICK i \in Id : Fresh(i) /\ Process(s, job[s], i, r, c.pdf)
  BY DEF StoreCandidate
<1>4. r \in Statement /\ RowSound(r) /\ ~r.unlocked
  BY <1>2 DEF Row, Candidate, Statement, Status, Report, RowSound, Locked
<1>5. c.pdf \in Pdf /\ ~WasOpen(i)
  BY <1>2, <1>3, FreshFree DEF Candidate, WasOpen
<1> HIDE DEF c, r
<1> QED BY <1>3, <1>4, <1>5, ProcessImplements

LEMMA ReprocessImplements ==
  ASSUME Inv, InvApart, NEW s \in Sess, Reprocess(s)
  PROVE  [Lifecycle!Next]_Lifecycle!vars
<1>1. job[s] \in Job /\ Sound(job[s], stmt) /\ job[s].step = "reprocess" /\ job[s] # None
  BY JobAt DEF Reprocess, At
<1>2. PICK i \in job[s].work :
        \/ UNCHANGED stmt
        \/ \E j : Process(s, j, i, stmt[i], stmt[i].pdf)
  BY DEF Reprocess
<1>3. i \in Id /\ stmt[i] # None /\ stmt[i] \in Statement /\ RowSound(stmt[i])
  BY <1>1 DEF Sound, Job, Inv, TypeOK, RowsSound
<1>4. stmt[i].status \in Locked
  BY <1>1, Others DEF Phase, Sound
<1>5. stmt[i].pdf \in Pdf /\ (stmt[i].unlocked <=> WasOpen(i))
  BY <1>3, <1>4 DEF RowSound, Statement, WasOpen
<1>6. CASE UNCHANGED stmt
  BY <1>6, NoChange
<1>7. CASE \E j : Process(s, j, i, stmt[i], stmt[i].pdf)
  <2>1. PICK j : Process(s, j, i, stmt[i], stmt[i].pdf)
    BY <1>7
  <2> QED BY <1>3, <1>5, <2>1, ProcessImplements
<1> QED BY <1>2, <1>6, <1>7

\* Steps of ingestion and of the user that write a row without reading it.
LEMMA WritesImplement ==
  ASSUME Inv, NEW s \in Sess,
         \/ DownloadFails(s) \/ AssignAccount(s)
         \/ \E i \in Id : UnlockManually(s, i)
  PROVE  [Lifecycle!Next]_Lifecycle!vars
<1>1. CASE DownloadFails(s)
  <2>1. job[s] \in Job /\ Sound(job[s], stmt) /\ job[s].step = "fetch" /\ job[s] # None
    BY <1>1, JobAt DEF DownloadFails, At
  <2> DEFINE q == Row(job[s].cand, "DOWNLOAD_FAILED")
  <2>2. PICK i \in Id : Fresh(i) /\ stmt' = [stmt EXCEPT ![i] = q]
    BY <1>1 DEF DownloadFails
  <2>3. job[s].cand \in Candidate
    BY <2>1 DEF Sound, Job
  <2>4. q \in Statement /\ ~q.unlocked /\ q.status = "DOWNLOAD_FAILED"
    BY <2>3 DEF Row, Candidate, Statement, Status, Report
  <2>5. ~WasOpen(i)
    BY <2>2, FreshFree DEF WasOpen
  <2> HIDE DEF q
  <2> QED BY <2>2, <2>4, <2>5, OneChange DEF Verdicts
<1>2. CASE AssignAccount(s)
  <2>1. job[s] \in Job /\ Sound(job[s], stmt) /\ job[s].step = "assign" /\ job[s] # None
    BY <1>2, JobAt DEF AssignAccount, At
  <2> DEFINE i == job[s].at
             q == [stmt[i] EXCEPT !.account = IF @ = None THEN job[s].cand.given ELSE @]
  <2>2. i \in Id /\ stmt[i] # None /\ stmt[i] \in Statement
    BY <2>1 DEF Sound, Job, Inv, TypeOK
  <2>3. job[s].cand.given \in Account \cup {None}
    BY <2>1 DEF Sound, Job, Candidate
  <2>4. stmt' = [stmt EXCEPT ![i] = q]
    BY <1>2 DEF AssignAccount
  <2>5. q \in Statement /\ q.unlocked = stmt[i].unlocked /\ q.status = stmt[i].status
    BY <2>2, <2>3 DEF Statement
  <2> HIDE DEF q, i
  <2> QED BY <2>2, <2>4, <2>5, OneChange
<1>3. CASE \E i \in Id : UnlockManually(s, i)
  <2>1. PICK i \in Id : UnlockManually(s, i)
    BY <1>3
  <2> DEFINE q == [stmt[i] EXCEPT !.unlocked = TRUE, !.status = "READY_FOR_EXTRACTION"]
  <2>2. stmt' = [stmt EXCEPT ![i] = q] /\ stmt[i] \in Statement
    BY <2>1 DEF UnlockManually, Exists, Inv, TypeOK
  <2>3. q \in Statement /\ q.unlocked /\ q.status = "READY_FOR_EXTRACTION"
    BY <2>2 DEF Statement, Status
  <2> HIDE DEF q
  <2> QED BY <2>2, <2>3, OneChange DEF Verdicts
<1> QED BY <1>1, <1>2, <1>3

\* A reading begins on an open statement only.
LEMMA BeginImplements ==
  ASSUME Inv, NEW s \in Sess, BeginExtraction(s)
  PROVE  [Lifecycle!Next]_Lifecycle!vars
<1>1. job[s] \in Job /\ Sound(job[s], stmt) /\ job[s].step = "extract" /\ job[s] # None
  BY JobAt DEF BeginExtraction, At
<1>2. PICK i \in AtHand(s) :
        stmt' = [stmt EXCEPT ![i].status = IF Readable(i) THEN "EXTRACTING" ELSE "EXTRACTION_FAILED"]
  BY DEF BeginExtraction
<1>3. i \in Id /\ stmt[i] # None /\ stmt[i] \in Statement
  BY <1>1, NoneAssumption DEF AtHand, Sound, Job, Inv, TypeOK
<1> DEFINE q == [stmt[i] EXCEPT !.status = IF Readable(i) THEN "EXTRACTING" ELSE "EXTRACTION_FAILED"]
<1>4. /\ q \in Statement /\ q.unlocked = stmt[i].unlocked
      /\ q.status = IF Readable(i) THEN "EXTRACTING" ELSE "EXTRACTION_FAILED"
  BY <1>3 DEF Statement, Status
<1>5. stmt' = [stmt EXCEPT ![i] = q]
  BY <1>2
<1> HIDE DEF q
<1>6. Readable(i) => WasOpen(i)
  BY <1>3 DEF Readable, WasOpen
<1>7. q.unlocked <=> WasOpen(i)
  BY <1>3, <1>4 DEF WasOpen
<1> QED BY <1>3, <1>4, <1>5, <1>6, <1>7, OneChange DEF Verdicts

\* It fails, or ends in a verdict while it is still the one that was begun.
LEMMA ReadingImplements ==
  ASSUME Inv, InvApart, NEW s \in Sess,
         ParserRaises(s) \/ PublishLines(s) \/ ExtractionRaises(s) \/ Conclude(s)
  PROVE  [Lifecycle!Next]_Lifecycle!vars
<1> DEFINE i == job[s].at
<1>1. job[s] # None /\ job[s].step \in {"parse", "publish", "verdict"}
  BY RaisedStatement DEF ParserRaises, PublishLines, Conclude, At
<1>2. /\ i \in Id /\ stmt[i] # None /\ stmt[i] \in Statement /\ stmt[i].unlocked
      /\ stmt[i].status = "EXTRACTING" /\ stmt[i].pdf \in Pdf
  BY <1>1, AtWork, AtHandAlone
<1>3. Verdict(i) \in Verdicts
  BY DEF Verdict, Verdicts
<1>4. CASE ParserRaises(s)
  <2> DEFINE q == [stmt[i] EXCEPT !.status = "EXTRACTION_FAILED"]
  <2>1. stmt' = [stmt EXCEPT ![i] = q]
    BY <1>4 DEF ParserRaises
  <2>2. q \in Statement /\ q.unlocked = stmt[i].unlocked /\ q.status = "EXTRACTION_FAILED"
    BY <1>2 DEF Statement, Status
  <2> HIDE DEF q, i
  <2> QED BY <1>2, <2>1, <2>2, OneChange DEF Verdicts, WasOpen
<1>5. CASE PublishLines(s)
  <2> DEFINE last == LinesOf[stmt[i].pdf] = {}
             q == [stmt[i] EXCEPT !.report = ReadsAs[stmt[i].pdf],
                                  !.status = IF last THEN Verdict(i) ELSE @]
  <2>1. stmt' = [stmt EXCEPT ![i] = q]
    BY <1>5 DEF PublishLines
  <2>2. ReadsAs[stmt[i].pdf] \in Report
    BY <1>2, ConstantsAssumption
  <2>3. /\ q \in Statement /\ q.unlocked = stmt[i].unlocked
        /\ q.status = IF last THEN Verdict(i) ELSE stmt[i].status
    BY <1>2, <1>3, <2>2 DEF Statement, Status, Verdicts
  <2> HIDE DEF q, i, last
  <2> QED BY <1>2, <1>3, <2>1, <2>3, OneChange
<1>6. CASE Conclude(s)
  <2> DEFINE q == [stmt[i] EXCEPT !.status = Verdict(i)]
  <2>1. stmt' = [stmt EXCEPT ![i] = q]
    BY <1>6 DEF Conclude
  <2>2. q \in Statement /\ q.unlocked = stmt[i].unlocked /\ q.status = Verdict(i)
    BY <1>2, <1>3 DEF Statement, Status, Verdicts
  <2> HIDE DEF q, i
  <2> QED BY <1>2, <1>3, <2>1, <2>2, OneChange
<1>7. CASE ExtractionRaises(s)
  <2>1. PICK q \in Statement : /\ stmt' = [stmt EXCEPT ![i] = q]
                               /\ q.unlocked = stmt[i].unlocked /\ q.status = "EXTRACTION_FAILED"
    BY <1>7, RaisedStatement
  <2> HIDE DEF i
  <2> QED BY <1>2, <2>1, OneChange DEF Verdicts, WasOpen
<1> QED BY <1>4, <1>5, <1>6, <1>7

\* All other steps leave the statements as they are.
LEMMA StepImplements ==
  ASSUME Inv, InvApart, [Next]_vars
  PROVE  [Lifecycle!Next]_Lifecycle!vars
<1>1. ASSUME NEW s \in Sess,
             \/ DiscoverStatements(s) \/ UploadStatement(s) \/ StartProfile(s) \/ BatchExtract(s)
             \/ Interrupt(s)
      PROVE  UNCHANGED stmt
  BY <1>1 DEF DiscoverStatements, UploadStatement, StartIngest, StartProfile, BatchExtract, Interrupt
<1>2. ASSUME NEW s \in Sess, Advance(s) PROVE [Lifecycle!Next]_Lifecycle!vars
  <2>1. CASE CheckSource(s) \/ Download(s) \/ SaveProfile(s) \/ Parse(s) \/ Reconcile(s)
    <3>1. UNCHANGED stmt
      BY <2>1 DEF CheckSource, Download, SaveProfile, Parse, Reconcile
    <3> QED BY <3>1, NoChange
  <2> QED BY <1>2, <2>1, StoreImplements, ReprocessImplements, WritesImplement, BeginImplements,
             ReadingImplements DEF Advance
<1>3. ASSUME NEW s \in Sess, DownloadFails(s) PROVE [Lifecycle!Next]_Lifecycle!vars
  BY <1>3, WritesImplement
<1>4. ASSUME NEW s \in Sess, NEW i \in Id, UnlockManually(s, i) PROVE [Lifecycle!Next]_Lifecycle!vars
  BY <1>4, WritesImplement
<1>5. ASSUME NEW s \in Sess, NEW i \in Id, ReExtract(s, i) \/ StartReconcile(s, i) PROVE UNCHANGED stmt
  BY <1>5 DEF ReExtract, StartReconcile
<1>6. ASSUME NEW i \in Id, NEW r \in lines[i], DecideLine(i, r) \/ ImportLine(i, r) \/ ScanGmail(i, r)
      PROVE  UNCHANGED stmt
  BY <1>6 DEF DecideLine, ImportLine, ScanGmail
<1>7. ASSUME NEW i \in Id, LoseFile(i) PROVE UNCHANGED stmt
  BY <1>7 DEF LoseFile
<1>8. ASSUME NEW l \in Line, AlertArrives(l) PROVE UNCHANGED stmt
  BY <1>8 DEF AlertArrives
<1>9. UNCHANGED vars => UNCHANGED stmt
  BY DEF vars
<1> QED BY <1>1, <1>2, <1>3, <1>4, <1>5, <1>6, <1>7, <1>8, <1>9, NoChange DEF Next

\* Nothing is read from a statement that was not opened, and a verdict is passed only on the
\* reading that was begun, once: as long as no two requests work on one statement, the vault
\* implements StatementLifecycle.
THEOREM Refinement ==
  ASSUME "statement" \in Quiet
  PROVE  Spec => Implements
<1>1. Init => Lifecycle!Init
  BY DEF Init, Lifecycle!Init, Exists
<1>2. Inv /\ InvApart /\ [Next]_vars => [Lifecycle!Next]_Lifecycle!vars
  BY StepImplements
<1> QED BY <1>1, <1>2, ApartInvariance, PTL DEF Spec, Implements, Lifecycle!Spec

-----------------------------------------------------------------------------
(* What a request is left with by a step of its session.                   *)

LEMMA ContinueStep ==
  ASSUME NEW j \in Job, Continue(j) # None
  PROVE  /\ Continue(j).step \in {"assign", "check", "extract", "reprocess"}
         /\ Continue(j).mails = j.mails /\ Continue(j).cand \in {j.cand, None}
<1> DEFINE rest == [j EXCEPT !.cand = None, !.at = None, !.old = {}, !.seen = {}]
<1>1. CASE Continue(j) = [j EXCEPT !.step = "assign", !.old = {}]
  BY <1>1 DEF Job
<1>2. CASE Continue(j) = [rest EXCEPT !.step = "check"]
  BY <1>2 DEF Job
<1>3. CASE Continue(j) = [rest EXCEPT !.step = j.again]
  BY <1>3 DEF Job
<1> QED BY <1>1, <1>2, <1>3 DEF Continue

\* A reconciliation starts by reading; a candidate is taken after check A and stored after
\* check B, by a request that was ingesting already or found that none does.
Moves(s, j) ==
  /\ j.step = "reconcile" => j.old = lines'[j.at]
  /\ j.step = "fetch" => ~Known(j.cand) /\ UNCHANGED stmt
  /\ j.step = "store" => /\ At(s, "fetch") /\ j.cand = job[s].cand /\ Stored(j.cand.pdf) = {}
                         /\ UNCHANGED stmt
  /\ j.mails # {} \/ j.cand # None =>
       Ingesting(s) \/ ("ingest" \in Quiet => \A z \in Sess : ~Ingesting(z))

Steps(s) == /\ \A z \in Sess \ {s} : job'[z] = job[z]
            /\ job'[s] # None => Moves(s, job'[s])

LEMMA StepsFrame ==
  ASSUME Inv, NEW s \in Sess, NEW j, job' = [job EXCEPT ![s] = j], j # None => Moves(s, j)
  PROVE  Steps(s)
BY DEF Inv, TypeOK, Steps

\* Most steps neither begin to reconcile nor take a candidate.
LEMMA StepsOn ==
  ASSUME Inv, NEW s \in Sess, NEW j, job' = [job EXCEPT ![s] = j],
         j # None => /\ j.step \notin {"reconcile", "fetch", "store"}
                     /\ j.mails # {} \/ j.cand # None => Ingesting(s)
  PROVE  Steps(s)
<1>1. j # None => Moves(s, j)
  BY DEF Moves
<1> QED BY <1>1, StepsFrame

LEMMA StepsContinue ==
  ASSUME Inv, NEW s \in Sess, NEW j \in Job, job' = [job EXCEPT ![s] = Continue(j)],
         j.mails # {} \/ j.cand # None => Ingesting(s)
  PROVE  Steps(s)
BY ContinueStep, StepsOn

LEMMA IngestSteps ==
  ASSUME Inv, NEW s \in Sess, \/ DiscoverStatements(s) \/ UploadStatement(s) \/ CheckSource(s)
                              \/ DownloadFails(s) \/ Download(s) \/ AssignAccount(s)
  PROVE  Steps(s)
<1>1. CASE DiscoverStatements(s) \/ UploadStatement(s)
  <2>1. /\ "ingest" \in Quiet => \A z \in Sess : ~Ingesting(z)
        /\ \E cands : job' = [job EXCEPT ![s] = [Idle EXCEPT !.mails = cands]]
    BY <1>1 DEF DiscoverStatements, UploadStatement, StartIngest
  <2>2. PICK cands : job' = [job EXCEPT ![s] = [Idle EXCEPT !.mails = cands]]
    BY <2>1
  <2> DEFINE j == [Idle EXCEPT !.mails = cands]
  <2>3. j.step = "check"
    BY DEF Idle
  <2> HIDE DEF j
  <2>4. Moves(s, j)
    BY <2>1, <2>3 DEF Moves
  <2> QED BY <2>2, <2>4, StepsFrame DEF j
<1>2. CASE CheckSource(s)
  <2>1. job[s] \in Job /\ job[s] # None
    BY <1>2, JobAt DEF CheckSource, At
  <2>2. PICK c \in job[s].mails :
          job' = [job EXCEPT ![s] = IF Known(c) THEN Continue([job[s] EXCEPT !.mails = @ \ {c}])
                                    ELSE [job[s] EXCEPT !.mails = @ \ {c}, !.cand = c, !.step = "fetch"]]
    BY <1>2, <2>1 DEF CheckSource, Job
  <2>3. Ingesting(s) /\ UNCHANGED stmt
    BY <1>2, <2>1, <2>2 DEF Ingesting, CheckSource
  <2> DEFINE rest == [job[s] EXCEPT !.mails = @ \ {c}]
             next == [job[s] EXCEPT !.mails = @ \ {c}, !.cand = c, !.step = "fetch"]
  <2>4. rest \in Job
    BY <2>1 DEF Job
  <2>5. next.step = "fetch" /\ next.cand = c
    BY <2>1 DEF Job
  <2> HIDE DEF rest, next
  <2>6. CASE Known(c)
    BY <2>2, <2>3, <2>4, <2>6, StepsContinue DEF rest
  <2>7. CASE ~Known(c)
    <3>1. Moves(s, next)
      BY <2>3, <2>5, <2>7 DEF Moves
    <3> QED BY <2>2, <2>7, <3>1, StepsFrame DEF next
  <2> QED BY <2>6, <2>7
<1>3. CASE DownloadFails(s) \/ AssignAccount(s)
  <2>1. job[s] \in Job /\ job[s] # None
    BY <1>3, JobAt DEF DownloadFails, AssignAccount, At
  <2> DEFINE k == [job[s] EXCEPT !.cand = None]
  <2>2. k \in Job /\ k.mails = job[s].mails /\ k.cand = None
    BY <2>1 DEF Job
  <2>3. job' = [job EXCEPT ![s] = Continue(k)]
    BY <1>3 DEF DownloadFails, AssignAccount
  <2> HIDE DEF k
  <2> QED BY <2>1, <2>2, <2>3, StepsContinue DEF Ingesting
<1>4. CASE Download(s)
  <2> DEFINE same == Stored(job[s].cand.pdf)
             at   == CHOOSE i \in same : TRUE
             store == [job[s] EXCEPT !.step = "store"]
             known == [job[s] EXCEPT !.at = at]
  <2>1. /\ job[s] \in Job /\ job[s] # None /\ At(s, "fetch") /\ UNCHANGED stmt
        /\ Sound(job[s], stmt) /\ job[s].step = "fetch"
    BY <1>4, JobAt DEF Download, At
  <2>2. job' = [job EXCEPT ![s] = IF same = {} THEN store ELSE Continue(known)]
    BY <1>4 DEF Download
  <2>3. same # {} => known \in Job
    BY <2>1 DEF Job, Stored
  <2>4. store.step = "store" /\ store.cand = job[s].cand
    BY <2>1 DEF Job
  <2>5. Ingesting(s)
    BY <2>1 DEF Ingesting, Sound
  <2> HIDE DEF store, known
  <2>6. CASE same = {}
    <3>1. Moves(s, store)
      BY <2>1, <2>4, <2>5, <2>6 DEF Moves
    <3> QED BY <2>2, <2>6, <3>1, StepsFrame
  <2>7. CASE same # {}
    BY <2>2, <2>3, <2>5, <2>7, StepsContinue
  <2> QED BY <2>6, <2>7
<1> QED BY <1>1, <1>2, <1>3, <1>4

LEMMA UnlockSteps ==
  ASSUME Inv, NEW s \in Sess, \/ StoreCandidate(s) \/ Reprocess(s) \/ StartProfile(s) \/ SaveProfile(s)
                              \/ \E i \in Id : UnlockManually(s, i) \/ ReExtract(s, i)
                              \/ BatchExtract(s)
  PROVE  Steps(s)
<1>1. ASSUME NEW j \in Job, NEW i \in Id, NEW r, NEW p, Process(s, j, i, r, p),
             j.mails # {} \/ j.cand # None => Ingesting(s)
      PROVE  Steps(s)
  <2> DEFINE ready == [j EXCEPT !.step = "extract", !.at = i]
             on    == [j EXCEPT !.at = i]
             c     == Processed(r, p).status = "READY_FOR_EXTRACTION"
  <2>1. job' = [job EXCEPT ![s] = IF c THEN ready ELSE Continue(on)]
    BY <1>1 DEF Process
  <2>2. /\ ready.step = "extract" /\ ready.mails = j.mails /\ ready.cand = j.cand
        /\ on \in Job /\ on.mails = j.mails /\ on.cand = j.cand
    BY DEF Job
  <2> HIDE DEF ready, on, c
  <2>3. CASE c
    BY <1>1, <2>1, <2>2, <2>3, StepsOn
  <2>4. CASE ~c
    BY <1>1, <2>1, <2>2, <2>4, StepsContinue
  <2> QED BY <2>3, <2>4
<1>2. CASE StoreCandidate(s)
  <2>1. job[s] \in Job /\ job[s] # None
    BY <1>2, JobAt DEF StoreCandidate, At
  <2>2. \E i \in Id : \E r, p : Process(s, job[s], i, r, p)
    BY <1>2 DEF StoreCandidate
  <2> QED BY <1>1, <2>1, <2>2 DEF Ingesting
<1>3. CASE Reprocess(s)
  <2>1. job[s] \in Job /\ job[s] # None
    BY <1>3, JobAt DEF Reprocess, At
  <2>2. PICK i \in job[s].work :
          \/ job' = [job EXCEPT ![s] = Continue([job[s] EXCEPT !.work = @ \ {i}])]
          \/ Process(s, [job[s] EXCEPT !.work = @ \ {i}], i, stmt[i], stmt[i].pdf)
    BY <1>3 DEF Reprocess
  <2> DEFINE rest == [job[s] EXCEPT !.work = @ \ {i}]
  <2>3. rest \in Job /\ i \in Id /\ rest.mails = job[s].mails /\ rest.cand = job[s].cand
    BY <2>1 DEF Job
  <2> HIDE DEF rest
  <2>4. rest.mails # {} \/ rest.cand # None => Ingesting(s)
    BY <2>1, <2>3 DEF Ingesting
  <2> QED BY <1>1, <2>2, <2>3, <2>4, StepsContinue DEF rest
<1>4. CASE StartProfile(s)
  <2>1. PICK a, given : job' = [job EXCEPT ![s] = [Idle EXCEPT !.step = "profile", !.account = a, !.config = given]]
    BY <1>4 DEF StartProfile
  <2> DEFINE j == [Idle EXCEPT !.step = "profile", !.account = a, !.config = given]
  <2>2. j.step = "profile" /\ j.mails = {} /\ j.cand = None
    BY DEF Idle
  <2> HIDE DEF j
  <2> QED BY <2>1, <2>2, StepsOn DEF j
<1>5. CASE SaveProfile(s)
  <2> DEFINE k == [job[s] EXCEPT !.work = LockedOf(job[s].account), !.again = "reprocess"]
  <2>1. job[s] \in Job /\ job[s] # None
    BY <1>5, JobAt DEF SaveProfile, At
  <2>2. k \in Job /\ k.mails = job[s].mails /\ k.cand = job[s].cand
    BY <2>1 DEF Job, LockedOf
  <2>3. job' = [job EXCEPT ![s] = Continue(k)]
    BY <1>5 DEF SaveProfile
  <2> HIDE DEF k
  <2> QED BY <2>1, <2>2, <2>3, StepsContinue DEF Ingesting
<1>6. CASE \E i \in Id : UnlockManually(s, i) \/ ReExtract(s, i)
  <2>1. PICK i : job' = [job EXCEPT ![s] = [Idle EXCEPT !.step = "extract", !.at = i]]
    BY <1>6 DEF UnlockManually, ReExtract
  <2> DEFINE j == [Idle EXCEPT !.step = "extract", !.at = i]
  <2>2. j.step = "extract" /\ j.mails = {} /\ j.cand = None
    BY DEF Idle
  <2> HIDE DEF j
  <2> QED BY <2>1, <2>2, StepsOn DEF j
<1>7. CASE BatchExtract(s)
  <2> DEFINE k == [Idle EXCEPT !.work = Extractable]
  <2>1. k \in Job /\ k.mails = {} /\ k.cand = None
    BY IdleJob DEF Job, Extractable, Idle
  <2>2. job' = [job EXCEPT ![s] = Continue(k)]
    BY <1>7 DEF BatchExtract
  <2> HIDE DEF k
  <2> QED BY <2>1, <2>2, StepsContinue
<1> QED BY <1>2, <1>3, <1>4, <1>5, <1>6, <1>7

LEMMA ExtractSteps ==
  ASSUME Inv, NEW s \in Sess, \/ BeginExtraction(s) \/ ParserRaises(s) \/ Parse(s) \/ PublishLines(s)
                              \/ ExtractionRaises(s) \/ Conclude(s) \/ Reconcile(s) \/ Interrupt(s)
                              \/ \E i \in Id : StartReconcile(s, i)
  PROVE  Steps(s)
<1>1. CASE BeginExtraction(s)
  <2>1. job[s] \in Job /\ Sound(job[s], stmt) /\ job[s] # None
    BY <1>1, JobAt DEF BeginExtraction, At
  <2>2. PICK i \in AtHand(s) :
          job' = [job EXCEPT ![s] = IF Readable(i) THEN [Taken(s, i) EXCEPT !.step = "parse"]
                                    ELSE Continue(Taken(s, i))]
    BY <1>1 DEF BeginExtraction
  <2>3. i \in Id
    BY <2>1 DEF AtHand, Sound, Job
  <2> DEFINE k == Taken(s, i)
             parse == [k EXCEPT !.step = "parse"]
  <2>4. k \in Job /\ k.mails = job[s].mails /\ k.cand = job[s].cand
    BY <2>1, <2>3 DEF Job, Taken
  <2>5. parse.step = "parse" /\ parse.mails = k.mails /\ parse.cand = k.cand
    BY <2>4 DEF Job
  <2>6. job' = [job EXCEPT ![s] = IF Readable(i) THEN parse ELSE Continue(k)]
    BY <2>2
  <2> HIDE DEF k, parse
  <2>7. CASE Readable(i)
    BY <2>1, <2>4, <2>5, <2>6, <2>7, StepsOn DEF Ingesting
  <2>8. CASE ~Readable(i)
    BY <2>1, <2>4, <2>6, <2>8, StepsContinue DEF Ingesting
  <2> QED BY <2>7, <2>8
<1>2. CASE ParserRaises(s) \/ ExtractionRaises(s) \/ Conclude(s) \/ Reconcile(s)
  <2>1. job[s] \in Job /\ job[s] # None /\ job' = [job EXCEPT ![s] = Continue(job[s])]
    BY <1>2, JobAt, RaisedStatement DEF ParserRaises, Conclude, Reconcile, At
  <2> QED BY <2>1, StepsContinue DEF Ingesting
<1>3. CASE Parse(s)
  <2> DEFINE j == [job[s] EXCEPT !.step = "publish", !.old = lines[job[s].at]]
  <2>1. job[s] \in Job /\ job[s] # None /\ job' = [job EXCEPT ![s] = j]
    BY <1>3, JobAt DEF Parse, At, Inv, TypeOK
  <2>2. j.step = "publish" /\ j.mails = job[s].mails /\ j.cand = job[s].cand
    BY <2>1 DEF Job
  <2> HIDE DEF j
  <2> QED BY <2>1, <2>2, StepsOn DEF Ingesting
<1>4. CASE PublishLines(s)
  <2> DEFINE last == LinesOf[stmt[job[s].at].pdf] = {}
             go == [job[s] EXCEPT !.step = "verdict", !.old = {}]
  <2>1. /\ job[s] \in Job /\ job[s] # None
        /\ job' = [job EXCEPT ![s] = IF last THEN Continue(job[s]) ELSE go]
    BY <1>4, JobAt DEF PublishLines, At
  <2>2. go.step = "verdict" /\ go.mails = job[s].mails /\ go.cand = job[s].cand
    BY <2>1 DEF Job
  <2> HIDE DEF go, last
  <2>3. CASE last
    BY <2>1, <2>3, StepsContinue DEF Ingesting
  <2>4. CASE ~last
    BY <2>1, <2>2, <2>4, StepsOn DEF Ingesting
  <2> QED BY <2>3, <2>4
<1>5. CASE Interrupt(s)
  BY <1>5, StepsOn DEF Interrupt
<1>6. CASE \E i \in Id : StartReconcile(s, i)
  <2>1. PICK i \in Id : StartReconcile(s, i)
    BY <1>6
  <2> DEFINE j == [Idle EXCEPT !.step = "reconcile", !.at = i, !.old = lines[i], !.seen = ledger]
  <2>2. job' = [job EXCEPT ![s] = j] /\ lines' = lines
    BY <2>1 DEF StartReconcile
  <2>3. j.old = lines[i] /\ j.at = i /\ j.step = "reconcile" /\ j.mails = {} /\ j.cand = None
    BY DEF Idle
  <2> HIDE DEF j
  <2>4. Moves(s, j)
    BY <2>2, <2>3 DEF Moves
  <2> QED BY <2>2, <2>4, StepsFrame
<1> QED BY <1>1, <1>2, <1>3, <1>4, <1>5, <1>6

-----------------------------------------------------------------------------
(* The user's decisions, when none is taken about lines being worked on.   *)

\* A step of session s changes only lines of the statement it holds.
LEMMA CurrentFrame ==
  ASSUME Inv, InvApart, ReadCurrent, NEW s \in Sess, Steps(s),
         \A k \in Id \ Holds(s) : lines'[k] = lines[k]
  PROVE  ReadCurrent'
<1> SUFFICES ASSUME NEW z \in Sess, job'[z] # None, job'[z].step = "reconcile"
             PROVE  job'[z].old = lines'[job'[z].at]
  BY DEF ReadCurrent, At
<1>1. CASE z = s
  BY <1>1 DEF Steps, Moves
<1>2. CASE z # s
  <2>1. job'[z] = job[z] /\ job[z] \in Job /\ Sound(job[z], stmt) /\ job[z].old = lines[job[z].at]
    BY <1>2, JobAt DEF Steps, ReadCurrent, At
  <2>2. job[z].at \in Id /\ job[z].at \in Holds(z)
    BY <2>1, Others DEF Sound, Job
  <2>3. job[z].at \notin Holds(s)
    BY <1>2, <2>2, Others
  <2> QED BY <2>1, <2>2, <2>3
<1> QED BY <1>1, <1>2

\* The lines a session changes are those of the statement at hand.
LEMMA LinesOfHeld ==
  ASSUME Inv, InvApart, NEW s \in Sess, PublishLines(s) \/ ExtractionRaises(s) \/ Reconcile(s)
  PROVE  \A k \in Id \ Holds(s) : lines'[k] = lines[k]
<1>1. /\ job[s] # None /\ job[s].step \in {"publish", "verdict", "reconcile"}
      /\ job[s] \in Job /\ Sound(job[s], stmt)
  BY JobAt, RaisedStatement DEF PublishLines, Reconcile, At
<1>2. job[s].at \in Id /\ job[s].at \in Holds(s)
  BY <1>1, Others DEF Sound, Job
<1>3. \A k \in Id \ {job[s].at} : lines'[k] = lines[k]
  <2>1. lines' = lines \/ \E S : lines' = [lines EXCEPT ![job[s].at] = S]
    BY RaisedLines DEF PublishLines, Reconcile
  <2> QED BY <1>2, <2>1 DEF Inv, TypeOK
<1> QED BY <1>2, <1>3

\* Requests change lines in three places.
LEMMA LinesChange ==
  ASSUME NEW s \in Sess,
         \/ DiscoverStatements(s) \/ UploadStatement(s) \/ StartProfile(s) \/ BatchExtract(s)
         \/ DownloadFails(s) \/ Interrupt(s) \/ Advance(s)
         \/ \E i \in Id : UnlockManually(s, i) \/ ReExtract(s, i) \/ StartReconcile(s, i)
  PROVE  PublishLines(s) \/ ExtractionRaises(s) \/ Reconcile(s) \/ lines' = lines
<1>1. StoreCandidate(s) \/ Reprocess(s) => lines' = lines
  BY DEF StoreCandidate, Reprocess, Process
<1>2. \/ CheckSource(s) \/ Download(s) \/ AssignAccount(s) \/ SaveProfile(s)
      \/ BeginExtraction(s) \/ ParserRaises(s) \/ Parse(s) \/ Conclude(s)
      => lines' = lines
  BY DEF CheckSource, Download, AssignAccount, SaveProfile, BeginExtraction, ParserRaises, Parse, Conclude
<1>3. \/ DiscoverStatements(s) \/ UploadStatement(s) \/ StartProfile(s) \/ BatchExtract(s)
      \/ DownloadFails(s) \/ Interrupt(s)
      \/ \E i \in Id : UnlockManually(s, i) \/ ReExtract(s, i) \/ StartReconcile(s, i)
      => lines' = lines
  BY DEF DiscoverStatements, UploadStatement, StartIngest, StartProfile, BatchExtract,
     DownloadFails, Interrupt, UnlockManually, ReExtract, StartReconcile
<1> QED BY <1>1, <1>2, <1>3 DEF Advance

LEMMA CurrentStep ==
  ASSUME {"statement", "lines"} \subseteq Quiet, Inv, Inv', InvApart, ReadCurrent, [Next]_vars
  PROVE  ReadCurrent'
<1>1. ASSUME NEW s \in Sess,
             \/ DiscoverStatements(s) \/ UploadStatement(s) \/ StartProfile(s) \/ BatchExtract(s)
             \/ DownloadFails(s) \/ Interrupt(s) \/ Advance(s)
             \/ \E i \in Id : UnlockManually(s, i) \/ ReExtract(s, i) \/ StartReconcile(s, i)
      PROVE  ReadCurrent'
  <2>1. Steps(s)
    BY <1>1, IngestSteps, UnlockSteps, ExtractSteps DEF Advance
  <2>2. CASE PublishLines(s) \/ ExtractionRaises(s) \/ Reconcile(s)
    BY <2>1, <2>2, LinesOfHeld, CurrentFrame
  <2>3. CASE lines' = lines
    BY <2>1, <2>3, CurrentFrame
  <2> QED BY <1>1, <2>2, <2>3, LinesChange
\* Nobody works on the lines that the user decides about.
<1>2. ASSUME NEW i \in Id, NEW r \in lines[i], DecideLine(i, r) \/ ImportLine(i, r) \/ ScanGmail(i, r)
      PROVE  ReadCurrent'
  <2>1. Decides(i) /\ (\E m \in Match : SetMatch(i, r, m)) /\ job' = job
    BY <1>2, Decision
  <2>2. \A k \in Id \ {i} : lines'[k] = lines[k]
    BY <2>1 DEF SetMatch, Inv, TypeOK
  <2>3. \A s \in Sess : i \notin Holds(s)
    BY <2>1 DEF Decides
  <2>4. ASSUME NEW s \in Sess, At(s, "reconcile") PROVE job[s].at \in Id \ {i}
    <3>1. job[s] \in Job /\ Sound(job[s], stmt) /\ job[s] # None /\ job[s].step = "reconcile"
      BY <2>4, JobAt DEF At
    <3> QED BY <2>3, <3>1, Others DEF Sound, Job
  <2> QED BY <2>1, <2>2, <2>4 DEF ReadCurrent, At
<1>3. ASSUME UNCHANGED <<lines, job>> PROVE ReadCurrent'
  BY <1>3 DEF ReadCurrent, At
<1>4. ASSUME NEW i \in Id, LoseFile(i) PROVE ReadCurrent'
  BY <1>3, <1>4 DEF LoseFile
<1>5. ASSUME NEW l \in Line, AlertArrives(l) PROVE ReadCurrent'
  BY <1>3, <1>5 DEF AlertArrives
<1>6. CASE UNCHANGED vars
  BY <1>3, <1>6 DEF vars
<1> QED BY <1>1, <1>2, <1>4, <1>5, <1>6 DEF Next

\* What a step may not do to a decision.
Keeps == job' # job => \A i \in Id : \A r \in lines[i] :
           Settled(r.match) /\ (\E q \in lines'[i] : SameLine(q, r)) => r \in lines'[i]

\* The lines of a new extraction have new tags.
LEMMA ReplacedKeeps ==
  ASSUME Inv, NEW s \in Sess, NEW i \in Id, NEW L, NEW m,
         lines' = [lines EXCEPT ![i] = Replaced(s, i, L, m)]
  PROVE  Keeps
<1>1. FreshTag(i) \notin InUse(i)
  BY InUseFinite, FreshTagNew
<1>2. ASSUME NEW r \in lines[i], NEW q \in Replaced(s, i, L, m), SameLine(q, r)
      PROVE  r \in Replaced(s, i, L, m)
  <2>1. r.tag \in InUse(i)
    BY DEF InUse
  <2>2. CASE q \in Extracted(i, L, m)
    <3>1. q.tag = FreshTag(i)
      BY <2>2 DEF Extracted
    <3> QED BY <1>1, <1>2, <2>1, <3>1 DEF SameLine
  <2>3. CASE q \in lines[i]
    <3>1. q = r
      BY <1>2, <2>3 DEF Inv, LinesSound, Distinct
    <3> QED BY <1>2, <3>1
  <2> QED BY <1>2, <2>2, <2>3 DEF Replaced
<1>3. lines'[i] = Replaced(s, i, L, m) /\ \A k \in Id \ {i} : lines'[k] = lines[k]
  BY DEF Inv, TypeOK
<1> QED BY <1>2, <1>3 DEF Keeps

LEMMA PublishKeeps ==
  ASSUME Inv, NEW s \in Sess, PublishLines(s) \/ ExtractionRaises(s)
  PROVE  Keeps
<1>1. job[s].at \in Id
  BY AtWork, RaisedStatement DEF PublishLines, At
<1>2. lines' = lines \/ \E L, m : lines' = [lines EXCEPT ![job[s].at] = Replaced(s, job[s].at, L, m)]
  BY RaisedLines DEF PublishLines
<1>3. lines' = lines => Keeps
  BY DEF Keeps
<1> QED BY <1>1, <1>2, <1>3, ReplacedKeeps

\* A reconciliation passes over the lines that are decided, if it has read them as they are.
LEMMA ReconcileKeeps ==
  ASSUME Inv, ReadCurrent, NEW s \in Sess, Reconcile(s)
  PROVE  Keeps
<1> DEFINE i == job[s].at
           T(m) == {Rematched(s, r, m) : r \in lines[i]}
<1>1. job[s] \in Job /\ Sound(job[s], stmt) /\ job[s].step = "reconcile" /\ job[s] # None
  BY JobAt DEF Reconcile, At
<1>2. i \in Id /\ job[s].old = lines[i]
  BY <1>1 DEF Sound, Job, ReadCurrent, At
<1>3. lines' = lines \/ \E m : lines' = [lines EXCEPT ![i] = T(m)]
  BY DEF Reconcile
<1>4. ASSUME NEW m, NEW r \in lines[i], Settled(r.match) PROVE r \in T(m)
  <2>1. Decided(r.match)
    BY <1>4 DEF Settled, Decided
  <2>2. {o \in job[s].old : SameLine(r, o) /\ ~Decided(o.match)} = {}
    BY <1>2, <2>1 DEF Inv, LinesSound, Distinct
  <2>3. Rematched(s, r, m) = r
    BY <2>2 DEF Rematched
  <2> QED BY <2>3
<1> HIDE DEF i, T
<1>5. CASE lines' = lines
  BY <1>5 DEF Keeps
<1>6. ASSUME NEW m, lines' = [lines EXCEPT ![i] = T(m)] PROVE Keeps
  <2>1. lines'[i] = T(m) /\ \A k \in Id \ {i} : lines'[k] = lines[k]
    BY <1>2, <1>6 DEF Inv, TypeOK
  <2> QED BY <1>4, <2>1 DEF Keeps
<1> QED BY <1>3, <1>5, <1>6

LEMMA StepKeeps ==
  ASSUME Inv, Inv', ReadCurrent, [Next]_vars
  PROVE  [Keeps]_vars
<1>1. job' = job => Keeps
  BY DEF Keeps
<1>2. lines' = lines => Keeps
  BY DEF Keeps
<1>3. ASSUME NEW s \in Sess,
             \/ DiscoverStatements(s) \/ UploadStatement(s) \/ StartProfile(s) \/ BatchExtract(s)
             \/ DownloadFails(s) \/ Interrupt(s) \/ Advance(s)
             \/ \E i \in Id : UnlockManually(s, i) \/ ReExtract(s, i) \/ StartReconcile(s, i)
      PROVE  Keeps
  BY <1>2, <1>3, LinesChange, PublishKeeps, ReconcileKeeps
<1>5. ASSUME NEW i \in Id, NEW r \in lines[i], DecideLine(i, r) \/ ImportLine(i, r) \/ ScanGmail(i, r)
      PROVE  job' = job
  BY <1>5 DEF DecideLine, ImportLine, ScanGmail
<1>6. ASSUME NEW i \in Id, LoseFile(i) PROVE job' = job
  BY <1>6 DEF LoseFile
<1>7. ASSUME NEW l \in Line, AlertArrives(l) PROVE job' = job
  BY <1>7 DEF AlertArrives
<1> QED BY <1>1, <1>3, <1>5, <1>6, <1>7 DEF Next, vars

\* What the user confirmed, imported or rejected survives every request that does not
\* extract the statement anew, for as long as requests and user keep off each other's
\* statement. Under Quiet only: a reconciliation that runs meanwhile undoes a decision.
THEOREM DecisionsSurvive ==
  ASSUME {"statement", "lines"} \subseteq Quiet
  PROVE  Spec => DecisionsKept
<1>1. Init => ReadCurrent
  BY DEF Init, ReadCurrent, At
<1>2. Inv /\ Inv' /\ InvApart /\ ReadCurrent /\ [Next]_vars => ReadCurrent'
  BY CurrentStep
<1>3. Inv /\ Inv' /\ ReadCurrent /\ [Next]_vars => [Keeps]_vars
  BY StepKeeps
<1>4. Spec => [](Inv /\ InvApart)
  BY ApartInvariance
<1> QED BY <1>1, <1>2, <1>3, <1>4, PTL DEF Spec, DecisionsKept, Keeps

-----------------------------------------------------------------------------
(* One request that ingests at a time.                                     *)

\* What a statement is made from.
SameSources == \A i \in Id : /\ Exists(i)' <=> Exists(i)
                             /\ Exists(i) => stmt'[i].src = stmt[i].src /\ stmt'[i].pdf = stmt[i].pdf

LEMMA SourcesWritten ==
  ASSUME Inv, NEW i \in Id, stmt[i] # None, NEW q \in Statement, stmt' = [stmt EXCEPT ![i] = q],
         q.src = stmt[i].src, q.pdf = stmt[i].pdf
  PROVE  SameSources
BY NoneAssumption DEF Inv, TypeOK, SameSources, Exists

\* Only a candidate makes a statement; what is done with one changes neither source nor content.
LEMMA SourcesStay ==
  ASSUME Inv, [Next]_vars, \A s \in Sess : ~StoreCandidate(s) /\ ~DownloadFails(s)
  PROVE  SameSources
<1>1. UNCHANGED stmt => SameSources
  BY DEF SameSources, Exists
<1>2. ASSUME NEW s \in Sess,
             \/ DiscoverStatements(s) \/ UploadStatement(s) \/ StartProfile(s) \/ BatchExtract(s)
             \/ Interrupt(s)
      PROVE  UNCHANGED stmt
  BY <1>2 DEF DiscoverStatements, UploadStatement, StartIngest, StartProfile, BatchExtract, Interrupt
<1>3. ASSUME NEW s \in Sess, Reprocess(s) PROVE SameSources
  <2>1. job[s] \in Job /\ Sound(job[s], stmt) /\ job[s].step = "reprocess" /\ job[s] # None
    BY <1>3, JobAt DEF Reprocess, At
  <2>2. PICK i \in job[s].work :
          \/ UNCHANGED stmt
          \/ \E j : Process(s, j, i, stmt[i], stmt[i].pdf)
    BY <1>3 DEF Reprocess
  <2>3. /\ i \in Id /\ stmt[i] # None /\ stmt[i] \in Statement /\ RowSound(stmt[i])
        /\ stmt[i].pdf # None
    BY <2>1 DEF Sound, Job, Inv, TypeOK, RowsSound
  <2>4. stmt[i].pdf \in Pdf
    BY <2>3 DEF Statement
  <2> DEFINE q == Processed(stmt[i], stmt[i].pdf)
  <2>5. q \in Statement /\ q.src = stmt[i].src /\ q.pdf = stmt[i].pdf
    BY <2>3, <2>4, ProcessedRow
  <2>6. UNCHANGED stmt \/ stmt' = [stmt EXCEPT ![i] = q]
    BY <2>2 DEF Process
  <2> HIDE DEF q
  <2> QED BY <1>1, <2>3, <2>5, <2>6, SourcesWritten
<1>4. ASSUME NEW s \in Sess, AssignAccount(s) PROVE SameSources
  <2>1. job[s] \in Job /\ Sound(job[s], stmt) /\ job[s].step = "assign" /\ job[s] # None
    BY <1>4, JobAt DEF AssignAccount, At
  <2> DEFINE i == job[s].at
             q == [stmt[i] EXCEPT !.account = IF @ = None THEN job[s].cand.given ELSE @]
  <2>2. i \in Id /\ stmt[i] # None /\ stmt[i] \in Statement
    BY <2>1 DEF Sound, Job, Inv, TypeOK
  <2>3. job[s].cand.given \in Account \cup {None}
    BY <2>1 DEF Sound, Job, Candidate
  <2>4. stmt' = [stmt EXCEPT ![i] = q]
    BY <1>4 DEF AssignAccount
  <2>5. q \in Statement /\ q.src = stmt[i].src /\ q.pdf = stmt[i].pdf
    BY <2>2, <2>3 DEF Statement
  <2> HIDE DEF q, i
  <2> QED BY <2>2, <2>4, <2>5, SourcesWritten
<1>5. ASSUME NEW s \in Sess, BeginExtraction(s) PROVE SameSources
  <2>1. job[s] \in Job /\ Sound(job[s], stmt) /\ job[s].step = "extract" /\ job[s] # None
    BY <1>5, JobAt DEF BeginExtraction, At
  <2>2. PICK i \in AtHand(s) :
          stmt' = [stmt EXCEPT ![i].status = IF Readable(i) THEN "EXTRACTING" ELSE "EXTRACTION_FAILED"]
    BY <1>5 DEF BeginExtraction
  <2>3. i \in Id /\ stmt[i] # None /\ stmt[i] \in Statement
    BY <2>1, NoneAssumption DEF AtHand, Sound, Job, Inv, TypeOK
  <2> DEFINE q == [stmt[i] EXCEPT !.status = IF Readable(i) THEN "EXTRACTING" ELSE "EXTRACTION_FAILED"]
  <2>4. stmt' = [stmt EXCEPT ![i] = q]
    BY <2>2
  <2>5. q \in Statement /\ q.src = stmt[i].src /\ q.pdf = stmt[i].pdf
    BY <2>3 DEF Statement, Status
  <2> HIDE DEF q
  <2> QED BY <2>3, <2>4, <2>5, SourcesWritten
<1>15. ASSUME NEW s \in Sess, ExtractionRaises(s) PROVE SameSources
  <2> DEFINE i == job[s].at
  <2>1. i \in Id /\ stmt[i] # None
    BY <1>15, RaisedStatement, AtWork
  <2>2. PICK q \in Statement : /\ stmt' = [stmt EXCEPT ![i] = q]
                               /\ q.src = stmt[i].src /\ q.pdf = stmt[i].pdf
    BY <1>15, RaisedStatement
  <2> HIDE DEF i
  <2> QED BY <2>1, <2>2, SourcesWritten
<1>6. ASSUME NEW s \in Sess, ParserRaises(s) \/ PublishLines(s) \/ Conclude(s) PROVE SameSources
  <2> DEFINE i == job[s].at
             failed == [stmt[i] EXCEPT !.status = "EXTRACTION_FAILED"]
             published == [stmt[i] EXCEPT !.report = ReadsAs[stmt[i].pdf],
                             !.status = IF LinesOf[stmt[i].pdf] = {} THEN Verdict(i) ELSE @]
             concluded == [stmt[i] EXCEPT !.status = Verdict(i)]
  <2>1. job[s] # None /\ job[s].step \in {"parse", "publish", "verdict"}
    BY <1>6 DEF ParserRaises, PublishLines, Conclude, At
  <2>2. i \in Id /\ stmt[i] # None /\ stmt[i] \in Statement /\ stmt[i].pdf \in Pdf
    BY <2>1, AtWork
  <2>3. ReadsAs[stmt[i].pdf] \in Report /\ Verdict(i) \in Status
    BY <2>2, ConstantsAssumption DEF Verdict, Status
  <2>4. /\ failed \in Statement /\ failed.src = stmt[i].src /\ failed.pdf = stmt[i].pdf
        /\ concluded \in Statement /\ concluded.src = stmt[i].src /\ concluded.pdf = stmt[i].pdf
    BY <2>2, <2>3 DEF Statement, Status
  <2>5. published \in Statement /\ published.src = stmt[i].src /\ published.pdf = stmt[i].pdf
    BY <2>2, <2>3 DEF Statement
  <2>6. \E q \in {failed, published, concluded} : stmt' = [stmt EXCEPT ![i] = q]
    BY <1>6 DEF ParserRaises, PublishLines, Conclude
  <2> HIDE DEF failed, published, concluded, i
  <2> QED BY <2>2, <2>4, <2>5, <2>6, SourcesWritten
<1>7. ASSUME NEW s \in Sess, NEW i \in Id, UnlockManually(s, i) PROVE SameSources
  <2> DEFINE q == [stmt[i] EXCEPT !.unlocked = TRUE, !.status = "READY_FOR_EXTRACTION"]
  <2>1. stmt' = [stmt EXCEPT ![i] = q] /\ stmt[i] \in Statement /\ stmt[i] # None
    BY <1>7 DEF UnlockManually, Exists, Inv, TypeOK
  <2>2. q \in Statement /\ q.src = stmt[i].src /\ q.pdf = stmt[i].pdf
    BY <2>1 DEF Statement, Status
  <2> HIDE DEF q
  <2> QED BY <2>1, <2>2, SourcesWritten
<1>8. ASSUME NEW s \in Sess, CheckSource(s) \/ Download(s) \/ SaveProfile(s) \/ Parse(s) \/ Reconcile(s)
      PROVE  UNCHANGED stmt
  BY <1>8 DEF CheckSource, Download, SaveProfile, Parse, Reconcile
<1>9. ASSUME NEW s \in Sess, NEW i \in Id, ReExtract(s, i) \/ StartReconcile(s, i) PROVE UNCHANGED stmt
  BY <1>9 DEF ReExtract, StartReconcile
<1>10. ASSUME NEW i \in Id, NEW r \in lines[i], DecideLine(i, r) \/ ImportLine(i, r) \/ ScanGmail(i, r)
       PROVE  UNCHANGED stmt
  BY <1>10 DEF DecideLine, ImportLine, ScanGmail
<1>11. ASSUME NEW i \in Id, LoseFile(i) PROVE UNCHANGED stmt
  BY <1>11 DEF LoseFile
<1>12. ASSUME NEW l \in Line, AlertArrives(l) PROVE UNCHANGED stmt
  BY <1>12 DEF AlertArrives
<1>13. UNCHANGED vars => UNCHANGED stmt
  BY DEF vars
<1>14. ASSUME NEW s \in Sess, Advance(s) PROVE SameSources
  BY <1>1, <1>3, <1>4, <1>5, <1>6, <1>8, <1>14, <1>15 DEF Advance
<1> QED BY <1>1, <1>2, <1>7, <1>9, <1>10, <1>11, <1>12, <1>13, <1>14 DEF Next

\* A statement made from a candidate that neither check found is the first of its source.
LEMMA NewSource ==
  ASSUME Inv, OneStatementPerSource, NEW i \in Id, Fresh(i), NEW q \in Statement,
         stmt' = [stmt EXCEPT ![i] = q], NEW c \in Candidate, ~Known(c), q.src = c.att,
         q.pdf # None => Stored(q.pdf) = {}
  PROVE  OneStatementPerSource'
<1>1. q # None /\ stmt'[i] = q /\ \A k \in Id \ {i} : stmt'[k] = stmt[k]
  BY NoneAssumption DEF Inv, TypeOK
<1>2. ASSUME NEW k \in Id \ {i}, stmt[k] # None
      PROVE  /\ ~(stmt[k].src = q.src /\ q.src # None)
             /\ ~(stmt[k].pdf = q.pdf /\ q.pdf # None)
  BY <1>2 DEF Known, Stored, Exists
<1>3. SUFFICES ASSUME NEW m \in Id, NEW k \in Id, stmt'[m] # None, stmt'[k] # None, m # k
               PROVE  /\ ~(stmt'[m].src = stmt'[k].src /\ stmt'[m].src # None)
                      /\ ~(stmt'[m].pdf = stmt'[k].pdf /\ stmt'[m].pdf # None)
  BY DEF OneStatementPerSource, Exists
<1>4. CASE m = i
  BY <1>1, <1>2, <1>3, <1>4
<1>5. CASE k = i
  BY <1>1, <1>2, <1>3, <1>5
<1>6. CASE m # i /\ k # i
  BY <1>1, <1>3, <1>6 DEF OneStatementPerSource, Exists
<1> QED BY <1>4, <1>5, <1>6

\* The two steps that make a statement.
LEMMA MakesStatement ==
  ASSUME Inv, InvIngest, NEW s \in Sess, StoreCandidate(s) \/ DownloadFails(s)
  PROVE  Ingesting(s) /\ stmt' # stmt /\ OneStatementPerSource'
<1> DEFINE c == job[s].cand
<1>1. /\ job[s] \in Job /\ Sound(job[s], stmt) /\ job[s].step \in {"fetch", "store"} /\ job[s] # None
      /\ StoreCandidate(s) => job[s].step = "store"
  BY JobAt DEF StoreCandidate, DownloadFails, At
<1>2. c \in Candidate /\ Ingesting(s) /\ c # None
  BY <1>1 DEF Sound, Job, Ingesting
<1>3. ~Known(c) /\ (job[s].step = "store" => Stored(c.pdf) = {})
  BY <1>1 DEF InvIngest, Novel, At
<1>4. \E i \in Id, q \in Statement :
        /\ Fresh(i) /\ stmt' = [stmt EXCEPT ![i] = q] /\ q.src = c.att
        /\ q.pdf # None => Stored(q.pdf) = {}
  <2>1. CASE StoreCandidate(s)
    <3> DEFINE r == [Row(c, "INVALID_PDF") EXCEPT !.account = c.account]
               q == Processed(r, c.pdf)
    <3>1. PICK i \in Id : Fresh(i) /\ stmt' = [stmt EXCEPT ![i] = q]
      BY <2>1 DEF StoreCandidate, Process
    <3>2. r \in Statement /\ RowSound(r) /\ r.src = c.att /\ r.pdf = None
      BY <1>2 DEF Row, Candidate, Statement, Status, Report, RowSound, Locked
    <3>3. c.pdf \in Pdf
      BY <1>2 DEF Candidate
    <3> HIDE DEF r, c
    <3>4. q \in Statement /\ q.src = r.src /\ q.pdf \in {r.pdf, c.pdf}
      BY <3>2, <3>3, ProcessedRow
    <3> HIDE DEF q
    <3> QED BY <1>1, <1>3, <2>1, <3>1, <3>2, <3>4
  <2>2. CASE DownloadFails(s)
    <3> DEFINE q == Row(c, "DOWNLOAD_FAILED")
    <3>1. PICK i \in Id : Fresh(i) /\ stmt' = [stmt EXCEPT ![i] = q]
      BY <2>2 DEF DownloadFails
    <3>2. q \in Statement /\ q.src = c.att /\ q.pdf = None
      BY <1>2 DEF Row, Candidate, Statement, Status, Report
    <3> HIDE DEF q, c
    <3> QED BY <3>1, <3>2
  <2> QED BY <2>1, <2>2
<1>5. PICK i \in Id, q \in Statement :
        /\ Fresh(i) /\ stmt' = [stmt EXCEPT ![i] = q] /\ q.src = c.att
        /\ q.pdf # None => Stored(q.pdf) = {}
  BY <1>4
<1> HIDE DEF c
<1>6. OneStatementPerSource'
  BY <1>2, <1>3, <1>5, NewSource DEF InvIngest
<1>7. stmt' # stmt
  BY <1>5, NoneAssumption, FreshFree DEF Inv, TypeOK
<1> QED BY <1>2, <1>6, <1>7

\* Every step is one session's or leaves the requests alone.
LEMMA WhoSteps ==
  ASSUME Inv, [Next]_vars
  PROVE  job' = job \/ \E s \in Sess : Steps(s)
<1>1. ASSUME NEW s \in Sess,
             \/ DiscoverStatements(s) \/ UploadStatement(s) \/ StartProfile(s) \/ BatchExtract(s)
             \/ DownloadFails(s) \/ Interrupt(s) \/ Advance(s)
             \/ \E i \in Id : UnlockManually(s, i) \/ ReExtract(s, i) \/ StartReconcile(s, i)
      PROVE  Steps(s)
  BY <1>1, IngestSteps, UnlockSteps, ExtractSteps DEF Advance
<1>2. ASSUME NEW i \in Id, NEW r \in lines[i], DecideLine(i, r) \/ ImportLine(i, r) \/ ScanGmail(i, r)
      PROVE  job' = job
  BY <1>2 DEF DecideLine, ImportLine, ScanGmail
<1>3. ASSUME NEW i \in Id, LoseFile(i) PROVE job' = job
  BY <1>3 DEF LoseFile
<1>4. ASSUME NEW l \in Line, AlertArrives(l) PROVE job' = job
  BY <1>4 DEF AlertArrives
<1> QED BY <1>1, <1>2, <1>3, <1>4 DEF Next, vars

LEMMA IngestInit == Init => InvIngest
BY DEF Init, InvIngest, Alone, Novel, OneStatementPerSource, Ingesting, At, Exists

LEMMA AloneStep ==
  ASSUME "ingest" \in Quiet, Inv, InvIngest, [Next]_vars
  PROVE  Alone'
<1>1. CASE job' = job
  BY <1>1 DEF InvIngest, Alone, Ingesting
<1>2. CASE \E s \in Sess : Steps(s)
  <2>1. PICK s \in Sess : Steps(s)
    BY <1>2
  <2>2. \A z \in Sess \ {s} : Ingesting(z)' => Ingesting(z)
    BY <2>1 DEF Steps, Ingesting
  <2>3. Ingesting(s)' => Ingesting(s) \/ \A z \in Sess : ~Ingesting(z)
    BY <2>1 DEF Steps, Moves, Ingesting
  <2> QED BY <2>2, <2>3 DEF InvIngest, Alone
<1> QED BY <1>1, <1>2, WhoSteps

LEMMA IngestStep ==
  ASSUME "ingest" \in Quiet, Inv, Inv', InvIngest, [Next]_vars
  PROVE  InvIngest'
<1>1. Alone'
  BY AloneStep
\* A candidate is in the hands of the one request that ingests.
<1>2. ASSUME NEW z \in Sess, job'[z] # None, job'[z].step \in {"fetch", "store"} PROVE Ingesting(z)'
  <2>1. Sound(job'[z], stmt')
    BY <1>2 DEF Inv, JobsSound
  <2> QED BY <1>2, <2>1 DEF Sound, Ingesting
<1>3. CASE \E s \in Sess : StoreCandidate(s) \/ DownloadFails(s)
  <2>1. PICK s \in Sess : StoreCandidate(s) \/ DownloadFails(s)
    BY <1>3
  <2>2. Ingesting(s) /\ stmt' # stmt /\ OneStatementPerSource'
    BY <2>1, MakesStatement
  <2>3. Steps(s)
    BY <2>1, IngestSteps, UnlockSteps
  <2>4. ASSUME NEW z \in Sess, job'[z] # None, job'[z].step \in {"fetch", "store"} PROVE FALSE
    <3>1. CASE z = s
      BY <2>2, <2>3, <2>4, <3>1 DEF Steps, Moves
    <3>2. CASE z # s
      <4>1. job'[z] = job[z]
        BY <2>3, <3>2 DEF Steps
      <4>2. Ingesting(z)
        BY <1>2, <2>4, <4>1 DEF Ingesting
      <4> QED BY <2>2, <3>2, <4>2 DEF InvIngest, Alone
    <3> QED BY <3>1, <3>2
  <2>5. Novel'
    BY <2>4 DEF Novel, At
  <2> QED BY <1>1, <2>2, <2>5 DEF InvIngest
<1>4. CASE \A s \in Sess : ~StoreCandidate(s) /\ ~DownloadFails(s)
  <2>1. SameSources
    BY <1>4, SourcesStay
  <2>2. OneStatementPerSource'
    BY <2>1 DEF SameSources, OneStatementPerSource, InvIngest
  <2>3. \A c : c.att # None /\ (\E i \in Id : Exists(i)' /\ stmt'[i].src = c.att) <=> Known(c)
    BY <2>1 DEF SameSources, Known
  <2>4. \A p : {i \in Id : Exists(i)' /\ stmt'[i].pdf = p} = Stored(p)
    BY <2>1 DEF SameSources, Stored
  <2>5. ASSUME NEW z \in Sess, job'[z] # None, job'[z].step \in {"fetch", "store"}
        PROVE  ~Known(job'[z].cand) /\ (job'[z].step = "store" => Stored(job'[z].cand.pdf) = {})
    <3>1. CASE job'[z] = job[z]
      BY <2>5, <3>1 DEF InvIngest, Novel, At
    <3>2. CASE job'[z] # job[z]
      <4>1. Moves(z, job'[z])
        BY <2>5, <3>2, WhoSteps DEF Steps
      <4> QED BY <2>5, <4>1 DEF Moves, InvIngest, Novel
    <3> QED BY <3>1, <3>2
  <2>6. Novel'
    BY <2>3, <2>4, <2>5 DEF Novel, At, Known, Stored
  <2> QED BY <1>1, <2>2, <2>6 DEF InvIngest
<1> QED BY <1>3, <1>4

\* However often a mail is found and a file uploaded, however downloads fail and requests are
\* killed, an attachment and a content have at most one statement: as long as one request
\* ingests at a time. Checks A and B of ingest_candidate, and nothing in the schema, see to it.
THEOREM OncePerSource ==
  ASSUME "ingest" \in Quiet
  PROVE  Spec => []OneStatementPerSource
<1>1. Init => InvIngest
  BY IngestInit
<1>2. Inv /\ Inv' /\ InvIngest /\ [Next]_vars => InvIngest'
  BY IngestStep
<1>3. InvIngest => OneStatementPerSource
  BY DEF InvIngest
<1> QED BY <1>1, <1>2, <1>3, Invariance, PTL DEF Spec

=============================================================================
