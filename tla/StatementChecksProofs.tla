------------------------ MODULE StatementChecksProofs ------------------------
(***************************************************************************)
(* What is read of a statement and judged, for statements of any length,   *)
(* any amounts, any part of which is read or misread, and for any profile  *)
(* and order of strategies.                                                *)
(*                                                                         *)
(* ReadingSound is not inductive: that a verdict vouches for the rows rests*)
(* on the bank's balances following from its lines (LinesTrue), and that a *)
(* file is given up for good reason on what was tried so far (Attempting). *)
(* Sums over the places of lines are defined by recursion; what is said of *)
(* them is proved of a least place where it fails (Least).                 *)
(***************************************************************************)
EXTENDS StatementChecks, FiniteSetTheorems, WellFoundedInduction, TLAPS

-----------------------------------------------------------------------------
(* Sums over places.                                                       *)

LEMMA Least ==
  ASSUME NEW S \in SUBSET Nat, S # {}
  PROVE  \E n \in S : \A m \in S : n <= m
<1> DEFINE R == OpToRel(<, Nat)
<1>1. \A x, y \in Nat : y < x => <<y, x>> \in R
  BY DEF OpToRel
<1>2. IsWellFoundedOn(R, Nat)
  BY NatLessThanWellFounded
<1> HIDE DEF R
<1>3. PICK n \in S : \A m \in S : ~(<<m, n>> \in R)
  BY <1>2, WFMin
<1> SUFFICES ASSUME NEW m \in S PROVE n <= m
  BY <1>3
<1>4. n \in Nat /\ m \in Nat
  OBVIOUS
<1>5. ~(m < n)
  BY <1>1, <1>3, <1>4
<1> QED BY <1>4, <1>5

\* What f has at a place, and the function a sum is defined by.
At(f, k) == IF k \in DOMAIN f THEN f[k] ELSE 0
Running(f, n, s) == s = [k \in 0..n |-> IF k = 0 THEN 0 ELSE s[k - 1] + At(f, k)]
Run(f, n) == CHOOSE s : Running(f, n, s)

LEMMA UptoIs ==
  ASSUME NEW f, NEW n
  PROVE  Upto(f, n) = Run(f, n)[n]
BY Zenon DEF Upto, Run, Running, At

LEMMA RunExists ==
  ASSUME NEW f, NEW n \in Nat, \A k \in 1..n : At(f, k) \in Nat
  PROVE  \E s : Running(f, n, s) /\ s \in [0..n -> Nat]
<1> DEFINE Fits(m, s) == Running(f, m, s) /\ s \in [0..m -> Nat]
           Bad == {m \in 0..n : \A s : ~Fits(m, s)}
<1>1. \E s : Fits(0, s)
  <2> DEFINE s == [k \in 0..0 |-> 0]
  <2>1. s = [k \in 0..0 |-> IF k = 0 THEN 0 ELSE s[k - 1] + At(f, k)]
    OBVIOUS
  <2>2. s \in [0..0 -> Nat]
    OBVIOUS
  <2> HIDE DEF s
  <2> QED BY <2>1, <2>2 DEF Running
<1>2. ASSUME NEW m \in Nat, m + 1 \in 1..n, NEW s, Fits(m, s)
      PROVE  \E r : Fits(m + 1, r)
  <2> DEFINE value(k) == IF k = 0 THEN 0 ELSE s[k - 1] + At(f, k)
             r == [k \in 0..(m + 1) |-> value(k)]
  <2>1. \A k \in 0..m : s[k] = value(k) /\ s[k] \in Nat
    BY <1>2 DEF Running
  <2>2. At(f, m + 1) \in Nat /\ s[m] \in Nat
    BY <1>2, <2>1
  <2>3. \A k \in 0..(m + 1) : k \in 0..m \/ k = m + 1
    OBVIOUS
  <2>4. value(m + 1) = s[m] + At(f, m + 1)
    OBVIOUS
  <2>5. \A k \in 0..(m + 1) : value(k) \in Nat
    BY <2>1, <2>2, <2>3, <2>4
  <2>6. \A k \in 1..(m + 1) : k - 1 \in 0..m /\ k - 1 \in 0..(m + 1)
    OBVIOUS
  <2>7. \A k \in 1..(m + 1) : r[k - 1] = s[k - 1]
    BY <2>1, <2>6
  <2>8. \A k \in 0..(m + 1) : value(k) = IF k = 0 THEN 0 ELSE r[k - 1] + At(f, k)
    BY <2>7
  <2>9. r = [k \in 0..(m + 1) |-> IF k = 0 THEN 0 ELSE r[k - 1] + At(f, k)]
    <3> HIDE DEF value
    <3> QED BY <2>8
  <2>10. r \in [0..(m + 1) -> Nat]
    BY <2>5
  <2> HIDE DEF r
  <2> QED BY <2>9, <2>10 DEF Running
<1>3. Bad = {}
  <2> SUFFICES ASSUME Bad # {} PROVE FALSE
    OBVIOUS
  <2>1. Bad \in SUBSET Nat
    OBVIOUS
  <2> HIDE DEF Bad, Fits
  <2>2. PICK m \in Bad : \A k \in Bad : m <= k
    BY <2>1, Least
  <2>3. m \in 0..n /\ m # 0
    BY <1>1, <2>2 DEF Bad
  <2>4. m - 1 \in Nat /\ m - 1 \in 0..n /\ (m - 1) + 1 = m /\ m \in 1..n
    BY <2>3
  <2>5. m - 1 \notin Bad
    BY <2>2, <2>3
  <2>6. PICK s : Fits(m - 1, s)
    BY <2>4, <2>5 DEF Bad
  <2>7. \E r : Fits((m - 1) + 1, r)
    BY <1>2, <2>4, <2>6
  <2> QED BY <2>2, <2>4, <2>7 DEF Bad
<1>4. n \in 0..n
  OBVIOUS
<1>5. \E s : Fits(n, s)
  BY <1>3, <1>4
<1> QED BY <1>5

LEMMA RunIs ==
  ASSUME NEW f, NEW n \in Nat, \A k \in 1..n : At(f, k) \in Nat
  PROVE  /\ Run(f, n)[0] = 0
         /\ \A k \in 1..n : Run(f, n)[k] = Run(f, n)[k - 1] + At(f, k)
         /\ \A k \in 0..n : Run(f, n)[k] \in Nat
<1> DEFINE s == Run(f, n)
<1>1. Running(f, n, s)
  BY RunExists DEF Run
<1> HIDE DEF s
<1>2. s[0] = 0 /\ \A k \in 1..n : s[k] = s[k - 1] + At(f, k)
  <2>1. \A k \in 0..n : s[k] = IF k = 0 THEN 0 ELSE s[k - 1] + At(f, k)
    BY <1>1 DEF Running
  <2> QED BY <2>1
<1> DEFINE Bad == {k \in 0..n : s[k] \notin Nat}
<1>3. Bad = {}
  <2> SUFFICES ASSUME Bad # {} PROVE FALSE
    OBVIOUS
  <2>1. Bad \in SUBSET Nat
    OBVIOUS
  <2> HIDE DEF Bad
  <2>2. PICK k \in Bad : \A j \in Bad : k <= j
    BY <2>1, Least
  <2>3. k \in 1..n /\ s[k] \notin Nat
    BY <1>2, <2>2 DEF Bad
  <2>4. k - 1 \in 0..n /\ k - 1 \notin Bad
    BY <2>2, <2>3
  <2>5. s[k - 1] \in Nat /\ s[k] = s[k - 1] + At(f, k) /\ At(f, k) \in Nat
    BY <1>2, <2>3, <2>4 DEF Bad
  <2> QED BY <2>3, <2>5
<1> QED BY <1>2, <1>3 DEF s

\* At every place h has what f and g have together.
Joins(f, g, h, n) ==
  \A k \in 1..n : At(f, k) \in Nat /\ At(g, k) \in Nat /\ At(h, k) = At(f, k) + At(g, k)

LEMMA UptoAdds ==
  ASSUME NEW f, NEW g, NEW h, NEW n \in Nat, Joins(f, g, h, n)
  PROVE  /\ Upto(f, n) \in Nat /\ Upto(g, n) \in Nat
         /\ Upto(h, n) = Upto(f, n) + Upto(g, n)
<1> DEFINE F == Run(f, n)
           G == Run(g, n)
           H == Run(h, n)
           Bad == {k \in 0..n : H[k] # F[k] + G[k]}
<1>0. \A k \in 1..n : At(f, k) \in Nat /\ At(g, k) \in Nat /\ At(h, k) = At(f, k) + At(g, k)
  BY DEF Joins
<1>1. /\ F[0] = 0 /\ \A k \in 1..n : F[k] = F[k - 1] + At(f, k)
      /\ \A k \in 0..n : F[k] \in Nat
  BY <1>0, RunIs
<1>2. /\ G[0] = 0 /\ \A k \in 1..n : G[k] = G[k - 1] + At(g, k)
      /\ \A k \in 0..n : G[k] \in Nat
  BY <1>0, RunIs
<1>3. H[0] = 0 /\ \A k \in 1..n : H[k] = H[k - 1] + At(h, k)
  <2>1. \A k \in 1..n : At(h, k) \in Nat
    BY <1>0
  <2> QED BY <2>1, RunIs
<1>4. Bad = {}
  <2> SUFFICES ASSUME Bad # {} PROVE FALSE
    OBVIOUS
  <2>1. Bad \in SUBSET Nat
    OBVIOUS
  <2> HIDE DEF Bad, F, G, H
  <2>2. PICK k \in Bad : \A j \in Bad : k <= j
    BY <2>1, Least
  <2>3. k \in 1..n /\ H[k] # F[k] + G[k]
    BY <1>1, <1>2, <1>3, <2>2 DEF Bad
  <2>4. k - 1 \in 0..n /\ k - 1 \notin Bad
    BY <2>2, <2>3
  <2>5. H[k - 1] = F[k - 1] + G[k - 1] /\ F[k - 1] \in Nat /\ G[k - 1] \in Nat
    BY <1>1, <1>2, <2>4 DEF Bad
  <2>6. At(f, k) \in Nat /\ At(g, k) \in Nat /\ At(h, k) = At(f, k) + At(g, k)
    BY <1>0, <2>3
  <2>7. /\ F[k] = F[k - 1] + At(f, k) /\ G[k] = G[k - 1] + At(g, k)
        /\ H[k] = H[k - 1] + At(h, k)
    BY <1>1, <1>2, <1>3, <2>3
  <2> QED BY <2>3, <2>5, <2>6, <2>7
<1>5. n \in 0..n
  OBVIOUS
<1>6. H[n] = F[n] + G[n] /\ F[n] \in Nat /\ G[n] \in Nat
  BY <1>1, <1>2, <1>4, <1>5
<1> QED BY <1>6, UptoIs

\* Who has no more at any place and as much in all has as much at every place.
LEMMA UptoPinches ==
  ASSUME NEW f, NEW g, NEW n \in Nat, Upto(f, n) = Upto(g, n),
         \A k \in 1..n : At(f, k) \in Nat /\ At(g, k) \in Nat /\ At(f, k) <= At(g, k)
  PROVE  \A k \in 1..n : At(f, k) = At(g, k)
<1> DEFINE F == Run(f, n)
           G == Run(g, n)
           Holds(k) == \/ F[k] = G[k] /\ \A j \in 1..k : At(f, j) = At(g, j)
                       \/ F[k] < G[k]
           Bad == {k \in 0..n : ~Holds(k)}
<1>1. /\ F[0] = 0 /\ \A k \in 1..n : F[k] = F[k - 1] + At(f, k)
      /\ \A k \in 0..n : F[k] \in Nat
  BY RunIs
<1>2. /\ G[0] = 0 /\ \A k \in 1..n : G[k] = G[k - 1] + At(g, k)
      /\ \A k \in 0..n : G[k] \in Nat
  BY RunIs
<1>3. Bad = {}
  <2> SUFFICES ASSUME Bad # {} PROVE FALSE
    OBVIOUS
  <2>1. Bad \in SUBSET Nat
    OBVIOUS
  <2> HIDE DEF Bad, F, G
  <2>2. PICK k \in Bad : \A j \in Bad : k <= j
    BY <2>1, Least
  <2>3. k \in 0..n /\ ~Holds(k)
    BY <2>2 DEF Bad
  <2>4. k # 0
    BY <1>1, <1>2, <2>3
  <2>5. k \in 1..n /\ k - 1 \in 0..n /\ k - 1 \notin Bad
    BY <2>2, <2>3, <2>4
  <2>6. Holds(k - 1) /\ F[k - 1] \in Nat /\ G[k - 1] \in Nat
    BY <1>1, <1>2, <2>5 DEF Bad
  <2>7. F[k] = F[k - 1] + At(f, k) /\ G[k] = G[k - 1] + At(g, k)
    BY <1>1, <1>2, <2>5
  <2>8. At(f, k) \in Nat /\ At(g, k) \in Nat /\ At(f, k) <= At(g, k)
    BY <2>5
  <2>9. CASE F[k - 1] < G[k - 1]
    BY <2>3, <2>6, <2>7, <2>8, <2>9
  <2>10. CASE F[k - 1] = G[k - 1] /\ \A j \in 1..(k - 1) : At(f, j) = At(g, j)
    <3>1. CASE At(f, k) = At(g, k)
      <4>1. \A j \in 1..k : j \in 1..(k - 1) \/ j = k
        BY <2>5
      <4>2. \A j \in 1..k : At(f, j) = At(g, j)
        BY <2>10, <3>1, <4>1
      <4> QED BY <2>3, <2>7, <2>10, <3>1, <4>2
    <3>2. CASE At(f, k) < At(g, k)
      BY <2>3, <2>6, <2>7, <2>8, <2>10, <3>2
    <3> QED BY <2>8, <3>1, <3>2
  <2> QED BY <2>6, <2>9, <2>10
<1>4. n \in 0..n
  OBVIOUS
<1>5. Holds(n)
  BY <1>3, <1>4
<1>6. F[n] = G[n] /\ F[n] \in Nat
  BY <1>1, <1>4, UptoIs
<1> QED BY <1>5, <1>6

-----------------------------------------------------------------------------
(* The invariant.                                                          *)

BankSheet == [kind : {"bank"}, opening : Opening, found : Findings, blank : {0, None}]
CardKind == [kind : {"card"}, shows : CardSheets, rows : BOOLEAN]

Attempt == [profile : Profiles, issuer : Issuers, preferred : Preferred, secret : Secrets,
            tried : SUBSET ((0..8) \X (1..3))]

\* While the file is locked nothing is known of it, and what was tried did not open it.
Attempting ==
  attempt # None =>
    /\ attempt \in Attempt /\ sheet = None
    /\ attempt.tried \subseteq DOMAIN Tries
    /\ \A q \in attempt.tried : Tries[q] # attempt.secret

\* Lines are the lines of a bank statement.
Opened ==
  /\ sheet # None => sheet \in BankSheet \/ sheet \in CardKind
  /\ lines \in Seq(Line)
  /\ lines # <<>> => sheet # None /\ sheet.kind = "bank"

Moves(l) == IF l.out THEN -l.amount ELSE l.amount

\* Each balance follows from the one before it.
LinesTrue ==
  \A i \in 1..Len(lines) :
    lines[i].balance = (IF i = 1 THEN sheet.opening ELSE lines[i - 1].balance) + Moves(lines[i])

ChecksInv == Attempting /\ Opened /\ LinesTrue

LEMMA NoneIsNoNumber == \A n \in Int : n # None
<1>1. None \notin Int
  BY Zenon, StatementChecksAssumption
<1> QED BY <1>1

LEMMA ClosingTyped ==
  ASSUME ChecksInv, sheet # None, sheet.kind = "bank"
  PROVE  sheet \in BankSheet /\ sheet.opening \in Nat /\ Closing \in Int
<1>1. sheet \in BankSheet
  BY DEF ChecksInv, Opened, BankSheet, CardKind
<1>2. sheet.opening \in Nat
  BY <1>1, StatementChecksAssumption DEF BankSheet
<1>3. CASE lines = <<>>
  BY <1>1, <1>2, <1>3 DEF Closing
<1>4. CASE lines # <<>>
  <2>1. Len(lines) \in 1..Len(lines)
    BY <1>4 DEF ChecksInv, Opened
  <2>2. lines[Len(lines)] \in Line
    BY <2>1 DEF ChecksInv, Opened
  <2> QED BY <1>1, <1>2, <1>4, <2>2 DEF Closing, Line
<1> QED BY <1>3, <1>4

LEMMA SupportedPlaces ==
  ASSUME NEW issuer
  PROVE  /\ Supported(issuer) \in Seq(Strategies)
         /\ DOMAIN Supported(issuer) \subseteq 1..8
<1> DEFINE Sound(s) == s \in Seq(Strategies) /\ DOMAIN s \subseteq 1..8
<1>1. \A s : s \in Seq(Strategies) /\ Len(s) \in {4, 5, 8} => Sound(s)
  OBVIOUS
<1>2. CASE issuer = "HDFC"
  <2>1. Supported(issuer) \in Seq(Strategies) /\ Len(Supported(issuer)) \in {4, 5, 8}
    BY <1>2 DEF Supported, Strategies
  <2> QED BY <1>1, <2>1
<1>3. CASE issuer = "ICICI"
  <2>1. Supported(issuer) \in Seq(Strategies) /\ Len(Supported(issuer)) \in {4, 5, 8}
    BY <1>3 DEF Supported, Strategies
  <2> QED BY <1>1, <2>1
<1>4. CASE issuer = "AXIS"
  <2>1. Supported(issuer) \in Seq(Strategies) /\ Len(Supported(issuer)) \in {4, 5, 8}
    BY <1>4 DEF Supported, Strategies
  <2> QED BY <1>1, <2>1
<1>5. CASE issuer = "SBI"
  <2>1. Supported(issuer) \in Seq(Strategies) /\ Len(Supported(issuer)) \in {4, 5, 8}
    BY <1>5 DEF Supported, Strategies
  <2> QED BY <1>1, <2>1
<1>6. CASE issuer = "SCAPIA"
  <2>1. Supported(issuer) \in Seq(Strategies) /\ Len(Supported(issuer)) \in {4, 5, 8}
    BY <1>6 DEF Supported, Strategies
  <2> QED BY <1>1, <2>1
<1>7. CASE issuer = "FEDERAL"
  <2>1. Supported(issuer) \in Seq(Strategies) /\ Len(Supported(issuer)) \in {4, 5, 8}
    BY <1>7 DEF Supported, Strategies
  <2> QED BY <1>1, <2>1
<1>8. CASE issuer = "AMEX"
  <2>1. Supported(issuer) \in Seq(Strategies) /\ Len(Supported(issuer)) \in {4, 5, 8}
    BY <1>8 DEF Supported, Strategies
  <2> QED BY <1>1, <2>1
<1>9. CASE issuer \notin {"HDFC", "ICICI", "AXIS", "SBI", "SCAPIA", "FEDERAL", "AMEX"}
  <2> DEFINE every == <<"NAME4_DDMM", "NAME4_DDMMYYYY", "NAME4_CARD4", "CARD4_DOB",
                        "DOB_DDMMYYYY", "DOB_DDMM", "PAN_DOB", "CUSTOM">>
  <2>1. Supported(issuer) = every
    BY <1>9 DEF Supported
  <2>2. every \in Seq(Strategies) /\ Len(every) = 8
    BY DEF Strategies
  <2> QED BY <1>1, <2>1, <2>2
<1> QED BY <1>2, <1>3, <1>4, <1>5, <1>6, <1>7, <1>8, <1>9

LEMMA OrderPlaces ==
  ASSUME NEW issuer, NEW preferred
  PROVE  DOMAIN Order(issuer, preferred) \subseteq 0..8
BY SupportedPlaces DEF Order

LEMMA CandidatePlaces ==
  ASSUME NEW p, NEW issuer, NEW preferred
  PROVE  DOMAIN Candidates(p, issuer, preferred) \subseteq (0..8) \X (1..3)
BY OrderPlaces DEF Candidates

LEMMA InvInit == Init => ChecksInv
<1> SUFFICES ASSUME Init PROVE ChecksInv
  OBVIOUS
<1>1. /\ attempt \in [profile : Profiles, issuer : Issuers, preferred : Preferred,
                      secret : Secrets, tried : {{}}]
      /\ sheet = None /\ lines = <<>>
  BY DEF Init
<1>2. attempt \in Attempt /\ attempt.tried = {}
  BY <1>1 DEF Attempt
<1>3. Attempting
  BY <1>1, <1>2 DEF Attempting
<1>4. Opened /\ LinesTrue
  BY <1>1 DEF Opened, LinesTrue
<1> QED BY <1>3, <1>4 DEF ChecksInv

LEMMA TryPreserves == ChecksInv /\ Try => ChecksInv'
<1> SUFFICES ASSUME ChecksInv, Try PROVE ChecksInv'
  OBVIOUS
<1>1. PICK q \in DOMAIN Tries \ attempt.tried :
        \/ /\ Tries[q] # attempt.secret
           /\ attempt' = [attempt EXCEPT !.tried = @ \cup {q}]
           /\ UNCHANGED sheet
        \/ /\ Tries[q] = attempt.secret
           /\ attempt' = None
           /\ sheet' \in BankSheet \/ sheet' \in CardKind
  BY DEF Try, BankSheet, CardKind
<1>2. attempt # None /\ UNCHANGED lines
  BY DEF Try
<1>3. /\ attempt \in Attempt /\ sheet = None
      /\ attempt.tried \subseteq DOMAIN Tries
      /\ \A r \in attempt.tried : Tries[r] # attempt.secret
  BY <1>2 DEF ChecksInv, Attempting
<1>4. lines = <<>>
  BY <1>3 DEF ChecksInv, Opened
<1>5. CASE /\ Tries[q] # attempt.secret
           /\ attempt' = [attempt EXCEPT !.tried = @ \cup {q}]
           /\ UNCHANGED sheet
  <2>1. /\ attempt'.profile = attempt.profile /\ attempt'.issuer = attempt.issuer
        /\ attempt'.preferred = attempt.preferred /\ attempt'.secret = attempt.secret
        /\ attempt'.tried = attempt.tried \cup {q}
    BY <1>3, <1>5 DEF Attempt
  <2>2. Tries' = Tries
    BY <2>1 DEF Tries
  <2>3. q \in (0..8) \X (1..3)
    BY CandidatePlaces DEF Tries
  <2>4. attempt' \in Attempt
    BY <1>3, <1>5, <2>3 DEF Attempt
  <2>5. Attempting'
    BY <1>3, <1>5, <2>1, <2>2, <2>4 DEF Attempting
  <2>6. Opened' /\ LinesTrue'
    BY <1>2, <1>3, <1>4, <1>5 DEF Opened, LinesTrue
  <2> QED BY <2>5, <2>6 DEF ChecksInv
<1>6. CASE /\ attempt' = None
           /\ sheet' \in BankSheet \/ sheet' \in CardKind
  <2>1. Attempting'
    BY <1>6 DEF Attempting
  <2>2. Opened' /\ LinesTrue'
    BY <1>2, <1>4, <1>6 DEF Opened, LinesTrue
  <2> QED BY <2>1, <2>2 DEF ChecksInv
<1> QED BY <1>1, <1>5, <1>6

LEMMA PrintLinePreserves == ChecksInv /\ PrintLine => ChecksInv'
<1> SUFFICES ASSUME ChecksInv, PrintLine PROVE ChecksInv'
  OBVIOUS
<1>1. sheet # None /\ sheet.kind = "bank" /\ UNCHANGED <<attempt, sheet>>
  BY DEF PrintLine
<1>2. PICK out, named, tabled, plain \in BOOLEAN, amount \in Amounts :
        lines' = Append(lines,
          [out |-> out, amount |-> amount, named |-> named, tabled |-> tabled, plain |-> plain,
           balance |-> IF out THEN Closing - amount ELSE Closing + amount])
  BY DEF PrintLine
<1> DEFINE balance == IF out THEN Closing - amount ELSE Closing + amount
           l == [out |-> out, amount |-> amount, named |-> named, tabled |-> tabled,
                 plain |-> plain, balance |-> balance]
<1>3. sheet \in BankSheet /\ sheet.opening \in Nat /\ Closing \in Int
  BY <1>1, ClosingTyped
<1>4. amount \in Nat
  BY StatementChecksAssumption
<1>5. balance \in Int
  BY <1>3, <1>4
<1>6. l \in Line /\ Moves(l) = (IF out THEN -amount ELSE amount) /\ l.balance = balance
  BY <1>5 DEF Line, Moves
<1>7. lines \in Seq(Line) /\ Len(lines) \in Nat
  BY DEF ChecksInv, Opened
<1>8. lines' = Append(lines, l)
  BY <1>2
<1>9. l.balance = Closing + Moves(l)
  BY <1>3, <1>4, <1>6
<1> HIDE DEF l
<1>10. lines' \in Seq(Line) /\ Len(lines') = Len(lines) + 1
  BY <1>6, <1>7, <1>8
<1>11. \A i \in 1..Len(lines) : lines'[i] = lines[i]
  BY <1>7, <1>8
<1>12. lines'[Len(lines) + 1] = l
  BY <1>7, <1>8
<1>13. Attempting'
  <2>1. attempt = None
    BY <1>1 DEF ChecksInv, Attempting
  <2> QED BY <1>1, <2>1 DEF Attempting
<1>14. Opened'
  BY <1>1, <1>3, <1>10 DEF Opened
<1>15. LinesTrue'
  <2> SUFFICES ASSUME NEW i \in 1..Len(lines')
      PROVE lines'[i].balance
            = (IF i = 1 THEN sheet.opening ELSE lines'[i - 1].balance) + Moves(lines'[i])
    BY <1>1 DEF LinesTrue, Moves
  <2>1. CASE i \in 1..Len(lines)
    <3>1. lines'[i] = lines[i] /\ (i # 1 => lines'[i - 1] = lines[i - 1])
      BY <1>7, <1>11, <2>1
    <3>2. lines[i].balance
          = (IF i = 1 THEN sheet.opening ELSE lines[i - 1].balance) + Moves(lines[i])
      BY <2>1 DEF ChecksInv, LinesTrue
    <3> QED BY <3>1, <3>2
  <2>2. CASE i = Len(lines) + 1
    <3>1. CASE lines = <<>>
      BY <1>9, <1>12, <2>2, <3>1 DEF Closing
    <3>2. CASE lines # <<>>
      <4>1. i # 1 /\ i - 1 = Len(lines) /\ Len(lines) \in 1..Len(lines)
        BY <1>7, <2>2, <3>2
      <4>2. lines'[i - 1] = lines[Len(lines)] /\ Closing = lines[Len(lines)].balance
        BY <1>11, <3>2, <4>1 DEF Closing
      <4> QED BY <1>9, <1>12, <2>2, <4>1, <4>2
    <3> QED BY <3>1, <3>2
  <2> QED BY <1>7, <1>10, <2>1, <2>2
<1> QED BY <1>13, <1>14, <1>15 DEF ChecksInv

LEMMA InvNext == ChecksInv /\ [Next]_vars => ChecksInv'
<1>1. ChecksInv /\ UNCHANGED vars => ChecksInv'
  BY DEF ChecksInv, Attempting, Tries, Opened, LinesTrue, vars
<1> QED BY <1>1, TryPreserves, PrintLinePreserves DEF Next

-----------------------------------------------------------------------------
(* Bank statements.                                                        *)

\* The columns the sums of the validator run over.
Outs(rows) == [i \in DOMAIN rows |-> Debit(rows[i])]
Ins(rows) == [i \in DOMAIN rows |-> Credit(rows[i])]
OutAt == [i \in {i \in DOMAIN lines : lines[i].out = TRUE} |-> lines[i].amount]
InAt == [i \in {i \in DOMAIN lines : lines[i].out = FALSE} |-> lines[i].amount]
Read == [i \in {i \in DOMAIN lines : lines[i].plain} |-> lines[i].amount]
Printed == [i \in DOMAIN lines |-> lines[i].amount]

OutTotal == Moved(TRUE)
InTotal == Moved(FALSE)

LEMMA SumsOver ==
  ASSUME NEW rows
  PROVE  /\ Debits(rows) = Upto(Outs(rows), Len(lines))
         /\ Credits(rows) = Upto(Ins(rows), Len(lines))
         /\ OutTotal = Upto(OutAt, Len(lines)) /\ InTotal = Upto(InAt, Len(lines))
BY Zenon DEF Debits, Credits, Moved, Outs, Ins, OutAt, InAt, OutTotal, InTotal

\* A row of a table has its line's amount in the column of its direction.
LEMMA TableRowIs ==
  ASSUME NEW l \in Line, NEW blank \in {0, None}
  PROVE  LET r == TableRow(l, blank) IN
         /\ Debit(r) = IF l.out THEN l.amount ELSE 0
         /\ Credit(r) = IF l.out THEN 0 ELSE l.amount
         /\ Step(r) = Moves(l)
<1>1. l.amount \in Nat /\ l.amount # 0 /\ l.amount # None /\ 0 # None
  <2>1. l.amount \in Nat /\ l.amount # 0
    BY StatementChecksAssumption DEF Line
  <2> QED BY <2>1, NoneIsNoNumber
<1> DEFINE r == TableRow(l, blank)
<1>2. CASE l.out
  <2>1. r.debit = l.amount /\ r.credit = blank
    BY <1>2 DEF TableRow
  <2>2. Debit(r) = l.amount
    BY <1>1, <2>1 DEF Debit
  <2>3. Credit(r) = 0
    BY <1>1, <2>1 DEF Credit
  <2>4. Step(r) = -l.amount
    <3> HIDE DEF r
    <3> QED BY <1>1, <2>1 DEF Step, OrZero
  <2> QED BY <1>2, <2>2, <2>3, <2>4 DEF Moves
<1>3. CASE ~l.out
  <2>1. r.debit = blank /\ r.credit = l.amount
    BY <1>3 DEF TableRow
  <2>2. Credit(r) = l.amount
    BY <1>1, <2>1 DEF Credit
  <2>3. Debit(r) = 0
    BY <1>1, <2>1 DEF Debit
  <2>4. Step(r) = l.amount
    <3> HIDE DEF r
    <3> QED BY <1>1, <2>1 DEF Step, OrZero
  <2> QED BY <1>3, <2>2, <2>3, <2>4 DEF Moves
<1> QED BY <1>2, <1>3

\* A row of text has it in the column its words name.
LEMMA TextRowIs ==
  ASSUME NEW l \in Line
  PROVE  LET r == TextRow(l) IN
         /\ Debit(r) = IF l.named THEN 0 ELSE l.amount
         /\ Credit(r) = IF l.named THEN l.amount ELSE 0
         /\ Step(r) \in Int /\ r.balance = l.balance
<1>1. l.amount \in Nat /\ l.amount # 0 /\ l.amount # None /\ 0 # None
  <2>1. l.amount \in Nat /\ l.amount # 0
    BY StatementChecksAssumption DEF Line
  <2> QED BY <2>1, NoneIsNoNumber
<1> DEFINE r == TextRow(l)
<1>2. r.balance = l.balance
  BY DEF TextRow
<1>3. CASE l.named
  <2>1. r.debit = None /\ r.credit = l.amount /\ r.outward = FALSE
    BY <1>3 DEF TextRow
  <2> HIDE DEF r
  <2>2. Debit(r) = 0 /\ Credit(r) = l.amount
    BY <1>1, <2>1 DEF Debit, Credit
  <2>3. Step(r) \in Int
    BY <1>1, <2>1 DEF Step, OrZero
  <2> QED BY <1>2, <1>3, <2>2, <2>3 DEF r
<1>4. CASE ~l.named
  <2>1. r.credit = None /\ r.debit = l.amount /\ r.inward = FALSE
    BY <1>4 DEF TextRow
  <2> HIDE DEF r
  <2>2. Credit(r) = 0 /\ Debit(r) = l.amount
    BY <1>1, <2>1 DEF Debit, Credit
  <2>3. Step(r) \in Int
    BY <1>1, <2>1 DEF Step, OrZero
  <2> QED BY <1>2, <1>4, <2>2, <2>3 DEF r
<1> QED BY <1>3, <1>4

LEMMA MovedIs ==
  ASSUME lines \in Seq(Line), NEW k \in 1..Len(lines)
  PROVE  /\ lines[k].amount \in Nat \ {0} /\ lines[k].out \in BOOLEAN
         /\ lines[k].named \in BOOLEAN /\ lines[k].plain \in BOOLEAN
         /\ lines[k].tabled \in BOOLEAN /\ lines[k].balance \in Int
         /\ At(OutAt, k) = IF lines[k].out THEN lines[k].amount ELSE 0
         /\ At(InAt, k) = IF lines[k].out THEN 0 ELSE lines[k].amount
         /\ At(Read, k) = IF lines[k].plain THEN lines[k].amount ELSE 0
         /\ At(Printed, k) = lines[k].amount
<1>1. lines[k] \in Line /\ k \in DOMAIN lines
  OBVIOUS
<1>2. /\ lines[k].amount \in Nat \ {0} /\ lines[k].out \in BOOLEAN
      /\ lines[k].named \in BOOLEAN /\ lines[k].plain \in BOOLEAN
      /\ lines[k].tabled \in BOOLEAN /\ lines[k].balance \in Int
  BY <1>1, StatementChecksAssumption DEF Line
<1>3. At(OutAt, k) = IF lines[k].out THEN lines[k].amount ELSE 0
  BY <1>1, <1>2 DEF At, OutAt
<1>4. At(InAt, k) = IF lines[k].out THEN 0 ELSE lines[k].amount
  BY <1>1, <1>2 DEF At, InAt
<1>5. At(Read, k) = IF lines[k].plain THEN lines[k].amount ELSE 0
  BY <1>1, <1>2 DEF At, Read
<1>6. At(Printed, k) = lines[k].amount
  BY <1>1 DEF At, Printed
<1> QED BY <1>2, <1>3, <1>4, <1>5, <1>6

\* What a verdict vouches for when all the printed figures were found.
LEMMA Vouched ==
  ASSUME sheet.found = Figures, sheet.opening \in Nat, BankVerdict = "VALIDATED",
         OutTotal \in Nat, InTotal \in Nat
  PROVE  /\ Debits(Rows) = OutTotal /\ Credits(Rows) = InTotal
         /\ StepsHold(sheet.opening, Rows)
<1>1. \A value : /\ Found("opening", value) = value /\ Found("closing", value) = value
                 /\ Found("withdrawals", value) = value /\ Found("deposits", value) = value
  BY DEF Found, Figures
<1>2. OutTotal # None /\ InTotal # None
  BY NoneIsNoNumber
<1>3. \A status, printed, extracted :
        Compared(status, printed, extracted) = "VALIDATED" =>
          status = "VALIDATED" /\ printed \in {None, extracted}
  BY DEF Compared, Worse
<1>4. \A status : Worse(status, "REVIEW_REQUIRED") # "VALIDATED"
  BY DEF Worse
<1> DEFINE out == IF OutTotal # None THEN OutTotal ELSE Debits(Rows)
           in == IF InTotal # None THEN InTotal ELSE Credits(Rows)
           balance == IF None \in {sheet.opening, Closing} THEN "VALIDATED"
                      ELSE Judge(sheet.opening + in - out - Closing)
           totals == Compared(Compared(balance, OutTotal, Debits(Rows)),
                              InTotal, Credits(Rows))
<1>5. BankVerdict =
        IF DOMAIN Rows = {} /\ (OrZero(OutTotal) > 0 \/ OrZero(InTotal) > 0)
        THEN "VALIDATION_FAILED"
        ELSE IF StepsHold(sheet.opening, Rows) THEN totals
             ELSE Worse(totals, "REVIEW_REQUIRED")
  BY <1>1, Zenon DEF BankVerdict, OutTotal, InTotal
<1> HIDE DEF totals
<1>6. StepsHold(sheet.opening, Rows) /\ totals = "VALIDATED"
  BY <1>4, <1>5
<1> HIDE DEF balance
<1>7. Compared(Compared(balance, OutTotal, Debits(Rows)), InTotal, Credits(Rows))
      = "VALIDATED"
  BY <1>6 DEF totals
<1>8. InTotal \in {None, Credits(Rows)} /\ OutTotal \in {None, Debits(Rows)}
  BY <1>3, <1>7
<1> QED BY <1>2, <1>6, <1>8

LEMMA Stands ==
  ASSUME ChecksInv, sheet # None, sheet.kind = "bank"
  PROVE  /\ lines \in Seq(Line) /\ Len(lines) \in Nat /\ DOMAIN lines = 1..Len(lines)
         /\ OutTotal \in Nat /\ InTotal \in Nat
         /\ Upto(Printed, Len(lines)) = OutTotal + InTotal
<1>1. lines \in Seq(Line) /\ Len(lines) \in Nat /\ DOMAIN lines = 1..Len(lines)
  BY DEF ChecksInv, Opened
<1>2. \A k \in 1..Len(lines) :
        /\ At(OutAt, k) \in Nat /\ At(InAt, k) \in Nat
        /\ At(Printed, k) = At(OutAt, k) + At(InAt, k)
  <2> SUFFICES ASSUME NEW k \in 1..Len(lines)
        PROVE  /\ At(OutAt, k) \in Nat /\ At(InAt, k) \in Nat
               /\ At(Printed, k) = At(OutAt, k) + At(InAt, k)
    OBVIOUS
  <2> QED BY <1>1, MovedIs
<1>3. /\ Upto(OutAt, Len(lines)) \in Nat /\ Upto(InAt, Len(lines)) \in Nat
      /\ Upto(Printed, Len(lines))
         = Upto(OutAt, Len(lines)) + Upto(InAt, Len(lines))
  <2>1. Len(lines) \in Nat
    BY <1>1
  <2>2. Joins(OutAt, InAt, Printed, Len(lines))
    BY <1>2 DEF Joins
  <2> QED BY <2>1, <2>2, UptoAdds
<1> QED BY <1>1, <1>3, SumsOver

\* From tables: what they lack is missing in a total.
LEMMA TabledSound ==
  ASSUME ChecksInv, sheet # None, sheet.kind = "bank",
         {i \in DOMAIN lines : lines[i].tabled} # {},
         Debits(Rows) = OutTotal, Credits(Rows) = InTotal
  PROVE  RowsFaithful
<1> DEFINE tabled == {i \in DOMAIN lines : lines[i].tabled}
           n == Len(lines)
<1>1. lines \in Seq(Line) /\ n \in Nat /\ DOMAIN lines = 1..n
  BY Stands
<1>2. sheet.blank \in {0, None}
  BY ClosingTyped DEF BankSheet
<1>3. Rows = [i \in tabled |-> TableRow(lines[i], sheet.blank)]
  BY DEF Rows
<1>4. DOMAIN Rows = tabled /\ \A i \in tabled : Rows[i] = TableRow(lines[i], sheet.blank)
  BY <1>3
<1>5. \A k \in tabled : /\ Debit(Rows[k]) = IF lines[k].out THEN lines[k].amount ELSE 0
                        /\ Credit(Rows[k]) = IF lines[k].out THEN 0 ELSE lines[k].amount
                        /\ Step(Rows[k]) = Moves(lines[k])
  <2> SUFFICES ASSUME NEW k \in tabled
        PROVE  /\ Debit(Rows[k]) = IF lines[k].out THEN lines[k].amount ELSE 0
               /\ Credit(Rows[k]) = IF lines[k].out THEN 0 ELSE lines[k].amount
               /\ Step(Rows[k]) = Moves(lines[k])
    OBVIOUS
  <2>1. lines[k] \in Line
    BY <1>1
  <2> QED BY <1>2, <1>4, <2>1, TableRowIs
<1> HIDE DEF tabled, n
<1>6. \A k \in 1..n :
        /\ At(Outs(Rows), k) = IF k \in tabled /\ lines[k].out THEN lines[k].amount ELSE 0
        /\ At(Ins(Rows), k) = IF k \in tabled /\ ~lines[k].out THEN lines[k].amount ELSE 0
  <2> SUFFICES ASSUME NEW k \in 1..n
      PROVE /\ At(Outs(Rows), k) = IF k \in tabled /\ lines[k].out THEN lines[k].amount ELSE 0
            /\ At(Ins(Rows), k) = IF k \in tabled /\ ~lines[k].out THEN lines[k].amount ELSE 0
    OBVIOUS
  <2>1. CASE k \in tabled
    BY <1>4, <1>5, <2>1 DEF At, Outs, Ins
  <2>2. CASE k \notin tabled
    BY <1>4, <2>2 DEF At, Outs, Ins
  <2> QED BY <2>1, <2>2
<1>7. \A k \in 1..n :
        /\ At(Outs(Rows), k) \in Nat /\ At(OutAt, k) \in Nat
        /\ At(Outs(Rows), k) <= At(OutAt, k)
        /\ At(Ins(Rows), k) \in Nat /\ At(InAt, k) \in Nat
        /\ At(Ins(Rows), k) <= At(InAt, k)
  <2> SUFFICES ASSUME NEW k \in 1..n
      PROVE /\ At(Outs(Rows), k) \in Nat /\ At(OutAt, k) \in Nat
            /\ At(Outs(Rows), k) <= At(OutAt, k)
            /\ At(Ins(Rows), k) \in Nat /\ At(InAt, k) \in Nat
            /\ At(Ins(Rows), k) <= At(InAt, k)
    OBVIOUS
  <2>1. /\ lines[k].amount \in Nat \ {0}
        /\ At(OutAt, k) = IF lines[k].out THEN lines[k].amount ELSE 0
        /\ At(InAt, k) = IF lines[k].out THEN 0 ELSE lines[k].amount
    BY <1>1, MovedIs DEF n
  <2> QED BY <1>6, <2>1
<1>8. /\ Upto(Outs(Rows), n) = Upto(OutAt, n)
      /\ Upto(Ins(Rows), n) = Upto(InAt, n)
  BY SumsOver DEF n
<1>9. \A k \in 1..n : At(Outs(Rows), k) = At(OutAt, k)
  BY <1>1, <1>7, <1>8, UptoPinches
<1>10. \A k \in 1..n : At(Ins(Rows), k) = At(InAt, k)
  BY <1>1, <1>7, <1>8, UptoPinches
<1>11. \A k \in 1..n : k \in tabled
  <2> SUFFICES ASSUME NEW k \in 1..n, k \notin tabled PROVE FALSE
    OBVIOUS
  <2>1. At(Outs(Rows), k) = 0 /\ At(Ins(Rows), k) = 0
    BY <1>6
  <2>2. /\ lines[k].amount # 0
        /\ At(OutAt, k) = IF lines[k].out THEN lines[k].amount ELSE 0
        /\ At(InAt, k) = IF lines[k].out THEN 0 ELSE lines[k].amount
    BY <1>1, MovedIs DEF n
  <2> QED BY <1>9, <1>10, <2>1, <2>2
<1>12. tabled = DOMAIN lines
  BY <1>1, <1>11 DEF tabled
<1> QED BY <1>4, <1>5, <1>12 DEF RowsFaithful, Moves

\* From text: what it lacks is missing in the totals, and a direction that is mistaken
\* breaks the chain of balances.
LEMMA PlainSound ==
  ASSUME ChecksInv, sheet # None, sheet.kind = "bank",
         {i \in DOMAIN lines : lines[i].tabled} = {},
         Debits(Rows) = OutTotal, Credits(Rows) = InTotal,
         StepsHold(sheet.opening, Rows)
  PROVE  RowsFaithful
<1> DEFINE plain == {i \in DOMAIN lines : lines[i].plain}
           n == Len(lines)
<1>1. /\ lines \in Seq(Line) /\ n \in Nat /\ DOMAIN lines = 1..n
      /\ Upto(Printed, n) = OutTotal + InTotal
  BY Stands
<1>2. Rows = [i \in plain |-> TextRow(lines[i])]
  BY DEF Rows
<1>3. DOMAIN Rows = plain /\ \A i \in plain : Rows[i] = TextRow(lines[i])
  BY <1>2
<1>4. \A k \in plain : /\ Debit(Rows[k]) = IF lines[k].named THEN 0 ELSE lines[k].amount
                       /\ Credit(Rows[k]) = IF lines[k].named THEN lines[k].amount ELSE 0
                       /\ Step(Rows[k]) \in Int /\ Rows[k].balance = lines[k].balance
  <2> SUFFICES ASSUME NEW k \in plain
        PROVE  /\ Debit(Rows[k]) = IF lines[k].named THEN 0 ELSE lines[k].amount
               /\ Credit(Rows[k]) = IF lines[k].named THEN lines[k].amount ELSE 0
               /\ Step(Rows[k]) \in Int /\ Rows[k].balance = lines[k].balance
    OBVIOUS
  <2>1. lines[k] \in Line
    BY <1>1
  <2> QED BY <1>3, <2>1, TextRowIs
<1>5. \A k \in 1..n : k \in plain <=> lines[k].plain = TRUE
  BY <1>1, MovedIs
<1> HIDE DEF plain, n
<1>6. \A k \in 1..n :
        /\ At(Outs(Rows), k) = IF k \in plain /\ ~lines[k].named THEN lines[k].amount ELSE 0
        /\ At(Ins(Rows), k) = IF k \in plain /\ lines[k].named THEN lines[k].amount ELSE 0
  <2> SUFFICES ASSUME NEW k \in 1..n
      PROVE /\ At(Outs(Rows), k) = IF k \in plain /\ ~lines[k].named THEN lines[k].amount ELSE 0
            /\ At(Ins(Rows), k) = IF k \in plain /\ lines[k].named THEN lines[k].amount ELSE 0
    OBVIOUS
  <2>1. CASE k \in plain
    BY <1>3, <1>4, <2>1 DEF At, Outs, Ins
  <2>2. CASE k \notin plain
    BY <1>3, <2>2 DEF At, Outs, Ins
  <2> QED BY <2>1, <2>2
<1>7. \A k \in 1..n :
        /\ At(Outs(Rows), k) \in Nat /\ At(Ins(Rows), k) \in Nat
        /\ At(Read, k) = At(Outs(Rows), k) + At(Ins(Rows), k)
        /\ At(Read, k) \in Nat /\ At(Printed, k) \in Nat /\ At(Read, k) <= At(Printed, k)
  <2> SUFFICES ASSUME NEW k \in 1..n
      PROVE /\ At(Outs(Rows), k) \in Nat /\ At(Ins(Rows), k) \in Nat
            /\ At(Read, k) = At(Outs(Rows), k) + At(Ins(Rows), k)
            /\ At(Read, k) \in Nat /\ At(Printed, k) \in Nat
            /\ At(Read, k) <= At(Printed, k)
    OBVIOUS
  <2>1. /\ lines[k].amount \in Nat \ {0} /\ At(Printed, k) = lines[k].amount
        /\ At(Read, k) = IF lines[k].plain THEN lines[k].amount ELSE 0
        /\ lines[k].plain \in BOOLEAN
    BY <1>1, MovedIs DEF n
  <2>2. CASE k \in plain
    BY <1>5, <1>6, <2>1, <2>2
  <2>3. CASE k \notin plain
    BY <1>5, <1>6, <2>1, <2>3
  <2> QED BY <2>2, <2>3
<1>8. Upto(Read, n) = Upto(Outs(Rows), n) + Upto(Ins(Rows), n)
  <2>1. Joins(Outs(Rows), Ins(Rows), Read, n)
    BY <1>7 DEF Joins
  <2>2. n \in Nat
    BY <1>1
  <2> QED BY <2>1, <2>2, UptoAdds
<1>9. Upto(Read, n) = Upto(Printed, n)
  <2>1. /\ Upto(Outs(Rows), n) = OutTotal /\ Upto(Ins(Rows), n) = InTotal
    BY SumsOver DEF n
  <2> QED BY <1>1, <1>8, <2>1
<1>10. \A k \in 1..n : At(Read, k) = At(Printed, k)
  <2>1. \A k \in 1..n : At(Read, k) \in Nat /\ At(Printed, k) \in Nat
                        /\ At(Read, k) <= At(Printed, k)
    BY <1>7
  <2>2. n \in Nat
    BY <1>1
  <2> QED BY <1>9, <2>1, <2>2, UptoPinches, Zenon
<1>11. \A k \in 1..n : k \in plain
  <2> SUFFICES ASSUME NEW k \in 1..n, k \notin plain PROVE FALSE
    OBVIOUS
  <2>1. /\ lines[k].amount # 0 /\ At(Printed, k) = lines[k].amount
        /\ At(Read, k) = IF lines[k].plain THEN lines[k].amount ELSE 0
        /\ lines[k].plain \in BOOLEAN
    BY <1>1, MovedIs DEF n
  <2>2. lines[k].plain = FALSE
    BY <1>5, <2>1
  <2> QED BY <1>10, <2>1, <2>2
<1>12. plain = 1..n
  BY <1>1, <1>11 DEF plain
<1> DEFINE shown == {i \in DOMAIN Rows : Rows[i].balance # None}
           before(i) == {j \in shown : j < i}
           from(i) == IF before(i) = {} THEN sheet.opening ELSE Rows[Max(before(i))].balance
<1>13. \A k \in 1..n : lines[k].balance \in Int /\ lines[k].amount \in Nat
  <2> SUFFICES ASSUME NEW k \in 1..n
      PROVE lines[k].balance \in Int /\ lines[k].amount \in Nat
    OBVIOUS
  <2> QED BY <1>1, MovedIs DEF n
<1>14. sheet.opening \in Nat
  BY ClosingTyped
<1>15. shown = 1..n
  BY <1>3, <1>4, <1>12, <1>13, NoneIsNoNumber
<1>16. \A i \in shown : from(i) + Step(Rows[i]) = Rows[i].balance
  <2>1. sheet.opening # None
    BY <1>14, NoneIsNoNumber
  <2> QED BY <2>1, Zenon DEF StepsHold
<1>17. \A k \in 1..n : Step(Rows[k]) = Moves(lines[k])
  <2> SUFFICES ASSUME NEW k \in 1..n PROVE Step(Rows[k]) = Moves(lines[k])
    OBVIOUS
  <2>1. before(k) = 1..(k - 1)
    <3>1. before(k) = {j \in 1..n : j < k}
      BY <1>15
    <3> HIDE DEF before
    <3> QED BY <1>1, <3>1
  <2>2. from(k) + Step(Rows[k]) = lines[k].balance
    BY <1>4, <1>12, <1>15, <1>16
  <2>3. from(k) = IF k = 1 THEN sheet.opening ELSE lines[k - 1].balance
    <3>1. CASE k = 1
      BY <2>1, <3>1
    <3>2. CASE k # 1
      <4>1. k - 1 \in 1..(k - 1) /\ k - 1 \in 1..n
        BY <1>1, <3>2
      <4>2. Max(1..(k - 1)) = k - 1
        BY <4>1 DEF Max
      <4>3. from(k) = Rows[k - 1].balance
        BY <2>1, <4>1, <4>2
      <4> HIDE DEF from
      <4> QED BY <1>4, <1>12, <3>2, <4>1, <4>3
    <3> QED BY <3>1, <3>2
  <2>4. lines[k].balance
        = (IF k = 1 THEN sheet.opening ELSE lines[k - 1].balance) + Moves(lines[k])
    BY DEF ChecksInv, LinesTrue, n
  <2>5. Step(Rows[k]) \in Int /\ Moves(lines[k]) \in Int
    BY <1>4, <1>12, <1>13 DEF Moves
  <2>6. (IF k = 1 THEN sheet.opening ELSE lines[k - 1].balance) \in Int
    <3>1. k # 1 => k - 1 \in 1..n
      BY <1>1
    <3> QED BY <1>13, <1>14, <3>1
  <2> DEFINE base == IF k = 1 THEN sheet.opening ELSE lines[k - 1].balance
           stepped == Step(Rows[k])
           moved == Moves(lines[k])
  <2>7. base \in Int /\ base + stepped = base + moved /\ stepped \in Int /\ moved \in Int
    BY <2>2, <2>3, <2>4, <2>5, <2>6
  <2> HIDE DEF base, stepped, moved
  <2>8. stepped = moved
    BY <2>7
  <2> QED BY <2>8 DEF stepped, moved
<1> QED BY <1>1, <1>3, <1>12, <1>17 DEF RowsFaithful, Moves

LEMMA BankIsSound == ChecksInv => BankSound
<1> SUFFICES ASSUME ChecksInv, sheet # None, sheet.kind = "bank", sheet.found = Figures,
                    BankVerdict = "VALIDATED"
             PROVE  RowsFaithful
  BY DEF BankSound
<1>1. OutTotal \in Nat /\ InTotal \in Nat /\ sheet.opening \in Nat
  BY Stands, ClosingTyped
<1>2. /\ Debits(Rows) = OutTotal /\ Credits(Rows) = InTotal
      /\ StepsHold(sheet.opening, Rows)
  BY <1>1, Vouched
<1> QED BY <1>2, TabledSound, PlainSound

-----------------------------------------------------------------------------
(* Card statements.                                                        *)

LEMMA CardIsSound == ChecksInv => CardSound
<1> SUFFICES ASSUME ChecksInv, sheet # None, sheet.kind = "card",
                    CardVerdict(sheet.shows, sheet.rows) = "VALIDATED"
             PROVE  CardSound
  BY DEF CardSound
<1> DEFINE c == sheet.shows
           previous == OrZero(c.previous)
           paid == OrZero(c.payments)
           bought == OrZero(c.purchases)
           due == OrZero(c.due)
           fees == OrZero(c.fees)
<1>1. c \in CardSheet
  <2>1. sheet \in CardKind
    BY DEF ChecksInv, Opened, BankSheet, CardKind
  <2> QED BY <2>1, StatementChecksAssumption DEF CardKind
<1>2. \A n \in Figure : OrZero(n) \in Int
  BY DEF OrZero, Figure
<1>3. previous \in Int /\ paid \in Int /\ bought \in Int /\ due \in Int /\ fees \in Int
  BY <1>1, <1>2 DEF CardSheet
<1>4. \A n \in Int : Judge(n) = "VALIDATED" => n = 0
  BY DEF Judge
<1>5. bought > 0 \/ paid > 0 => sheet.rows
  BY Zenon DEF CardVerdict
<1>6. c.institution = "SCAPIA" => previous + bought - due = (IF paid >= 0 THEN paid ELSE -paid)
  <2> SUFFICES ASSUME c.institution = "SCAPIA"
               PROVE  previous + bought - due = (IF paid >= 0 THEN paid ELSE -paid)
    OBVIOUS
  <2> DEFINE refunded == IF paid < 0 THEN -paid ELSE paid
             left == previous + bought - refunded - due
  <2>1. Judge(left) = "VALIDATED"
    BY <1>5 DEF CardVerdict
  <2>2. left \in Int /\ refunded \in Int
    BY <1>3
  <2>3. left = 0
    <3> HIDE DEF left
    <3> QED BY <1>4, <2>1, <2>2
  <2> HIDE DEF previous, paid, bought, due
  <2> QED BY <1>3, <2>2, <2>3
<1>7. c.institution # "SCAPIA" /\ due > 0 => previous + bought + fees - due = paid
  <2> SUFFICES ASSUME c.institution # "SCAPIA", due > 0
               PROVE  previous + bought + fees - due = paid
    OBVIOUS
  <2> DEFINE left == previous - paid + bought + fees - due
  <2>1. Judge(left) = "VALIDATED"
    BY <1>5 DEF CardVerdict
  <2>2. left \in Int
    BY <1>3
  <2>3. left = 0
    <3> HIDE DEF left
    <3> QED BY <1>4, <2>1, <2>2
  <2> HIDE DEF previous, paid, bought, due, fees
  <2> QED BY <1>3, <2>3
<1> QED BY <1>5, <1>6, <1>7 DEF CardSound

-----------------------------------------------------------------------------
(* Passwords.                                                              *)

\* The places candidates are generated at.
Places(p, order) ==
  {q \in (DOMAIN order) \X (1..3) : q[2] \in DOMAIN Generated(p, order[q[1]])}
MadeAt(p, order, q) == Generated(p, order[q[1]])[q[2]]
\* Those that make what no earlier one does.
Firsts(p, order) ==
  {q \in Places(p, order) :
     \A r \in Places(p, order) : Earlier(r, q) => MadeAt(p, order, r) # MadeAt(p, order, q)}

LEMMA CandidatesAre ==
  ASSUME NEW p, NEW issuer, NEW preferred
  PROVE  LET order == Order(issuer, preferred) IN
         /\ DOMAIN Candidates(p, issuer, preferred) = Firsts(p, order)
         /\ \A q \in DOMAIN Candidates(p, issuer, preferred) :
              Candidates(p, issuer, preferred)[q] = MadeAt(p, order, q)
BY Zenon DEF Candidates, Firsts, Places, MadeAt

LEMMA PlacesArePairs ==
  ASSUME NEW p, NEW issuer, NEW preferred
  PROVE  Places(p, Order(issuer, preferred)) \subseteq Nat \X Nat
BY OrderPlaces DEF Places

LEMMA EarlierIsTotal ==
  ASSUME NEW q \in Nat \X Nat, NEW r \in Nat \X Nat
  PROVE  Earlier(q, r) \/ Earlier(r, q) \/ q = r
BY DEF Earlier

\* What is made at some place is a candidate.
LEMMA MadeIsCandidate ==
  ASSUME NEW p, NEW issuer, NEW preferred, NEW q \in Places(p, Order(issuer, preferred))
  PROVE  \E r \in DOMAIN Candidates(p, issuer, preferred) :
           Candidates(p, issuer, preferred)[r] = MadeAt(p, Order(issuer, preferred), q)
<1> DEFINE order == Order(issuer, preferred)
           places == Places(p, order)
           rank(r) == 3 * r[1] + r[2]
           same == {r \in places : MadeAt(p, order, r) = MadeAt(p, order, q)}
           ranks == {rank(r) : r \in same}
<1>1. places \subseteq Nat \X (1..3)
  BY OrderPlaces DEF Places
<1>2. q \in same /\ ranks # {} /\ ranks \in SUBSET Nat
  BY <1>1
<1> HIDE DEF order, places
<1>3. PICK n \in ranks : \A m \in ranks : n <= m
  <2> HIDE DEF ranks
  <2> QED BY <1>2, Least
<1>4. PICK r \in same : rank(r) = n
  BY <1>3
<1>5. \A s \in same : rank(r) <= rank(s)
  BY <1>3, <1>4
<1>6. \A s \in places : Earlier(s, r) => MadeAt(p, order, s) # MadeAt(p, order, r)
  <2> SUFFICES ASSUME NEW s \in places, Earlier(s, r),
                      MadeAt(p, order, s) = MadeAt(p, order, r)
               PROVE  FALSE
    OBVIOUS
  <2>1. s \in same
    BY <1>4
  <2>2. rank(r) <= rank(s)
    BY <1>5, <2>1
  <2>3. /\ r[1] \in Nat /\ r[2] \in 1..3 /\ s[1] \in Nat /\ s[2] \in 1..3
    BY <1>1, <1>4
  <2> QED BY <2>2, <2>3 DEF Earlier
<1>7. r \in places /\ MadeAt(p, order, r) = MadeAt(p, order, q)
  BY <1>4
<1>8. /\ r \in DOMAIN Candidates(p, issuer, preferred)
      /\ Candidates(p, issuer, preferred)[r] = MadeAt(p, order, r)
  <2>1. r \in Firsts(p, order)
    BY <1>6, <1>7 DEF Firsts, places
  <2> QED BY <2>1, CandidatesAre DEF order
<1> QED BY <1>7, <1>8 DEF order

\* A strategy of the order makes at most three passwords, each at a place.
LEMMA GeneratedPlaces ==
  ASSUME NEW p, NEW s
  PROVE  DOMAIN Generated(p, s) \subseteq 1..3
<1>1. DOMAIN Cases(p.name) = 1..3
  BY DEF Cases
<1>2. CASE ~Knows(p, s)
  <2>1. Generated(p, s) = <<>>
    BY <1>2 DEF Generated
  <2> QED BY <2>1
<1>3. CASE Knows(p, s) /\ s = "CUSTOM"
  <2>1. Generated(p, s) = <<p.custom>>
    BY <1>3 DEF Generated
  <2> QED BY <2>1
<1>4. CASE Knows(p, s) /\ s \in {"NAME4_DDMM", "NAME4_DDMMYYYY", "NAME4_CARD4"}
  <2>1. Generated(p, s) = [i \in DOMAIN Cases(p.name) |-> <<s, Cases(p.name)[i]>>]
    BY <1>4 DEF Generated
  <2> QED BY <1>1, <2>1
<1>5. CASE Knows(p, s) /\ s = "PAN_DOB"
  <2>1. DOMAIN Generated(p, s) = DOMAIN <<"upper", "lower">>
    BY <1>5 DEF Generated
  <2> QED BY <2>1
<1>6. CASE Knows(p, s) /\ s \notin {"CUSTOM", "NAME4_DDMM", "NAME4_DDMMYYYY", "NAME4_CARD4",
                                     "PAN_DOB"}
  <2>1. DOMAIN Generated(p, s) = DOMAIN <<"plain">>
    BY <1>6 DEF Generated
  <2> QED BY <2>1
<1> QED BY <1>2, <1>3, <1>4, <1>5, <1>6

LEMMA AttemptIsSound == ChecksInv => AttemptSound
<1> SUFFICES ASSUME ChecksInv, attempt # None PROVE AttemptSound
  BY DEF AttemptSound
<1> DEFINE p == attempt.profile
           issuer == attempt.issuer
           preferred == attempt.preferred
           order == Order(issuer, preferred)
           places == Places(p, order)
           tries == Candidates(p, issuer, preferred)
           Makes(s) == {Generated(p, s)[i] : i \in DOMAIN Generated(p, s)}
           supported == {Supported(issuer)[i] : i \in DOMAIN Supported(issuer)}
<1>1. Tries = tries
  BY DEF Tries
<1>2. /\ DOMAIN tries = {q \in places : \A r \in places :
                           Earlier(r, q) => MadeAt(p, order, r) # MadeAt(p, order, q)}
      /\ \A q \in DOMAIN tries : tries[q] = MadeAt(p, order, q)
  <2>1. DOMAIN tries = Firsts(p, order) /\ \A q \in DOMAIN tries : tries[q] = MadeAt(p, order, q)
    BY CandidatesAre
  <2> HIDE DEF tries, order
  <2> QED BY <2>1 DEF Firsts
<1>3. places \subseteq Nat \X Nat
  BY PlacesArePairs
<1> DEFINE strategies == supported \cup ({preferred} \ {None})
<1>4. \A s \in strategies : \E i \in DOMAIN order : order[i] = s
  <2>1. CASE preferred = None
    <3>1. order = Supported(issuer)
      BY <2>1 DEF Order
    <3> QED BY <2>1, <3>1
  <2>2. CASE preferred # None
    <3> DEFINE others == {i \in DOMAIN Supported(issuer) : Supported(issuer)[i] # preferred}
    <3>1. order = [i \in {0} \cup others |-> IF i = 0 THEN preferred ELSE Supported(issuer)[i]]
      BY <2>2 DEF Order
    <3>2. order[0] = preferred /\ 0 \in DOMAIN order
      BY <3>1
    <3>3. \A i \in others : i \in DOMAIN order /\ i # 0
      BY <3>1, SupportedPlaces
    <3>4. \A i \in others : order[i] = Supported(issuer)[i]
      BY <3>1, <3>3
    <3> SUFFICES ASSUME NEW s \in supported, s # preferred
                 PROVE  \E i \in DOMAIN order : order[i] = s
      BY <3>2
    <3>5. PICK i \in DOMAIN Supported(issuer) : Supported(issuer)[i] = s
      OBVIOUS
    <3>6. i \in others
      BY <3>5
    <3> HIDE DEF order, others
    <3> QED BY <3>3, <3>4, <3>5, <3>6
  <2> QED BY <2>1, <2>2
<1>5. \A i \in DOMAIN order : \A pwd \in Makes(order[i]) :
        \E k \in 1..3 : <<i, k>> \in places /\ MadeAt(p, order, <<i, k>>) = pwd
  <2> HIDE DEF order
  <2> SUFFICES ASSUME NEW i \in DOMAIN order, NEW k \in DOMAIN Generated(p, order[i])
               PROVE  /\ k \in 1..3 /\ <<i, k>> \in places
                      /\ MadeAt(p, order, <<i, k>>) = Generated(p, order[i])[k]
    OBVIOUS
  <2>1. k \in 1..3
    BY GeneratedPlaces
  <2> QED BY <2>1 DEF Places, MadeAt
<1>6. attempt.tried = DOMAIN tries => \A s \in strategies : attempt.secret \notin Makes(s)
  <2> SUFFICES ASSUME attempt.tried = DOMAIN tries, NEW s \in strategies,
                      attempt.secret \in Makes(s)
               PROVE  FALSE
    OBVIOUS
  <2>1. PICK i \in DOMAIN order : order[i] = s
    BY <1>4
  <2> HIDE DEF order, strategies
  <2>2. attempt.secret \in Makes(order[i])
    BY <2>1
  <2>3. PICK k \in 1..3 : <<i, k>> \in places /\ MadeAt(p, order, <<i, k>>) = attempt.secret
    BY <1>5, <2>2
  <2>4. PICK r \in DOMAIN tries : tries[r] = attempt.secret
    BY <2>3, MadeIsCandidate DEF order
  <2>5. \A t \in attempt.tried : Tries[t] # attempt.secret
    BY DEF ChecksInv, Attempting
  <2> QED BY <1>1, <2>4, <2>5
<1> HIDE DEF strategies
<1>7. \A q, r \in DOMAIN tries : q # r => tries[q] # tries[r]
  <2> HIDE DEF order, places, tries
  <2> SUFFICES ASSUME NEW q \in DOMAIN tries, NEW r \in DOMAIN tries, q # r
               PROVE  tries[q] # tries[r]
    OBVIOUS
  <2>1. q \in places /\ r \in places
    BY <1>2
  <2>2. Earlier(q, r) \/ Earlier(r, q)
    BY <1>3, <2>1, EarlierIsTotal
  <2> QED BY <1>2, <2>1, <2>2
<1> DEFINE its == {q \in DOMAIN tries : tries[q] \in Makes(preferred)}
<1>8. preferred # None => \A q \in DOMAIN tries, r \in its : Earlier(q, r) => q \in its
  <2> SUFFICES ASSUME preferred # None, NEW q \in DOMAIN tries, NEW r \in its, Earlier(q, r)
               PROVE  q \in its
    OBVIOUS
  <2>1. 0 \in DOMAIN order /\ order[0] = preferred
    BY DEF Order
  <2> HIDE DEF order
  <2>2. r \in DOMAIN tries /\ tries[r] \in Makes(order[0])
    BY <2>1
  <2>3. PICK k \in 1..3 : <<0, k>> \in places /\ MadeAt(p, order, <<0, k>>) = tries[r]
    BY <1>5, <2>1, <2>2
  <2> HIDE DEF tries, places
  <2>4. q \in places /\ r \in places
    BY <1>2, <2>2
  <2>5. ~Earlier(<<0, k>>, r)
    BY <1>2, <2>2, <2>3
  <2>6. /\ q[1] \in Nat /\ r[1] \in Nat /\ q[2] \in Nat /\ r[2] \in Nat
    BY <1>3, <2>4
  <2>7. r[1] = 0
    BY <2>5, <2>6 DEF Earlier
  <2>8. q[1] = 0
    BY <2>6, <2>7 DEF Earlier
  <2>9. q[2] \in DOMAIN Generated(p, order[0])
    BY <2>4, <2>8 DEF places, Places
  <2>10. tries[q] = Generated(p, order[0])[q[2]]
    BY <1>2, <2>8 DEF MadeAt
  <2> QED BY <2>1, <2>9, <2>10
<1> HIDE DEF tries, order, places
<1> QED BY <1>1, <1>6, <1>7, <1>8 DEF AttemptSound, strategies

-----------------------------------------------------------------------------
\* A bank statement whose four figures were found is validated only if every line was
\* read as printed: the running balance and both totals together leave no room for a lost
\* or mistaken line (statements/validator.py:95, :117). A card statement is validated only
\* if its institution's equation holds, the standard one where something is due (:135,
\* :180), and rows back the activity it shows (:202). A file is given up only when neither
\* the issuer's strategies nor the preferred one make its password
\* (statements/password_engine.py:226).
THEOREM ReadingIsSound == Spec => []ReadingSound
<1>1. ChecksInv => ReadingSound
  BY BankIsSound, CardIsSound, AttemptIsSound DEF ReadingSound
<1> QED BY <1>1, InvInit, InvNext, PTL DEF Spec
=============================================================================
