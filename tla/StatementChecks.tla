--------------------------- MODULE StatementChecks ---------------------------
(***************************************************************************)
(* What a statement goes through between its file and its verdict, as      *)
(* algorithms: the passwords that are tried on it                          *)
(* (statements/password_engine.py), the rows an Axis bank statement is read*)
(* into (statements/parsers/axis_bank.py), and the arithmetic that judges  *)
(* it (statements/validator.py). StatementVault has the statement's life   *)
(* around them and takes their results as given.                           *)
(*                                                                         *)
(* The bank prints a truthful statement: each line carries the balance     *)
(* after it. What the parser makes of it depends on the tables and the     *)
(* text lines the PDF library finds. Amounts are whole rupees, so that the *)
(* tolerance of five paise is equality. Wording and dates are left out.    *)
(***************************************************************************)
EXTENDS Integers, Sequences, FiniteSetsExt

CONSTANTS
  Profiles,     \* what may be known of the account's owner
  Issuers,      \* the issuers a statement may be from
  Preferred,    \* the strategies a profile may prefer
  Secrets,      \* the passwords a statement may have
  Opening,      \* the balances it may open with
  Amounts,      \* what a line may move
  Findings,     \* the sets of printed figures the patterns may find
  CardSheets,   \* the summaries a card statement may show
  MaxLines,     \* bound: lines printed
  None

Dob == {"none", "short", "full"}                    \* with or without a year
NameForm == {"none", "signs", "letter", "letters"}  \* what the first four characters are
Figures == {"opening", "closing", "withdrawals", "deposits"}
Figure == Int \cup {None}
CardSheet == [institution : {"SCAPIA", "OTHER"}, previous : Figure, purchases : Figure,
              payments : Figure, fees : Figure, due : Figure]

Strategies == {"NAME4_DDMM", "NAME4_DDMMYYYY", "NAME4_CARD4", "CARD4_DOB", "DOB_DDMMYYYY",
               "DOB_DDMM", "PAN_DOB", "CUSTOM"}

\* A password: the strategy it is made by and its letter case, or one the user chose.
Password == (Strategies \X {"lower", "upper", "capital", "plain"}) \cup {<<"chosen", "plain">>}

ASSUME StatementChecksAssumption ==
  /\ None \notin Int \cup Strategies
  /\ Profiles \subseteq [name : NameForm, dob : Dob, card : BOOLEAN, pan : BOOLEAN,
                         custom : Password \cup {None}]
  /\ None \notin Password
  /\ Preferred \subseteq Strategies \cup {None} /\ Secrets \subseteq Password
  /\ Opening \subseteq Nat /\ Amounts \subseteq Nat \ {0} /\ MaxLines \in Nat
  /\ Findings \subseteq SUBSET Figures /\ CardSheets \subseteq CardSheet

VARIABLES
  attempt,   \* the file while it is locked: whose it is, what was tried; or None
  sheet,     \* what the statement is, once it is open; or None
  lines      \* the lines the bank printed so far

vars == <<attempt, sheet, lines>>

-----------------------------------------------------------------------------
(* Passwords.                                                              *)

\* What a strategy needs of the profile.
Knows(p, strategy) ==
  CASE strategy = "CUSTOM" -> p.custom # None
    [] strategy = "NAME4_DDMM" -> p.name # "none" /\ p.dob # "none"
    [] strategy = "NAME4_DDMMYYYY" -> p.name # "none" /\ p.dob = "full"
    [] strategy = "NAME4_CARD4" -> p.name # "none" /\ p.card
    [] strategy = "CARD4_DOB" -> p.card /\ p.dob # "none"
    [] strategy = "DOB_DDMMYYYY" -> p.dob = "full"
    [] strategy = "DOB_DDMM" -> p.dob # "none"
    [] strategy = "PAN_DOB" -> p.pan /\ p.dob # "none"

\* Characters without case give one password three times, a single letter one twice.
Cases(name) ==
  CASE name = "letters" -> <<"lower", "upper", "capital">>
    [] name = "letter" -> <<"lower", "upper", "upper">>
    [] OTHER -> <<"plain", "plain", "plain">>

\* generate_candidates of each strategy.
Generated(p, strategy) ==
  LET made(cases) == [i \in DOMAIN cases |-> <<strategy, cases[i]>>] IN
  CASE ~Knows(p, strategy) -> <<>>
    [] Knows(p, strategy) /\ strategy = "CUSTOM" -> <<p.custom>>
    [] Knows(p, strategy) /\ strategy \in {"NAME4_DDMM", "NAME4_DDMMYYYY", "NAME4_CARD4"} ->
         made(Cases(p.name))
    [] Knows(p, strategy) /\ strategy = "PAN_DOB" -> made(<<"upper", "lower">>)
    [] OTHER -> made(<<"plain">>)

\* supported_strategies of the issuer's adapter; an unknown issuer has the generic one.
Supported(issuer) ==
  CASE issuer = "HDFC" -> <<"NAME4_DDMM", "NAME4_DDMMYYYY", "NAME4_CARD4", "CUSTOM", "DOB_DDMMYYYY">>
    [] issuer = "ICICI" -> <<"NAME4_DDMM", "NAME4_DDMMYYYY", "CUSTOM", "DOB_DDMMYYYY">>
    [] issuer = "AXIS" -> <<"NAME4_CARD4", "NAME4_DDMM", "CARD4_DOB", "NAME4_DDMMYYYY", "CUSTOM">>
    [] issuer = "SBI" -> <<"DOB_DDMMYYYY", "NAME4_DDMM", "CARD4_DOB", "NAME4_CARD4", "CUSTOM">>
    [] issuer = "SCAPIA" -> <<"CUSTOM", "DOB_DDMMYYYY", "NAME4_DDMM", "NAME4_CARD4">>
    [] issuer = "FEDERAL" -> <<"DOB_DDMMYYYY", "NAME4_DDMM", "NAME4_CARD4", "CUSTOM">>
    [] issuer = "AMEX" -> <<"DOB_DDMMYYYY", "NAME4_CARD4", "NAME4_DDMM", "CUSTOM">>
    [] OTHER -> <<"NAME4_DDMM", "NAME4_DDMMYYYY", "NAME4_CARD4", "CARD4_DOB", "DOB_DDMMYYYY",
                  "DOB_DDMM", "PAN_DOB", "CUSTOM">>

\* candidate_strategy_order, each strategy at its place: the preferred one goes before the
\* issuer's, and is not among them.
Order(issuer, preferred) ==
  LET supported == Supported(issuer)
      others    == {i \in DOMAIN supported : supported[i] # preferred}
  IN  IF preferred = None THEN supported
      ELSE [i \in {0} \cup others |-> IF i = 0 THEN preferred ELSE supported[i]]

\* The place of a candidate: of its strategy, and among what that generates.
Earlier(q, r) == q[1] < r[1] \/ (q[1] = r[1] /\ q[2] < r[2])

\* password_candidates: each password once, at the first place it is generated.
Candidates(p, issuer, preferred) ==
  LET order   == Order(issuer, preferred)
      made(q) == Generated(p, order[q[1]])[q[2]]
      places  == {q \in (DOMAIN order) \X (1..3) : q[2] \in DOMAIN Generated(p, order[q[1]])}
  IN  [q \in {q \in places : \A r \in places : Earlier(r, q) => made(r) # made(q)} |-> made(q)]

-----------------------------------------------------------------------------
(* The Axis bank parser.                                                   *)

\* A printed line: what it moves, the balance after it, whether its text names a
\* deposit, and whether the PDF library finds it in a table and as a line of text.
Line == [out : BOOLEAN, amount : Amounts, balance : Int, named : BOOLEAN,
         tabled : BOOLEAN, plain : BOOLEAN]

Row == [debit : Figure, credit : Figure, amount : Nat, inward : BOOLEAN, outward : BOOLEAN,
        balance : Figure]   \* inward and outward: what the row's type stands for

\* From a table the columns tell, the one that does not apply blank or 0.
TableRow(line, blank) ==
  [debit   |-> IF line.out THEN line.amount ELSE blank,
   credit  |-> IF line.out THEN blank ELSE line.amount,
   amount  |-> IF ~line.out /\ blank = 0 THEN 0 ELSE line.amount,
   inward  |-> FALSE, outward |-> line.out, balance |-> line.balance]

\* From text the last two numbers are taken, and the words tell what they mean.
TextRow(line) ==
  [debit   |-> IF line.named THEN None ELSE line.amount,
   credit  |-> IF line.named THEN line.amount ELSE None,
   amount  |-> line.amount,
   inward  |-> FALSE, outward |-> ~line.named, balance |-> line.balance]

\* A row has the place of its line. Text is read only if the tables give nothing at all.
Rows ==
  LET tabled == {i \in DOMAIN lines : lines[i].tabled}
      plain  == {i \in DOMAIN lines : lines[i].plain}
  IN  IF tabled # {} THEN [i \in tabled |-> TableRow(lines[i], sheet.blank)]
      ELSE [i \in plain |-> TextRow(lines[i])]

\* The sum of what f has at the places up to n.
Upto(f, n) ==
  LET sum[k \in 0..n] == IF k = 0 THEN 0
                         ELSE sum[k - 1] + (IF k \in DOMAIN f THEN f[k] ELSE 0)
  IN  sum[n]

Moved(out) ==
  Upto([i \in {i \in DOMAIN lines : lines[i].out = out} |-> lines[i].amount], Len(lines))

Closing == IF lines = <<>> THEN sheet.opening ELSE lines[Len(lines)].balance

Found(figure, value) == IF figure \in sheet.found THEN value ELSE None

-----------------------------------------------------------------------------
(* The validator.                                                          *)

OrZero(n) == IF n = None THEN 0 ELSE n
Minor == 5
Worse(status, other) == IF status = "VALIDATED" THEN other ELSE status

Judge(difference) ==
  IF difference = 0 THEN "VALIDATED"
  ELSE IF difference \in -Minor..Minor THEN "REVIEW_REQUIRED" ELSE "VALIDATION_FAILED"

Debit(r) == IF r.debit # None THEN r.debit ELSE IF r.credit = None /\ r.outward THEN r.amount ELSE 0
Credit(r) == IF r.credit # None THEN r.credit ELSE IF r.debit = None /\ r.inward THEN r.amount ELSE 0

\* total_extracted_debits and total_extracted_credits.
Debits(rows) == Upto([i \in DOMAIN rows |-> Debit(rows[i])], Len(lines))
Credits(rows) == Upto([i \in DOMAIN rows |-> Credit(rows[i])], Len(lines))

\* What a step of the running balance adds; here a column of 0 counts as no column.
Step(r) ==
  (IF OrZero(r.credit) # 0 THEN r.credit ELSE IF r.debit = None /\ r.inward THEN r.amount ELSE 0)
  - (IF OrZero(r.debit) # 0 THEN r.debit ELSE IF r.credit = None /\ r.outward THEN r.amount ELSE 0)

\* Mutant: the steps are added up and only the last balance is compared.
StepsHoldFromSum(opening, rows) ==
  opening = None \/ DOMAIN rows = {}
  \/ opening + Upto([i \in DOMAIN rows |-> Step(rows[i])], Len(lines))
     = rows[Max(DOMAIN rows)].balance

\* Each row that shows a balance is checked against the row before it that did; without
\* an opening balance no row is.
StepsHold(opening, rows) ==
  LET shown     == {i \in DOMAIN rows : rows[i].balance # None}
      before(i) == {j \in shown : j < i}
      from(i)   == IF before(i) = {} THEN opening ELSE rows[Max(before(i))].balance
  IN  opening = None \/ \A i \in shown : from(i) + Step(rows[i]) = rows[i].balance

\* A printed total that is not what was extracted asks for a review, no more.
Compared(status, printed, extracted) ==
  IF printed \notin {None, extracted} THEN Worse(status, "REVIEW_REQUIRED") ELSE status

BankVerdict ==
  LET rows        == Rows
      opening     == Found("opening", sheet.opening)
      closing     == Found("closing", Closing)
      withdrawals == Found("withdrawals", Moved(TRUE))
      deposits    == Found("deposits", Moved(FALSE))
      out         == IF withdrawals # None THEN withdrawals ELSE Debits(rows)
      in          == IF deposits # None THEN deposits ELSE Credits(rows)
      balance     == IF None \in {opening, closing} THEN "VALIDATED"
                     ELSE Judge(opening + in - out - closing)
      totals      == Compared(Compared(balance, withdrawals, Debits(rows)),
                              deposits, Credits(rows))
  IN  IF DOMAIN rows = {} /\ (OrZero(withdrawals) > 0 \/ OrZero(deposits) > 0) THEN "VALIDATION_FAILED"
      ELSE IF StepsHold(opening, rows) THEN totals ELSE Worse(totals, "REVIEW_REQUIRED")

\* A card statement; rows says whether any were extracted. One that is due nothing is
\* not added up.
CardVerdict(c, rows) ==
  LET previous == OrZero(c.previous)
      paid     == OrZero(c.payments)
      bought   == OrZero(c.purchases)
      due      == OrZero(c.due)
      refunded == IF paid < 0 THEN -paid ELSE paid
      sum      == CASE c.institution = "SCAPIA" -> Judge(previous + bought - refunded - due)
                    [] c.institution # "SCAPIA" /\ due > 0 ->
                         Judge(previous - paid + bought + OrZero(c.fees) - due)
                    [] OTHER -> "VALIDATED"
  IN  IF ~rows /\ (bought > 0 \/ paid > 0) THEN "VALIDATION_FAILED" ELSE sum

-----------------------------------------------------------------------------
Init ==
  /\ attempt \in [profile : Profiles, issuer : Issuers, preferred : Preferred,
                  secret : Secrets, tried : {{}}]
  /\ sheet = None
  /\ lines = <<>>

Tries == Candidates(attempt.profile, attempt.issuer, attempt.preferred)

\* The next candidate; the one that opens the file ends the attempt, and what the file
\* holds comes to light.
Try ==
  /\ attempt # None
  /\ LET tries == Tries IN
     \E q \in DOMAIN tries \ attempt.tried :
       /\ \A r \in DOMAIN tries \ attempt.tried : ~Earlier(r, q)
       /\ \/ /\ tries[q] # attempt.secret
             /\ attempt' = [attempt EXCEPT !.tried = @ \cup {q}]
             /\ UNCHANGED sheet
          \/ /\ tries[q] = attempt.secret
             /\ attempt' = None
             /\ \/ sheet' \in [kind : {"bank"}, opening : Opening, found : Findings,
                               blank : {0, None}]
                \/ sheet' \in [kind : {"card"}, shows : CardSheets, rows : BOOLEAN]
  /\ UNCHANGED lines

\* A line more on the bank's statement, found by the parser or not.
PrintLine ==
  /\ sheet # None /\ sheet.kind = "bank" /\ Len(lines) < MaxLines
  /\ \E out, named, tabled, plain \in BOOLEAN, amount \in Amounts :
       lines' = Append(lines,
         [out |-> out, amount |-> amount, named |-> named, tabled |-> tabled, plain |-> plain,
          balance |-> IF out THEN Closing - amount ELSE Closing + amount])
  /\ UNCHANGED <<attempt, sheet>>

Next == Try \/ PrintLine

Spec == Init /\ [][Next]_vars

-----------------------------------------------------------------------------
(* Properties.                                                             *)

\* A file stays locked only if none of the strategies tried for it makes its password;
\* no password is tried twice, and the preferred strategy's come first.
AttemptSound ==
  attempt # None =>
    LET tries     == Tries
        places    == DOMAIN tries
        preferred == attempt.preferred
        Makes(s)  == {Generated(attempt.profile, s)[i] :
                        i \in DOMAIN Generated(attempt.profile, s)}
        supported == {Supported(attempt.issuer)[i] : i \in DOMAIN Supported(attempt.issuer)}
        its       == {q \in places : tries[q] \in Makes(preferred)}
    IN  /\ attempt.tried = places =>
             \A s \in supported \cup ({preferred} \ {None}) : attempt.secret \notin Makes(s)
        /\ \A q, r \in places : q # r => tries[q] # tries[r]
        /\ preferred # None => \A q \in places, r \in its : Earlier(q, r) => q \in its

\* The rows say of every line what the bank printed.
RowsFaithful ==
  /\ DOMAIN Rows = DOMAIN lines
  /\ \A i \in DOMAIN lines :
       Step(Rows[i]) = IF lines[i].out THEN -lines[i].amount ELSE lines[i].amount

BankSound ==
  sheet # None /\ sheet.kind = "bank" /\ sheet.found = Figures /\ BankVerdict = "VALIDATED" =>
    RowsFaithful

\* A Scapia statement adds up, payments counted whichever sign they have. The standard
\* equation has fees too, and holds nothing of a card that is due nothing.
CardSound ==
  sheet # None /\ sheet.kind = "card" /\ CardVerdict(sheet.shows, sheet.rows) = "VALIDATED" =>
    LET c        == sheet.shows
        previous == OrZero(c.previous)
        paid     == OrZero(c.payments)
        bought   == OrZero(c.purchases)
        due      == OrZero(c.due)
    IN  /\ c.institution = "SCAPIA" =>
             previous + bought - due = (IF paid >= 0 THEN paid ELSE -paid)
        /\ c.institution # "SCAPIA" /\ due > 0 =>
             previous + bought + OrZero(c.fees) - due = paid
        /\ bought > 0 \/ paid > 0 => sheet.rows

\* A bank statement whose four figures were all found is validated only if every line of
\* it was extracted with its amount and direction: lines lost with a table or a page, and
\* deposits and withdrawals mistaken for each other, are noticed, even where they make up
\* for one another (statements/validator.py:95, :117). A card statement is validated only
\* if rows were extracted where it shows purchases or payments (:202), and what it shows
\* satisfies the Scapia equation (:135) or, for other cards that are due something, the
\* standard one with fees (:180); of other cards due nothing no equation is tested. A
\* file is given up only when none of its issuer's strategies, and not the preferred one,
\* makes its password; other strategies are not tried (password_engine.py:217).
ReadingSound == BankSound /\ CardSound /\ AttemptSound
=============================================================================
