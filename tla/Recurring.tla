----------------------------- MODULE Recurring -----------------------------
(***************************************************************************)
(* Subscriptions and bills, api/routes/recurring.py, and the two lists of  *)
(* them: the application's and the agent's (mcp/service.py). Each is a     *)
(* recurring transaction with one child, which has an amount and a status  *)
(* of its own; an update reaches the parent only.                          *)
(***************************************************************************)
EXTENDS Taxonomy

Dues(kind) == {d \in Due : dues[d] # None /\ dues[d].kind = kind}

\* The next id not in use.
Unkept(d) == dues[d] = None /\ \A e \in Due : dues[e] = None => d <= e

\* create_subscription and create_bill: a category that is not there fails on its foreign
\* key, a transaction that is not there is left out.
NewDue(kind, fee, f, c, t) ==
  [kind |-> kind, expected |-> fee, frequency |-> f, status |-> "active", category |-> c,
   links |-> {t} \ {None}, amount |-> None, annual |-> None, shown |-> "active"]

CreateSubscription(d) ==
  /\ Unkept(d)
  /\ \E fee \in Fee, f \in Frequency, c \in Categories \cup {None},
        t \in Present \cup {None}, a \in Fee \cup {None} :
       dues' = [dues EXCEPT ![d] =
         [NewDue("subscription", fee, f, c, t) EXCEPT !.amount = fee, !.annual = a]]

CreateBill(d) ==
  /\ Unkept(d)
  /\ \E fee \in Fee, f \in Frequency, c \in Categories \cup {None}, t \in Present \cup {None} :
       dues' = [dues EXCEPT ![d] = NewDue("bill", fee, f, c, t)]

\* confirm_recurring and ignore_recurring keep the two statuses together.
Decide(d, status) ==
  /\ dues[d] # None
  /\ dues' = [dues EXCEPT ![d].status = status, ![d].shown = status]

UpdateRecurring(d) ==
  /\ dues[d] # None
  /\ \E fee \in Fee, f \in Frequency, s \in DueStatus :
       dues' = [dues EXCEPT ![d].expected = fee, ![d].frequency = f, ![d].status = s]

DeleteRecurring(d) ==
  /\ dues[d] # None
  /\ dues' = [dues EXCEPT ![d] = None]

KeepDues ==
  /\ Take("due")
  /\ \E d \in Due :
       \/ CreateSubscription(d) \/ CreateBill(d) \/ UpdateRecurring(d) \/ DeleteRecurring(d)
       \/ Decide(d, "active") \/ Decide(d, "ignored")
  /\ UNCHANGED <<taxonomy, rules, tx, cited>>

-----------------------------------------------------------------------------
(* Lists.                                                                  *)

Given(fee) == fee \notin {None, 0}
Lower(f) == IF f = "Yearly" THEN "yearly" ELSE f

\* A subscription's price of a year, with its frequency as it is read.
Annual(d, f) ==
  IF Given(dues[d].annual) THEN dues[d].annual
  ELSE IF f = "yearly" THEN dues[d].amount ELSE dues[d].amount * 12

\* list_recurring.
ListRecurring ==
  [subscriptions |-> [d \in Dues("subscription") |->
     [amount |-> dues[d].amount, status |-> dues[d].shown, annual |-> Annual(d, dues[d].frequency)]],
   bills |-> [d \in Dues("bill") |-> [amount |-> dues[d].expected, status |-> dues[d].shown]]]

\* get_recurring_expenses. "months" is what twelve of them cost.
Item(d, amount, annual) ==
  [amount |-> amount, status |-> dues[d].shown, annual |-> annual,
   months |-> IF Lower(dues[d].frequency) = "monthly" THEN amount * 12 ELSE annual]

RecurringExpenses ==
  [subscriptions |-> [d \in Dues("subscription") |->
     Item(d, dues[d].amount, Annual(d, Lower(dues[d].frequency)))],
   bills |-> [d \in Dues("bill") |->
     LET amount == dues[d].expected
     IN  Item(d, amount, IF Lower(dues[d].frequency) = "monthly" THEN amount * 12 ELSE amount)]]

-----------------------------------------------------------------------------
(* Properties.                                                             *)

\* Both lists show the same subscriptions and bills at the same price, the price of a year
\* included where the frequency is written as the application writes it; a year is twelve
\* months, unless a monthly subscription was given a yearly price of its own.
DuesAgree ==
  LET app   == ListRecurring
      agent == RecurringExpenses
      Same(a, b) == /\ DOMAIN a = DOMAIN b
                    /\ \A d \in DOMAIN a : a[d].amount = b[d].amount /\ a[d].status = b[d].status
  IN  /\ Same(app.subscriptions, agent.subscriptions) /\ Same(app.bills, agent.bills)
      /\ \A d \in DOMAIN app.subscriptions :
           /\ dues[d].frequency \in {"monthly", "yearly"} =>
                app.subscriptions[d].annual = agent.subscriptions[d].annual
           /\ agent.subscriptions[d].months # agent.subscriptions[d].annual =>
                dues[d].frequency = "monthly" /\ Given(dues[d].annual)
      /\ \A d \in DOMAIN agent.bills : agent.bills[d].months = agent.bills[d].annual
=============================================================================
