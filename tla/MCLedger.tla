------------------------------ MODULE MCLedger ------------------------------
\* Two card payments at one shop, only one of them resolved to the merchant; a credit that
\* is their refund by its text and their amount; a statement line of the same shop.
EXTENDS Ledger

CONSTANTS t1, t2, t3, t4, shop, e1, food, pay

MCKind == [c \in Label |-> IF c = food THEN "spending" ELSE "transfer"]

MCLine == [direction |-> "debit", day |-> 10, amount |-> 2, amended |-> 2, name |-> shop,
           entity |-> e1, upi |-> None, ref |-> None, reads |-> "payment", label |-> None,
           type |-> "purchase", imported |-> FALSE]

MCData ==
  t1 :> [MCLine EXCEPT !.amended = 3]
  @@ t2 :> [MCLine EXCEPT !.day = 11, !.entity = None, !.label = food]
  @@ t3 :> [MCLine EXCEPT !.day = 12, !.direction = "credit", !.reads = "refund", !.type = "other"]
  @@ t4 :> [MCLine EXCEPT !.day = 11, !.direction = "outflow", !.entity = None, !.label = food,
                          !.imported = TRUE]

\* Four stories: rules and labels; pairing next to requests; duplicates; flags.
MCNone == [s \in Steps |-> 0]
MCBudgets ==
  { [MCNone EXCEPT !["arrive"] = 2, !["classify"] = 2, !["rule"] = 1, !["reparse"] = 1],
    [MCNone EXCEPT !["arrive"] = 3, !["classify"] = 1, !["reparse"] = 1, !["reconcile"] = 2],
    [MCNone EXCEPT !["arrive"] = 2, !["classify"] = 1, !["merge"] = 2, !["mark"] = 1, !["reconcile"] = 1],
    [MCNone EXCEPT !["arrive"] = 2, !["classify"] = 1, !["merge"] = 1, !["mark"] = 1, !["flag"] = 2] }
=============================================================================
