------------------------------- MODULE MCDesk -------------------------------
(* Desk over the turn of a year: a salary credited on the last day of December, one on *)
(* the first of January, spending on both sides, some of it nameless. Each budget is a *)
(* story.                                                                              *)
EXTENDS Desk

CONSTANTS Transfers, Income, Food, Spare, Salaries, Lunch, CardPayment, SpareSub, Cafe, Firm

MCSlug == {"transfers", "income", "food", "salary", "lunch", "credit-card-payment"}

Seeded(slug) == [slug |-> slug, expense |-> "discretionary", system |-> TRUE]
MCCategories ==
  [c \in Category |-> CASE c = Transfers -> Seeded("transfers") [] c = Income -> Seeded("income")
                        [] c = Food -> [Seeded("food") EXCEPT !.system = FALSE] [] OTHER -> None]
MCSubcategories ==
  [s \in Subcategory |-> CASE s = Salaries -> [of |-> Income, slug |-> "salary"]
                           [] s = Lunch -> [of |-> Food, slug |-> "lunch"]
                           [] s = CardPayment -> [of |-> Transfers, slug |-> "credit-card-payment"]
                           [] OTHER -> None]

Spend(y, m, d, amount) ==
  [year |-> y, month |-> m, day |-> d, amount |-> amount, direction |-> "debit",
   type |-> "purchase", name |-> Cafe, category |-> "food", subcategory |-> "lunch",
   review |-> TRUE, unfit |-> FALSE]
Paid(y, m, d, amount) ==
  [Spend(y, m, d, amount) EXCEPT !.direction = "credit", !.type = "income", !.name = Firm,
                                 !.category = "income", !.subcategory = "salary",
                                 !.review = FALSE]
MCData ==
  [t \in Tx |-> CASE t = 1 -> Spend(2026, 1, 2, 2) [] t = 2 -> Paid(2025, 12, 31, 50)
                  [] t = 3 -> Spend(2025, 12, 31, 3) [] t = 4 -> Paid(2026, 1, 1, 40)
                  [] OTHER -> [Spend(2026, 1, 2, 1) EXCEPT !.category = None, !.name = None]]

MCNow == [year |-> 2026, month |-> 1]
MCReportedOn == {MCNow, [year |-> 2025, month |-> 12]}

Label_(t, slug, sub, teach, past) ==
  [tool |-> "classify_transaction", tx |-> t, slug |-> slug, sub |-> sub, teach |-> teach,
   past |-> past]
MCRequests ==
  {[tool |-> "report"], Label_(1, "transfers", "credit-card-payment", FALSE, FALSE),
   Label_(1, "food", None, TRUE, FALSE), Label_(1, "food", "lunch", TRUE, TRUE)}
MCWalks ==
  {[tool |-> "get_unclassified_spends", limit |-> 1, least |-> 0],
   [tool |-> "search_transactions", limit |-> 3, least |-> 2]}

Story(b) == [s \in Steps |-> IF s \in DOMAIN b THEN b[s] ELSE 0]
MCBudgets ==
  {Story([arrive |-> 5, taxonomy |-> 1, classify |-> 1]),
   Story([arrive |-> 3, classify |-> 1, rule |-> 1, mark |-> 1]),
   Story([arrive |-> 1, taxonomy |-> 3]),
   Story([arrive |-> 1, ask |-> 1, classify |-> 1, taxonomy |-> 1]),
   Story([arrive |-> 1, label |-> 1, classify |-> 1, taxonomy |-> 1]),
   Story([arrive |-> 1, label |-> 2, cancel |-> 1]),
   Story([arrive |-> 4, page |-> 2, classify |-> 1]),
   Story([report |-> 3, tick |-> 2, cancel |-> 1]),
   Story([due |-> 2]),
   Story([due |-> 1, arrive |-> 1, taxonomy |-> 1])}
=============================================================================
