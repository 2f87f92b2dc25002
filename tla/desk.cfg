\* Ten stories of those who label, keep, ask and report. The budgets run out.
CHECK_DEADLOCK FALSE
CONSTANTS
  None = None
  Gone = Gone
  Transfers = Transfers
  Income = Income
  Food = Food
  Spare = Spare
  Salaries = Salaries
  Lunch = Lunch
  CardPayment = CardPayment
  SpareSub = SpareSub
  Cafe = Cafe
  Firm = Firm
  Category = {Transfers, Income, Food, Spare}
  Subcategory = {Salaries, Lunch, CardPayment, SpareSub}
  Name = {Cafe, Firm}
  Tx = {1, 2, 3, 4, 5}
  Call = {1, 2, 3, 4}
  Typed = {"transfers", "salary"}
  Expense = {"essential", "discretionary"}
  Due = {1, 2}
  Fee = {2, 30}
  Limit = 2
  Window = 1
  PageMax = 2
  Slug <- MCSlug
  SeededCategories <- MCCategories
  SeededSubcategories <- MCSubcategories
  Data <- MCData
  Now <- MCNow
  ReportedOn <- MCReportedOn
  RangesAsked = {"3m"}
  Requests <- MCRequests
  Walks <- MCWalks
  Budgets <- MCBudgets
SPECIFICATION Spec
INVARIANTS LabelsFit ReportsAgree IncomeOnce WalkMisses RateHolds
