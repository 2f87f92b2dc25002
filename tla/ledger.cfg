\* Four rows; the budgets tell four stories.
SPECIFICATION Spec
CONSTANTS
  None = None
  t1 = t1
  t2 = t2
  t3 = t3
  t4 = t4
  shop = shop
  e1 = e1
  food = food
  pay = pay
  Tx = {t1, t2, t3, t4}
  Label = {food, pay}
  Kind <- MCKind
  Name = {shop}
  Entity = {e1}
  Upi = {}
  Ref = {}
  Data <- MCData
  Runner = {scheduler}
  Budgets <- MCBudgets
\* The budgets run out.
CHECK_DEADLOCK FALSE
INVARIANT TypeOK
INVARIANT EventsBalance
INVARIANT LinksCoherent
INVARIANT ExclusionsHold
PROPERTY RulesRemember
