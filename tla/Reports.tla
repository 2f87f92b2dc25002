------------------------------ MODULE Reports ------------------------------
(***************************************************************************)
(* What the dashboard, the analytics and the agent's tools report of the   *)
(* rows: services/dashboard.py, analytics/ and the reports of              *)
(* mcp/service.py, each as an operator over the rows. The same money is    *)
(* added up by several pieces of code; they are kept apart here as they    *)
(* are there, and ReportsAgree and IncomeOnce say how they go together.    *)
(*                                                                         *)
(* Left out: percentages, medians and averages, the ten or fifteen rows a  *)
(* list is cut at, and the wording of insights.                            *)
(***************************************************************************)
EXTENDS Recurring

CONSTANTS
  Now,          \* the current month
  ReportedOn,   \* the months the reports are asked for
  RangesAsked   \* the ranges the deep dive is asked for

ASSUME ReportsAssumption ==
  /\ ReportedOn \cup {Now} \subseteq [year : Nat, month : 1..12]
  /\ RangesAsked \subseteq {"1m", "3m", "6m", "12m", "ytd"}

SumOf(S) == MapThenSumSet(LAMBDA t : Data[t].amount, S)
Capped(n) == IF n < 1 THEN 1 ELSE IF n > 24 THEN 24 ELSE n

-----------------------------------------------------------------------------
(* Months.                                                                 *)

MonthOf(t) == [year |-> Data[t].year, month |-> Data[t].month]
Absolute(m) == m.year * 12 + (m.month - 1)
MonthIndex == [t \in Tx |-> Data[t].year * 12 + (Data[t].month - 1)]

Shifted(m, delta) ==
  LET absolute == Absolute(m) + delta
  IN  [year |-> absolute \div 12, month |-> (absolute % 12) + 1]

Previous(m) ==
  IF m.month = 1 THEN [year |-> m.year - 1, month |-> 12] ELSE [m EXCEPT !.month = @ - 1]

\* The rows dated from the first day of one month to the last of another.
Dated(from, to) ==
  LET first == Absolute(from)
      last  == Absolute(to)
  IN  {t \in Present : first <= MonthIndex[t] /\ MonthIndex[t] <= last}

-----------------------------------------------------------------------------
(* The dashboard.                                                          *)

\* Of the types the filters name, those a row can have.
Blocked == {"not_a_transaction", "transfer"}
TransferCategories == {c \in Categories : cats[c].slug = "transfers"}
CardPayments == {s \in Subcategories : subs[s].slug = "credit-card-payment"}

\* _valid_spending_filters.
Spending(t) ==
  /\ Data[t].direction = "debit"
  /\ ~tx[t].duplicate /\ ~tx[t].transfer /\ ~tx[t].excluded
  /\ tx[t].type \notin Blocked
  /\ tx[t].category \notin TransferCategories
  /\ tx[t].subcategory \notin CardPayments
  /\ ~tx[t].flagged

Spent(from, to) == {t \in Dated(from, to) : Spending(t)}

Salary(t) == tx[t].subcategory # None /\ subs[tx[t].subcategory].slug = "salary"

\* Mutant: the delayed credit belongs to the month before, not to its own.
SalaryPayPeriodDelayed(t) ==
  IF Data[t].day <= 2 THEN Shifted(MonthOf(t), -1) ELSE Shifted(MonthOf(t), 1)

\* A salary credited on the first or second day pays its own month, any other the next.
SalaryPayPeriod(t) ==
  IF Data[t].day <= 2 THEN MonthOf(t) ELSE Shifted(MonthOf(t), 1)

IncomeCandidates(m) ==
  {t \in Dated(Shifted(m, -1), m) : ~tx[t].duplicate /\ tx[t].type = "income"}

\* income_for_pay_period, and the rows it adds up.
IncomeRows(m) ==
  {t \in IncomeCandidates(m) : m = IF Salary(t) THEN SalaryPayPeriod(t) ELSE MonthOf(t)}

Under(S, c) == {t \in S : tx[t].category = c}

\* get_overview: the categories with any spending in the month or the one before.
Breakdown(m) ==
  LET spent  == Spent(m, m)
      before == Spent(Previous(m), Previous(m))
      shown  == {c \in Categories : Under(spent, c) # {} \/ Under(before, c) # {}}
  IN  [c \in shown |-> [total    |-> SumOf(Under(spent, c)),
                        previous |-> SumOf(Under(before, c)),
                        count    |-> Cardinality(Under(spent, c))]]

Committed(c) ==
  \/ cats[c].expense \in {"essential", "financial"}
  \/ cats[c].slug \in {"loans", "loan", "fees-interest", "emi", "family"}

InReview(t) ==
  /\ tx[t].review /\ tx[t].type # "not_a_transaction"
  /\ ~tx[t].duplicate /\ ~tx[t].flagged

\* The rows that name nobody have no place among the merchants.
Overview(m) ==
  LET rows        == Spent(m, m)
      spent       == SumOf(rows)
      breakdown   == Breakdown(m)
      commitments == MapThenSumSet(LAMBDA c : breakdown[c].total,
                                   {c \in DOMAIN breakdown : Committed(c)})
      recorded    == {t \in Dated(m, m) : ~tx[t].duplicate}
      debits      == {t \in recorded : Data[t].direction = "debit"}
      active      == Cardinality(rows)
  IN  [spent       |-> spent,
       consumer    |-> IF spent > commitments THEN spent - commitments ELSE 0,
       commitments |-> commitments,
       income      |-> SumOf(IncomeRows(m)),
       debits      |-> active,
       credits     |-> Cardinality({t \in recorded \ debits : ~tx[t].excluded}),
       recorded    |-> Cardinality(recorded),
       excluded    |-> IF Cardinality(debits) > active THEN Cardinality(debits) - active ELSE 0,
       previous    |-> SumOf(Spent(Previous(m), Previous(m))),
       breakdown   |-> breakdown,
       daily       |-> [d \in {Data[t].day : t \in rows} |->
                          SumOf({t \in rows : Data[t].day = d})],
       merchants   |-> [n \in {Data[t].name : t \in rows} \ {None} |->
                          SumOf({t \in rows : Data[t].name = n})],
       review      |-> Cardinality({t \in Dated(m, m) : InReview(t)})]

FinancialTrends(m, months) ==
  LET n == Capped(months)
  IN  [i \in 1..n |->
        LET p      == Shifted(m, i - n)
            spent  == SumOf(Spent(p, p))
            income == SumOf(IncomeRows(p))
        IN  [month |-> p, spent |-> spent, income |-> income, net |-> income - spent]]

IncomeTrend(months) ==
  LET n == Capped(months)
  IN  [i \in 1..n |-> LET p == Shifted(Now, i - n)
                      IN  [month |-> p, income |-> SumOf(IncomeRows(p))]]

\* spending_by_category: every category, with or without spending.
ByCategory(m) ==
  LET spent == Spent(m, m)
  IN  [c \in Categories |-> [total |-> SumOf(Under(spent, c)),
                             count |-> Cardinality(Under(spent, c))]]

-----------------------------------------------------------------------------
(* Analytics, with a filter of its own.                                    *)

\* Mutant: the filter is not taken along to the other module whole.
SpendingTransactionLoose(t) ==
  /\ Data[t].direction = "debit"
  /\ ~tx[t].duplicate /\ ~tx[t].transfer /\ ~tx[t].excluded
  /\ tx[t].type \notin Blocked
  /\ ~tx[t].flagged

\* spending_transaction_filter.
SpendingTransaction(t) ==
  /\ Data[t].direction = "debit"
  /\ ~tx[t].duplicate /\ ~tx[t].transfer /\ ~tx[t].excluded
  /\ tx[t].type \notin Blocked
  /\ (tx[t].category = None \/ cats[tx[t].category].slug # "transfers")
  /\ (tx[t].subcategory = None \/ subs[tx[t].subcategory].slug # "credit-card-payment")
  /\ ~tx[t].flagged

\* resolve_period: the months of the range and those it is compared with.
Period(range, m) ==
  LET n     == CASE range = "1m" -> 1 [] range = "3m" -> 3 [] range = "12m" -> 12
                 [] range = "ytd" -> m.month [] OTHER -> 6
      start == IF range = "ytd" THEN [m EXCEPT !.month = 1] ELSE Shifted(m, -(n - 1))
      ended == Shifted(start, -1)
  IN  [count |-> n, start |-> start, end |-> m,
       comparedFrom |-> Shifted(ended, -(n - 1)), comparedTo |-> ended,
       buckets |-> [i \in 1..n |-> Shifted(start, i - 1)]]

SpentOn(c, from, to) == {t \in Dated(from, to) : tx[t].category = c /\ SpendingTransaction(t)}

In(S, from, to) ==
  LET first == Absolute(from)
      last  == Absolute(to)
  IN  {t \in S : first <= MonthIndex[t] /\ MonthIndex[t] <= last}

\* query_subcategory_monthly_series and query_subcategory_period_totals.
UnderSub(S, s, from, to) == SumOf({t \in In(S, from, to) : tx[t].subcategory = s})

\* get_category_analytics: the trend and the table list the category's subcategories
\* and what has none, the merchants what names nobody too.
DeepDive(c, range, m) ==
  LET p       == Period(range, m)
      columns == SubsOf(c) \cup {None}
      last    == Shifted(m, -1)
      living  == {t \in Dated(p.start, p.end) : SpendingTransaction(t)}
      rows    == Under(living, c)
      months  == SpentOn(c, last, m)
  IN  [spent    |-> SumOf(rows),
       compared |-> SumOf(SpentOn(c, p.comparedFrom, p.comparedTo)),
       current  |-> SumOf(In(months, m, m)),
       before   |-> SumOf(In(months, last, last)),
       living   |-> SumOf(living),
       count    |-> Cardinality(rows),
       trend    |-> [i \in 1..p.count |->
                       LET month == In(rows, p.buckets[i], p.buckets[i])
                       IN  SumOf({t \in month : tx[t].subcategory \in columns})],
       table    |-> [s \in columns |->
                       [spent   |-> UnderSub(rows, s, p.start, p.end),
                        current |-> UnderSub(months, s, m, m),
                        before  |-> UnderSub(months, s, last, last)]],
       merchants |-> [n \in {Data[t].name : t \in rows} |->
                        SumOf({t \in rows : Data[t].name = n})]]

\* list_merchants, with a third filter.
OnMerchant(n) ==
  {t \in Present :
    /\ Data[t].name = n /\ Data[t].direction = "debit"
    /\ ~tx[t].excluded /\ ~tx[t].duplicate /\ ~tx[t].transfer
    /\ tx[t].type \notin Blocked}

-----------------------------------------------------------------------------
(* The agent's reports.                                                    *)

\* get_financial_summary, of the month's overview.
FinancialSummary(o) ==
  [spent |-> o.spent, consumer |-> o.consumer, commitments |-> o.commitments,
   income |-> o.income, net |-> o.income - o.spent, previous |-> o.previous,
   count |-> o.debits]

\* get_category_spending of all categories.
CategorySpending(o) == [categories |-> o.breakdown, total |-> o.spent]

\* get_category_spending of one category. It asks the table for a total under a name
\* the table does not use, and reports every subcategory as 0.
CategoryDeepDive(d) ==
  [spent |-> d.spent, compared |-> d.compared, current |-> d.current, before |-> d.before,
   table |-> [s \in DOMAIN d.table |-> 0], merchants |-> d.merchants]

\* get_merchant_history: from a first month on, with no last one.
MerchantHistory(n, months) ==
  LET start == Shifted(Now, -(Capped(months) - 1))
  IN  {t \in Present :
        /\ Data[t].name = n /\ Absolute(MonthOf(t)) >= Absolute(start) /\ Spending(t)}

\* get_income_and_salary: its own sums over the candidates of the dashboard.
IncomeAndSalary(months) ==
  LET n == Capped(months)
  IN  [i \in 1..n |->
        LET p      == Shifted(Now, i - n)
            salary == {t \in IncomeCandidates(p) : Salary(t) /\ SalaryPayPeriod(t) = p}
            other  == {t \in IncomeCandidates(p) : ~Salary(t) /\ MonthOf(t) = p}
        IN  [month |-> p, salary |-> SumOf(salary), other |-> SumOf(other),
             total |-> SumOf(salary) + SumOf(other)]]

CashFlowTrends(months) == FinancialTrends(Now, months)

-----------------------------------------------------------------------------
(* Properties.                                                             *)

\* The rows of a category whose subcategory belongs to another.
Strays(c, from, to) ==
  {t \in SpentOn(c, from, to) : tx[t].subcategory \notin SubsOf(c) \cup {None}}

Total(f) == MapThenSumSet(LAMBDA x : f[x], DOMAIN f)

Nameless(S) == {t \in S : Data[t].name = None}

\* A month's spending is the same number wherever it is shown, and splits over its days,
\* over its categories and what has none, over its merchants and what names nobody (which
\* services/dashboard.py:319 leaves out of the list), and over commitments and the rest
\* (services/dashboard.py:186, mcp/capabilities.py:28).
OverviewAgrees(m, o, trend, listed) ==
  /\ LET told  == CategorySpending(o)
         filed == [c \in DOMAIN told.categories |-> told.categories[c].total]
     IN  told.total = Total(filed) + SumOf(Under(Spent(m, m), None))
  /\ FinancialSummary(o).net = trend[2].net
  /\ o.spent = Total(o.daily)
  /\ o.spent = Total(o.merchants) + SumOf(Nameless(Spent(m, m)))
  /\ o.spent = o.consumer + o.commitments
  /\ o.recorded >= o.debits + o.excluded
  /\ <<trend[2].month, trend[2].spent, trend[2].income>> = <<m, o.spent, o.income>>
  /\ trend[1].spent = o.previous
  /\ \A c \in Categories :
       listed[c].total = IF c \in DOMAIN o.breakdown THEN o.breakdown[c].total ELSE 0

MonthAgrees(m) == OverviewAgrees(m, Overview(m), FinancialTrends(m, 2), ByCategory(m))

\* A category's deep dive agrees with the overview; its trend and its table add up to its
\* spending but for rows that stray from its subcategories, and so do its merchants, which
\* the agent is told (the table it is not: see SubcategoriesTold); the period it is
\* compared with is the same range one earlier (analytics/common.py:22, :115).
DeepDiveAgrees(c, m, range, d, p, strays) ==
  /\ d.current = SumOf(Under(Spent(m, m), c))
  /\ d.spent = Total(d.trend) + strays
  /\ d.spent = Total([s \in DOMAIN d.table |-> d.table[s].spent]) + strays
  /\ LET told == CategoryDeepDive(d) IN told.spent = Total(told.merchants)
  /\ d.spent <= d.living
  /\ range # "ytd" =>
       LET q == Period(range, p.comparedTo)
       IN  d.compared = SumOf(SpentOn(c, q.start, q.end))
  /\ p.buckets[p.count] = m /\ Shifted(p.comparedFrom, p.count) = p.start

CategoryAgrees(c, m) ==
  \A range \in RangesAsked :
    LET p == Period(range, m)
    IN  DeepDiveAgrees(c, m, range, DeepDive(c, range, m), p, SumOf(Strays(c, p.start, p.end)))

\* The totals of spending are the same in the dashboard, the trends, the categories and
\* the deep dive, whichever filter they were written with, and the agent is told those
\* totals (services/dashboard.py:186, mcp/service.py:175, :238, :311); of subscriptions and
\* bills it is told what the list of them shows (mcp/service.py:566); what a merchant's
\* history adds up is among what the list of merchants adds up. Of a category's
\* subcategories the agent is not told the totals: SubcategoriesTold.
ReportsAgree ==
  /\ \A m \in ReportedOn : MonthAgrees(m)
  /\ \A m \in ReportedOn, c \in Categories : CategoryAgrees(c, m)
  /\ \A n \in Name : MerchantHistory(n, 24) \subseteq OnMerchant(n)
  /\ DuesAgree

\* The documentation's: what the agent's tools return is authoritative (mcp/server.py:72),
\* a category's deep dive with its subcategories among it
\* (docs/HERMES_INTEGRATION_GUIDE.md:190). It does not hold, and no run asks for it: the code
\* reports 0 for each (mcp/service.py:281), so the first purchase under one refutes it.
SubcategoriesTold ==
  \A m \in ReportedOn, c \in Categories, range \in RangesAsked :
    LET d    == DeepDive(c, range, m)
        told == CategoryDeepDive(d)
    IN  \A s \in DOMAIN d.table : told.table[s] = d.table[s].spent

\* Every credit of income is counted in exactly one month, a salary across the turn of
\* the year too, and the agent's sums are the dashboard's
\* (services/dashboard.py:98, mcp/service.py:634).
IncomeOnce ==
  /\ \A t \in Present :
       tx[t].type = "income" /\ ~tx[t].duplicate =>
         \E m \in {Shifted(MonthOf(t), d) : d \in 0..1} :
           /\ t \in IncomeRows(m)
           /\ \A d \in -2..2 : t \in IncomeRows(Shifted(m, d)) => d = 0
  /\ LET told  == IncomeAndSalary(3)
         trend == IncomeTrend(3)
         flow  == CashFlowTrends(3)
     IN  \A i \in 1..3 : told[i].total = trend[i].income /\ told[i].total = flow[i].income
=============================================================================
