---------------------------- MODULE SpendingMath ----------------------------
(* What the pages compute from the transactions they hold: what counts as    *)
(* spending, the budgets with their rollover (BudgetCalculator), the budget  *)
(* card of TransactionsPage, and the cash-flow diagram (SankeyCalculator).   *)
(* Amounts are whole cents.  Names are written as formatCategoryName writes  *)
(* them, and compare equal when they do so ignoring case.  A year has        *)
(* MonthsPerYear months of DaysPerMonth days.                                *)
EXTENDS Integers, FiniteSets, FiniteSetsExt

CONSTANTS
    Majors, SubOf,      \* CATEGORIES_TAXONOMY: the majors, and each subcategory's major
    AliasOf,            \* the names with a major of their own, such as Food And Drink
    Generic,            \* Other, Uncategorized, Unknown, General Merchandise
    ExcludedKeys,       \* the names listed as no spending
    UserCategories,     \* the user's subcategories, each with its parent
    NoName,
    MonthsPerYear, DaysPerMonth, Years,
    MinorAmount, MinorShare,    \* groupMinorSubcategories: 30 and one in 20
    Pool, BudgetSets    \* bounds: the sets of transactions and of budgets to choose from

Excluding == {"Transfer", "Tax Refund", "Earned Income"}
ASSUME MathAssumption ==
    /\ {"Shopping"} \cup Excluding \subseteq Majors /\ "Other" \in Generic
    /\ MonthsPerYear \in Nat \ {0} /\ DaysPerMonth \in Nat \ {0, 1} /\ Years \subseteq Int
ASSUME TaxonomyAssumption ==
    /\ \A c \in DOMAIN SubOf : SubOf[c] \in Majors
    /\ \A c \in DOMAIN AliasOf : AliasOf[c] \in Majors
ASSUME PoolAssumption ==
    /\ \A T \in Pool : IsFiniteSet(T) /\ \A t \in T : t.amount \in Int /\ t.date \in Int
    /\ \A B \in BudgetSets : \A b \in B : b.amount \in Int /\ b.startMonth \in 0 .. MonthsPerYear - 1

VARIABLES transactions, allBudgets, chosenPeriod, chosenCategory
mathVars == <<transactions, allBudgets, chosenPeriod, chosenCategory>>

FullYear == -1
NoUsers == [c \in {} |-> NoName]
Friendly(c) == IF c \in Generic \cup {NoName} THEN "Shopping" ELSE c

(* The major category of a name; the user's own are known to some callers.   *)
resolveMajorCategory(c, users) ==
    IF c \in Generic \cup {NoName} THEN "Shopping"
    ELSE IF c \in DOMAIN AliasOf THEN AliasOf[c]
    ELSE IF c \in Majors THEN c
    ELSE IF c \in DOMAIN users THEN users[c]
    ELSE IF c \in DOMAIN SubOf THEN SubOf[c]
    ELSE c
Major(c) == resolveMajorCategory(c, NoUsers)
isSpendingExcluded(c) == c # NoName /\ (Major(c) \in Excluding \/ c \in ExcludedKeys)

(* Providers disagree on the sign of a card's amounts.  Money that comes in  *)
(* is no spending, but on a card it is a refund.                             *)
getDisplayAmount(t) == IF t.teller /\ t.credit THEN t.amount ELSE -t.amount
Excluded(t) == isSpendingExcluded(t.primary) \/ isSpendingExcluded(t.detailed)
getNetSpendingAmount(t) ==
    IF Excluded(t) \/ (~t.credit /\ getDisplayAmount(t) >= 0) THEN 0 ELSE -getDisplayAmount(t)
isSpendingTransaction(t) == getDisplayAmount(t) < 0 /\ ~Excluded(t)
Total(T) == MapThenSumSet(getNetSpendingAmount, T)

(* calculateSpent: the transactions of a budget's category.                  *)
SameName(a, b) == a = b \/ Friendly(a) = Friendly(b)
CountsFor(t, cat, sub) ==
    /\ ~isSpendingExcluded(t.primary)
    /\ IF sub # NoName
       THEN t.detailed = sub /\ (SameName(t.primary, cat) \/ Major(t.primary) = Major(cat))
       ELSE \/ t.detailed # NoName /\ SameName(t.detailed, cat)
            \/ SameName(t.primary, cat)
            \/ Major(cat) = cat /\ Major(t.primary) = cat
calculateSpent(T, cat, from, to, sub) ==
    Total({t \in T : CountsFor(t, cat, sub) /\ from <= t.date /\ t.date <= to})

Date(y, m, d) == (y * MonthsPerYear + m) * DaysPerMonth + d
FirstDay(p) == Date(p.year, IF p.month = FullYear THEN 0 ELSE p.month, 1)
\* Mutant: the day before the last.
LastDayEarly(p) == Date(p.year, IF p.month = FullYear THEN MonthsPerYear - 1 ELSE p.month, DaysPerMonth - 1)
LastDay(p) == Date(p.year, IF p.month = FullYear THEN MonthsPerYear - 1 ELSE p.month, DaysPerMonth)
NewYear(p) == Date(p.year, 0, 1)

(* computeRolloverBudget: what earlier months of the year left over is added *)
(* to the month, but never taken from it.                                    *)
PeriodMultiplier(frequency, p) ==
    CASE frequency = "quarterly"   -> IF p.month = FullYear THEN 4 ELSE 3
      [] frequency = "semi_annual" -> IF p.month = FullYear THEN 2 ELSE 6
      [] frequency = "annual"      -> IF p.month = FullYear THEN 1 ELSE MonthsPerYear
      [] OTHER                     -> IF p.month = FullYear THEN MonthsPerYear ELSE 1
FirstPrior(b, p) == IF p.year > b.startYear THEN 0 ELSE b.startMonth
PriorMonths(b, p) ==
    IF p.month = FullYear \/ p.year < b.startYear \/ p.month <= FirstPrior(b, p) THEN 0
    ELSE p.month - FirstPrior(b, p)
\* Mutant: the month itself counts as earlier.
PriorSpentSoFar(b, T, p, sub) ==
    IF PriorMonths(b, p) = 0 THEN 0
    ELSE calculateSpent(T, b.category, Date(p.year, FirstPrior(b, p), 1),
                        Date(p.year, p.month, DaysPerMonth), sub)
PriorSpent(b, T, p, sub) ==
    IF PriorMonths(b, p) = 0 THEN 0
    ELSE calculateSpent(T, b.category, Date(p.year, FirstPrior(b, p), 1),
                        Date(p.year, p.month - 1, DaysPerMonth), sub)
computeRolloverBudget(b, T, p, sub) ==
    LET monthSpent == calculateSpent(T, b.category, FirstDay(p), LastDay(p), sub)
        prior == PriorMonths(b, p) * b.amount - PriorSpent(b, T, p, sub)
        carryover == IF b.rollover /\ PriorMonths(b, p) > 0 /\ prior > 0 THEN prior ELSE 0
        own == IF p.month = FullYear THEN b.amount * PeriodMultiplier(b.frequency, p) ELSE b.amount
    IN [available |-> own + carryover, priorCarryover |-> carryover, monthSpent |-> monthSpent,
        ytdSpent |-> calculateSpent(T, b.category, NewYear(p), LastDay(p), sub),
        remaining |-> own + carryover - monthSpent, rollover |-> b.rollover]

(* computeCompositeMajorBudget: a major's own budget with those of its       *)
(* subcategories, against all that was spent in it.                          *)
computeCompositeMajorBudget(major, direct, subs, T, p) ==
    LET parts == {<<b, NoName>> : b \in direct} \cup {<<b, b.category>> : b \in subs}
        Result(x) == computeRolloverBudget(x[1], T, p, x[2])
        available == MapThenSumSet(LAMBDA x : Result(x).available, parts)
        monthSpent == calculateSpent(T, major, FirstDay(p), LastDay(p), NoName)
    IN [available |-> available, monthSpent |-> monthSpent, remaining |-> available - monthSpent,
        totalPriorCarryover |-> MapThenSumSet(LAMBDA x : Result(x).priorCarryover, parts)]
-----------------------------------------------------------------------------
(* The budget card of TransactionsPage: of the subcategory that is selected, *)
(* of the major with its parts, or of all budgets.                           *)
BudgetOf(name) == {b \in allBudgets : b.category = name}
PartsOf(major) ==
    {b \in allBudgets : b.category # major /\ resolveMajorCategory(b.category, UserCategories) = major}
totalBudgeted ==
    MapThenSumSet(LAMBDA b : b.amount * (IF chosenPeriod.month = FullYear
                                         THEN PeriodMultiplier(b.frequency, chosenPeriod) ELSE 1), allBudgets)
\* Mutant: spending that no budget is for.
totalSpentAnywhere ==
    Total({t \in transactions :
             /\ ~isSpendingExcluded(t.primary)
             /\ FirstDay(chosenPeriod) <= t.date /\ t.date <= LastDay(chosenPeriod)})
totalBudgetSpent ==
    Total({t \in transactions :
             /\ ~isSpendingExcluded(t.primary) /\ FirstDay(chosenPeriod) <= t.date /\ t.date <= LastDay(chosenPeriod)
             /\ \E b \in allBudgets :
                   calculateSpent({t}, b.category, FirstDay(chosenPeriod), LastDay(chosenPeriod), NoName) # 0})
Card(value, spent) == [value |-> value, left |-> value - spent]
NoCard == [value |-> -1, left |-> 0]
SubcategoryCard(sub) ==
    IF BudgetOf(sub) = {} THEN NoCard
    ELSE LET b == CHOOSE b \in BudgetOf(sub) : TRUE
             r == computeRolloverBudget(b, transactions, chosenPeriod, sub)
         IN IF b.rollover THEN Card(r.available, r.monthSpent)
            ELSE Card(b.amount, calculateSpent(transactions, sub, FirstDay(chosenPeriod),
                                               LastDay(chosenPeriod), sub))
MajorCard(major) ==
    IF BudgetOf(major) \cup PartsOf(major) = {} THEN NoCard
    ELSE LET r == computeCompositeMajorBudget(major, BudgetOf(major), PartsOf(major), transactions, chosenPeriod)
         IN Card(r.available, r.monthSpent)
TotalCard == IF allBudgets = {} THEN NoCard ELSE Card(totalBudgeted, totalBudgetSpent)
budgetCardData ==
    IF chosenCategory = NoName THEN TotalCard
    ELSE IF chosenCategory \in Majors THEN MajorCard(chosenCategory) ELSE SubcategoryCard(chosenCategory)
-----------------------------------------------------------------------------
(* computeSankeyData: what came in, and what was spent by major category and *)
(* subcategory, neither pending nor moved between the user's own accounts.   *)
Flowing(T) == {t \in T : ~t.pending /\ Major(t.primary) # "Transfer"}
Income(t) ==
    /\ t.amount # 0
    /\ \/ Major(t.primary) \in {"Earned Income", "Tax Refund"}
       \/ ~t.credit /\ getDisplayAmount(t) > 0 /\ ~isSpendingTransaction(t)
InflowAmount(t) == IF t.amount < 0 THEN -t.amount ELSE t.amount
SourceOf(t) == Friendly(IF t.detailed \in {NoName} \cup Generic THEN t.primary ELSE t.detailed)
Inflows(T) == {t \in Flowing(T) : Income(t)}
Outflows(T) == {t \in Flowing(T) \ Inflows(T) : isSpendingTransaction(t) /\ getNetSpendingAmount(t) > 0}
SubOfOutflow(t) ==
    LET raw == IF t.detailed = NoName THEN t.primary ELSE t.detailed
    IN Friendly(IF raw \in Generic THEN Major(t.primary) ELSE raw)
totalInflow(T) == MapThenSumSet(InflowAmount, Inflows(T))
totalOutflow(T) == Total(Outflows(T))

(* The small subcategories of a category become one, when there are two.     *)
\* Mutant: the small ones are dropped.
dropMinorSubcategories(subs, total) ==
    LET minor == {s \in DOMAIN subs : subs[s] < MinorAmount /\ MinorShare * subs[s] < total}
    IN IF Cardinality(DOMAIN subs) <= 3 \/ Cardinality(minor) < 2 THEN subs
       ELSE [s \in DOMAIN subs \ minor |-> subs[s]]
groupMinorSubcategories(subs, total) ==
    LET minor == {s \in DOMAIN subs : subs[s] < MinorAmount /\ MinorShare * subs[s] < total}
        names == (DOMAIN subs \ minor) \cup {"Other"}
    IN IF Cardinality(DOMAIN subs) <= 3 \/ Cardinality(minor) < 2 THEN subs
       ELSE [s \in names |-> IF s = "Other" THEN MapThenSumSet(LAMBDA m : subs[m], minor) ELSE subs[s]]

(* The links: sources, or savings, into the hub; the hub into the categories *)
(* and into savings; the categories into their subcategories.                *)
Hub == <<"hub">>
Link(from, to, value) == [from |-> from, to |-> to, value |-> value]
CategoryLinks(T) ==
    UNION {LET mine == {t \in Outflows(T) : Major(t.primary) = cat}
               names == {SubOfOutflow(t) : t \in mine}
               subs == [s \in names |-> Total({t \in mine : SubOfOutflow(t) = s})]
               grouped == groupMinorSubcategories(subs, Total(mine))
           IN {Link(Hub, <<"cat", cat>>, Total(mine))} \cup
              {Link(<<"cat", cat>>, <<"sub", cat, s>>, grouped[s]) : s \in DOMAIN grouped}
           : cat \in {Major(t.primary) : t \in Outflows(T)}}
BalanceLinks(T) ==
    LET netSavings == totalInflow(T) - totalOutflow(T)
    IN CASE netSavings < 0 -> {Link(<<"from savings">>, Hub, -netSavings)}
         [] netSavings > 0 -> {Link(Hub, <<"net savings">>, netSavings)}
         [] OTHER          -> {}
SourceLinks(T) ==
    {Link(<<"in", s>>, Hub, MapThenSumSet(InflowAmount, {t \in Inflows(T) : SourceOf(t) = s}))
     : s \in {SourceOf(t) : t \in Inflows(T)}}
computeSankeyData(T) ==
    IF totalInflow(T) > 0 THEN SourceLinks(T) \cup BalanceLinks(T) \cup CategoryLinks(T)
    ELSE CategoryLinks(T)
-----------------------------------------------------------------------------
MathPeriods == [year : Years, month : 0 .. MonthsPerYear - 1] \cup [year : Years, month : {FullYear}]
Selectable == {NoName} \cup {b.category : b \in UNION BudgetSets}
MathInit ==
    /\ transactions \in Pool /\ allBudgets \in BudgetSets /\ chosenPeriod \in MathPeriods /\ chosenCategory = NoName
SelectPeriod ==
    /\ \E p \in MathPeriods : p # chosenPeriod /\ chosenPeriod' = p
    /\ UNCHANGED <<transactions, allBudgets, chosenCategory>>
SelectBudgetCategory ==
    /\ \E c \in Selectable : c # chosenCategory /\ chosenCategory' = c
    /\ UNCHANGED <<transactions, allBudgets, chosenPeriod>>
MathNext == SelectPeriod \/ SelectBudgetCategory
MathSpec == MathInit /\ [][MathNext]_mathVars

Months(p) == {[year |-> p.year, month |-> m] : m \in 0 .. MonthsPerYear - 1}
MonthSpent(b, m) == computeRolloverBudget(b, transactions, m, NoName).monthSpent

(* The months of a year split its spending: no day is lost or counted twice  *)
(* at their ends, and the year to date is what its months have spent.        *)
MonthsAddUp ==
    \A b \in allBudgets :
       /\ chosenPeriod.month = FullYear =>
             MonthSpent(b, chosenPeriod) = MapThenSumSet(LAMBDA m : MonthSpent(b, m), Months(chosenPeriod))
       /\ chosenPeriod.month # FullYear =>
             computeRolloverBudget(b, transactions, chosenPeriod, NoName).ytdSpent
             = MapThenSumSet(LAMBDA m : MonthSpent(b, m), {m \in Months(chosenPeriod) : m.month <= chosenPeriod.month})

(* Against an account kept month by month, which forgives a month's excess:  *)
(* the carryover is never more, and the same unless some month ran over.     *)
CarriedOver(b, p) ==
    LET first == FirstPrior(b, p)
        Left(c, m) == c + b.amount - MonthSpent(b, [year |-> p.year, month |-> m])
        carry[m \in first .. p.month] ==
           IF m = first THEN 0 ELSE IF Left(carry[m - 1], m - 1) > 0 THEN Left(carry[m - 1], m - 1) ELSE 0
    IN [carry |-> carry[p.month], over |-> \E m \in first .. p.month - 1 : Left(carry[m], m) < 0]
CarryoverIsCautious ==
    \A b \in allBudgets :
       b.rollover /\ PriorMonths(b, chosenPeriod) > 0 =>
          LET carried == computeRolloverBudget(b, transactions, chosenPeriod, NoName).priorCarryover
              account == CarriedOver(b, chosenPeriod)
          IN carried <= account.carry /\ (~account.over => carried = account.carry)

(* A transaction bears the name of a subcategory only as its own, under the  *)
(* major of both.                                                            *)
Filed(t, sub) ==
    \/ isSpendingExcluded(t.primary)
    \/ SameName(t.primary, sub) \/ (t.detailed # NoName /\ SameName(t.detailed, sub))
       => t.detailed = sub /\ Major(t.primary) = Major(sub)

(* With one budget, of a major or of a subcategory under which transactions  *)
(* are filed, the card of its category and the card of all budgets leave the *)
(* same for the month.                                                       *)
CardsAgree ==
    \A b \in allBudgets :
       /\ allBudgets = {b} /\ chosenCategory = b.category /\ chosenPeriod.month # FullYear /\ ~b.rollover
       /\ \/ b.category \in Majors
          \/ b.category \in DOMAIN SubOf /\ \A t \in transactions : Filed(t, b.category)
       => budgetCardData = TotalCard

(* The diagram balances: what enters the hub leaves it, and each category's  *)
(* share is that of its subcategories, also when small ones are grouped and  *)
(* whether income, spending or neither is the larger.                        *)
LinkSum(links) == MapThenSumSet(LAMBDA l : l.value, links)
SankeyBalances ==
    LET links == computeSankeyData(transactions)
    IN /\ totalInflow(transactions) > 0 =>
             LinkSum({l \in links : l.to = Hub}) = LinkSum({l \in links : l.from = Hub})
       /\ \A l \in links : l.from = Hub /\ l.to # <<"net savings">> =>
             l.value = LinkSum({m \in links : m.from = l.to})
=============================================================================
