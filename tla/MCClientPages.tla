---------------------------- MODULE MCClientPages ---------------------------
(* The pages of the client and what they compute, one at a time: "screen"    *)
(* says which of them is being used, the others stand still.                 *)
EXTENDS PageFetches, BudgetCrud, BudgetModal, CategoryEdits, ManualAccounts,
        SpendingMath, ChargeForecast, TLC

CONSTANTS a1, a2, n1, n2, i1, i2, c1, c2, m1, m2

VARIABLE screen
restVars == <<serverVars, pageVars, modalOwn>>
fixVars == <<mathVars, forecastVars>>
screensVars == <<screen, pagesVars, restVars, editVars, manualAccountsVars, fixVars>>

(* Pages.  Each account has a bank of its own; no two values of a kind are   *)
(* alike to one page only, so that one permutation may exchange them all.    *)
TwoBanks == (a1 :> n1) @@ (a2 :> n2)
Exchange == [v \in {a1, a2, n1, n2, i1, i2, c1, c2} |->
               CASE v = a1 -> a2 [] v = a2 -> a1 [] v = n1 -> n2 [] v = n2 -> n1
                 [] v = i1 -> i2 [] v = i2 -> i1 [] v = c1 -> c2 [] v = c2 -> c1]
Alike == {Exchange} \cup Permutations({m1, m2})

FirstLabelled == [t \in Rows |-> IF t = 1 THEN "k1" ELSE "k2"]
DollarAndEuro == [c \in Currencies |-> IF c = "USD" THEN 1 ELSE 2]
(* Bound: the forms of one kind of manual account are used at a time.        *)
OneKind == \E k \in ManualKinds :
              /\ manualForm[k] = EmptyForm /\ editing[k] = NoAccount
              /\ \A e \in saves : e.kind = k => e.op = "page"

(* SpendingMath: transactions that meet each rule, two at a time, and the    *)
(* flows of a month at, under and over the limits of the diagram.            *)
TwoMajors == ("Toys" :> "Childcare") @@ ("Books" :> "Childcare") @@ ("Paycheck" :> "Earned Income")
KidsAreChildcare == "Kids" :> "Childcare"
LegoIsChildcare == "Lego" :> "Childcare"
Transaction(primary, detailed, amount, date, credit, teller, pending) ==
    [primary |-> primary, detailed |-> detailed, amount |-> amount, date |-> date,
     credit |-> credit, teller |-> teller, pending |-> pending]
Few == {Transaction("Childcare", "Toys", a[1], a[2], FALSE, FALSE, FALSE)
        : a \in {<<2, 8>>, <<7, 9>>, <<2, 10>>}} \cup
       {Transaction("Kids", "none", 2, 11, FALSE, FALSE, FALSE),
        Transaction("Kids", "none", -1, 8, TRUE, FALSE, FALSE),
        Transaction("Childcare", "none", 4, 12, TRUE, TRUE, FALSE),
        Transaction("Transfer", "Toys", 4, 12, FALSE, FALSE, FALSE),
        Transaction("Childcare", "Lego", 2, 7, FALSE, FALSE, FALSE),
        Transaction("Other", "none", 2, 6, FALSE, FALSE, FALSE),
        Transaction("Toys", "none", 2, 9, FALSE, FALSE, FALSE),
        Transaction("Childcare", "Books", -4, 12, TRUE, TRUE, FALSE)}
Flow(a, b, c, d, p) ==
    {Transaction("Childcare", "Toys", a, 9, FALSE, FALSE, FALSE),
     Transaction("Childcare", "Books", b, 9, FALSE, FALSE, FALSE),
     Transaction("Childcare", "Lego", b, 9, FALSE, FALSE, FALSE),
     Transaction("Childcare", "none", c, 9, FALSE, FALSE, FALSE),
     Transaction("Earned Income", "Paycheck", d, 9, FALSE, FALSE, FALSE),
     Transaction("Earned Income", "none", d, 9, FALSE, FALSE, FALSE),
     Transaction("Other", "none", 3, 9, FALSE, FALSE, p)}
SomeTransactions ==
    kSubset(1, Few) \cup kSubset(2, Few) \cup
    {Flow(a, b, c, d, p) : a \in {1, 40}, b \in {1, 2, 30}, c \in {1, 50}, d \in {0, -5, -200, 8}, p \in BOOLEAN}
Plan(category, frequency, rollover, year, month) ==
    [category |-> category, amount |-> 3, frequency |-> frequency, rollover |-> rollover,
     startYear |-> year, startMonth |-> month]
SomeBudgets ==
    {{Plan("Childcare", "monthly", FALSE, 1, 0)}, {Plan("Toys", "monthly", FALSE, 1, 0)},
     {Plan("Toys", "monthly", TRUE, 0, 1)}, {Plan("Childcare", "monthly", TRUE, 1, 1)},
     {Plan("Childcare", "quarterly", TRUE, 1, 0), Plan("Toys", "monthly", TRUE, 1, 1)},
     {Plan("Books", "annual", FALSE, 1, 0), Plan("Toys", "semi_annual", TRUE, 1, 0)},
     {Plan("Lego", "monthly", FALSE, 1, 0), Plan("Childcare", "monthly", FALSE, 1, 0)}}

(* ChargeForecast: rhythms that hold, falter and end, about a February.      *)
ThreeCadences == {[cadence |-> "weekly", days |-> 7], [cadence |-> "biweekly", days |-> 14],
                  [cadence |-> "monthly", days |-> 30]}
SevenMonths == <<31, 28, 31, 30, 31, 30, 31>>
Charge(id, merchant, date, amount) ==
    [id |-> id, merchant |-> merchant, account |-> "a", date |-> date, amount |-> amount]
Rhythm(merchant, dates, amounts) == {Charge(i, merchant, dates[i], amounts[i]) : i \in DOMAIN dates}
SomeCharges ==
    {Rhythm("m", <<d, d + i, d + i + j>>, <<10, 10, b>>) \cup Rhythm("n", <<e[1], e[1] + i>>, <<e[2], e[2]>>)
     : d \in {0, 2}, i \in {7, 14, 28, 30, 31}, j \in {0, 6, 7, 14, 30}, b \in {10, 11, 40, -3},
       e \in {<<0, 3>>, <<3, 4>>}} \cup
    {Rhythm("m", <<0, i, 2 * i, 2 * i + j, 3 * i + j>>, <<b, 10, 10, 10, 10>>)
     : i \in {7, 14}, j \in {0, 6, 7}, b \in {10, 40}} \cup
    {UNION {Rhythm(m, <<2, 9, 16>>, <<b, b, b>>) : m \in {"m", "n", "o"}} : b \in {3, 4}}

PagesAside == PagesInit /\ hook = "line" /\ held = {} /\ period = "p1"
ServerAside == stored = {} /\ cache = NoList /\ made = 0 /\ calls = {}
DialogAside == ModalParts /\ behind = (screen = "budgets")
(* Bound: no override, or one of the first transaction.                      *)
SomeOverride == EditsInit /\ override[1] \in {Unlabelled, "k2"} /\ override[2] = Unlabelled
EditsAside == EditsInit /\ override = [t \in Rows |-> Unlabelled]
ManualAside == ManualInit /\ kept = {}
RateKnown == currency = "USD" /\ rateOf = "USD" /\ rateLoading = FALSE /\ rateError = FALSE
             /\ rateRequests = {} /\ refreshes = MaxRefreshes /\ overtaken = FALSE
FixAside == transactions = {} /\ allBudgets = {} /\ chosenPeriod = [year |-> 0, month |-> 0]
            /\ chosenCategory = NoName /\ charges = {} /\ chargeMonth = AllMonths

ScreensInit ==
    \/ screen = "fetches" /\ PagesInit /\ ServerAside /\ CrudParts /\ DialogAside /\ EditsAside
       /\ ManualAside /\ RateKnown /\ FixAside
    \/ screen = "budgets" /\ CrudInit /\ DialogAside /\ PagesAside /\ EditsAside
       /\ ManualAside /\ RateKnown /\ FixAside
    \/ screen = "dialog" /\ ModalInit /\ CrudParts /\ PagesAside /\ EditsAside
       /\ ManualAside /\ RateKnown /\ FixAside
    \/ screen = "edits" /\ SomeOverride /\ PagesAside /\ ServerAside /\ CrudParts /\ DialogAside
       /\ ManualAside /\ RateKnown /\ FixAside
    \/ screen = "manual" /\ ManualInit /\ RateKnown /\ PagesAside /\ ServerAside /\ CrudParts
       /\ DialogAside /\ EditsAside /\ FixAside
    \/ screen = "currency" /\ CurrencyInit /\ ManualAside /\ PagesAside /\ ServerAside /\ CrudParts
       /\ DialogAside /\ EditsAside /\ FixAside
    \/ screen = "cards" /\ MathInit /\ charges = {} /\ chargeMonth = AllMonths /\ PagesAside /\ ServerAside
       /\ CrudParts /\ DialogAside /\ EditsAside /\ ManualAside /\ RateKnown
    \/ screen = "charges" /\ ForecastInit /\ transactions = {} /\ allBudgets = {}
       /\ chosenPeriod = [year |-> 0, month |-> 0] /\ chosenCategory = NoName /\ PagesAside /\ ServerAside
       /\ CrudParts /\ DialogAside /\ EditsAside /\ ManualAside /\ RateKnown
On(s) == screen = s /\ UNCHANGED screen
ScreensNext ==
    \/ On("fetches") /\ PagesNext /\ UNCHANGED <<restVars, editVars, manualAccountsVars, fixVars>>
    \/ On("budgets") /\ CrudNext /\ UNCHANGED <<pagesVars, modalOwn, editVars, manualAccountsVars, fixVars>>
    \/ On("dialog") /\ ModalNext /\ UNCHANGED <<pagesVars, pageVars, editVars, manualAccountsVars, fixVars>>
    \/ On("edits") /\ EditsNext /\ UNCHANGED <<pagesVars, restVars, manualAccountsVars, fixVars>>
    \/ On("manual") /\ ManualNext /\ UNCHANGED <<pagesVars, restVars, editVars, fixVars>>
    \/ On("currency") /\ CurrencyNext /\ UNCHANGED <<pagesVars, restVars, editVars, manualVars, fixVars>>
    \/ On("cards") /\ MathNext /\ UNCHANGED <<pagesVars, restVars, editVars, manualAccountsVars, forecastVars>>
    \/ On("charges") /\ ShowMonth /\ UNCHANGED <<pagesVars, restVars, editVars, manualAccountsVars, mathVars>>
ScreensSpec == ScreensInit /\ [][ScreensNext]_screensVars
=============================================================================
