SPECIFICATION ScreensSpec
CONSTANTS
    a1 = a1
    a2 = a2
    n1 = n1
    n2 = n2
    i1 = i1
    i2 = i2
    c1 = c1
    c2 = c2
    m1 = m1
    m2 = m2
    Accounts = {a1, a2}
    Institutions = {n1, n2}
    BankOf <- TwoBanks
    MaxChanges = 2
    Hooks = {"transactions", "ytd", "budgets", "analytics", "netWorth", "overview", "charges", "sankey", "line"}
    Periods = {"p1", "p2"}
    Nothing = Nothing
    Categories = {c1, c2}
    Amounts = {m1, m2}
    MaxCalls = 3
    NoList = NoList
    NoCategory = NoCategory
    Rows = {1, 2}
    Labels = {"k1", "k2"}
    Unlabelled = Unlabelled
    Provided <- FirstLabelled
    Matched = {1, 2}
    PageSize = 1
    MaxEdits = 2
    Currencies = {"USD", "EUR"}
    MaxRefreshes = 3
    Ids = {i1, i2}
    NoAccount = NoAccount
    Balances = {1}
    UsdRate <- DollarAndEuro
    MaxSaves = 2
    Majors = {"Shopping", "Childcare", "Transfer", "Tax Refund", "Earned Income"}
    SubOf <- TwoMajors
    AliasOf <- KidsAreChildcare
    Generic = {"Other"}
    ExcludedKeys = {"Bonus"}
    UserCategories <- LegoIsChildcare
    NoName = "none"
    MonthsPerYear = 3
    DaysPerMonth = 2
    Years = {0, 1}
    MinorAmount = 30
    MinorShare = 20
    Pool <- SomeTransactions
    BudgetSets <- SomeBudgets
    Cadences <- ThreeCadences
    MonthLengths <- SevenMonths
    Unit = 4
    MaxShown = 2
    ChargePool <- SomeCharges
    ChargeMonths = {2, 3, 4}
    AllMonths = AllMonths
SYMMETRY Alike
CONSTRAINT OneKind
CHECK_DEADLOCK FALSE
INVARIANTS
    GuardedShowsWanted
    
    
    OneBudgetPerCategory
    
    EditsSettle
    PageNeverBlank
    RatesMatch
    ListsSettle
    MonthsAddUp
    CarryoverIsCautious
    
    SankeyBalances
    Foretold
PROPERTIES
    KeepsLeftOut
    LatestSpec
