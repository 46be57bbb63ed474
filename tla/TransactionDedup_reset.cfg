SPECIFICATION Spec
CONSTANTS
    t1 = t1
    t2 = t2
    t3 = t3
    Txn = {t1, t2, t3}
    Day = {0, 1}
    Key <- MCKey
    TextLength = 2
    Brand = {}
    PrefixLength = 2
    MatchDays = 1
    Report <- MCReport
    Categorised = {t1}
    MaxClock = 2
    Syncer = {s1}
    Reviewer = {r1}
    NoRow = NoRow
    NoTxn = NoTxn
SYMMETRY Reviews
PROPERTY RemoveRestoresProviderCategory
