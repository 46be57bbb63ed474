SPECIFICATION LinkedSpec
CONSTANTS
    i1 = i1
    i2 = i2
    t1 = t1
    t2 = t2
    s1 = s1
    Item = {i1}
    Teller = {i1}
    ConnId = {c1, c2}
    AcctId = {a1, a2, a3}
    Txn = {t1, t2}
    TxnItem <- OneItemTxnItem
    TxnDate <- OneItemTxnDate
    Session = {s1}
    Syncer = {p1, p2}
    Linker = {}
    Remover = {}
    Droppable = {p1, p2}
    MaxDay = 2
    PostingLag = 1
    SafetyMarginDays = 1
    DefaultFirstSyncDays = 2
    MaxLookback = 2
    NoRow = NoRow
    NoAcct = NoAcct
    NoItem = NoItem
SYMMETRY Uuids
INVARIANTS TypeOK NoSilentGap
