SPECIFICATION Spec
CONSTANTS
    i1 = i1
    i2 = i2
    t1 = t1
    t2 = t2
    s1 = s1
    Item = {i1}
    Teller = {}
    ConnId = {c1, c2}
    AcctId = {a1, a2}
    Txn = {t1}
    TxnItem <- OneItemTxnItem
    TxnDate <- OneItemTxnDate
    Session = {s1, s2}
    Syncer = {p1}
    Linker = {l1}
    Remover = {r1}
    Droppable = {p1}
    MaxDay = 0
    PostingLag = 1
    SafetyMarginDays = 1
    DefaultFirstSyncDays = 2
    MaxLookback = 2
    NoRow = NoRow
    NoAcct = NoAcct
    NoItem = NoItem
SYMMETRY Uuids
INVARIANTS TokensDeletedOnDisconnect
