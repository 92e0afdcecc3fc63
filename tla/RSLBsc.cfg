CONSTANTS
    h1 = h1
    h2 = h2
    c1 = c1
    c2 = c2
    c3 = c3
    k1 = k1
    trx0 = trx0
    None = None
    BtsRole = TRUE
    Hdlrs = {h1, h2}
    Trxs = {trx0}
    Lchans = {c1, c2, c3}
    TrxOf <- OneTrx
    Ras = {h1, h2}
    Conns = {k1}
    Slots = 3
    RaOf <- OwnRa
    Testcases <- MCTestcases
SPECIFICATION FairSpec
INVARIANTS
    CalmNeverFails
    CalmRoutedToUser
    OwnActivation
    NoneStranded
PROPERTIES
    ProceduresComplete
CHECK_DEADLOCK FALSE
