\* Two transceivers; h1 and h2 use one channel, one after the other; a link may
\* be lost at any time.
CONSTANTS
    h1 = h1
    h2 = h2
    h3 = h3
    r0 = r0
    c1 = c1
    c2 = c2
    t1 = t1
    t2 = t2
    k1 = k1
    k2 = k2
    None = None
    BtsRole = FALSE
    Hdlrs = {h1, h2, h3}
    Trxs = {t1, t2}
    Lchans = {c1, c2}
    TrxOf <- TrxOfLchan
    Ras = {h1, h2, h3, r0}
    Conns = {k1, k2}
    Slots = 3
    ChanOf <- ChannelOf
    RaOf <- OwnRa
    Callers = {h1}
    ConnOf <- OwnConn
    Prompt = TRUE
    MayLose = TRUE
    MaxData = 1
SPECIFICATION FairSpec
INVARIANTS
    NeverFails
    MapFollowsLinks
    RoutedToUser
    RachConfirmed
PROPERTIES
    ComesUp
CHECK_DEADLOCK FALSE
