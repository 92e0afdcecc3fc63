\* Three components at the mutex, one of which may repeat its last unlock; two
\* ConnHdlrs with two PFCP sessions each.
CONSTANTS
    c1 = c1
    c2 = c2
    c3 = c3
    assoc = assoc
    NoOne = NoOne
    NoSeid = NoSeid
    Clients = {c1, c2, c3}
    Careless = {c1}
    MaxRounds = 2
    Users = {c2, c3}
    Associator = assoc
    ConnHdlrs = {c2, c3, assoc}
    NumErabs = 2
    MaxHeartbeats = 1
    MaxRetransmissions = 1
    RepeatsEstablishment = FALSE
    FirstSeqnr = 10000
    LastSeqnr = 16777215
    SEID0 = SEID0
SPECIFICATION MCSpec
INVARIANTS
    MutualExclusion
PROPERTIES
    DisciplineSuffices
    LockReturns
    EachToItsOwn
    SessionsComplete
