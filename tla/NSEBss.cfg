\* BSS side: one NS-VC for signalling and data, one for data only (IP weights).
CONSTANTS
    v1 = v1
    v2 = v2
    Vcs = {v1, v2}
    SgsnVcs = {}
    SigVcs = {v1}
    DataVcs = {v1, v2}
    PeerOf <- NoPeers
    FreePdus = {"RESET", "RESET_ACK", "RESET_OTHER", "BLOCK", "BLOCK_ACK", "BLOCK_OTHER", "UNBLOCK", "UNBLOCK_ACK", "ALIVE", "ALIVE_ACK", "UD_SIG", "UD_USER", "STATUS", "OTHER"}
    MaxUp = 2
    MaxAir = 0
    UserRequests = {"DISABLE", "ENABLE", "UD_SIG"}
    MaxRequests = 1
SPECIFICATION Spec
INVARIANTS
    ListsMatchTable
    TableCatchesUp
    Supervised
    UserKnowsFirst
    ToldUserKnowsLast
PROPERTIES
    ToldResetNotAbandoned
CHECK_DEADLOCK FALSE
