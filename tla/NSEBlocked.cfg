\* BSS side; the far ends may block.
CONSTANTS
    v1 = v1
    v2 = v2
    Vcs = {v1, v2}
    SgsnVcs = {}
    SigVcs = {v1}
    DataVcs = {v1, v2}
    PeerOf <- NoPeers
    FreePdus = {"RESET_ACK", "UNBLOCK_ACK", "ALIVE_ACK", "BLOCK"}
    MaxUp = 2
    MaxAir = 0
    UserRequests = {"UD_SIG"}
    MaxRequests = 1
SPECIFICATION Spec
INVARIANTS
    UserKnowsLast
CHECK_DEADLOCK FALSE
