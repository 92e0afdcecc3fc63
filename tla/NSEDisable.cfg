\* One NS-VC on the BSS side; the user sends data and then disables it.
CONSTANTS
    v1 = v1
    Vcs = {v1}
    SgsnVcs = {}
    SigVcs = {v1}
    DataVcs = {v1}
    PeerOf <- NoPeers
    FreePdus = {"RESET_ACK", "UNBLOCK_ACK", "ALIVE_ACK"}
    MaxUp = 2
    MaxAir = 0
    UserRequests = {"DISABLE", "UD_SIG"}
    MaxRequests = 2
SPECIFICATION FairSpec
PROPERTIES
    DisableTakesEffect
CHECK_DEADLOCK FALSE
