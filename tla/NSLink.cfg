\* A BSS and an SGSN side; any three PDUs of the reset and unblock procedures are lost.
CONSTANTS
    bss = bss
    sgsn = sgsn
    Bss = bss
    Sgsn = sgsn
    Vcs = {bss, sgsn}
    SgsnVcs = {sgsn}
    SigVcs = {bss, sgsn}
    DataVcs = {bss, sgsn}
    PeerOf <- BackToBack
    FreePdus = {}
    MaxUp = 2
    MaxAir = 8
    Lossy = {"RESET", "RESET_ACK", "UNBLOCK", "UNBLOCK_ACK"}
    MaxLosses = 3
SPECIFICATION FairSpec
INVARIANTS
    UnblockedTogether
PROPERTIES
    Converges
