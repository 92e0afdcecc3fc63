\* One slot per IMSI and for two expects, whoever asks for them.
CONSTANTS
    h1 = h1
    h2 = h2
    i1 = i1
    i2 = i2
    Hdlrs = {h1, h2}
    Imsis = {i1, i2}
    Wild = {i1}
    ImsiSlots = 2
    ExpectSlots = 2
    NoImsi = NoImsi
    Nobody = Nobody
    MaxPdus = 2
    MaxPdusWild = 1
SPECIFICATION FairSpec
INVARIANTS
    OneEntryPerImsi
    UsedNeverFails
PROPERTIES
    Routing
    RoutedToUser
    CallReturns
CHECK_DEADLOCK FALSE
