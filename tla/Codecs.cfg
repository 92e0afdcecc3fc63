CONSTANTS
  Messages <- MCMessages
  MaxFlips = 2
  Junk <- MCJunk
SPECIFICATION Spec
INVARIANTS
  RlcmacRoundTrip
  RlcmacReceived
  FlipsNoticed
  TlvsKept
  MnccRoundTrip
CHECK_DEADLOCK FALSE
