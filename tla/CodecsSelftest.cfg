CONSTANTS
  Messages <- MCSelftest
  MaxFlips = 0
  Junk <- MCJunk
SPECIFICATION Spec
INVARIANT ReEncodesEqual
CHECK_DEADLOCK FALSE
