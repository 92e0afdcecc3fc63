CONSTANTS
  FirstSqns = {0, 1, 3, 6}
  MaxSqn = 12
  MaxRands = 6
  MaxRegs = 3
  Flips <- MCFlips
SPECIFICATION FairSpec
INVARIANTS
  KeysAgree
  KeysSeparated
PROPERTY RegistrationEnds
CHECK_DEADLOCK FALSE
