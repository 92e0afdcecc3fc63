CONSTANTS
  Keys <- MCKeys
  PPK = PPK
  Datas = {d1, d2}
  Garbage = Garbage
  MaxMetadata = 2
  MaxProfile = 2
  MaxFaults = 1
  CertFiles <- MCCertFiles
  KeyFiles <- MCKeyFiles
  Servers <- MCServers
  Curves = {"NIST", "BRP"}
  EIDs <- MCEIDs
SPECIFICATION MCSpec
INVARIANTS
  VerifiedInOrder
  AcceptedAsSent
  OnlyRightServer
  HonestServerPasses
CHECK_DEADLOCK FALSE
