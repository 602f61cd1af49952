CONSTANTS
  zc = zc
  zr = zr
  Node = {zc, zr}
  PanOf <- MCPan
  ChanOf <- MCChan
  DepthOf <- MCDepth
  LqiOf <- MCLqi
  Offer <- MCOffer
  Roles = {"coordinator", "router", "rxOn", "sleepy"}
  GoodLqi = 100
  ScanAttempts = 2
  RetryLimit = 1
  InsecureJoin = TRUE
  MaxEvents = 1
  NoPan = "noPan"
  NoNode = "noNode"
SPECIFICATION Spec
INVARIANTS StateSound StartupReported
PROPERTY AskedOnce
CHECK_DEADLOCK FALSE
