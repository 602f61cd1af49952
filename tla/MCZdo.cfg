SPECIFICATION Spec
CONSTANTS
  SrcSize = 2
  DstSize = 3
  GroupSize = 1
  EpsInGroup = 1
  MaxClusterList = 15
  MaxEp = 2
  Garbage = {1, 2, 9}
  Own = "me"
  NbtSize = 3
  AddrsInResp = 2
  RecordsInResp = 1
  Wrap = 8
  TableSize = 2
  TsnMod = 16
  PendSize = 2
  NBuf = 3
  Mixes <- MCMixes
  PeerTsn = {1}
  Durations <- MCDurations
  ScanCounts = {0, 2, 6}
  BindReqs <- MCBindReqs
  EdBindReqs <- MCEdBindReqs
  DiscReqs <- MCDiscReqs
  Annces <- MCAnnces
  InitNbt <- MCNbt
  MyDescs <- MCDescs
INVARIANTS TablesSound RightCallback EdBindComplete PermitTimed
CHECK_DEADLOCK FALSE
