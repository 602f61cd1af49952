SPECIFICATION FairSpec
CONSTANTS
  Byte = 256
  Leftover = {0, 3}
  KnownSize = 2
  PanIds = {0, 50, 60, 88}
  NIn = 3
  NOut = 2
  BtrSize = 2
  BrrSize = 2
  WaitSize = 2
  MaxRetries = 2
  Jitter = 1
  PanDelay = 2
  ReportDelay = 1
  RetryInterval = 4
  Second = 16
  BtrSeconds = 1
  MaxQueue = 2
  Mixes <- MCMixes
INVARIANTS BuffersSound IndicatedOnce SentAsMeant BaseSound
PROPERTY BroadcastEnds
CHECK_DEADLOCK FALSE
