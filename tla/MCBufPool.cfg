SPECIFICATION LiveSpec
CONSTANTS
  Bufs = {b1, b2, b3}
  CbQSize = 2
  BufQSize = 1
  Requests = {r1}
  Other = Other
  Parse = Parse
  NoBuf = NoBuf
INVARIANTS PoolSound OutWaitsOnlyIfExhausted InWaitHasWaker
PROPERTY OutRequestServed
