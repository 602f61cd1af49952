SPECIFICATION LiveSpec
CONSTANTS
  Bufs = {b1, b2}
  Sizes = {1, 3}
  MaxRetries = 2
  MaxRequests = 2
  RepeatedAcks = FALSE
  NoBuf = NoBuf
CHECK_DEADLOCK FALSE
INVARIANTS TableSound OkMeansDelivered
PROPERTIES RequestConfirmed
