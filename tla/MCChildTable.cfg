CONSTANTS
  Dev = {d1, d2}
  NRef = 3
  Size = 4
  MaxChildren = 2
  MaxRouters = 1
  MaxDepth = 3
  Depth = 1
  OwnAddr = 0
  LockLimit = 5
  Caps = {"router", "sleepy"}
  ByteLimit = 256
  EntBytes = 10
  ExtBytes = 14
  Heard = {900}
  RejoinTableSize = 1
  MaxFlying = 2
  MaxScans = 1
SPECIFICATION Spec
INVARIANTS TablesSound AddressesDistinct 
SYMMETRY DevSymmetry
CHECK_DEADLOCK FALSE
