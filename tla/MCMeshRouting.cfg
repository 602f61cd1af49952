SPECIFICATION LiveSpec
CONSTANTS
  Free = Free
  Far = Far
  Mid = Mid
  Left = Left
  Right = Right
  Dest = Dest
  Routers = {Far, Mid, Left, Right}
  Neighbors <- MCNeighbors
  Lqi <- MCLqi
  StaticCost = 7
  MaxCost = 255
  MaxRadius = 3
  DiscExpiry = 0
  PendExpiry = 0
  MaxRreq = 1
  Cases <- MCCases
INVARIANTS TablesSound PacketOnce
PROPERTY PacketLeaves
