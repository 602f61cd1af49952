CONSTANTS
  NBuf = 3
  Peer = {p1}
  NSlots = 1
  Roles = {"parent", "child"}
  MaxOnAir = 2
  MaxBeacons = 1
  MaxReceived = 1
SPECIFICATION Spec
INVARIANTS SlotsSound InOrder
PROPERTY PollConfirmed
CHECK_DEADLOCK FALSE
