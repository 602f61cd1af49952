SPECIFICATION Spec
CONSTANTS
  Devices <- MCDevices
  Hash <- MCHash
  MaxShort = 3
  TableSize = 3
  ManufSize = 2
  LockMod = 2
  ZeroId = "zero"
  NoManuf = "none"
INVARIANTS TableSound OneEntryPerDevice
PROPERTY LockedStays
