SPECIFICATION FairSpec
CONSTANTS
  Device = {"zc", "zr", "ze"}
  TC = "zc"
  Parent <- MCParent
  EndDevices = {"ze"}
  NKeys = 3
  KeyNumMod = 256
  NewerWindow = 127
  MaxCounter = 100
  DupClock = 3
  Mixes <- MCMixes
INVARIANTS KeysSound  HandledOnce
PROPERTY AuthEnds
CHECK_DEADLOCK FALSE
