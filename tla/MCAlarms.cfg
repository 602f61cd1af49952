SPECIFICATION TmLiveSpec
CONSTANTS
  Funcs = {f1}
  Params = {p1, p2}
  AnyParam = AnyParam
  AllCb = AllCb
  TmSize = 3
  TimeMod = 16
  Delays = {0, 1, 3}
  DefaultTimeout = 2
  Overshoot = 1
INVARIANTS QueueSound InTime
PROPERTY AlarmCalled
