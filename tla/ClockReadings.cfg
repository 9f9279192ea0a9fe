CONSTANTS
  Threads = {t1, t2}
  None = None
  kNanosInSecond = 4
  kNanosInMicro = 2
  Word = 4096
  RealTimes = {0, 5}
  MaxTime = 5
  MaxCalls = 2
SPECIFICATION Spec
SYMMETRY ThreadSymmetry
CHECK_DEADLOCK FALSE
INVARIANT Monotonic
INVARIANT TracksRealTime
INVARIANT SteadyMeasures
