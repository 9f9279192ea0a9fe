CONSTANTS
  Threads = {t1, t2}
  None = None
  kNanosInSecond = 4
  kNanosInMicro = 2
  Word = 4096
  RealTimes = {5}
  MaxTime = 3
  MaxCalls = 2
SPECIFICATION Spec
CHECK_DEADLOCK FALSE
INVARIANT SinceSteadyEpoch
