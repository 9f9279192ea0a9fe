CONSTANTS
  NoItem = NoItem
  Items = {a, b, c}
  Writers = {w1, w2}
  Readers = {r1, r2}
  Tuners = {tuner}
  Closers = {closer}
  Watchers = {watcher}
  Limits = {0, 1, 2}
  NDEBUG = TRUE
  MayThrow = FALSE
SPECIFICATION Spec
SYMMETRY Interchangeable
INVARIANT TypeOK
INVARIANT FifoDelivery
INVARIANT PushVerdict
INVARIANT NothingStranded
INVARIANT ReaderWakeups
INVARIANT WriterWakeups
INVARIANT WatcherWakeups
PROPERTY NeverGrowsWhenFull
