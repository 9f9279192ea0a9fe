CONSTANTS
  NoItem = NoItem
  Items = {a, b}
  Writers = {w}
  Readers = {r1, r2}
  Tuners = {}
  Closers = {closer}
  Watchers = {}
  Limits = {0, 1}
  NDEBUG = TRUE
  MayThrow = TRUE
SPECIFICATION FairSpec
CHECK_DEADLOCK FALSE
PROPERTY BlocksUntilData
