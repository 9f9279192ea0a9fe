CONSTANTS
  NoItem = NoItem
  Items = {a, b}
  Writers = {w1, w2}
  Readers = {r1, r2}
  Tuners = {op}
  Closers = {op}
  Watchers = {r1}
  Limits = {0, 1}
  NDEBUG = TRUE
  MayThrow = FALSE
SPECIFICATION FairSpec
PROPERTY ImplementsContract
PROPERTY ContractServed
PROPERTY ContractReleased
