CONSTANTS
  a = a
  b = b
  c = c
  NoItem = NoItem
  Items = {a, b, c}
  Writers = {w1, w2}
  Readers = {r1, r2}
  Tuners = {}
  Closers = {k1, k2}
  Watchers = {}
  Limits = {0, 1}
  NDEBUG = FALSE
  MayThrow = TRUE
  Weight <- BufferSizes
  Word <- FourBits
SPECIFICATION BatchSpec
CHECK_DEADLOCK FALSE
SYMMETRY Alike
INVARIANT CountBalances
PROPERTY ImplementsContract
