CONSTANTS
  a = a
  b = b
  c = c
  NoItem = NoItem
  Items = {a, b, c}
  Writers = {w1, w2}
  Readers = {r1, r2}
  Tuners = {}
  Closers = {closer}
  Watchers = {}
  Limits = {0, 1}
  NDEBUG = TRUE
  MayThrow = FALSE
  Weight <- BufferSizes
  Word <- FourBits
SPECIFICATION BatchSpec
INVARIANT SizeCounts
