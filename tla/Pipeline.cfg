CONSTANTS
  a = a
  b = b
  c = c
  d = d
  w1 = w1
  w2 = w2
  Main = main
  NoItem = NoItem
  Items = {a, b, c, d}
  Writers = {w1, w2}
  Readers = {r1, r2}
  Tuners = {}
  Closers = {main}
  Watchers = {}
  Limits = {0, 1, 2}
  NDEBUG = FALSE
  MayThrow = FALSE
  Share <- TwoEach
SPECIFICATION PipelineSpec
CHECK_DEADLOCK FALSE
INVARIANT PushersInOrder
INVARIANT NothingMissing
PROPERTY Joins
