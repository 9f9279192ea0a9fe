CONSTANTS
  v1 = v1
  v2 = v2
  x = x
  y = y
  Vectors = {v1, v2}
  Tmp = tmp
  N <- FarN
  Heap = {h1, h2, h3}
  Values = {x, y}
  Zero = x
  Raw = Raw
  Moved = Moved
  Types <- ThrowingTypes
  Lists <- SomeLists
  MaxLen = 2
SPECIFICATION Spec
INVARIANT TypeOK
INVARIANT Ownership
INVARIANT Lifetimes
PROPERTY ImplementsContract
