CONSTANTS
  Invalid = Invalid
  Spaces <- WhiteSpace
  Digit <- DigitValues
  Minus = 45
  Plus = 43
  Nul = 0
  Colon = 58
  IntLimit = 8
  LongLimit = 32
  Default = 5
  MaxLength = 2
  Texts <- AllTexts
  SignedChar = FALSE
  Datas <- SomeDatas
  HexTexts <- SomeHexTexts
  EnvTexts <- SomeEnvTexts
  Slices <- SomeSlices
  Targets <- SomeTargets
  Positions = {0, 1, 2, 3, 4, 5}
  Sizes <- SomeSizes
  Triples <- SomeTriples
  Dates <- SomeDates
  Vectors <- SomeVectors
  Strings <- SomeStrings
SPECIFICATION Spec
CHECK_DEADLOCK FALSE
INVARIANT FindsLikeStrings
