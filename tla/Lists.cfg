CONSTANTS
  Invalid = Invalid
  Spaces <- AllBlanks
  Blanks <- AllBlanks
  Digit <- DigitValues
  Minus = "-"
  Plus = "+"
  Nul = "nul"
  IntLimit = 7
  LongLimit = 32
  Options <- SomeOptions
  Characters = {"0", "2", "-", "*", ",", " ", "tab"}
  MaxLength = 5
  Texts <- AllTexts
SPECIFICATION Spec
CHECK_DEADLOCK FALSE
INVARIANT ReturnsWhatIsMeant
INVARIANT AcceptsLists
INVARIANT RoundsBounded
