CONSTANTS
  p1 = p1
  p2 = p2
  p3 = p3
  b1 = b1
  b2 = b2
  b3 = b3
  w1 = w1
  Parsers = {p1}
  Blocks = {b1}
  Wrappers = {}
  NoBlock = NoBlock
  Undefined = Undefined
  Names <- NamingNames
  UserNames = {"x", "y"}
  Numbers = {1}
  UserNumbers = {1}
  Literal = 1
  RawFuncs = {"F"}
  Inputs <- NamingInputs
  DeducedTexts <- NamingTexts
  EndOfText = "end"
  Delimiters = {"}"}
  NoDelimiter = "none"
  MaxFuncs = 2
  MaxLinks = 0
SPECIFICATION Spec
INVARIANTS
  TypeOK
  VariablesPointIntoString
  StackSized
  DeducesVariables
