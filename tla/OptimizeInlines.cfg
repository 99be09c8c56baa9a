CONSTANTS
  p1 = p1
  p2 = p2
  p3 = p3
  b1 = b1
  b2 = b2
  b3 = b3
  w1 = w1
  Parsers = {p1, p2, p3}
  Blocks = {b1, b2, b3}
  Wrappers = {}
  NoBlock = NoBlock
  Undefined = Undefined
  Names <- LinkingNames
  UserNames = {"f"}
  Numbers = {1}
  UserNumbers = {}
  Literal = 1
  RawFuncs = {"F"}
  Inputs <- LinkingInputs
  DeducedTexts = {}
  EndOfText = "end"
  Delimiters = {}
  NoDelimiter = "none"
  MaxFuncs = 1
  MaxLinks = 1
SPECIFICATION Spec
SYMMETRY Symmetric
PROPERTY OptimizeKeepsMeaning
