CONSTANTS
  p1 = p1
  p2 = p2
  p3 = p3
  b1 = b1
  b2 = b2
  b3 = b3
  w1 = w1
  Parsers = {p1, p2}
  Blocks = {b1, b2}
  Wrappers = {}
  NoBlock = NoBlock
  Undefined = Undefined
  Names <- LinkingNames
  UserNames = {"f"}
  Numbers = {1}
  UserNumbers = {}
  Literal = 1
  RawFuncs = {"F", "G"}
  Inputs <- LinkingInputs
  DeducedTexts = {}
  EndOfText = "end"
  Delimiters = {}
  NoDelimiter = "none"
  MaxFuncs = 2
  MaxLinks = 1
SPECIFICATION Spec
SYMMETRY Symmetric
PROPERTIES
  TableCallsKeepMeaning
  OptimizeKeepsPureMeaning
