CONSTANTS
  p1 = p1
  p2 = p2
  p3 = p3
  b1 = b1
  b2 = b2
  b3 = b3
  w1 = w1
  Parsers = {p1, p2, p3}
  Blocks = {b1, b2, b3}
  Wrappers = {w1}
  NoBlock = NoBlock
  Undefined = Undefined
  Names <- SharingNames
  UserNames = {"f"}
  Numbers = {1}
  UserNumbers = {1}
  Literal = 1
  RawFuncs = {}
  Inputs <- SharingInputs
  DeducedTexts = {}
  EndOfText = "end"
  Delimiters = {}
  NoDelimiter = "none"
  MaxFuncs = 1
  MaxLinks = 0
SPECIFICATION Spec
SYMMETRY Symmetric
INVARIANTS
  RefCountsExact
  WrapperCountsExact
PROPERTIES
  CopiesAreValues
  WrapperDeletedWithLastHolder
