CONSTANTS
  a = a
  b = b
  zero = zero
  log2 = log2
  log2inv = log2inv
  epsilon = epsilon
  Objects = {a, b}
  Constants = {zero, log2, log2inv, epsilon}
  Temporary = Temporary
  Items <- Numbered
  NoItem = NoItem
  NoObject = NoObject
  Blank = 0
  ReuseItems = FALSE
  Zero = zero
  Log2 = log2
  Log2Inv = log2inv
  Epsilon = epsilon
  ExactLog2 <- Three
  Reciprocal <- SevenMinus
  ExactEpsilon <- EpsilonOf
  Precisions <- OneOrTwo
  InitialBits = 1
  Longs <- Numbers
  Operations = {"sub"}
  Kept <- SomeNumbers
SPECIFICATION Spec
VIEW View
SYMMETRY Symmetric
INVARIANTS
  ConstantsIntact
PROPERTIES
  ObjectsAreIndependent
  PrecisionKeepsNumbers
