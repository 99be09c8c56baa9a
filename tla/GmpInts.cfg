CONSTANTS
  a = a
  b = b
  c = c
  zero = zero
  Objects = {a, b, c}
  Constants = {zero}
  Temporary = Temporary
  Items <- Numbered
  NoItem = NoItem
  NoObject = NoObject
  Blank = 0
  DefaultBits = 256
  ReuseItems = TRUE
  Zero = zero
  Longs <- Signed
  Bits = {1}
  BadText = BadText
  MaxInteger = 2
SPECIFICATION Spec
VIEW View
SYMMETRY Symmetric
INVARIANTS
  ItemsAccounted
  ZeroStaysZero
  DividesAsCxx
PROPERTIES
  ObjectsAreIndependent
