CONSTANTS
  a = a
  b = b
  Objects = {a, b}
  Nodes <- Addresses
  NoNode = NoNode
  tmp = tmp
  holder = holder
  mul = mul
  func = func
  p2 = p2
  Opcodes = {"cSin", "cMul"}
  LeafData <- Variable
  MaxNodes = 3
  MaxParams = 2
  SharedProducts = TRUE
SPECIFICATION Spec
VIEW View
PROPERTIES
  TreesIndependent
