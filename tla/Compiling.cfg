SPECIFICATION Spec
CONSTANTS
  Grammars <- MCGrammars
  Points <- MCPoints
INVARIANTS
  TypeOK
  AcceptsGrammar
  LocatesError
  KeepsValues
  KeepsDefined
  StackSuffices
  EndsEven
  ReadsInside
CHECK_DEADLOCK FALSE
