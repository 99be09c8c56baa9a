SPECIFICATION Spec
CONSTANTS
  Grammars <- MCGrammars
  Points <- MCPoints
  MaxOptimize = 2
INVARIANTS
  TypeOK
  NoScaledPower
  RangesHold
  TreeKeepsValues
  SynthesisKeepsValues
  RecordsTrue
  StackReported
  GrammarsProgress
CHECK_DEADLOCK FALSE
