SPECIFICATION Spec
CONSTANTS
  Grammars <- ZeroProducts
  Points <- MCPoints
INVARIANT EveryRuleKeepsDefined
CHECK_DEADLOCK FALSE
