SPECIFICATION Spec
CONSTANTS
  Grammars <- NegatedTerms
  Points <- MCPoints
INVARIANT EveryRuleKeepsValues
CHECK_DEADLOCK FALSE
