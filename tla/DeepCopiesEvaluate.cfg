CONSTANTS
  t1 = t1
  t2 = t2
  f1 = f1
  f2 = f2
  g1 = g1
  g2 = g2
  Threads = {t1, t2}
  Parsers = {f1, f2, g1, g2}
  Arguments = {0, 1, 2}
  StackSize = 4
  MaxDepth = 2
  NoParser = NoParser
  Nothing = Nothing
  Code <- CodeOneCallee
  Settings <- DeepCopies
SPECIFICATION Spec
INVARIANT EvaluatesAlone
