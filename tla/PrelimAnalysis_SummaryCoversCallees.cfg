CONSTANTS
  a = a
  b = b
  c = c
  d = d
  Methods <- AllMethods
  Programs <- OnlySiblings
  Rounds = 2
SPECIFICATION Spec
CHECK_DEADLOCK FALSE
INVARIANT SummaryCoversCallees
