CONSTANTS
  a = a
  b = b
  c = c
  Methods <- ThreeMethods
  Programs <- AllPrograms
  Rounds = 3
  MaxCallSite = 2
SPECIFICATION Spec
INVARIANT StackIsCallChain
INVARIANT RecursionBounded
INVARIANT WalkedPathsKept
PROPERTY SummaryThereWhenApplied
PROPERTY RunEnds
CHECK_DEADLOCK FALSE
