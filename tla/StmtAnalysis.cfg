CONSTANTS
  x = x
  y = y
  m1 = m1
  m2 = m2
  NoSymbol = NoSymbol
  Methods <- TwoMethods
  Graphs <- AllGraphs
  Modes <- AllModes
SPECIFICATION Spec
INVARIANT EveryReachableStatementAnalysed
INVARIANT NoSpuriousDefinition
INVARIANT OwnDefinitionsAvailable
INVARIANT SkippedStepWasDone
PROPERTY RunEnds
CHECK_DEADLOCK FALSE
