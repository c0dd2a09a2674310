CONSTANTS
  NoCfg = NoCfg
  Programs <- AllPrograms
SPECIFICATION Spec
INVARIANT GraphIsFlow
INVARIANT BackEdgesComeFromInside
INVARIANT EveryStatementLeadsOn
CHECK_DEADLOCK FALSE
