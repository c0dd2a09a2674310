CONSTANT Bodies <- MCBodies
SPECIFICATION Spec
INVARIANT NoFlowMissed
INVARIANT ReportsAreTied
INVARIANT PathWhereThereIsOne
PROPERTY RunEnds
CHECK_DEADLOCK FALSE
