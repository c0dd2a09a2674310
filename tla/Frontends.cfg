SPECIFICATION Spec
CONSTANTS
  MaxIterations = 2
  Units <- AllUnits
CHECK_DEADLOCK FALSE
INVARIANT EveryFunctionHasItsMethod
INVARIANT EveryRunIsAPath
INVARIANT NoOtherStep
INVARIANT TemporariesWritten
