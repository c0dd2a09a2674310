CONSTANTS
  NoValue = NoValue
  Classes <- AllClasses
SPECIFICATION Spec
INVARIANT FlowKept
INVARIANT RangesCaught
INVARIANT OwnValuesRead
CHECK_DEADLOCK FALSE
