SPECIFICATION Spec
CONSTANTS
  Projects <- Undeclared
CHECK_DEADLOCK FALSE
INVARIANT OneIdForAVariable
