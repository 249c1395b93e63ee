SPECIFICATION EmbargoSpec
CONSTANTS
  MaxCalls = 3
INVARIANTS EOrder
CHECK_DEADLOCK FALSE
