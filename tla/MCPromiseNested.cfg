SPECIFICATION PromiseSpec
CONSTANTS
  Callers = {g1, g2}
  MaxCalls = 3
  MaxClient = 1
  MayReject = TRUE
  Nested = TRUE
INVARIANTS OnTarget
CHECK_DEADLOCK FALSE
