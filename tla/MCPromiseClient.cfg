SPECIFICATION PromiseSpec
CONSTANTS
  Callers = {g1, g2}
  MaxCalls = 3
  MaxClient = 2
  MayReject = TRUE
  Nested = FALSE
INVARIANTS Unlocked
CHECK_DEADLOCK FALSE
