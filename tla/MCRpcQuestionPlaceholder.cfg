SPECIFICATION Spec
CONSTANTS
  Calls = {c1, c2}
  nil = nil
  Pipeliner = c1
  MaxID = 1
  SendMayFail = FALSE
  AllocMayFail = TRUE
  Kinds <- EachItsKinds
INVARIANT NoNilReleaser
CHECK_DEADLOCK FALSE
