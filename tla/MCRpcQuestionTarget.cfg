SPECIFICATION Spec
CONSTANTS
  Calls = {c1, c2}
  nil = nil
  Pipeliner = c1
  MaxID = 1
  SendMayFail = FALSE
  AllocMayFail = FALSE
  Kinds <- EachItsKinds
INVARIANT PipelineReachesTarget
CHECK_DEADLOCK FALSE
