CONSTANTS
  Caps = {a, b}
  Clients = {h1, h2}
  MaxID = 1
  MaxRefs = 2
  MaxQueue = 2
  nil = nil
  SendMayFail = TRUE
  Plain = {1}
  Stream = {2, 3}
  Sizes <- MCSizes
  Limit = 2
  WordBits = 3
  MaxUint = 7
  Refs = {c1, c2, c3}
  Snapshots = {s1}
  Callers = {g1, g2}
  MaxCalls = 3
  MaxClient = 2
  MayReject = TRUE
  Nested = TRUE
  Messages = {1, 2, 3, 4}
  MessageSize <- MCMessageSize
  PlateauRounds = 2
  ProbeCap = 1
  Unlimited = 9
SPECIFICATION MCSpec
SYMMETRY Symmetry
INVARIANTS
  RefsBalance LiveImportUsable UseReachesExport
  ShutDownWhenUnreferenced CallsGoToTarget ReservedUntilAnswered WaitsOnlyForAnswers WaitSeesFailure
  InOrder InflightIsOutstanding
PROPERTY PoolSpec
CHECK_DEADLOCK FALSE
