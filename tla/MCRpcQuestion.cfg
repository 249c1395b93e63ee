SPECIFICATION FairSpec
CONSTANTS
  Calls = {c1, c2}
  nil = nil
  Pipeliner = c1
  MaxID = 1
  SendMayFail = TRUE
  AllocMayFail = TRUE
  Kinds <- EachItsKinds
INVARIANTS TypeOK NoProtocolError ResolvedOnce ResultIsOwn ReturnerFindsAnswer ResultCapsReleasedOnce
PROPERTIES ImplementsContract EveryCallEnds
CHECK_DEADLOCK FALSE
