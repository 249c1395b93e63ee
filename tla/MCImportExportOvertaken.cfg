CONSTANTS
  Caps = {a, b}
  Clients = {h1, h2}
  MaxID = 1
  MaxRefs = 2
  MaxQueue = 2
  nil = nil
  SendMayFail = FALSE
SPECIFICATION Spec
SYMMETRY Symmetry
INVARIANT LiveKeepsEntry
CHECK_DEADLOCK FALSE
