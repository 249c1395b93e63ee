CONSTANTS
  Producers = {p1, p2}
  MaxSends = 1
  itemsBuffer = 1
  nil = nil
SPECIFICATION FairSpec
PROPERTY RecvAfterClose
CHECK_DEADLOCK FALSE
