CONSTANTS
  Calls = {c1, c2, c3}
  MaxCalls = 3
  Producers = {p1, p2}
  Callers = {g1, g2}
  nil = nil
SPECIFICATION MCSpec
INVARIANTS
  OneReceiver InOrder ShutdownLast EOrderButLate ReleasedOnce
PROPERTIES
  QueuedCallBegins ShutdownHappens IsFifo OperationsReturn
  EveryCallAnswered EveryCallArrives CallerFinishes SenderServed
CHECK_DEADLOCK FALSE
