--------------------------------- MODULE Fifo ---------------------------------
(***************************************************************************)
(* What exp/spsc and exp/mpsc promise: an unbounded queue that delivers    *)
(* each message once, in the order in which the sends took effect, and     *)
(* reports EOF only after Close and after the last message.                *)
(***************************************************************************)
EXTENDS Sequences

CONSTANT Msgs

VARIABLES queue, closed, received, eof

vars == <<queue, closed, received, eof>>

Init == queue = <<>> /\ closed = FALSE /\ received = <<>> /\ eof = FALSE

Send(m) == ~closed /\ queue' = Append(queue, m) /\ UNCHANGED <<closed, received, eof>>

Recv ==
  /\ queue # <<>>
  /\ queue' = Tail(queue)
  /\ received' = Append(received, Head(queue))
  /\ UNCHANGED <<closed, eof>>

Close == ~closed /\ closed' = TRUE /\ UNCHANGED <<queue, received, eof>>

ReportEOF == closed /\ queue = <<>> /\ eof' = TRUE /\ UNCHANGED <<queue, closed, received>>

Next == (\E m \in Msgs : Send(m)) \/ Recv \/ Close \/ ReportEOF

Spec == Init /\ [][Next]_vars
===============================================================================
