-------------------------------- MODULE Server --------------------------------
(***************************************************************************)
(* server/server.go: a locally implemented interface.  Calls wait in       *)
(* callQueue, an mpsc queue (module Mpsc shows that it is a Fifo), for the *)
(* goroutine that runs handleCalls.  A method that calls Call.Go hands the *)
(* queue to a new goroutine and retires its own.                           *)
(***************************************************************************)
EXTENDS Naturals, Sequences, FiniteSets

CONSTANT Calls

ASSUME CallsAssumption == IsFiniteSet(Calls)

VARIABLES call,      \* how far each call is
          acked,     \* Call.acked
          order,     \* the calls in the order in which start queued them
          callQueue, \* Server.callQueue
          closed,    \* ... and whether it is closed
          wg,        \* Server.wg
          pulling,   \* goroutines of handleCalls waiting in callQueue.Recv
          waiting,   \* goroutines of handleCalls waiting in wg.Wait
          shutdowns  \* times Shutdowner.Shutdown has been called

vars == <<call, acked, order, callQueue, closed, wg, pulling, waiting, shutdowns>>

Begun(c) == call[c] \in {"method", "fulfill", "return", "release", "done"}

\* New starts the first handleCalls.
Init ==
  /\ call = [c \in Calls |-> "none"]
  /\ acked = [c \in Calls |-> FALSE]
  /\ order = <<>> /\ callQueue = <<>>
  /\ closed = FALSE
  /\ wg = 0
  /\ pulling = 1 /\ waiting = 0 /\ shutdowns = 0

Step(c, from, to) == call[c] = from /\ call' = [call EXCEPT ![c] = to]

\* Send and Recv: a method the server does not have, or arguments that cannot be
\* placed, end the call in the caller's goroutine; others go to start.
Refuse(c) ==
  /\ Step(c, "none", "refused")
  /\ ~closed
  /\ UNCHANGED <<acked, order, callQueue, closed, wg, pulling, waiting, shutdowns>>

\* start: wg.Add, then callQueue.Send.
start(c) ==
  /\ Step(c, "none", "counted")
  /\ ~closed
  /\ wg' = wg + 1
  /\ UNCHANGED <<acked, order, callQueue, closed, pulling, waiting, shutdowns>>

Enqueue(c) ==
  /\ Step(c, "counted", "queued")
  /\ callQueue' = Append(callQueue, c)
  /\ order' = Append(order, c)
  /\ UNCHANGED <<acked, closed, wg, pulling, waiting, shutdowns>>

\* Server.Shutdown: ClientHook forbids calls during and after it.
Shutdown ==
  /\ ~closed
  /\ \A c \in Calls : call[c] # "counted"
  /\ closed' = TRUE
  /\ UNCHANGED <<call, acked, order, callQueue, wg, pulling, waiting, shutdowns>>

\* Variant: the latest call is taken first.
handleCallsLatest ==
  /\ pulling > 0
  /\ callQueue # <<>>
  /\ Step(callQueue[Len(callQueue)], "queued", "method")
  /\ callQueue' = SubSeq(callQueue, 1, Len(callQueue) - 1)
  /\ pulling' = pulling - 1
  /\ UNCHANGED <<acked, order, closed, wg, waiting, shutdowns>>

\* handleCalls: take a call and run its method ...
handleCalls ==
  /\ pulling > 0
  /\ callQueue # <<>>
  /\ Step(Head(callQueue), "queued", "method")
  /\ callQueue' = Tail(callQueue)
  /\ pulling' = pulling - 1
  /\ UNCHANGED <<acked, order, closed, wg, waiting, shutdowns>>

\* ... or find the queue closed, wait for the calls under way and shut down.  The
\* server has a Shutdowner: without one the goroutine just ends here.
handleClosed ==
  /\ pulling > 0
  /\ callQueue = <<>> /\ closed
  /\ pulling' = pulling - 1
  /\ waiting' = waiting + 1
  /\ UNCHANGED <<call, acked, order, callQueue, closed, wg, shutdowns>>

\* Variant: handleCalls does not wait for the calls that have called Go.
WaitShutdownAtOnce ==
  /\ waiting > 0
  /\ waiting' = waiting - 1
  /\ shutdowns' = shutdowns + 1
  /\ UNCHANGED <<call, acked, order, callQueue, closed, wg, pulling>>

WaitShutdown ==
  /\ waiting > 0
  /\ wg = 0
  /\ waiting' = waiting - 1
  /\ shutdowns' = shutdowns + 1
  /\ UNCHANGED <<call, acked, order, callQueue, closed, wg, pulling>>

\* Call.Go, called by the method; a second one does nothing.
Go(c) ==
  /\ call[c] = "method"
  /\ ~acked[c]
  /\ acked' = [acked EXCEPT ![c] = TRUE]
  /\ pulling' = pulling + 1
  /\ UNCHANGED <<call, order, callQueue, closed, wg, waiting, shutdowns>>

\* handleCall after the method returns: ReleaseArgs and PrepareReturn, ...
MethodReturns(c) ==
  /\ Step(c, "method", "fulfill")
  /\ UNCHANGED <<acked, order, callQueue, closed, wg, pulling, waiting, shutdowns>>

\* ... Fulfill or Reject the AnswerQueue, ...
Fulfill(c) ==
  /\ Step(c, "fulfill", "return")
  /\ UNCHANGED <<acked, order, callQueue, closed, wg, pulling, waiting, shutdowns>>

\* ... Return and ReleaseResults ...
Return(c) ==
  /\ Step(c, "return", "release")
  /\ UNCHANGED <<acked, order, callQueue, closed, wg, pulling, waiting, shutdowns>>

\* Variants: the goroutine of a call that has called Go does not retire, or the
\* one of a call that has not does.
DoneKeepsPulling(c) ==
  /\ Step(c, "release", "done")
  /\ wg' = wg - 1
  /\ pulling' = pulling + 1
  /\ UNCHANGED <<acked, order, callQueue, closed, waiting, shutdowns>>

DoneRetires(c) ==
  /\ Step(c, "release", "done")
  /\ wg' = wg - 1
  /\ UNCHANGED <<acked, order, callQueue, closed, pulling, waiting, shutdowns>>

DoneUncounted(c) ==
  /\ Step(c, "release", "done")
  /\ pulling' = IF acked[c] THEN pulling ELSE pulling + 1
  /\ UNCHANGED <<acked, order, callQueue, closed, wg, waiting, shutdowns>>

\* ... and wg.Done; then handleCalls goes round again, or retires after a Go.
Done(c) ==
  /\ Step(c, "release", "done")
  /\ wg' = wg - 1
  /\ pulling' = IF acked[c] THEN pulling ELSE pulling + 1
  /\ UNCHANGED <<acked, order, callQueue, closed, waiting, shutdowns>>

Next ==
  \/ \E c \in Calls : \/ Refuse(c) \/ start(c) \/ Enqueue(c) \/ Go(c)
                      \/ MethodReturns(c) \/ Fulfill(c) \/ Return(c) \/ Done(c)
  \/ Shutdown \/ handleCalls \/ handleClosed \/ WaitShutdown

Spec == Init /\ [][Next]_vars

\* Goroutines are scheduled; methods return; nobody has to call Go or Shutdown.
Fairness == /\ WF_vars(handleCalls) /\ WF_vars(handleClosed) /\ WF_vars(WaitShutdown)
            /\ \A c \in Calls : WF_vars(Enqueue(c) \/ Fulfill(c) \/ Return(c) \/ Done(c))

\* A method may block for ever if it has called Go, not otherwise.
MethodsUnblock == \A c \in Calls : WF_vars(~acked[c] /\ (Go(c) \/ MethodReturns(c)))
FairSpec == Spec /\ Fairness /\ MethodsUnblock

-----------------------------------------------------------------------------
(* Properties.                                                             *)

CallState == {"none", "refused", "counted", "queued", "method", "fulfill", "return", "release",
              "done"}

\* Type invariant.
TypeOK ==
  /\ call \in [Calls -> CallState]
  /\ acked \in [Calls -> BOOLEAN]
  /\ order \in Seq(Calls) /\ callQueue \in Seq(Calls)
  /\ closed \in BOOLEAN
  /\ wg \in Nat /\ pulling \in Nat /\ waiting \in Nat /\ shutdowns \in Nat

\* "There is never more than one goroutine pulling things from the queue" (doc
\* of Call.Go): the queue has a single consumer, as mpsc requires, whatever
\* methods call Go and however their ends interleave.
OneReceiver == pulling + waiting <= 1

\* "The server guarantees message delivery order by blocking each call on the
\* return of the previous call or a call to Call.Go" (doc of New).
InOrder ==
  \A j, k \in 1..Len(order) :
     j < k /\ Begun(order[k]) => acked[order[j]] \/ call[order[j]] = "done"

\* "Shutdown arranges for Shutdown to be called on the Shutdowner after
\* outstanding all calls have been serviced": once, and after the wg.Done of every
\* call that start accepted, those that called Go included.
ShutdownLast ==
  shutdowns > 0 => shutdowns = 1 /\ \A c \in Calls : call[c] \in {"none", "refused", "done"}

\* A queued call is served although earlier methods may block for ever after Go.
QueuedCallBegins == \A c \in Calls : (call[c] = "queued") ~> Begun(c)

\* After Server.Shutdown the Shutdowner is called if every method returns.
ShutdownHappens == (\A c \in Calls : []<>(call[c] # "method")) => (closed ~> (shutdowns = 1))
===============================================================================
