--------------------------------- MODULE Calls ---------------------------------
(***************************************************************************)
(* Client.SendCall under a fixed flow limit, and streaming calls           *)
(* (capability.go, flowcontrol/fixed.go).                                  *)
(*                                                                         *)
(* SendCall sends first and reserves the message's size with the limiter   *)
(* afterwards; the reservation is given back by a signal of the answer's   *)
(* promise, or at once when the answer is already there.  SendStreamCall   *)
(* counts a call in and leaves a goroutine to wait for its answer, record  *)
(* its error and count it out; WaitStreaming waits for the count.  The     *)
(* hook that is called and the client's references are in module Client.   *)
(***************************************************************************)
EXTENDS Integers, Sequences, FiniteSetsExt

CONSTANTS
  Plain,         \* the calls made with SendCall
  Stream,        \* the calls made with SendStreamCall
  Sizes,         \* the sizes the messages may have, each a function on the calls
  Limit          \* the size given to NewFixedLimiter

CallIds == Plain \cup Stream
None == 0        \* no error; an error is named after the call that returned it

\* Finitely many calls are made in a run, a size is a number of bytes, zero when
\* PlaceArgs was not called before Send returned, and so is the limit.
FlowAssumption == /\ IsFiniteSet(CallIds) /\ None \notin CallIds
                  /\ Sizes \subseteq [CallIds -> Nat]
                  /\ Limit \in Nat

VARIABLES
  Size,          \* call -> the size of its message
  at,            \* call -> where it is
  answer,        \* call -> the state of its answer: "open", "ok" or "failed"
  cur,           \* the semaphore's count
  owed,          \* the calls that have a reservation to give back
  signals,       \* the calls whose gotResponse is among their promise's signals
  queue,         \* the calls waiting for the semaphore, in order
  err,           \* stream.err
  group,         \* the calls counted into stream.wg
  wait           \* where WaitStreaming is, with the calls begun before it and what it returns

callsVars == <<Size, at, answer, cur, owed, signals, queue, err, group, wait>>

CallsInit ==
  /\ Size \in Sizes
  /\ at = [c \in CallIds |-> "idle"]
  /\ answer = [c \in CallIds |-> "open"]
  /\ cur = 0
  /\ owed = {}
  /\ signals = {}
  /\ queue = <<>>
  /\ err = None
  /\ group = {}
  /\ wait = [at |-> "idle", before |-> {}, got |-> None]

Dequeued(s, i) == SubSeq(s, 1, i - 1) \o SubSeq(s, i + 1, Len(s))
Move(c, where) == at' = [at EXCEPT ![c] = where]
Total(calls) == SumFunctionOnSet(Size, calls)

-------------------------------------------------------------------------------
(***************************************************************************)
(* The semaphore of the fixed limiter (golang.org/x/sync/semaphore).       *)
(***************************************************************************)
\* Grant to the waiters of q, from the head, what fits when n is in use.
Notify(n, q) ==
  LET fits == Max({i \in 0 .. Len(q) : n + Total(Range(SubSeq(q, 1, i))) <= Limit})
      granted == Range(SubSeq(q, 1, fits))
  IN  [cur |-> n + Total(granted), granted |-> granted, queue |-> SubSeq(q, fits + 1, Len(q))]

\* The state after n, owing and waiting became the count, the calls that owe and
\* the queue; moved is where the calls are but for those granted now.
Granting(n, owing, q, moved) ==
  LET r == Notify(n, q)
  IN  /\ cur' = r.cur
      /\ owed' = owing \cup r.granted
      /\ queue' = r.queue
      /\ at' = [c \in CallIds |-> IF c \in r.granted THEN "granted" ELSE moved[c]]

\* gotResponse of call c, which moves to where.
GotResponse(c, where) ==
  IF c \in owed THEN Granting(cur - Size[c], owed \ {c}, queue, [at EXCEPT ![c] = where])
  ELSE Move(c, where) /\ UNCHANGED <<cur, owed, queue>>

-------------------------------------------------------------------------------
\* SendStreamCall: refused once an error is recorded, otherwise counted in.
StreamBegin(c) ==
  /\ c \in Stream /\ at[c] = "idle"
  /\ \/ err # None /\ Move(c, "refused") /\ UNCHANGED group
     \/ err = None /\ Move(c, "begun") /\ group' = group \cup {c}
  /\ UNCHANGED <<Size, answer, cur, owed, signals, queue, err, wait>>

\* SendCall up to the check of stream.err, which gives an answer that is an error.
SendCall(c) ==
  /\ at[c] = IF c \in Stream THEN "begun" ELSE "idle"
  /\ \/ err # None /\ Move(c, "returned") /\ answer' = [answer EXCEPT ![c] = "failed"]
     \/ err = None /\ Move(c, "sending") /\ UNCHANGED answer
  /\ UNCHANGED <<Size, cur, owed, signals, queue, err, group, wait>>

\* The hook's Send returns: the message is on its way.
HookSend(c) ==
  /\ at[c] = "sending" /\ Move(c, "sent")
  /\ UNCHANGED <<Size, answer, cur, owed, signals, queue, err, group, wait>>

\* StartMessage, which panics on a message larger than the limit.  Acquire fails
\* when the context is done, takes what it needs when that is there and nobody
\* waits, and queues the call otherwise.  After a failure gotResponse does nothing.
StartMessage(c) ==
  /\ at[c] = "sent"
  /\ \/ Size[c] > Limit /\ Move(c, "panicked") /\ UNCHANGED <<cur, owed, queue>>
     \/ Size[c] <= Limit /\ Move(c, "register") /\ UNCHANGED <<cur, owed, queue>>
     \/ /\ Size[c] <= Limit
        /\ cur + Size[c] <= Limit /\ queue = <<>>
        /\ Granting(cur + Size[c], owed \cup {c}, queue, [at EXCEPT ![c] = "register"])
     \/ /\ Size[c] <= Limit
        /\ cur + Size[c] > Limit \/ queue # <<>>
        /\ Move(c, "waiting") /\ queue' = Append(queue, c)
        /\ UNCHANGED <<cur, owed>>
  /\ UNCHANGED <<Size, answer, signals, err, group, wait>>

\* Variant: the calls behind the one that gives up are not looked at.
CancelledSilently(c) ==
  /\ at[c] = "waiting"
  /\ \E k \in 1..Len(queue) : queue[k] = c /\ queue' = Dequeued(queue, k)
  /\ Move(c, "register")
  /\ UNCHANGED <<Size, answer, cur, owed, signals, err, group, wait>>

\* The context of a waiting call is cancelled.  When the call was at the head of
\* the queue and the semaphore has room, those behind it get their chance.
Cancelled(c) ==
  /\ at[c] = "waiting"
  /\ \E k \in 1..Len(queue) :
        /\ queue[k] = c
        /\ \/ /\ k = 1 /\ cur < Limit
              /\ Granting(cur, owed, Dequeued(queue, k), [at EXCEPT ![c] = "register"])
           \/ /\ k # 1 \/ cur >= Limit
              /\ queue' = Dequeued(queue, k) /\ Move(c, "register") /\ UNCHANGED <<cur, owed>>
  /\ UNCHANGED <<Size, answer, signals, err, group, wait>>

\* A call that was granted its room wakes up, and gives the room back when its
\* context is done by then.
Woken(c) ==
  /\ at[c] = "granted"
  /\ \/ Move(c, "register") /\ UNCHANGED <<cur, owed, queue>>
     \/ GotResponse(c, "register")
  /\ UNCHANGED <<Size, answer, signals, err, group, wait>>

\* Variant: an answer that is already there is not noticed.
RegisterForgets(c) ==
  /\ at[c] = "register"
  /\ signals' = IF answer[c] = "open" THEN signals \cup {c} ELSE signals
  /\ Move(c, "returned")
  /\ UNCHANGED <<Size, answer, cur, owed, queue, err, group, wait>>

\* With the promise locked: add gotResponse to the signals, unless it is resolved.
Register(c) ==
  /\ at[c] = "register"
  /\ \/ answer[c] = "open" /\ signals' = signals \cup {c} /\ Move(c, "returned")
     \/ answer[c] # "open" /\ Move(c, "respond") /\ UNCHANGED signals
  /\ UNCHANGED <<Size, answer, cur, owed, queue, err, group, wait>>

Respond(c) ==
  /\ at[c] = "respond"
  /\ GotResponse(c, "returned")
  /\ UNCHANGED <<Size, answer, signals, err, group, wait>>

\* The answer's promise is resolved and its signals run, in one critical section.
Answered(c) ==
  /\ at[c] \notin {"idle", "refused", "begun", "sending"}
  /\ answer[c] = "open"
  /\ \E how \in {"ok", "failed"} : answer' = [answer EXCEPT ![c] = how]
  /\ signals' = signals \ {c}
  /\ \/ c \in signals /\ GotResponse(c, at[c])
     \/ c \notin signals /\ UNCHANGED <<at, cur, owed, queue>>
  /\ UNCHANGED <<Size, err, group, wait>>

\* The goroutine of SendStreamCall: record an error, then count the call out.
StreamFailed(c) ==
  /\ c \in Stream /\ at[c] = "returned" /\ answer[c] = "failed"
  /\ err' = c
  /\ Move(c, "recorded")
  /\ UNCHANGED <<Size, answer, cur, owed, signals, queue, group, wait>>

\* Variant: the call is counted out before its error is recorded.
StreamDoneFirst(c) ==
  /\ c \in Stream
  /\ at[c] \in {"returned", "recorded"} /\ answer[c] # "open"
  /\ group' = group \ {c}
  /\ UNCHANGED <<Size, at, answer, cur, owed, signals, queue, err, wait>>

StreamDone(c) ==
  /\ c \in Stream
  /\ at[c] = "recorded" \/ (at[c] = "returned" /\ answer[c] = "ok")
  /\ group' = group \ {c}
  /\ Move(c, "done")
  /\ UNCHANGED <<Size, answer, cur, owed, signals, queue, err, wait>>

WaitStreaming ==
  /\ wait.at = "idle"
  /\ wait' = [wait EXCEPT !.at = "waiting", !.before = {c \in Stream : at[c] \notin {"idle", "refused"}}]
  /\ UNCHANGED <<Size, at, answer, cur, owed, signals, queue, err, group>>

WaitOver ==
  /\ wait.at = "waiting" /\ group = {}
  /\ wait' = [wait EXCEPT !.at = "reading"]
  /\ UNCHANGED <<Size, at, answer, cur, owed, signals, queue, err, group>>

WaitReturns ==
  /\ wait.at = "reading"
  /\ wait' = [wait EXCEPT !.at = "done", !.got = err]
  /\ UNCHANGED <<Size, at, answer, cur, owed, signals, queue, err, group>>

\* What the goroutine of call c does next.
Step(c) ==
  \/ SendCall(c) \/ HookSend(c) \/ StartMessage(c) \/ Woken(c) \/ Register(c)
  \/ Respond(c) \/ StreamFailed(c) \/ StreamDone(c)

CallsNext ==
  \/ \E c \in CallIds : StreamBegin(c) \/ Step(c) \/ Cancelled(c) \/ Answered(c)
  \/ WaitStreaming \/ WaitOver \/ WaitReturns

CallsSpec == CallsInit /\ [][CallsNext]_callsVars

-------------------------------------------------------------------------------
\* The limiter's count is what the calls that have not responded reserved, it
\* stays within the limit, and no reservation outlives the answer, whichever of
\* StartMessage and the answer comes first.
ReservedUntilAnswered ==
  /\ cur = Total(owed) /\ cur <= Limit
  /\ \A c \in owed : answer[c] = "open" \/ at[c] \in {"granted", "register", "respond"}

\* When WaitStreaming returns no error, every streaming call that was begun
\* before it has been answered, and none has failed ("waits for all outstanding
\* streaming calls ... to complete, and then returns an error if any streaming
\* call has failed", capability.go:448-450).
WaitSeesFailure ==
  wait.at = "done" /\ wait.got = None => \A c \in wait.before : answer[c] = "ok"

\* No call waits without need: the first of the queue does not fit beside what is
\* reserved, or all of the limit is reserved (then a call of size zero may stay at
\* the head after the one before it gave up).  Something is reserved, and every
\* reservation belongs to a call that has a response to come, so that it will be
\* given back and the queue looked at again, even when the answer came before the
\* caller could register for it.
WaitsOnlyForAnswers ==
  queue # <<>> =>
    /\ cur + Size[Head(queue)] > Limit \/ cur = Limit
    /\ owed # {}
    /\ \A c \in owed : c \in signals \/ at[c] \in {"granted", "register", "respond"}

===============================================================================
