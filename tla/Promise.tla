-------------------------------- MODULE Promise --------------------------------
(***************************************************************************)
(* A promise whose pipelined calls wait in an AnswerQueue (answer.go,      *)
(* answerqueue.go), as NewLocalPromise and the local servers build it:     *)
(* goroutines make calls on its answer and through the client they get     *)
(* from it, while another resolves it.                                     *)
(*                                                                         *)
(* A step is what a goroutine does between two waits or under one mutex.   *)
(* A call is delivered to the object it was made on: Root, the result of   *)
(* the promise, or the result of an earlier call on which it is pipelined. *)
(***************************************************************************)
EXTENDS Integers, Sequences

CONSTANTS
  Callers,        \* the goroutines that make calls
  MaxCalls,       \* bound on the calls made
  MaxClient,      \* bound on the calls of Future.Client
  MayReject,      \* whether the promise may be rejected
  Nested          \* whether calls are pipelined on the answers of queued calls

Root == 0
CallNumbers == 1..MaxCalls

VARIABLES
  lock,           \* whether the mutex over promiseState was left locked
  state,          \* "unresolved", "pending" or "resolved": which of its fields are nil
  fails,          \* whether it is resolved by Reject
  clients,        \* the entry of promiseState.clients, as the client sees it
  clientCalls,    \* how often Future.Client was called
  q,              \* AnswerQueue.q: calls and the index of their base
  bases,          \* len(AnswerQueue.bases), 0 while queueing
  ready,          \* whether the ready channel of the bases is closed
  on,             \* for each call made, the call on whose result it is made
  caller,         \* for each call made, the goroutine that made it
  basis,          \* the basis of the queueCaller returned for a queued call
  doing,          \* what each caller does: the call it makes, and where it is
  resolver,       \* where the resolving goroutine is
  before,         \* for each call made, the calls that had returned by then
  outcome         \* the calls delivered or rejected, in order, and to what

promiseVars == <<lock, state, fails, clients, clientCalls, q, bases, ready, on, caller, basis, doing, resolver, before, outcome>>

stateVars == <<lock, state, fails, clients, clientCalls>>
queueVars == <<q, bases, ready>>
callVars == <<on, caller, basis, before>>

Idle == [at |-> "idle", call |-> 0]
Made == DOMAIN on
Done(c) == \E i \in DOMAIN outcome : outcome[i].call = c
Returned(c) == c \in Made /\ doing[caller[c]].call # c

PromiseInit ==
  /\ lock = FALSE
  /\ state = "unresolved"
  /\ fails \in IF MayReject THEN BOOLEAN ELSE {FALSE}
  /\ clients = "none"
  /\ clientCalls = 0
  /\ q = <<>>
  /\ bases = 0
  /\ ready = FALSE
  /\ on = <<>>
  /\ caller = <<>>
  /\ basis = <<>>
  /\ doing = [g \in Callers |-> Idle]
  /\ resolver = "start"
  /\ before = <<>>
  /\ outcome = <<>>

Deliver(c, to) == outcome' = Append(outcome, [call |-> c, to |-> to])
Rejected == -1
Panicked == -2
NotQueued == -1

\* resolution.client(transform).SendCall: an error answers the call at once.
Resolution(c) == Deliver(c, IF fails THEN Rejected ELSE Root)

\* base.recv: the first base is the result, Reject sets every base, and the
\* others stay nil after Fulfill, so that calling them panics.
BaseRecv(c, b) == IF fails \/ b = 0 THEN Resolution(c) ELSE Deliver(c, Panicked)

Goto(g, at, c) == doing' = [doing EXCEPT ![g] = [at |-> at, call |-> c]]
Return(g) == doing' = [doing EXCEPT ![g] = Idle]

-------------------------------------------------------------------------------
(***************************************************************************)
(* A goroutine makes a call.  Answer.PipelineSend and PipelineRecv read    *)
(* the state under the mutex and go on from there.                         *)
(***************************************************************************)
NewCall(g, target) ==
  /\ Len(on) < MaxCalls
  /\ doing[g] = Idle
  /\ on' = Append(on, target)
  /\ caller' = Append(caller, g)
  /\ basis' = Append(basis, NotQueued)
  /\ before' = Append(before, {c \in Made : Returned(c)})

\* Variant: a pending promise passes the call on at once.
PipelineSendEarly(g) ==
  /\ ~lock
  /\ NewCall(g, Root)
  /\ LET c == Len(on) + 1
     IN  \/ state = "unresolved" /\ Goto(g, "queue", c) /\ UNCHANGED outcome
         \/ state # "unresolved" /\ Resolution(c) /\ UNCHANGED doing
  /\ UNCHANGED <<stateVars, queueVars, resolver>>

PipelineSend(g) ==
  /\ ~lock
  /\ NewCall(g, Root)
  /\ LET c == Len(on) + 1
     IN  \/ state = "unresolved" /\ Goto(g, "queue", c) /\ UNCHANGED outcome
         \/ state = "pending" /\ Goto(g, "resolved", c) /\ UNCHANGED outcome
         \/ state = "resolved" /\ Resolution(c) /\ UNCHANGED doing
  /\ UNCHANGED <<stateVars, queueVars, resolver>>

\* A call through the client: its hook is the PipelineClient until the client
\* is fulfilled, and the result's client afterwards.
ClientSend(g) ==
  /\ clients \in {"promised", "fulfilled"}
  /\ NewCall(g, Root)
  /\ LET c == Len(on) + 1
     IN  \/ clients = "promised" /\ Goto(g, "hook", c) /\ UNCHANGED outcome
         \/ clients = "fulfilled" /\ Resolution(c) /\ UNCHANGED doing
  /\ UNCHANGED <<stateVars, queueVars, resolver>>

\* PipelineClient.Send, the hook having been read before.
PipelineClientSend(g) ==
  /\ doing[g].at = "hook"
  /\ ~lock
  /\ \/ state = "unresolved" /\ Goto(g, "queue", doing[g].call) /\ UNCHANGED outcome
     \/ state = "pending" /\ Goto(g, "resolved", doing[g].call) /\ UNCHANGED outcome
     \/ state = "resolved" /\ Resolution(doing[g].call) /\ Return(g)
  /\ UNCHANGED <<stateVars, queueVars, callVars, resolver>>

\* A call pipelined on the answer of a queued call that has not returned: the
\* answer is the promise of StructReturner.Answer, whose caller is the
\* queueCaller that enqueuing the first call gave.
PipelineOn(g, d) ==
  /\ Nested
  /\ Returned(d) /\ on[d] = Root /\ basis[d] # NotQueued
  /\ NewCall(g, d)
  /\ Goto(g, "queue", Len(on) + 1)
  /\ UNCHANGED <<stateVars, queueVars, resolver, outcome>>

\* queueCaller.PipelineRecv: the base its entry is delivered through.
BasisOf(c) == IF on[c] = Root THEN 0 ELSE basis[on[c]]

Enqueue(g) ==
  LET c == doing[g].call
  IN  /\ doing[g].at = "queue"
      /\ bases = 0
      /\ q' = Append(q, [call |-> c, basis |-> BasisOf(c)])
      /\ basis' = [basis EXCEPT ![c] = Len(q)]
      /\ Return(g)
      /\ UNCHANGED <<stateVars, bases, ready, on, caller, before, resolver, outcome>>

AwaitBase(g) ==
  /\ doing[g].at = "queue"
  /\ bases > 0
  /\ Goto(g, "base", doing[g].call)
  /\ UNCHANGED <<stateVars, queueVars, callVars, resolver, outcome>>

BaseReady(g) ==
  /\ doing[g].at = "base"
  /\ ready
  /\ BaseRecv(doing[g].call, BasisOf(doing[g].call))
  /\ Return(g)
  /\ UNCHANGED <<stateVars, queueVars, callVars, resolver>>

ResolvedSend(g) ==
  /\ doing[g].at = "resolved"
  /\ state = "resolved"
  /\ ~lock
  /\ Resolution(doing[g].call)
  /\ Return(g)
  /\ UNCHANGED <<stateVars, queueVars, callVars, resolver>>

\* The context of a call ends while it waits.
Cancel(g) ==
  /\ doing[g].at \in {"base", "resolved"}
  /\ Deliver(doing[g].call, Rejected)
  /\ Return(g)
  /\ UNCHANGED <<stateVars, queueVars, callVars, resolver>>

\* Future.Client for the root future: an existing entry is returned with the
\* mutex still locked.  While pending it waits, and gives the result's client.
Client(g) ==
  /\ doing[g] = Idle
  /\ ~lock
  /\ clientCalls < MaxClient
  /\ state # "pending"
  /\ clientCalls' = clientCalls + 1
  /\ \/ state = "unresolved" /\ clients = "none" /\ clients' = "promised" /\ UNCHANGED lock
     \/ state = "unresolved" /\ clients # "none" /\ lock' = TRUE /\ UNCHANGED clients
     \/ state = "resolved" /\ UNCHANGED <<lock, clients>>
  /\ UNCHANGED <<state, fails, queueVars, callVars, doing, resolver, outcome>>

-------------------------------------------------------------------------------
(***************************************************************************)
(* Promise.Resolve, with the AnswerQueue as its resolver.                  *)
(***************************************************************************)
StartResolve ==
  /\ resolver = "start"
  /\ ~lock
  /\ state = "unresolved"
  /\ state' = "pending"
  /\ resolver' = "queue"
  /\ UNCHANGED <<lock, fails, clients, clientCalls, queueVars, callVars, doing, outcome>>

\* AnswerQueue.Fulfill and Reject enter the draining state; Reject closes the
\* ready channel at once.
StartDrain ==
  /\ resolver = "queue"
  /\ bases' = Len(q) + 1
  /\ ready' = fails
  /\ resolver' = "drain"
  /\ UNCHANGED <<stateVars, q, callVars, doing, outcome>>

Drain ==
  /\ resolver = "drain"
  /\ q # <<>>
  /\ BaseRecv(Head(q).call, Head(q).basis)
  /\ q' = Tail(q)
  /\ UNCHANGED <<stateVars, bases, ready, callVars, doing, resolver>>

\* Variant: the ready channel is not closed.
DrainedNotReady ==
  /\ resolver = "drain"
  /\ q = <<>>
  /\ resolver' = "clients"
  /\ UNCHANGED <<stateVars, queueVars, callVars, doing, outcome>>

Drained ==
  /\ resolver = "drain"
  /\ q = <<>>
  /\ ready' = TRUE
  /\ resolver' = "clients"
  /\ UNCHANGED <<stateVars, q, bases, callVars, doing, outcome>>

FulfillClients ==
  /\ resolver = "clients"
  /\ clients' = IF clients = "promised" THEN "fulfilled" ELSE clients
  /\ resolver' = "signal"
  /\ UNCHANGED <<lock, state, fails, clientCalls, queueVars, callVars, doing, outcome>>

Signal ==
  /\ resolver = "signal"
  /\ ~lock
  /\ state' = "resolved"
  /\ resolver' = "release"
  /\ UNCHANGED <<lock, fails, clients, clientCalls, queueVars, callVars, doing, outcome>>

\* Promise.ReleaseClients, which localResolver calls next, releases the table's
\* own reference; the callers hold one that NewLocalPromise added.
ReleaseClients ==
  /\ resolver = "release"
  /\ ~lock
  /\ resolver' = "done"
  /\ UNCHANGED <<stateVars, queueVars, callVars, doing, outcome>>

Resolve == StartResolve \/ StartDrain \/ Drain \/ Drained \/ FulfillClients \/ Signal \/ ReleaseClients

Continue(g) == PipelineClientSend(g) \/ Enqueue(g) \/ AwaitBase(g) \/ BaseReady(g) \/ ResolvedSend(g)

PromiseNext ==
  \/ \E g \in Callers :
       \/ PipelineSend(g)
       \/ ClientSend(g)
       \/ \E d \in Made : PipelineOn(g, d)
       \/ PipelineClientSend(g)
       \/ Enqueue(g)
       \/ AwaitBase(g)
       \/ BaseReady(g)
       \/ ResolvedSend(g)
       \/ Cancel(g)
       \/ Client(g)
  \/ StartResolve
  \/ StartDrain
  \/ Drain
  \/ Drained
  \/ FulfillClients
  \/ Signal
  \/ ReleaseClients

\* Goroutines run, and the promise is resolved at some time: its maker must
\* call Fulfill or Reject.
PromiseFairness == WF_promiseVars(Resolve) /\ \A g \in Callers : WF_promiseVars(Continue(g))

PromiseSpec == PromiseInit /\ [][PromiseNext]_promiseVars /\ PromiseFairness

-------------------------------------------------------------------------------
\* The states of the three parts fit together: the promise is pending while the
\* queue drains, and nothing is queued once it is resolved.
PromiseTypeOK ==
  /\ lock \in BOOLEAN /\ fails \in BOOLEAN /\ ready \in BOOLEAN
  /\ state \in {"unresolved", "pending", "resolved"}
  /\ clients \in {"none", "promised", "fulfilled"}
  /\ q \in Seq([call : CallNumbers, basis : 0..MaxCalls])
  /\ bases \in 0..(MaxCalls + 1)
  /\ Len(on) <= MaxCalls /\ on \in Seq(0..MaxCalls) /\ caller \in Seq(Callers)
  /\ outcome \in Seq([call : CallNumbers, to : -2..MaxCalls])

\* A call that had returned before another was made is delivered before it,
\* whether the two waited in the queue, at its base, for the resolution or
\* not at all ("if foo() then bar() is called on a client, then the capability
\* acknowledging foo() happens before the capability observing bar()",
\* capability.go:938-940).  Rejected calls are no deliveries, and no call is
\* answered twice.
InOrder ==
  /\ \A i, j \in DOMAIN outcome : outcome[i].call = outcome[j].call => i = j
  /\ \A i \in DOMAIN outcome : outcome[i].to # Rejected =>
       \A c \in before[outcome[i].call] : \E j \in 1..(i - 1) : outcome[j].call = c

\* A call is delivered to the object it was made on: base "is a message target
\* derived from applying a qent" (answerqueue.go:40).
OnTarget == \A i \in DOMAIN outcome : outcome[i].to \in {Rejected, on[outcome[i].call]}

\* Future.Client leaves the promise unlocked: an Answer "is safe to use from
\* multiple goroutines" (answer.go:242-243).
Unlocked == ~lock

\* Every call made gets an answer: the promise is resolved at some time, the
\* queue drains, and nobody waits for ever for the base or the resolution,
\* unless Future.Client left the promise locked.
AllAnswered == lock \/ \A c \in Made : Done(c)
EveryCallAnswered == []<>AllAnswered

===============================================================================
