-------------------------------- MODULE Embargo --------------------------------
(***************************************************************************)
(* Promise resolution across a connection (rpc/rpc.go, rpc/export.go,      *)
(* rpc/question.go): a promise received from the peer resolves to a        *)
(* capability hosted here.  Calls already sent to the peer come back over  *)
(* the wire, so calls made after the resolution wait behind an embargo     *)
(* until a Disembargo has echoed through the peer.                         *)
(*                                                                         *)
(* The promise is an import, resolved by a Resolve message, or the answer  *)
(* of a question, resolved by its Return.  One goroutine makes the calls,  *)
(* numbered in the order it makes them: it finds out where a call goes     *)
(* (the client's hook or the promise's PipelineCaller) and sends it later, *)
(* under the connection's lock, when the promise may have been resolved.   *)
(***************************************************************************)
EXTENDS Naturals, Sequences

CONSTANT MaxCalls  \* bound on the calls made

\* Finitely many calls are made.
EmbargoAssumption == MaxCalls \in Nat

CallNumbers == 1..MaxCalls

VARIABLES
  via,       \* how the promise is resolved: "resolve" or "return"
  made,      \* how many calls were made
  calling,   \* a call on its way to the wire: "none", "started" or "sent"
  released,  \* whether the application released its client
  route,     \* where the client sends calls: "wire", "embargo", "local" or "error"
  toPeer,    \* the messages on their way to the peer
  toHere,    \* the messages on their way back
  handler,   \* the goroutine that handles the resolution
  embargo,   \* the embargo: "none", "up", "draining" or "lifted"
  queued,    \* the calls in its AnswerQueue
  held,      \* the calls in the promise's queue at the peer
  peer,      \* the promise at the peer
  exported,  \* whether it is still in the peer's table
  told,      \* whether the peer has sent the resolution
  down,      \* whether the connection was shut down
  got,       \* the calls the capability received, in order
  failed,    \* the calls that returned an error
  late       \* the calls sent to the peer with no Disembargo to follow them

embargoVars == <<via, made, calling, released, route, toPeer, toHere, handler, embargo, queued, held, peer, exported, told, down, got, failed, late>>

appVars == <<made, calling, released, late>>
peerVars == <<held, peer, exported, told>>

Message(type) == [type |-> type, call |-> 0]
CallMessage(n) == [type |-> "call", call |-> n]
Elems(s) == {s[i] : i \in DOMAIN s}

EmbargoInit ==
  /\ via \in {"resolve", "return"}
  /\ made = 0 /\ calling = "none" /\ released = FALSE /\ late = {}
  /\ route = "wire"
  /\ toPeer = <<>> /\ toHere = <<>>
  /\ handler = "idle"
  /\ embargo = "none" /\ queued = <<>>
  /\ held = <<>> /\ peer = "promise" /\ exported = TRUE /\ told = FALSE
  /\ down = FALSE
  /\ got = <<>> /\ failed = {}

\* sendMessage: after shutdown nothing is sent.
Send(msgs) == toPeer' = IF down THEN toPeer ELSE toPeer \o msgs

-------------------------------------------------------------------------------
(***************************************************************************)
(* The application.                                                        *)
(***************************************************************************)
\* The calls that were passed on, to the wire or elsewhere.
Sent == IF calling = "started" THEN made - 1 ELSE made

\* Client.startCall and Answer.PipelineSend: the hook of the import, or the
\* PipelineCaller of the question, is read and the lock let go.
CallStart ==
  /\ made < MaxCalls /\ ~released /\ calling = "none"
  /\ route = "wire"
  /\ made' = made + 1
  /\ calling' = "started"
  /\ UNCHANGED <<via, released, route, toPeer, toHere, handler, embargo, queued, peerVars, down, got, failed, late>>

\* The resolution is being handled and no Disembargo is still to be sent.
Overtakable == handler # "idle" /\ (via = "resolve" \/ embargo = "none" \/ handler = "done")

\* importClient.Send and question.PipelineSend, with the connection locked.
CallWire ==
  /\ calling = "started"
  /\ calling' = "sent"
  /\ Send(<<CallMessage(made)>>)
  /\ failed' = IF down THEN failed \cup {made} ELSE failed
  /\ late' = IF Overtakable THEN late \cup {made} ELSE late
  /\ UNCHANGED <<via, made, released, route, toHere, handler, embargo, queued, peerVars, down, got>>

\* SendCall lets go of the hook: when the import was resolved in the meantime,
\* that was the last reference to it.
CallReturns ==
  /\ calling = "sent"
  /\ calling' = "none"
  /\ IF via = "resolve" /\ route # "wire" THEN Send(<<Message("release")>>) ELSE UNCHANGED toPeer
  /\ UNCHANGED <<via, made, released, late, route, toHere, handler, embargo, queued, peerVars, down, got, failed>>

\* embargo.Send: queues the call, waits while the queue is drained, or passes
\* it on to the capability.
CallEmbargo(n) ==
  /\ route = "embargo"
  /\ \/ embargo = "up" /\ queued' = Append(queued, n) /\ UNCHANGED got
     \/ embargo = "lifted" /\ got' = Append(got, n) /\ UNCHANGED queued
  /\ UNCHANGED failed

CallLocal(n) ==
  /\ route = "local"
  /\ got' = Append(got, n)
  /\ UNCHANGED <<queued, failed>>

CallBroken(n) ==
  /\ route = "error"
  /\ failed' = failed \cup {n}
  /\ UNCHANGED <<queued, got>>

\* A call after the resolution: where it goes does not change any more.
Call ==
  /\ made < MaxCalls /\ ~released /\ calling = "none"
  /\ made' = made + 1
  /\ \/ CallEmbargo(made')
     \/ CallLocal(made')
     \/ CallBroken(made')
  /\ UNCHANGED <<via, calling, released, late, route, toPeer, toHere, handler, embargo, peerVars, down>>

\* The last reference goes: importClient.Shutdown removes the import and sends
\* a Release.  embargo.Shutdown releases the capability behind the queue.
Release ==
  /\ ~released /\ calling = "none"
  /\ released' = TRUE
  /\ IF via = "resolve" /\ route = "wire" THEN Send(<<Message("release")>>) ELSE UNCHANGED toPeer
  /\ UNCHANGED <<via, made, calling, late, route, toHere, handler, embargo, queued, peerVars, down, got, failed>>

-------------------------------------------------------------------------------
Unanswered == (1..Sent) \ (failed \cup Elems(got) \cup Elems(queued))

\* shutdown: nothing more is sent or received, the embargoes are lifted and
\* the questions rejected.
ConnShutdown ==
  /\ down' = TRUE
  /\ toPeer' = <<>> /\ toHere' = <<>>
  /\ embargo' = IF embargo = "up" THEN "draining" ELSE embargo
  /\ failed' = failed \cup Unanswered

-------------------------------------------------------------------------------
(***************************************************************************)
(* The peer: its promise queues calls, then forwards them over the wire.   *)
(***************************************************************************)
PeerCall ==
  /\ toPeer # <<>> /\ Head(toPeer).type = "call"
  /\ exported
  /\ \/ peer = "promise" /\ held' = Append(held, Head(toPeer).call) /\ UNCHANGED <<toHere, failed>>
     \/ peer = "resolved" /\ toHere' = Append(toHere, Head(toPeer)) /\ UNCHANGED <<held, failed>>
     \/ peer = "broken" /\ failed' = failed \cup {Head(toPeer).call} /\ UNCHANGED <<held, toHere>>
  /\ toPeer' = Tail(toPeer)
  /\ UNCHANGED <<via, appVars, route, handler, embargo, queued, peer, exported, told, down, got>>

\* handleCall for an answer that was finished is an error, and the error ends
\* the connection.
PeerCallFinished ==
  /\ toPeer # <<>> /\ Head(toPeer).type = "call"
  /\ ~exported
  /\ ConnShutdown
  /\ UNCHANGED <<via, appVars, route, handler, queued, peerVars, got>>

\* handleDisembargo, senderLoopback.
PeerDisembargo ==
  /\ toPeer # <<>> /\ Head(toPeer).type = "disembargo"
  /\ toHere' = Append(toHere, Message("loopback"))
  /\ toPeer' = Tail(toPeer)
  /\ UNCHANGED <<via, appVars, route, handler, embargo, queued, peerVars, down, got, failed>>

\* handleRelease and handleFinish.
PeerRelease ==
  /\ toPeer # <<>> /\ Head(toPeer).type = "release"
  /\ exported' = FALSE
  /\ toPeer' = Tail(toPeer)
  /\ UNCHANGED <<via, appVars, route, toHere, handler, embargo, queued, held, peer, told, down, got, failed>>

PeerFulfill ==
  /\ peer = "promise" /\ ~down
  /\ peer' = "draining"
  /\ UNCHANGED <<via, appVars, route, toPeer, toHere, handler, embargo, queued, held, exported, told, down, got, failed>>

PeerDrain ==
  /\ peer = "draining" /\ ~down
  /\ IF held = <<>>
     THEN peer' = "resolved" /\ UNCHANGED <<held, toHere>>
     ELSE held' = Tail(held) /\ toHere' = Append(toHere, CallMessage(Head(held))) /\ UNCHANGED peer
  /\ UNCHANGED <<via, appVars, route, toPeer, handler, embargo, queued, exported, told, down, got, failed>>

PeerReject ==
  /\ peer = "promise" /\ ~down
  /\ peer' = "broken"
  /\ failed' = failed \cup Elems(held)
  /\ held' = <<>>
  /\ UNCHANGED <<via, appVars, route, toPeer, toHere, handler, embargo, queued, exported, told, down, got>>

\* sendSenderPromise, whose goroutine looks whether the export is still there,
\* and ansReturner.Return, which runs after the queue was drained.
PeerTell ==
  /\ peer \in {"resolved", "broken"} /\ ~told /\ ~down
  /\ told' = TRUE
  /\ toHere' = IF via = "return" \/ exported THEN Append(toHere, Message(peer)) ELSE toHere
  /\ UNCHANGED <<via, appVars, route, toPeer, handler, embargo, queued, held, peer, exported, down, got, failed>>

-------------------------------------------------------------------------------
(***************************************************************************)
(* Messages received here.  handleResolve and embargo.lift run on the      *)
(* receiving goroutine, handleReturn starts another.                       *)
(***************************************************************************)
Arrived(types) ==
  /\ toHere # <<>> /\ Head(toHere).type \in types
  /\ embargo # "draining"
  /\ ~(via = "resolve" /\ handler \in {"fulfill", "reject"})

Receiving(type) == Arrived({type}) /\ toHere' = Tail(toHere)

\* handleCall: the peer forwards a call.
RecvCall ==
  /\ Receiving("call")
  /\ got' = Append(got, Head(toHere).call)
  /\ UNCHANGED <<via, appVars, route, toPeer, handler, embargo, queued, peerVars, down, failed>>

\* handleResolve for an import that is no longer in the table is an error,
\* and the error ends the connection.
RecvResolveUnknown ==
  /\ Arrived({"resolved", "broken"})
  /\ via = "resolve" /\ released
  /\ ConnShutdown
  /\ UNCHANGED <<via, appVars, route, handler, queued, peerVars, got>>

\* The locked part of handleResolve: the capability is local, so it is
\* embargoed and the Disembargo sent.
RecvResolve ==
  /\ via = "resolve" /\ ~released
  /\ Receiving("resolved")
  /\ embargo' = "up"
  /\ Send(<<Message("disembargo")>>)
  /\ handler' = "fulfill"
  /\ UNCHANGED <<via, appVars, route, queued, peerVars, down, got, failed>>

\* The locked part of handleReturn: parseReturn embargoes the capability if
\* calls were pipelined to it.
RecvReturn ==
  /\ via = "return"
  /\ Receiving("resolved")
  /\ embargo' = IF Sent > 0 THEN "up" ELSE "none"
  /\ handler' = "fulfill"
  /\ UNCHANGED <<via, appVars, route, toPeer, queued, peerVars, down, got, failed>>

RecvBroken ==
  /\ via = "return" \/ ~released
  /\ Receiving("broken")
  /\ handler' = "reject"
  /\ UNCHANGED <<via, appVars, route, toPeer, embargo, queued, peerVars, down, got, failed>>

\* The client leaves the import, whose last reference that is unless a call
\* still holds one.
ImportReleased ==
  IF via = "resolve" /\ ~released /\ calling = "none" THEN Send(<<Message("release")>>) ELSE UNCHANGED toPeer

\* Variant: the client is resolved to the capability itself.
FulfillUnembargoed ==
  /\ handler = "fulfill"
  /\ route' = "local"
  /\ ImportReleased
  /\ handler' = IF via = "return" THEN "disembargo" ELSE "done"
  /\ UNCHANGED <<via, appVars, toHere, embargo, queued, peerVars, down, got, failed>>

\* resolver.Fulfill and q.p.Resolve.
ResolverFulfill ==
  /\ handler = "fulfill"
  /\ route' = IF embargo = "none" THEN "local" ELSE "embargo"
  /\ ImportReleased
  /\ handler' = IF via = "return" THEN "disembargo" ELSE "done"
  /\ UNCHANGED <<via, appVars, toHere, embargo, queued, peerVars, down, got, failed>>

Reject ==
  /\ handler = "reject"
  /\ route' = "error"
  /\ ImportReleased
  /\ handler' = IF via = "return" THEN "disembargo" ELSE "done"
  /\ UNCHANGED <<via, appVars, toHere, embargo, queued, peerVars, down, got, failed>>

\* The end of handleReturn: the Disembargo, then the Finish.
SendDisembargo ==
  /\ handler = "disembargo"
  /\ handler' = "done"
  /\ Send((IF embargo = "none" THEN <<>> ELSE <<Message("disembargo")>>) \o <<Message("release")>>)
  /\ UNCHANGED <<via, appVars, route, toHere, embargo, queued, peerVars, down, got, failed>>

\* Variant: the embargo stays up.
RecvLoopbackIgnored ==
  /\ Receiving("loopback")
  /\ UNCHANGED <<via, appVars, route, toPeer, handler, embargo, queued, peerVars, down, got, failed>>

\* handleDisembargo, receiverLoopback.
RecvLoopback ==
  /\ Receiving("loopback")
  /\ embargo' = "draining"
  /\ UNCHANGED <<via, appVars, route, toPeer, handler, queued, peerVars, down, got, failed>>

\* embargo.lift: the queued calls go to the capability, whose client
\* embargo.Shutdown has released when the application let go of the embargo.
Lift ==
  /\ embargo = "draining"
  /\ \/ /\ queued = <<>>
        /\ embargo' = "lifted"
        /\ UNCHANGED <<queued, got, failed>>
     \/ /\ queued # <<>> /\ ~released
        /\ got' = Append(got, Head(queued))
        /\ queued' = Tail(queued)
        /\ UNCHANGED <<embargo, failed>>
     \/ /\ queued # <<>> /\ released
        /\ failed' = failed \cup {Head(queued)}
        /\ queued' = Tail(queued)
        /\ UNCHANGED <<embargo, got>>
  /\ UNCHANGED <<via, appVars, route, toPeer, toHere, handler, peerVars, down>>

Close ==
  /\ ~down
  /\ ConnShutdown
  /\ UNCHANGED <<via, appVars, route, handler, queued, peerVars, got>>

Receive == RecvCall \/ RecvResolve \/ RecvResolveUnknown \/ RecvReturn \/ RecvBroken \/ RecvLoopback
Calling == CallWire \/ CallReturns
Peer == PeerCall \/ PeerCallFinished \/ PeerDisembargo \/ PeerRelease
Resolving == PeerFulfill \/ PeerReject \/ PeerDrain \/ PeerTell
Handling == ResolverFulfill \/ Reject \/ SendDisembargo

EmbargoNext ==
  \/ CallStart
  \/ CallWire
  \/ CallReturns
  \/ Call
  \/ Release
  \/ PeerCall
  \/ PeerCallFinished
  \/ PeerDisembargo
  \/ PeerRelease
  \/ PeerFulfill
  \/ PeerDrain
  \/ PeerReject
  \/ PeerTell
  \/ RecvCall
  \/ RecvResolveUnknown
  \/ RecvResolve
  \/ RecvReturn
  \/ RecvBroken
  \/ ResolverFulfill
  \/ Reject
  \/ SendDisembargo
  \/ RecvLoopback
  \/ Lift
  \/ Close

\* Goroutines run, messages arrive, and the peer resolves its promise.
EmbargoFairness ==
  /\ WF_embargoVars(Calling)
  /\ WF_embargoVars(Receive)
  /\ WF_embargoVars(Peer)
  /\ WF_embargoVars(Resolving)
  /\ WF_embargoVars(Handling)
  /\ WF_embargoVars(Lift)

EmbargoSpec == EmbargoInit /\ [][EmbargoNext]_embargoVars /\ EmbargoFairness

-------------------------------------------------------------------------------
\* The queue of the embargo is empty unless it is up or being drained, and
\* messages travel only on an open connection.
EmbargoTypeOK ==
  /\ via \in {"resolve", "return"}
  /\ made \in 0..MaxCalls
  /\ calling \in {"none", "started", "sent"}
  /\ route \in {"wire", "embargo", "local", "error"}
  /\ embargo \in {"none", "up", "draining", "lifted"}
  /\ peer \in {"promise", "draining", "resolved", "broken"}
  /\ handler \in {"idle", "fulfill", "reject", "disembargo", "done"}
  /\ got \in Seq(CallNumbers) /\ queued \in Seq(CallNumbers) /\ held \in Seq(CallNumbers)
  /\ late \subseteq CallNumbers /\ failed \subseteq CallNumbers
  /\ queued # <<>> => embargo \in {"up", "draining"}
  /\ down => toHere = <<>>

\* "Calls must be delivered to the capability in the order they are made"
\* (capability.go:935): no call the capability receives was made after one it
\* receives later.
EOrder == \A i, j \in DOMAIN got : i < j => got[i] < got[j]

\* The order is kept across the resolution, whatever the wire, the peer's
\* queue, the embargo and a shutdown do to the calls, for every call but those
\* sent to the peer behind the Disembargo, or with none, because the hook or
\* PipelineCaller was read before the promise was resolved and the call queued
\* after the locked part of the handler.
EOrderButLate == \A i, j \in DOMAIN got : i < j => got[i] < got[j] \/ got[j] \in late

\* No call is lost behind an embargo: each one reaches the capability, unless
\* the promise is broken, the connection ends or the client is released.
AllArrived == down \/ released \/ peer = "broken" \/ Elems(got) = 1..made
EveryCallArrives == []<>AllArrived

===============================================================================
