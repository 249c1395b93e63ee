---------------------------- MODULE MCConcurrency -----------------------------
(***************************************************************************)
(* The components whose goroutines race and must make progress, checked in *)
(* one run: the server and its calls (Server), the queue between them      *)
(* (Mpsc), a promise and its queue (Promise), a promise resolved across a  *)
(* connection (Embargo), the returner of local results (Returner) and the  *)
(* BBR flow limiter (Bbr).  Init chooses the component that runs.  Server  *)
(* and Embargo have their own variables and stay in an initial state when  *)
(* another component runs; the others, of which one runs at most, share v1 *)
(* to v15.                                                                 *)
(***************************************************************************)
EXTENDS Server, Embargo

CONSTANTS Producers, Callers, nil

VARIABLES comp, v1, v2, v3, v4, v5, v6, v7, v8, v9, v10, v11, v12, v13, v14, v15

v1to10 == <<v1, v2, v3, v4, v5, v6, v7, v8, v9, v10>>
v11to15 == <<v11, v12, v13, v14, v15>>

ASSUME MCEmbargo == EmbargoAssumption

M == INSTANCE Mpsc WITH
       MaxSends <- 2, itemsBuffer <- 2,
       nodes <- v1, tail <- v2, head <- v3, mu <- v4, tx <- v5, sends <- v6, closer <- v7, rx <- v8,
       received <- v9, eof <- v10, missed <- v11

P == INSTANCE Promise WITH
       MaxCalls <- 2, MaxClient <- 2, MayReject <- TRUE, Nested <- TRUE,
       lock <- v1, state <- v2, fails <- v3, clients <- v4, clientCalls <- v5, q <- v6, bases <- v7,
       ready <- v8, on <- v9, caller <- v10, basis <- v11, doing <- v12, resolver <- v13,
       before <- v14, outcome <- v15

R == INSTANCE Returner WITH
       alloced <- v1, released <- v2, msg <- v3, returned <- v4, result <- v5, err <- v6, p <- v7,
       live <- v8, freed <- v9, method <- v10, caller <- v11, answer <- v12

BbrMessages == 1..4

B == INSTANCE Bbr WITH
       Messages <- BbrMessages, MessageSize <- <<1, 2, 1, 1>>, PlateauRounds <- 1, ProbeCap <- 1, Unlimited <- 9,
       message <- v1, sent <- v2, delivered <- v3, packetsInflight <- v4, maxPacketsInflight <- v5,
       bbrState <- v6, plateau <- v7, initSent <- v8, waitsFor <- v9, running <- v10

mVars == M!vars
pVars == P!promiseVars
rVars == R!vars
bVars == B!bbrVars
mcVars == <<comp, vars, embargoVars, v1to10, v11to15>>

Off1to10 ==
  /\ v1 = "off" /\ v2 = "off" /\ v3 = "off" /\ v4 = "off" /\ v5 = "off"
  /\ v6 = "off" /\ v7 = "off" /\ v8 = "off" /\ v9 = "off" /\ v10 = "off"
Off13to15 == v13 = "off" /\ v14 = "off" /\ v15 = "off"

MCInit ==
  /\ Init /\ EmbargoInit
  /\ \/ comp \in {"server", "embargo"} /\ Off1to10 /\ v11 = "off" /\ v12 = "off" /\ Off13to15
     \/ comp = "mpsc" /\ M!Init /\ v12 = "off" /\ Off13to15
     \/ comp = "promise" /\ P!PromiseInit
     \/ comp = "returner" /\ R!Init /\ Off13to15
     \/ comp = "bbr" /\ B!BbrInit /\ v11 = "off" /\ v12 = "off" /\ Off13to15
  /\ comp = "embargo" \/ via = "resolve"

MCNext ==
  /\ comp' = comp
  /\ \/ comp = "server" /\ Next /\ UNCHANGED <<embargoVars, v1to10, v11to15>>
     \/ comp = "embargo" /\ EmbargoNext /\ UNCHANGED <<vars, v1to10, v11to15>>
     \/ comp = "mpsc" /\ M!Next /\ UNCHANGED <<vars, embargoVars, v12, v13, v14, v15>>
     \/ comp = "promise" /\ P!PromiseNext /\ UNCHANGED <<vars, embargoVars>>
     \/ comp = "returner" /\ R!Next /\ UNCHANGED <<vars, embargoVars, v13, v14, v15>>
     \/ comp = "bbr" /\ B!BbrNext /\ UNCHANGED <<vars, embargoVars, v11to15>>

\* Each component's own fairness.  In the initial state of the server, in which
\* it stays when another component runs, no step of it is due.
MCFairness ==
  /\ Fairness /\ MethodsUnblock
  /\ \A g \in Producers : SF_mVars(comp = "mpsc" /\ M!Lock(g)) /\ WF_mVars(comp = "mpsc" /\ M!Produce(g))
  /\ WF_mVars(comp = "mpsc" /\ M!CloseNext)
  /\ WF_mVars(comp = "mpsc" /\ M!Consume)
  /\ WF_pVars(comp = "promise" /\ P!Resolve)
  /\ \A g \in Callers : WF_pVars(comp = "promise" /\ P!Continue(g))
  /\ WF_embargoVars(comp = "embargo" /\ Calling)
  /\ WF_embargoVars(comp = "embargo" /\ Receive)
  /\ WF_embargoVars(comp = "embargo" /\ Peer)
  /\ WF_embargoVars(comp = "embargo" /\ Resolving)
  /\ WF_embargoVars(comp = "embargo" /\ Handling)
  /\ WF_embargoVars(comp = "embargo" /\ Lift)
  /\ WF_rVars(comp = "returner" /\ R!Method)
  /\ WF_rVars(comp = "returner" /\ R!Caller)
  /\ WF_bVars(comp = "bbr" /\ v10 /\ B!TimeToSend)
  /\ \A m \in BbrMessages : WF_bVars(comp = "bbr" /\ (B!Loop(m) \/ B!Stopped(m) \/ B!BbrGotResponse(m)))

MCSpec == MCInit /\ [][MCNext]_mcVars /\ MCFairness

-------------------------------------------------------------------------------
\* The chain of nodes behaves as one first-in first-out queue (doc of package
\* spsc): no message is lost, doubled or overtaken where the chain changes node,
\* Recv reports io.EOF only when the queue is closed and drained, and TryRecv says
\* false only when it is empty.
IsFifo ==
  /\ comp = "mpsc" => M!Queue!Init
  /\ [][comp = "mpsc" => (M!Queue!Next \/ UNCHANGED M!Queue!vars) /\ M!Missed]_mcVars

Sending(g) == comp = "mpsc" /\ M!Sending(g)
Trying == comp = "mpsc" /\ M!Trying
Waiting == comp = "mpsc" /\ M!Receiving

\* Send never waits for the receiver, TryRecv never for a message, and Recv returns
\* when there is a message for it (Mpsc).
OperationsReturn ==
  /\ \A g \in Producers : Sending(g) ~> ~Sending(g)
  /\ Trying ~> ~Trying
  /\ (Waiting /\ M!Contents # <<>>) ~> ~Waiting

\* Every call on a promise gets an answer (Promise).
EveryCallAnswered == []<>(comp = "promise" => P!AllAnswered)

\* The results' message is released once, when both sides are done with it
\* (Returner).
ReleasedOnce == comp = "returner" => R!ReleasedOnce

\* A caller gets its answer and can release it (Returner).
CallerFinishes == <>(comp = "returner" => R!Finished)

\* Nobody waits for ever in StartMessage (Bbr).
SenderServed == []<>(comp = "bbr" => B!NobodyAsks)
===============================================================================
