---------------------------------- MODULE Bbr ----------------------------------
(***************************************************************************)
(* The BBR flow limiter (flowcontrol/bbr/limiter.go, state.go): one        *)
(* goroutine that grants messages permission to be sent, counts what is in *)
(* flight, and moves through the states of the algorithm as responses      *)
(* arrive.                                                                 *)
(*                                                                         *)
(* Times, rates and the bandwidth-delay product are real-valued: a test on *)
(* one of them is a nondeterministic choice.  appLimitedUntil only says    *)
(* which samples reach the estimates, and is left out with them.           *)
(***************************************************************************)
EXTENDS Integers, FiniteSets, Functions

CONSTANTS
  Messages,       \* the messages, each sent once
  MessageSize,    \* the size of each
  PlateauRounds,  \* the rounds without growth that end startup (3)
  ProbeCap,       \* maxPacketsInflight while the state is probeRTT (4)
  Unlimited       \* maxPacketsInflight otherwise (2^64 - 1)

VARIABLES
  message,    \* where each message is
  sent,
  delivered,
  packetsInflight,
  maxPacketsInflight,
  bbrState,     \* the flow's state
  plateau,      \* startupState.plateauRounds
  initSent,     \* probeRTTState.initSent
  waitsFor,     \* what the goroutine's select listens for besides acks
  running       \* whether Release has not yet cancelled the goroutine's context

\* What the proofs need of the constants.
BbrAssumption == IsFiniteSet(Messages) /\ MessageSize \in [Messages -> Nat]

bbrVars == <<message, sent, delivered, packetsInflight, maxPacketsInflight, bbrState, plateau, initSent, waitsFor, running>>

counters == <<sent, delivered, packetsInflight>>
bbrStateVars == <<bbrState, plateau, initSent, maxPacketsInflight>>

BbrInit ==
  /\ message = [m \in Messages |-> "idle"]
  /\ sent = 0 /\ delivered = 0 /\ packetsInflight = 0
  /\ maxPacketsInflight = Unlimited
  /\ bbrState = "startup" /\ plateau = 0 /\ initSent = 0
  /\ waitsFor = "send"
  /\ running = TRUE

MoveMessage(m, to) == message' = [message EXCEPT ![m] = to]

\* The top of the loop in run, after a case of the select left the counters as
\* they are primed: there is no estimate before the first ack.
Listen ==
  waitsFor' \in
       IF sent' = delivered' THEN {"send"}
       ELSE IF packetsInflight' >= maxPacketsInflight' THEN {"ack"}
       ELSE {"app", "timer"} \cup (IF delivered' > 0 THEN {"ack"} ELSE {})

-------------------------------------------------------------------------------
(***************************************************************************)
(* The senders: StartMessage and the function it returns.                  *)
(***************************************************************************)
BbrStartMessage(m) ==
  /\ message[m] = "idle"
  /\ MoveMessage(m, "asking")
  /\ UNCHANGED <<counters, bbrStateVars, waitsFor, running>>

BbrCancel(m) ==
  /\ message[m] = "asking"
  /\ MoveMessage(m, "refused")
  /\ UNCHANGED <<counters, bbrStateVars, waitsFor, running>>

BbrGotResponse(m) ==
  /\ message[m] = "inflight"
  /\ MoveMessage(m, "acking")
  /\ UNCHANGED <<counters, bbrStateVars, waitsFor, running>>

\* Variant: StartMessage does not wait for the limiter's context.
StoppedAcksOnly(m) ==
  /\ ~running
  /\ message[m] = "acking" /\ MoveMessage(m, "answered")
  /\ UNCHANGED <<counters, bbrStateVars, waitsFor, running>>

\* Both wait for the limiter's context too.
Stopped(m) ==
  /\ ~running
  /\ \/ message[m] = "asking" /\ MoveMessage(m, "refused")
     \/ message[m] = "acking" /\ MoveMessage(m, "answered")
  /\ UNCHANGED <<counters, bbrStateVars, waitsFor, running>>

-------------------------------------------------------------------------------
(***************************************************************************)
(* The limiter's goroutine.  Its select may still choose another case when *)
(* its context is cancelled.                                               *)
(***************************************************************************)
DoSend(m) ==
  /\ message[m] = "asking"
  /\ MoveMessage(m, "inflight")
  /\ packetsInflight' = packetsInflight + 1
  /\ sent' = sent + MessageSize[m]
  /\ UNCHANGED <<delivered, bbrStateVars, running>>

Asking == {m \in Messages : message[m] = "asking"}

SendRequest(m) ==
  /\ waitsFor \in {"send", "app"}
  /\ DoSend(m)
  /\ Listen

\* trySend, which does nothing but note appLimitedUntil without a request.
TimeToSend ==
  /\ waitsFor = "timer"
  /\ \/ \E m \in Asking : DoSend(m)
     \/ Asking = {} /\ UNCHANGED <<message, counters, bbrStateVars, running>>
  /\ Listen

\* changeState and the initialize methods that matter here.
ToStartup == bbrState' = "startup" /\ plateau' = 0 /\ UNCHANGED initSent
ToDrain == bbrState' = "drain" /\ plateau' = 0 /\ UNCHANGED <<initSent, maxPacketsInflight>>
ToProbeBW == bbrState' = "probeBW" /\ UNCHANGED <<plateau, initSent>>
ToProbeRTT == bbrState' = "probeRTT" /\ maxPacketsInflight' = ProbeCap /\ initSent' = sent /\ UNCHANGED plateau

StartupAck ==
  /\ bbrState = "startup"
  /\ \/ plateau' = 0 /\ UNCHANGED <<bbrState, initSent, maxPacketsInflight>>
     \/ plateau + 1 < PlateauRounds /\ plateau' = plateau + 1 /\ UNCHANGED <<bbrState, initSent, maxPacketsInflight>>
     \/ plateau + 1 >= PlateauRounds /\ ToDrain

DrainAck ==
  /\ bbrState = "drain"
  /\ \/ ToProbeBW /\ UNCHANGED maxPacketsInflight
     \/ sent > delivered' /\ UNCHANGED bbrStateVars

ProbeBWAck ==
  /\ bbrState = "probeBW"
  /\ UNCHANGED bbrStateVars \/ ToProbeRTT

ProbeRTTAck ==
  /\ bbrState = "probeRTT"
  /\ \/ UNCHANGED bbrStateVars
     \/ /\ delivered' > initSent
        /\ maxPacketsInflight' = Unlimited
        /\ ToStartup \/ ToProbeBW

PostAck == StartupAck \/ DrainAck \/ ProbeBWAck \/ ProbeRTTAck

\* Variant: the packet is not counted out.
OnAckKeepsPacket(m) ==
  /\ message[m] = "acking"
  /\ MoveMessage(m, "answered")
  /\ delivered' = delivered + MessageSize[m]
  /\ UNCHANGED <<sent, packetsInflight, running>>
  /\ PostAck
  /\ Listen

OnAck(m) ==
  /\ message[m] = "acking"
  /\ MoveMessage(m, "answered")
  /\ packetsInflight' = packetsInflight - 1
  /\ delivered' = delivered + MessageSize[m]
  /\ UNCHANGED <<sent, running>>
  /\ PostAck
  /\ Listen

ReleaseLimiter ==
  /\ running
  /\ running' = FALSE
  /\ UNCHANGED <<message, counters, bbrStateVars, waitsFor>>

Loop(m) == SendRequest(m) \/ OnAck(m)

BbrNext ==
  \/ \E m \in Messages :
       \/ BbrStartMessage(m)
       \/ BbrCancel(m)
       \/ BbrGotResponse(m)
       \/ Stopped(m)
       \/ SendRequest(m)
       \/ OnAck(m)
  \/ TimeToSend
  \/ ReleaseLimiter

\* The goroutine runs until it is released, its timer fires, and every message
\* sent is answered.
BbrFairness ==
  /\ WF_bbrVars(running /\ TimeToSend)
  /\ \A m \in Messages : WF_bbrVars(Loop(m) \/ Stopped(m) \/ BbrGotResponse(m))

BbrSpec == BbrInit /\ [][BbrNext]_bbrVars /\ BbrFairness

-------------------------------------------------------------------------------
InFlight == {m \in Messages : message[m] \in {"inflight", "acking"}}

\* The goroutine's counters are about the messages: what was sent and not
\* delivered is what is in flight, in bytes and in packets, so that unsigned
\* inflight() and packetsInflight never wrap.
InflightIsOutstanding ==
  running =>
    /\ sent = delivered + SumFunctionOnSet(MessageSize, InFlight)
    /\ packetsInflight = Cardinality(InFlight)

\* Nobody waits for ever in StartMessage: whatever the estimates are, the
\* limiter serves the request, or was released.  A message asks once, so that
\* all requests are served when again and again there is none.
NobodyAsks == Asking = {}
SenderServed == []<>NobodyAsks

===============================================================================
