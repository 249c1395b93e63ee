---------------------------- MODULE RpcQuestionLive ----------------------------
(***************************************************************************)
(* What RpcQuestion promises over time: what happens eventually, and the   *)
(* fairness that takes.                                                    *)
(***************************************************************************)
EXTENDS RpcQuestion, TLC

CONSTANT Pipeliner  \* the call that may be pipelined on another

\* Calls may be renamed, since no action prefers one: of two calls it is enough that
\* one may be pipelined and the other bootstrapped.
EachItsKinds == [c \in Calls |-> IF c = Pipeliner THEN {"call", "pipeline"}
                                                  ELSE {"call", "bootstrap"}]

-----------------------------------------------------------------------------
(* Fairness.  Goroutines are scheduled, transports take messages and the    *)
(* methods of the callee return; nothing makes the application cancel or    *)
(* pose a call.  Every call takes finitely many steps, so it is enough that *)
(* not all the goroutines that can take a step are left waiting for ever.   *)

Sender == \/ \E ok \in BOOLEAN : Send(ok)
          \/ CallSent \/ CallFailed \/ RejectFailed \/ RemoveFailed
          \/ CancelSent \/ CancelClose \/ CancelReject \/ FinishSent
Canceler(c) == handleCancel(c) \/ handleCancelDone(c)
ReturnTask(c) == WaitFinish(c) \/ ResolveReturn(c) \/ SendFinish(c)
Method(c) == ReturnCall(c) \/ \E err \in BOOLEAN : PrepareReturn(c, err)

Scheduled ==
  \/ Sender \/ handleReturn
  \/ handleBootstrap \/ handleCall \/ handleFinish
  \/ \E c \in Calls : Canceler(c) \/ ReturnTask(c) \/ Method(c)

FairSpec == Spec /\ WF_vars(Running /\ Scheduled)

Settled(c) == promise[c] \in {"resolved", "rejected"}

\* The callee could not send the Return of c, or the caller the Finish.
ReturnLost(c) ==
  /\ server[c] = "returned" /\ returnTask[c] = "none"
  /\ \A i \in 1..Len(toCaller) : toCaller[i].call # c
FinishFailed(c) == finishMsgSend[c] /\ ~finishSent[c]

\* Every call is settled, by its Return, its Context or a failed send, and both tables
\* forget it, whichever of Return and Finish came first: neither the question ID nor
\* the answer is leaked.  If the Return is lost the call waits for its Context, and is
\* settled by the caller's goroutines alone once that is done, even if the Finish
\* fails (question.handleCancel).
EveryCallEnds ==
  \A c \in Calls :
     (promise[c] = "pending") ~>
        \/ ~Running
        \/ ReturnLost(c) /\ (Settled(c) \/ ~ctxDone[c])
        \/ Settled(c) /\ (FinishFailed(c) \/ (questionID[qid[c]] # c /\ answers[qid[c]] # c))
================================================================================
