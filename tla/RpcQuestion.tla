------------------------------ MODULE RpcQuestion ------------------------------
(***************************************************************************)
(* The life of a question: rpc/question.go, rpc/answer.go and the handlers *)
(* of rpc/rpc.go for Bootstrap, Call, Return and Finish.                   *)
(*                                                                         *)
(* Two vats share one connection.  The caller owns the question table and  *)
(* the callee the answer table; the opposite direction is a second,        *)
(* independent instance of the same protocol.  Every action is one         *)
(* critical section of Conn.lk, or one step between two of them: the send  *)
(* goroutine, the onSent callbacks it runs, handleCancel, the goroutines   *)
(* handleReturn forks and the server's Returner all interleave.            *)
(***************************************************************************)
EXTENDS Naturals, Sequences

CONSTANTS Calls,        \* identities of the *question values the caller may create
          MaxID,        \* largest question ID: idgen.next panics beyond the last one
          nil,          \* an empty table slot
          SendMayFail,  \* transport.Send and building a message may return an error
          Kinds,        \* the ways of posing each question under study
          AllocMayFail  \* transport.NewMessage may fail for a Return (Conn.newReturn)

ASSUME QuestionAssumption == /\ MaxID \in Nat
                             /\ nil \notin Calls
                             /\ SendMayFail \in BOOLEAN
                             /\ AllocMayFail \in BOOLEAN
                             /\ Kinds \in [Calls -> SUBSET {"bootstrap", "call", "pipeline"}]

VARIABLES
  questions,     \* lk.questions: ID -> question or nil
  questionID,    \* IDs handed out by lk.questionID, with the question each one went to
  kind,          \* how the question is posed: Bootstrap, Send or PipelineSend
  qid,           \* question.id, meaningful once the question exists
  target,        \* PipelineSend: the question the call is pipelined on
  promise,       \* question.p
  finished,      \* question.flags: finished
  finishSent,    \* question.flags: finishSent
  finishMsgSend, \* question.finishMsgSend is closed
  ctxDone,       \* the Context of the call is done
  canceler,      \* the goroutine running handleCancel
  returnTask,    \* the goroutine forked by handleReturn
  release,       \* releaseResultCaps of the Finish built for the question
  result,        \* the call whose answer resolved the question, nil before
  sendTx,        \* the caller's send queue
  sender,        \* the caller's send goroutine
  toCallee,      \* Call and Finish messages on the wire
  answers,       \* lk.answers of the callee: ID -> answer or nil
  answer,        \* ansent.flags, err and whether msgReleaser is nil
  via,           \* the answer a pipelined call was delivered on
  server,        \* the goroutine that serves the call and drives its Returner
  capsReleased,  \* destroy has released the export references of the results
  toCaller,      \* Return messages queued by the callee or on the wire
  fault          \* the error that ends the connection, or a panic

table == <<questions, questionID>>
ident == <<kind, qid, target>>
outcome == <<promise, result>>
flags == <<finished, finishSent, finishMsgSend, release>>
tasks == <<ctxDone, canceler, returnTask>>
callerVars == <<table, ident, outcome, flags, tasks>>
pipes == <<sendTx, toCallee, toCaller>>
network == <<pipes, sender>>
calleeVars == <<answers, answer, via, server, capsReleased>>
vars == <<callerVars, network, calleeVars, fault>>

ID == 0..MaxID
Slot == Calls \cup {nil}
Message == [type : {"call", "finish"}, call : Calls]
Return == [call : Calls, ok : BOOLEAN]
Answer == [returnSent : BOOLEAN, finishReceived : BOOLEAN, resultsReady : BOOLEAN,
           err : BOOLEAN, releaseResultCaps : BOOLEAN, placeholder : BOOLEAN]
Fault == {"none", "answerReused", "unknownQuestion", "unknownFinish", "duplicateFinish",
          "staleTarget", "selfTarget", "noReturn", "resolvedTwice", "noAnswer", "nilReleaser"}
Idle == [at |-> "recv", call |-> nil, ok |-> TRUE]
NewAnswer == [returnSent |-> FALSE, finishReceived |-> FALSE, resultsReady |-> FALSE,
              err |-> FALSE, releaseResultCaps |-> FALSE, placeholder |-> FALSE]

\* Each vat's tables start empty (NewConn).
Init ==
  /\ questions = [i \in ID |-> nil]
  /\ questionID = [i \in ID |-> nil]
  /\ kind = [c \in Calls |-> "unborn"]
  /\ qid = [c \in Calls |-> 0]
  /\ target = [c \in Calls |-> nil]
  /\ promise = [c \in Calls |-> "none"]
  /\ finished = [c \in Calls |-> FALSE]
  /\ finishSent = [c \in Calls |-> FALSE]
  /\ finishMsgSend = [c \in Calls |-> FALSE]
  /\ ctxDone = [c \in Calls |-> FALSE]
  /\ canceler = [c \in Calls |-> "none"]
  /\ returnTask = [c \in Calls |-> "none"]
  /\ release = [c \in Calls |-> FALSE]
  /\ result = [c \in Calls |-> nil]
  /\ sendTx = <<>>
  /\ sender = Idle
  /\ toCallee = <<>>
  /\ answers = [i \in ID |-> nil]
  /\ answer = [c \in Calls |-> NewAnswer]
  /\ via = [c \in Calls |-> nil]
  /\ server = [c \in Calls |-> "none"]
  /\ capsReleased = [c \in Calls |-> FALSE]
  /\ toCaller = <<>>
  /\ fault = "none"

-----------------------------------------------------------------------------
(* The caller: posing questions.                                           *)

\* newQuestion: the lowest free ID (idgen.next) names the new question, whose
\* promise is pending; sendMessage then queues the Call or Bootstrap message.
newQuestion(c) ==
  /\ \E id \in ID :
        /\ questionID[id] = nil
        /\ \A j \in ID : questionID[j] = nil => id <= j
        /\ questionID' = [questionID EXCEPT ![id] = c]
        /\ questions' = [questions EXCEPT ![id] = c]
        /\ qid' = [qid EXCEPT ![c] = id]
  /\ promise' = [promise EXCEPT ![c] = "pending"]
  /\ sendTx' = Append(sendTx, [type |-> "call", call |-> c])

\* questionID.remove: the ID may be handed out again, whoever had it.
Remove(id) == [questionID EXCEPT ![id] = nil]

\* Conn.Bootstrap and importClient.Send.
Pose(c, k) ==
  /\ kind[c] = "unborn"
  /\ kind' = [kind EXCEPT ![c] = k]
  /\ newQuestion(c)
  /\ UNCHANGED <<calleeVars, flags, tasks, target, result, sender, toCallee, toCaller, fault>>

\* Variant: the target is not kept across the unlock.
PipelineCallerForgets(c, t) ==
  /\ kind[c] = "unborn"
  /\ "pipeline" \in Kinds[c]
  /\ promise[t] = "pending"
  /\ kind' = [kind EXCEPT ![c] = "pipeline"]
  /\ UNCHANGED <<calleeVars, table, outcome, flags, tasks, network, qid, target, fault>>

\* Answer.PipelineSend reads the promise's PipelineCaller and unlocks the promise ...
PipelineCaller(c, t) ==
  /\ kind[c] = "unborn"
  /\ "pipeline" \in Kinds[c]
  /\ promise[t] = "pending"
  /\ kind' = [kind EXCEPT ![c] = "pipeline"]
  /\ target' = [target EXCEPT ![c] = t]
  /\ UNCHANGED <<calleeVars, table, outcome, flags, tasks, network, qid, fault>>

\* ... before question.PipelineSend takes Conn.lk; t may have moved on since.
PipelineSend(c) ==
  /\ kind[c] = "pipeline"
  /\ promise[c] = "none"
  /\ newQuestion(c)
  /\ UNCHANGED <<calleeVars, flags, tasks, kind, target, result, sender, toCallee, toCaller, fault>>

\* The application cancels the Context of a call, at any time.
CancelContext(c) ==
  /\ promise[c] # "none"
  /\ ~ctxDone[c]
  /\ ctxDone' = [ctxDone EXCEPT ![c] = TRUE]
  /\ UNCHANGED <<calleeVars, table, ident, outcome, flags, network, canceler, returnTask, fault>>

-----------------------------------------------------------------------------
(* The caller: the send goroutine and the onSent callbacks it runs.        *)

\* Promise.Resolve and Promise.Reject panic on a promise that is already settled.
Settle(c, how) ==
  IF promise[c] = "pending"
    THEN promise' = [promise EXCEPT ![c] = how] /\ fault' = fault
    ELSE promise' = promise /\ fault' = "resolvedTwice"

\* sendMessage's wrapper refuses a message whose Context is done; transport.Send
\* or the build function may also fail.  A message that fails is not delivered.
MayFail(m) == SendMayFail \/ (m.type = "call" /\ ctxDone[m.call])
MustFail(m) == m.type = "call" /\ ctxDone[m.call]

\* asyncSend.Send takes the next message; sender.at names the callback that follows.
AfterSend(m) ==
  CASE m.type = "call" -> "callSent"
    [] m.type = "finish" /\ release[m.call] -> "cancelSent"
    [] OTHER -> "finishSent"

Send(ok) ==
  /\ sender = Idle
  /\ sendTx # <<>>
  /\ IF ok THEN ~MustFail(Head(sendTx)) ELSE MayFail(Head(sendTx))
  /\ sendTx' = Tail(sendTx)
  /\ sender' = [at |-> AfterSend(Head(sendTx)), call |-> Head(sendTx).call, ok |-> ok]
  /\ toCallee' = IF ok THEN Append(toCallee, Head(sendTx)) ELSE toCallee
  /\ UNCHANGED <<callerVars, calleeVars, toCaller, fault>>

\* onSent of Bootstrap, Send and PipelineSend: fork handleCancel.
CallSent ==
  /\ sender.at = "callSent" /\ sender.ok
  /\ canceler' = [canceler EXCEPT ![sender.call] = "select"]
  /\ sender' = Idle
  /\ UNCHANGED <<calleeVars, table, ident, outcome, flags, ctxDone, returnTask, pipes, fault>>

\* onSent after an error: clear the slot, then reject, then free the ID.
CallFailed ==
  /\ sender.at = "callSent" /\ ~sender.ok
  /\ questions' = [questions EXCEPT ![qid[sender.call]] = nil]
  /\ sender' = [sender EXCEPT !.at = "reject"]
  /\ UNCHANGED <<calleeVars, ident, outcome, flags, tasks, questionID, pipes, fault>>

RejectFailed ==
  /\ sender.at = "reject"
  /\ Settle(sender.call, "rejected")
  /\ sender' = [sender EXCEPT !.at = "remove"]
  /\ UNCHANGED <<calleeVars, table, ident, flags, tasks, result, pipes>>

RemoveFailed ==
  /\ sender.at = "remove"
  /\ questionID' = Remove(qid[sender.call])
  /\ sender' = Idle
  /\ UNCHANGED <<calleeVars, ident, outcome, flags, tasks, questions, pipes, fault>>

\* Variant: the ID is given back when the Finish is out, before the Return is in.
CancelSentFreesID ==
  /\ sender.at = "cancelSent"
  /\ finishSent' = [finishSent EXCEPT ![sender.call] = sender.ok]
  /\ questionID' = Remove(qid[sender.call])
  /\ sender' = [sender EXCEPT !.at = "close"]
  /\ UNCHANGED <<calleeVars, questions, ident, outcome, tasks, finished, finishMsgSend, release,
                 pipes, fault>>

\* handleCancel's onSent: set finishSent under the lock ...
CancelSent ==
  /\ sender.at = "cancelSent"
  /\ finishSent' = [finishSent EXCEPT ![sender.call] = sender.ok]
  /\ sender' = [sender EXCEPT !.at = "close"]
  /\ UNCHANGED <<calleeVars, table, ident, outcome, tasks, finished, finishMsgSend, release, pipes,
                 fault>>

\* ... close finishMsgSend ...
CancelClose ==
  /\ sender.at = "close"
  /\ finishMsgSend' = [finishMsgSend EXCEPT ![sender.call] = TRUE]
  /\ sender' = [sender EXCEPT !.at = "cancel"]
  /\ UNCHANGED <<calleeVars, table, ident, outcome, tasks, finished, finishSent, release, pipes,
                 fault>>

\* ... and only then reject the promise.
CancelReject ==
  /\ sender.at = "cancel"
  /\ Settle(sender.call, "rejected")
  /\ sender' = Idle
  /\ UNCHANGED <<calleeVars, table, ident, flags, tasks, result, pipes>>

\* The onSent of handleReturn's Finish runs in one critical section; the ID is
\* freed only if the Finish went out.
FinishSent ==
  /\ sender.at = "finishSent"
  /\ finishSent' = [finishSent EXCEPT ![sender.call] = sender.ok]
  /\ questionID' = IF sender.ok THEN Remove(qid[sender.call]) ELSE questionID
  /\ finishMsgSend' = [finishMsgSend EXCEPT ![sender.call] = TRUE]
  /\ sender' = Idle
  /\ UNCHANGED <<calleeVars, ident, outcome, tasks, questions, finished, release, pipes, fault>>

-----------------------------------------------------------------------------
(* The caller: cancellation and incoming Returns.                          *)

\* handleCancel, woken by the Context: whoever sets finished sends the Finish.
handleCancel(c) ==
  /\ canceler[c] = "select"
  /\ ctxDone[c]
  /\ canceler' = [canceler EXCEPT ![c] = "done"]
  /\ finished' = [finished EXCEPT ![c] = TRUE]
  /\ release' = [release EXCEPT ![c] = IF finished[c] THEN @ ELSE TRUE]
  /\ sendTx' = IF finished[c] THEN sendTx ELSE Append(sendTx, [type |-> "finish", call |-> c])
  /\ UNCHANGED <<calleeVars, table, ident, outcome, finishSent, finishMsgSend, ctxDone, returnTask,
                 sender, toCallee, toCaller, fault>>

\* handleCancel, woken by the settled promise, ends.
handleCancelDone(c) ==
  /\ canceler[c] = "select"
  /\ promise[c] \in {"resolved", "rejected"}
  /\ canceler' = [canceler EXCEPT ![c] = "done"]
  /\ UNCHANGED <<calleeVars, table, ident, outcome, flags, network, ctxDone, returnTask, fault>>

\* Variants of handleReturn: one resolves a cancelled question too, one takes the
\* results of a cancelled question.
handleReturnResolves ==
  /\ toCaller # <<>>
  /\ toCaller' = Tail(toCaller)
  /\ LET m == Head(toCaller)
         id == qid[m.call]
         q == questions[id]
     IN \/ /\ q = nil
           /\ fault' = "unknownQuestion"
           /\ UNCHANGED <<table, finished, returnTask, result>>
        \/ /\ q # nil
           /\ questions' = [questions EXCEPT ![id] = nil]
           /\ finished' = [finished EXCEPT ![q] = TRUE]
           /\ returnTask' = [returnTask EXCEPT ![q] = IF m.ok THEN "resolve" ELSE "reject"]
           /\ UNCHANGED <<result, questionID, fault>>
  /\ UNCHANGED <<calleeVars, ident, promise, finishSent, finishMsgSend, ctxDone, canceler, release,
                 sendTx, sender, toCallee>>

handleReturnKeeps ==
  /\ toCaller # <<>>
  /\ toCaller' = Tail(toCaller)
  /\ LET q == questions[qid[Head(toCaller).call]]
     IN /\ q # nil
        /\ questions' = [questions EXCEPT ![qid[q]] = nil]
        /\ finished' = [finished EXCEPT ![q] = TRUE]
        /\ returnTask' = [returnTask EXCEPT ![q] = IF finished[q] THEN "wait"
                                                     ELSE IF Head(toCaller).ok THEN "resolve" ELSE "reject"]
        /\ result' = [result EXCEPT ![q] = Head(toCaller).call]
  /\ UNCHANGED <<calleeVars, ident, questionID, promise, finishSent, finishMsgSend, ctxDone, canceler,
                 release, sendTx, sender, toCallee, fault>>

\* handleReturn pops the question.  A cancelled one gives its ID back once its
\* Finish is out, at once or in a goroutine that waits for finishMsgSend; any
\* other is resolved by a goroutine of its own.
handleReturn ==
  /\ toCaller # <<>>
  /\ toCaller' = Tail(toCaller)
  /\ LET m == Head(toCaller)
         id == qid[m.call]
         q == questions[id]
     IN \/ /\ q = nil
           /\ fault' = "unknownQuestion"
           /\ UNCHANGED <<table, finished, returnTask, result>>
        \/ /\ q # nil
           /\ questions' = [questions EXCEPT ![id] = nil]
           /\ finished' = [finished EXCEPT ![q] = TRUE]
           /\ IF finished[q]
                THEN /\ questionID' = IF finishMsgSend[q] /\ finishSent[q]
                                        THEN Remove(id) ELSE questionID
                     /\ returnTask' = [returnTask EXCEPT ![q] =
                                         IF finishMsgSend[q] THEN "done" ELSE "wait"]
                     /\ result' = result
                ELSE /\ returnTask' = [returnTask EXCEPT ![q] = IF m.ok THEN "resolve" ELSE "reject"]
                     /\ result' = [result EXCEPT ![q] = m.call]
                     /\ questionID' = questionID
           /\ fault' = fault
  /\ UNCHANGED <<calleeVars, ident, promise, finishSent, finishMsgSend, ctxDone, canceler, release,
                 sendTx, sender, toCallee>>

\* Variants: one does not wait, one does not give the ID back.
WaitFinishEarly(c) ==
  /\ returnTask[c] = "wait"
  /\ questionID' = IF finishSent[c] THEN Remove(qid[c]) ELSE questionID
  /\ returnTask' = [returnTask EXCEPT ![c] = "done"]
  /\ UNCHANGED <<calleeVars, ident, outcome, flags, network, questions, ctxDone, canceler, fault>>

WaitFinishKeepsID(c) ==
  /\ returnTask[c] = "wait"
  /\ finishMsgSend[c]
  /\ returnTask' = [returnTask EXCEPT ![c] = "done"]
  /\ UNCHANGED <<calleeVars, table, ident, outcome, flags, network, ctxDone, canceler, fault>>

\* The goroutine that waits for a cancelled question's Finish.
WaitFinish(c) ==
  /\ returnTask[c] = "wait"
  /\ finishMsgSend[c]
  /\ questionID' = IF finishSent[c] THEN Remove(qid[c]) ELSE questionID
  /\ returnTask' = [returnTask EXCEPT ![c] = "done"]
  /\ UNCHANGED <<calleeVars, ident, outcome, flags, network, questions, ctxDone, canceler, fault>>

\* Variants: one gives the ID back before the Finish is queued, one resolves a
\* question whose Return holds an exception, one settles nothing.
ResolveReturnFreesID(c) ==
  /\ returnTask[c] \in {"resolve", "reject"}
  /\ Settle(c, IF returnTask[c] = "resolve" THEN "resolved" ELSE "rejected")
  /\ questionID' = Remove(qid[c])
  /\ returnTask' = [returnTask EXCEPT ![c] = "finish"]
  /\ UNCHANGED <<calleeVars, questions, ident, flags, network, ctxDone, canceler, result>>

ResolveReturnAlways(c) ==
  /\ returnTask[c] \in {"resolve", "reject"}
  /\ Settle(c, "resolved")
  /\ returnTask' = [returnTask EXCEPT ![c] = "finish"]
  /\ UNCHANGED <<calleeVars, table, ident, flags, network, ctxDone, canceler, result>>

ResolveReturnForgets(c) ==
  /\ returnTask[c] \in {"resolve", "reject"}
  /\ returnTask' = [returnTask EXCEPT ![c] = "finish"]
  /\ UNCHANGED <<calleeVars, table, ident, outcome, flags, network, ctxDone, canceler, fault>>

\* The goroutine that resolves the promise with the results or the exception ...
ResolveReturn(c) ==
  /\ returnTask[c] \in {"resolve", "reject"}
  /\ Settle(c, IF returnTask[c] = "resolve" THEN "resolved" ELSE "rejected")
  /\ returnTask' = [returnTask EXCEPT ![c] = "finish"]
  /\ UNCHANGED <<calleeVars, table, ident, flags, network, ctxDone, canceler, result>>

\* ... and then queues the Finish, keeping the result capabilities.
SendFinish(c) ==
  /\ returnTask[c] = "finish"
  /\ returnTask' = [returnTask EXCEPT ![c] = "done"]
  /\ sendTx' = Append(sendTx, [type |-> "finish", call |-> c])
  /\ UNCHANGED <<calleeVars, table, ident, outcome, flags, ctxDone, canceler, sender, toCallee,
                 toCaller, fault>>

-----------------------------------------------------------------------------
(* The callee.                                                             *)

\* destroy: drop the table entry and, if the Finish asked for it, the export
\* references that the results carried.  A placeholder has no msgReleaser.
destroy(e, a) ==
  /\ answers' = [answers EXCEPT ![qid[e]] = nil]
  /\ capsReleased' = [capsReleased EXCEPT ![e] = a.releaseResultCaps /\ ~a.err]
  /\ fault' = IF a.placeholder THEN "nilReleaser" ELSE fault

\* completeSendReturn and completeSendException of the answer e, whose fields are
\* now a: queue the Return and destroy the answer if its Finish came first.
completeSend(e, a) ==
  LET sent == [a EXCEPT !.resultsReady = TRUE, !.returnSent = TRUE]
  IN /\ answer' = [answer EXCEPT ![e] = sent]
     /\ toCaller' = Append(toCaller, [call |-> e, ok |-> ~a.err])
     /\ IF a.finishReceived THEN destroy(e, sent)
        ELSE UNCHANGED <<answers, capsReleased, fault>>

\* Entering a new answer: newReturn failed in handleCall (errorAnswer), or the Return
\* goes out at once (a Bootstrap, or sendException), or a server goroutine takes the
\* call.
Placeholder(c) ==
  /\ AllocMayFail
  /\ answer' = [answer EXCEPT ![c] = [NewAnswer EXCEPT !.err = TRUE, !.resultsReady = TRUE,
                                       !.returnSent = TRUE, !.placeholder = TRUE]]
  /\ answers' = [answers EXCEPT ![qid[c]] = c]
  /\ server' = [server EXCEPT ![c] = "returned"]
  /\ UNCHANGED <<via, capsReleased, toCaller, fault>>

ReturnAtOnce(c, err) ==
  /\ answer' = [answer EXCEPT ![c] = [NewAnswer EXCEPT !.err = err, !.resultsReady = TRUE,
                                       !.returnSent = TRUE]]
  /\ answers' = [answers EXCEPT ![qid[c]] = c]
  /\ toCaller' = Append(toCaller, [call |-> c, ok |-> ~err])
  /\ server' = [server EXCEPT ![c] = "returned"]
  /\ UNCHANGED <<via, capsReleased, fault>>

Serve(c, t) ==
  /\ answer' = [answer EXCEPT ![c] = NewAnswer]
  /\ answers' = [answers EXCEPT ![qid[c]] = c]
  /\ server' = [server EXCEPT ![c] = "running"]
  /\ via' = [via EXCEPT ![c] = t]
  /\ UNCHANGED <<capsReleased, toCaller, fault>>

\* handleCall's lookup of a pipelined call's target, in the table that already
\* holds the call's own answer.
Target(c) == IF qid[target[c]] = qid[c] THEN c ELSE answers[qid[target[c]]]

Abort(why) == fault' = why /\ UNCHANGED <<calleeVars, toCaller>>

receive(type) == toCallee # <<>> /\ Head(toCallee).type = type /\ toCallee' = Tail(toCallee)

\* handleBootstrap answers within the handler.  When newReturn fails the error goes
\* back to receive, which ends the connection, and the placeholder with it.
handleBootstrap ==
  /\ receive("call")
  /\ LET c == Head(toCallee).call
     IN /\ kind[c] = "bootstrap"
        /\ \/ answers[qid[c]] # nil /\ Abort("answerReused")
           \/ answers[qid[c]] = nil /\ \E err \in BOOLEAN : ReturnAtOnce(c, err)
           \/ answers[qid[c]] = nil /\ AllocMayFail /\ Abort("noReturn")
  /\ UNCHANGED <<callerVars, sendTx, sender>>

\* handleCall: a call that cannot be parsed gets an exception.  A call whose
\* target has its own ID finds its own answer, which has no pcall yet.
handleCall ==
  /\ receive("call")
  /\ LET c == Head(toCallee).call
         t == Target(c)
     IN /\ kind[c] # "bootstrap"
        /\ \/ answers[qid[c]] # nil /\ Abort("answerReused")
           \/ answers[qid[c]] = nil /\ (Placeholder(c) \/ ReturnAtOnce(c, TRUE))
           \/ answers[qid[c]] = nil /\ kind[c] = "call" /\ Serve(c, nil)
           \/ /\ answers[qid[c]] = nil /\ kind[c] = "pipeline"
              /\ \/ t = nil /\ Abort("staleTarget")
                 \/ t = c /\ Abort("selfTarget")
                 \/ t \notin {nil, c} /\ answer[t].finishReceived /\ Abort("staleTarget")
                 \/ /\ t \notin {nil, c} /\ ~answer[t].finishReceived
                    /\ ~(answer[t].resultsReady /\ answer[t].err)
                    /\ Serve(c, t)
  /\ UNCHANGED <<callerVars, sendTx, sender>>

\* Variant: the answer is destroyed although its Return is still to come.
handleFinishEager ==
  /\ receive("finish")
  /\ LET c == Head(toCallee).call
         e == answers[qid[c]]
     IN \/ e = nil /\ Abort("unknownFinish")
        \/ e # nil /\ answer[e].finishReceived /\ Abort("duplicateFinish")
        \/ /\ e # nil /\ ~answer[e].finishReceived
           /\ LET a == [answer[e] EXCEPT !.finishReceived = TRUE, !.releaseResultCaps = release[c]]
              IN answer' = [answer EXCEPT ![e] = a] /\ destroy(e, a)
           /\ UNCHANGED <<via, server, toCaller>>
  /\ UNCHANGED <<callerVars, sendTx, sender>>

\* handleFinish: a finished answer that has returned is destroyed; one that has
\* not is cancelled through the Context of its server goroutine.
handleFinish ==
  /\ receive("finish")
  /\ LET c == Head(toCallee).call
         e == answers[qid[c]]
     IN \/ e = nil /\ Abort("unknownFinish")
        \/ e # nil /\ answer[e].finishReceived /\ Abort("duplicateFinish")
        \/ /\ e # nil /\ ~answer[e].finishReceived
           /\ LET a == [answer[e] EXCEPT !.finishReceived = TRUE, !.releaseResultCaps = release[c]]
              IN /\ answer' = [answer EXCEPT ![e] = a]
                 /\ IF a.returnSent THEN destroy(e, a)
                    ELSE UNCHANGED <<answers, capsReleased, fault>>
           /\ UNCHANGED <<via, server, toCaller>>
  /\ UNCHANGED <<callerVars, sendTx, sender>>

\* A pipelined call waits for the answer it is queued on (queueCaller).
Ready(c) == via[c] # nil => server[via[c]] \in {"prepared", "returned"}

\* ansReturner.PrepareReturn looks the answer up by its ID.
PrepareReturn(c, err) ==
  /\ server[c] = "running" /\ Ready(c)
  /\ server' = [server EXCEPT ![c] = "prepared"]
  /\ LET e == answers[qid[c]]
     IN \/ e = nil /\ fault' = "noAnswer" /\ answer' = answer
        \/ e # nil /\ answer' = [answer EXCEPT ![e].err = err] /\ fault' = fault
  /\ UNCHANGED <<callerVars, network, answers, via, capsReleased>>

\* ansReturner.Return looks it up again.
ReturnCall(c) ==
  /\ server[c] = "prepared"
  /\ server' = [server EXCEPT ![c] = "returned"]
  /\ LET e == answers[qid[c]]
     IN \/ e = nil /\ fault' = "noAnswer" /\ UNCHANGED <<answers, answer, capsReleased, toCaller>>
        \/ e # nil /\ completeSend(e, answer[e])
  /\ UNCHANGED <<callerVars, sendTx, sender, toCallee, via>>

\* The callee's transport fails to send a Return: its onSent only reports it.
LoseReturn ==
  /\ SendMayFail
  /\ toCaller # <<>>
  /\ \E i \in 1..Len(toCaller) :
        toCaller' = [j \in 1..(Len(toCaller) - 1) |-> toCaller[IF j < i THEN j ELSE j + 1]]
  /\ UNCHANGED <<callerVars, calleeVars, sendTx, sender, toCallee, fault>>

-----------------------------------------------------------------------------
\* A connection error or a panic ends the run: tearing down is ConnShutdown's subject.
Running == fault = "none"

Next ==
  /\ Running
  /\ \/ \E c \in Calls : \/ \E k \in Kinds[c] \ {"pipeline"} : Pose(c, k)
                         \/ \E t \in Calls : PipelineCaller(c, t)
                         \/ PipelineSend(c)
                         \/ CancelContext(c)
                         \/ handleCancel(c) \/ handleCancelDone(c)
                         \/ WaitFinish(c) \/ ResolveReturn(c) \/ SendFinish(c)
                         \/ \E err \in BOOLEAN : PrepareReturn(c, err)
                         \/ ReturnCall(c)
     \/ \E ok \in BOOLEAN : Send(ok)
     \/ CallSent \/ CallFailed \/ RejectFailed \/ RemoveFailed
     \/ CancelSent \/ CancelClose \/ CancelReject \/ FinishSent
     \/ handleReturn
     \/ handleBootstrap \/ handleCall \/ handleFinish
     \/ LoseReturn

Spec == Init /\ [][Next]_vars

-----------------------------------------------------------------------------
(* Properties.                                                             *)

TableType ==
  /\ questions \in [ID -> Slot] /\ questionID \in [ID -> Slot]
  /\ kind \in [Calls -> {"unborn", "bootstrap", "call", "pipeline"}]
  /\ qid \in [Calls -> ID]
  /\ target \in [Calls -> Slot]
  /\ \A c \in Calls : kind[c] = "pipeline" => target[c] # nil
OutcomeType ==
  /\ promise \in [Calls -> {"none", "pending", "resolved", "rejected"}]
  /\ result \in [Calls -> Slot]
FlagType ==
  /\ finished \in [Calls -> BOOLEAN] /\ finishSent \in [Calls -> BOOLEAN]
  /\ finishMsgSend \in [Calls -> BOOLEAN] /\ release \in [Calls -> BOOLEAN]
TaskType ==
  /\ ctxDone \in [Calls -> BOOLEAN]
  /\ canceler \in [Calls -> {"none", "select", "done"}]
  /\ returnTask \in [Calls -> {"none", "wait", "resolve", "reject", "finish", "done"}]
SenderType ==
  sender \in [at : {"recv", "callSent", "reject", "remove", "cancelSent", "close", "cancel",
                    "finishSent"}, call : Slot, ok : BOOLEAN]
PipeType == sendTx \in Seq(Message) /\ toCallee \in Seq(Message) /\ toCaller \in Seq(Return)
AnswerType ==
  /\ answers \in [ID -> Slot] /\ answer \in [Calls -> Answer]
  /\ via \in [Calls -> Slot] /\ capsReleased \in [Calls -> BOOLEAN]
  /\ server \in [Calls -> {"none", "running", "prepared", "returned"}]

\* Type invariant.
TypeOK ==
  /\ TableType /\ OutcomeType /\ FlagType /\ TaskType
  /\ SenderType /\ PipeType /\ AnswerType /\ fault \in Fault

\* No vat sees an error in the other's use of question IDs: a Call never names an
\* answer in use (handleCall, "answer ID reused"), a Return never names a question
\* that is gone (handleReturn), a Finish never an answer that is gone or finished
\* (handleFinish).  IDs are given back by four goroutines and reused.
NoProtocolError == fault \notin {"answerReused", "unknownQuestion", "unknownFinish", "duplicateFinish"}

\* question.p is settled once: Promise.Resolve and Promise.Reject never panic
\* although the Return, the Context and a failed send race to settle it.
ResolvedOnce == fault # "resolvedTwice"

\* A question is resolved by the Return of its own Call, never by the Return of an
\* earlier question that had the same ID.
ResultIsOwn == \A c \in Calls : result[c] \in {nil, c}

\* PrepareReturn and Return look the answer up by its ID when the method ends, long
\* after handleCall entered it: the entry is there and is the method's own.
ReturnerFindsAnswer == \A c \in Calls : server[c] \in {"running", "prepared"} => answers[qid[c]] = c

\* The references that results carry are dropped by one side only: if the callee
\* releases them on a Finish with releaseResultCaps, the caller has not taken them.
ResultCapsReleasedOnce == \A c \in Calls : ~(result[c] # nil /\ capsReleased[c])

\* A pipelined Call (question.PipelineSend) finds the answer of the question it was
\* made on, not yet finished: handleCall delivers it there, not on its own answer or
\* on that of a later question, and does not end the connection.
PipelineReachesTarget ==
  /\ fault \notin {"staleTarget", "selfTarget"}
  /\ \A c \in Calls : via[c] \in {nil, target[c]}

\* The placeholder that stands for an answer without a message can be finished like
\* any other answer (doc of ansReturner).
NoNilReleaser == fault # "nilReleaser"

\* An answer counts as results or an exception from the moment it is returned.
Service(c) ==
  CASE server[c] = "none" -> "none"
    [] server[c] \in {"running", "prepared"} -> "running"
    [] OTHER -> IF answer[c].err THEN "exception" ELSE "results"

Contract == INSTANCE CallContract WITH service <- [c \in Calls |-> Service(c)]

\* The application sees the contract of a call (Answer, ReleaseFunc and Returner):
\* it is served at most once, settled at most once, and resolved only after the
\* server returned results for this very call, whatever the two vats interleave.
ImplementsContract == Contract!Spec
====
