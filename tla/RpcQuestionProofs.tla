-------------------------- MODULE RpcQuestionProofs --------------------------
(***************************************************************************)
(* Proofs about RpcQuestion: the connection never meets a reused, unknown  *)
(* or twice finished question ID, no promise is settled twice, every       *)
(* Return resolves the question it answers and every Returner finds its    *)
(* own answer, whatever the calls, the ID space and the failures; and      *)
(* RpcQuestion implements CallContract.  The invariant comes first, then   *)
(* the steps of the caller, those of the callee, and the theorems.         *)
(***************************************************************************)
EXTENDS RpcQuestion, TLAPS

-----------------------------------------------------------------------------
(* Facts about queues: which messages a queue holds, and that it holds no  *)
(* message twice, after Append and Tail.  The facts about sequences they   *)
(* need are stated here, so that the proofs do not carry a library of      *)
(* others in their context.                                                *)

In(x, s) == \E i \in 1..Len(s) : s[i] = x
Distinct(s) == \A i, j \in 1..Len(s) : s[i] = s[j] => i = j

\* A sequence is a function on an initial segment of the positive numbers.
LEMMA SeqDef == \A S : Seq(S) = UNION {[1..n -> S] : n \in Nat}
OBVIOUS

\* A sequence other than the empty one has a positive length.
LEMMA EmptySeq ==
  ASSUME NEW S
  PROVE  <<>> \in Seq(S) /\ Len(<<>>) = 0 /\ \A s \in Seq(S) : s # <<>> => Len(s) \in Nat \ {0}
OBVIOUS

\* An empty sequence has no index.
LEMMA EmptyIndices == 1..Len(<<>>) = {}
OBVIOUS

\* The length of a sequence bounds its domain.
LEMMA LenProperties ==
  ASSUME NEW S, NEW s \in Seq(S)
  PROVE  Len(s) \in Nat /\ s \in [1..Len(s) -> S] /\ DOMAIN s = 1..Len(s)
OBVIOUS

\* An index of a sequence with one more element is an old one or the last.
LEMMA LastOrEarlier ==
  ASSUME NEW n \in Nat, NEW i \in 1..(n + 1)
  PROVE  i \in 1..n \/ i = n + 1
OBVIOUS

\* Taking the head of a queue moves the others up by one.
LEMMA HeadTailProperties ==
  ASSUME NEW S, NEW s \in Seq(S), s # <<>>
  PROVE  /\ Head(s) \in S /\ Tail(s) \in Seq(S)
         /\ Len(Tail(s)) = Len(s) - 1
         /\ \A i \in 1..Len(Tail(s)) : Tail(s)[i] = s[i + 1]
OBVIOUS

\* Appending to a queue leaves the places of the others alone.
LEMMA AppendProperties ==
  ASSUME NEW S, NEW s \in Seq(S), NEW e \in S
  PROVE  /\ Append(s, e) \in Seq(S) /\ Append(s, e) # <<>>
         /\ Len(Append(s, e)) = Len(s) + 1
         /\ \A i \in 1..Len(s) : Append(s, e)[i] = s[i]
         /\ Append(s, e)[Len(s) + 1] = e
OBVIOUS

\* An appended queue holds what it held and the new message.
LEMMA InAppend ==
  ASSUME NEW S, NEW s \in Seq(S), NEW e \in S
  PROVE  /\ Append(s, e) \in Seq(S)
         /\ Append(s, e) # <<>>
         /\ \A x : In(x, Append(s, e)) <=> In(x, s) \/ x = e
BY AppendProperties DEF In

\* Appending a message the queue does not hold keeps its messages distinct.
LEMMA DistinctAppend ==
  ASSUME NEW S, NEW s \in Seq(S), NEW e \in S, Distinct(s), ~In(e, s)
  PROVE  Distinct(Append(s, e))
BY AppendProperties DEF In, Distinct

\* The head leaves a queue of distinct messages; the others stay.
LEMMA InTail ==
  ASSUME NEW S, NEW s \in Seq(S), s # <<>>
  PROVE  /\ Tail(s) \in Seq(S)
         /\ Head(s) \in S
         /\ In(Head(s), s)
         /\ \A x : In(x, s) <=> In(x, Tail(s)) \/ x = Head(s)
         /\ Distinct(s) => Distinct(Tail(s)) /\ ~In(Head(s), Tail(s))
<1>1. Tail(s) \in Seq(S) /\ Head(s) \in S /\ Len(s) \in Nat /\ Len(s) > 0
  BY HeadTailProperties, LenProperties, EmptySeq
<1>2. Len(Tail(s)) = Len(s) - 1 /\ Head(s) = s[1]
  BY HeadTailProperties
<1>3. \A i \in 1..Len(Tail(s)) : Tail(s)[i] = s[i + 1]
  BY <1>2, HeadTailProperties
<1>4. In(Head(s), s)
  BY <1>1, <1>2 DEF In
<1>5. ASSUME NEW x, In(x, Tail(s)) PROVE In(x, s)
  BY <1>1, <1>2, <1>3, <1>5 DEF In
<1>6. ASSUME NEW x, In(x, s), x # Head(s) PROVE In(x, Tail(s))
  <2>1. PICK i \in 1..Len(s) : s[i] = x
    BY <1>6 DEF In
  <2>2. i - 1 \in 1..Len(Tail(s)) /\ Tail(s)[i - 1] = x
    BY <1>1, <1>2, <1>3, <1>6, <2>1
  <2> QED BY <2>2 DEF In
<1>7. ASSUME Distinct(s) PROVE Distinct(Tail(s)) /\ ~In(Head(s), Tail(s))
  <2>1. \A i, j \in 1..Len(Tail(s)) : i + 1 \in 1..Len(s) /\ j + 1 \in 1..Len(s) /\ i + 1 # 1
    BY <1>1, <1>2
  <2>2. Distinct(Tail(s))
    BY <1>1, <1>2, <1>3, <1>7, <2>1 DEF Distinct
  <2>3. ~In(Head(s), Tail(s))
    BY <1>1, <1>2, <1>3, <1>7, <2>1 DEF Distinct, In
  <2> QED BY <2>2, <2>3
<1> QED BY <1>1, <1>4, <1>5, <1>6, <1>7

-----------------------------------------------------------------------------
(* The inductive invariant.                                                *)

CallMsg(c) == [type |-> "call", call |-> c]
FinishMsg(c) == [type |-> "finish", call |-> c]
InTx(m) == In(m, sendTx)
OnWire(m) == In(m, toCallee)
InCall(c, s) == \E i \in 1..Len(s) : s[i].call = c
DistinctCalls(s) == \A i, j \in 1..Len(s) : s[i].call = s[j].call => i = j
Returning(c) == InCall(c, toCaller)
At(c, where) == sender.call = c /\ sender.at \in where

\* The Call has been written to the transport; the Finish has.
Sent(c) == canceler[c] # "none" \/ (At(c, {"callSent"}) /\ sender.ok)
SentFinish(c) == finishSent[c] \/ (At(c, {"cancelSent", "finishSent"}) /\ sender.ok)

\* The send goroutine and the callback it is running.
SenderInv ==
  /\ (sender.call = nil) <=> (sender.at = "recv")
  /\ sender.at = "recv" => sender.ok
  /\ sender.at \in {"reject", "remove"} => ~sender.ok
  /\ sender.at \in {"callSent", "reject"} /\ ~sender.ok => promise[sender.call] = "pending"
  /\ sender.at = "remove" => promise[sender.call] = "rejected"
  /\ sender.at \in {"reject", "remove"} => questions[qid[sender.call]] # sender.call
  /\ sender.at \in {"callSent", "reject", "remove"} => canceler[sender.call] = "none"
  /\ sender.at \in {"cancelSent", "close", "cancel"} =>
        /\ release[sender.call] /\ promise[sender.call] = "pending"
        /\ ~InTx(FinishMsg(sender.call))
        /\ finishMsgSend[sender.call] <=> sender.at = "cancel"
        /\ finishSent[sender.call] <=> (sender.at # "cancelSent" /\ sender.ok)
  /\ sender.at = "finishSent" =>
        /\ returnTask[sender.call] = "done" /\ ~release[sender.call]
        /\ ~InTx(FinishMsg(sender.call))
        /\ ~finishMsgSend[sender.call] /\ ~finishSent[sender.call]

\* A question's flags and goroutines.
QuestionInv(c) ==
  /\ kind[c] = "unborn" => promise[c] = "none"
  /\ promise[c] = "none" => ~InTx(CallMsg(c)) /\ sender.call # c /\ canceler[c] = "none"
  /\ ~Sent(c) => ~finished[c]
  /\ Sent(c) /\ ~finished[c] => promise[c] = "pending"
  /\ finished[c] <=> (release[c] \/ returnTask[c] # "none")
  /\ ~finished[c] => ~finishSent[c] /\ ~finishMsgSend[c]
  /\ release[c] => canceler[c] = "done" /\ returnTask[c] \in {"none", "wait", "done"}
  /\ returnTask[c] = "wait" => release[c]
  /\ release[c] /\ returnTask[c] = "done" => finishMsgSend[c]
  /\ finishSent[c] => finishMsgSend[c] \/ At(c, {"close"})
  /\ finishMsgSend[c] => ~At(c, {"cancelSent", "close", "finishSent"})
  /\ returnTask[c] \in {"resolve", "reject"} => promise[c] = "pending"
  /\ returnTask[c] \in {"resolve", "reject", "finish"} => ~finishSent[c] /\ ~finishMsgSend[c]
  /\ (result[c] # nil) <=> (returnTask[c] # "none" /\ ~release[c])
  /\ result[c] \in {nil, c}

\* The caller's queue and tables.
TableInv(c) ==
  /\ InTx(CallMsg(c)) => promise[c] = "pending" /\ canceler[c] = "none" /\ sender.call # c
  /\ InTx(FinishMsg(c)) => /\ finished[c] /\ ~finishSent[c] /\ ~finishMsgSend[c]
                           /\ release[c] => promise[c] = "pending"
                           /\ ~release[c] => returnTask[c] = "done"
  /\ InTx(CallMsg(c)) \/ (Sent(c) /\ returnTask[c] = "none") => questions[qid[c]] = c
  /\ InTx(CallMsg(c)) \/ At(c, {"callSent", "reject", "remove"}) => questionID[qid[c]] = c
  /\ Sent(c) /\ ~(returnTask[c] = "done" /\ finishSent[c]) => questionID[qid[c]] = c
SlotInv ==
  \A i \in ID : questions[i] # nil => /\ qid[questions[i]] = i
                                      /\ questionID[i] = questions[i]
                                      /\ returnTask[questions[i]] = "none"
                                      /\ promise[questions[i]] # "none"
DistinctInv ==
  /\ Distinct(sendTx)
  /\ Distinct(toCallee)
  /\ DistinctCalls(toCaller)

\* The callee's answers, and what is still on its way to or from it.
AnswerInv(c) ==
  /\ Sent(c) <=> (OnWire(CallMsg(c)) \/ server[c] # "none")
  /\ OnWire(CallMsg(c)) => server[c] = "none"
  /\ SentFinish(c) <=> (OnWire(FinishMsg(c)) \/ answer[c].finishReceived)
  /\ OnWire(FinishMsg(c)) => ~answer[c].finishReceived
  /\ answer[c].finishReceived => server[c] # "none"
  /\ answer[c].returnSent <=> server[c] = "returned"
  /\ answers[qid[c]] = c <=> server[c] # "none" /\ ~(answer[c].returnSent /\ answer[c].finishReceived)
  /\ Returning(c) => server[c] = "returned" /\ returnTask[c] = "none"
  /\ returnTask[c] # "none" => server[c] = "returned"
  /\ answer[c].releaseResultCaps => release[c]
  /\ capsReleased[c] => release[c]
AnswersInv == \A i \in ID : answers[i] # nil => qid[answers[i]] = i
OrderInv ==
  \A i \in 1..Len(toCallee) : \A c \in Calls :
     /\ toCallee[i] = FinishMsg(c) => \A j \in 1..Len(toCallee) : toCallee[j] = CallMsg(c) => j < i
     /\ toCallee[i].type = "call" /\ toCallee[i].call # c /\ answers[qid[toCallee[i].call]] = c
          => \E j \in 1..(i - 1) : toCallee[j] = FinishMsg(c)
UniqueInv ==
  \A i, j \in 1..Len(toCallee) :
     toCallee[i].type = "call" /\ toCallee[j].type = "call" /\ qid[toCallee[i].call] = qid[toCallee[j].call]
       => i = j

\* What holds of the two vats together while the connection is up.
Live ==
  /\ SenderInv /\ SlotInv /\ DistinctInv /\ AnswersInv /\ OrderInv /\ UniqueInv
  /\ \A c \in Calls : QuestionInv(c) /\ TableInv(c) /\ AnswerInv(c)

\* What holds for ever.
Safety == /\ NoProtocolError /\ ResolvedOnce /\ ResultIsOwn
          /\ ReturnerFindsAnswer /\ ResultCapsReleasedOnce /\ fault # "noAnswer"

\* The inductive invariant: the properties above, and while no fault has ended the
\* connection, the agreement of the caller's table, the queues, the goroutines of
\* question.go and the callee's table on how far each question is.
IInv == TypeOK /\ Safety /\ (fault = "none" => Live)
-----------------------------------------------------------------------------
(* Facts about the queue of Returns.                                       *)

\* A lost Return leaves the others in order.
LEMMA ReturnDrop ==
  ASSUME NEW S, NEW s \in Seq(S), NEW i \in 1..Len(s),
         NEW t, t = [j \in 1..(Len(s) - 1) |-> s[IF j < i THEN j ELSE j + 1]]
  PROVE  /\ t \in Seq(S)
         /\ \A c : InCall(c, t) => InCall(c, s)
         /\ DistinctCalls(s) => DistinctCalls(t)
<1>1. Len(s) \in Nat /\ s \in [1..Len(s) -> S]
  BY LenProperties
<1>2. Len(s) - 1 \in Nat
  BY <1>1
<1>3. t \in [1..(Len(s) - 1) -> S]
  BY <1>1
<1>4. t \in Seq(S)
  BY <1>2, <1>3, SeqDef
<1>5. Len(t) \in Nat /\ DOMAIN t = 1..Len(t) /\ DOMAIN t = 1..(Len(s) - 1)
  BY <1>3, <1>4, LenProperties
<1>6. Len(t) = Len(s) - 1
  BY <1>2, <1>5
<1>7. \A j \in 1..Len(t) : /\ (IF j < i THEN j ELSE j + 1) \in 1..Len(s)
                           /\ t[j] = s[IF j < i THEN j ELSE j + 1]
  BY <1>1, <1>6
<1>8. \A c : InCall(c, t) => InCall(c, s)
  BY <1>7 DEF InCall
<1>9. ASSUME DistinctCalls(s) PROVE DistinctCalls(t)
  <2>1. \A j, k \in 1..Len(t) : t[j].call = t[k].call =>
           (IF j < i THEN j ELSE j + 1) = (IF k < i THEN k ELSE k + 1)
    BY <1>7, <1>9 DEF DistinctCalls
  <2>2. i \in Nat /\ \A j, k \in Nat : (IF j < i THEN j ELSE j + 1) = (IF k < i THEN k ELSE k + 1) => j = k
    BY <1>1
  <2>3. \A j \in 1..Len(t) : j \in Nat
    BY <1>5
  <2> QED BY ZenonT(60), <2>1, <2>2, <2>3 DEF DistinctCalls
<1> QED BY <1>4, <1>8, <1>9

\* A delivered Return leaves the queue; the others stay.
LEMMA ReturnTail ==
  ASSUME NEW s \in Seq(Return), s # <<>>, DistinctCalls(s)
  PROVE  /\ InCall(Head(s).call, s)
         /\ DistinctCalls(Tail(s))
         /\ \A c : InCall(c, Tail(s)) <=> InCall(c, s) /\ c # Head(s).call
<1>1. Len(s) \in Nat /\ Len(s) > 0
  BY LenProperties, EmptySeq
<1>2. Len(Tail(s)) = Len(s) - 1 /\ Head(s) = s[1] /\ \A i \in 1..Len(Tail(s)) : Tail(s)[i] = s[i + 1]
  BY HeadTailProperties
<1>3. \A i \in 1..Len(Tail(s)) : i + 1 \in 1..Len(s) /\ i + 1 # 1
  BY <1>1, <1>2
<1>4. 1 \in 1..Len(s) /\ InCall(Head(s).call, s)
  BY <1>1, <1>2 DEF InCall
<1>5. DistinctCalls(Tail(s))
  BY <1>1, <1>2, <1>3 DEF DistinctCalls
<1>6. ASSUME NEW c, InCall(c, Tail(s)) PROVE InCall(c, s) /\ c # Head(s).call
  BY <1>2, <1>3, <1>4, <1>6 DEF InCall, DistinctCalls
<1>7. ASSUME NEW c, InCall(c, s), c # Head(s).call PROVE InCall(c, Tail(s))
  <2>1. PICK i \in 1..Len(s) : s[i].call = c
    BY <1>7 DEF InCall
  <2>2. i - 1 \in 1..Len(Tail(s)) /\ Tail(s)[i - 1].call = c
    BY <1>1, <1>2, <1>7, <2>1
  <2> QED BY Zenon, <2>2 DEF InCall
<1> QED BY <1>4, <1>5, <1>6, <1>7

\* A queued Return of a question that has none on its way.
LEMMA ReturnAppend ==
  ASSUME NEW s \in Seq(Return), NEW r \in Return, DistinctCalls(s), ~InCall(r.call, s)
  PROVE  /\ DistinctCalls(Append(s, r))
         /\ \A c : InCall(c, Append(s, r)) <=> InCall(c, s) \/ c = r.call
BY AppendProperties DEF InCall, DistinctCalls

\* The empty tables of NewConn have their types.
LEMMA TypeInit == Init => TypeOK
<1>1. Init => PipeType
  BY EmptySeq DEF Init, PipeType
<1>2. Init => TableType /\ OutcomeType /\ FlagType /\ TaskType
  BY QuestionAssumption DEF Init, TableType, OutcomeType, FlagType, TaskType, ID, Slot
<1>3. Init => SenderType /\ AnswerType /\ fault \in Fault
  BY QuestionAssumption DEF Init, SenderType, AnswerType, Idle, NewAnswer, Answer, Fault, ID, Slot
<1> QED
  BY <1>1, <1>2, <1>3 DEF TypeOK

\* Every step of either vat keeps tables, queues and goroutines in their types.
LEMMA TypeNext == ASSUME TypeOK, Next PROVE TypeOK'
<1> USE QuestionAssumption
<1>a. /\ TableType /\ OutcomeType /\ FlagType /\ TaskType
      /\ SenderType /\ PipeType /\ AnswerType /\ fault \in Fault
  BY DEF TypeOK
<1>b. /\ UNCHANGED <<table, ident>> => TableType'
      /\ UNCHANGED outcome => OutcomeType'
      /\ UNCHANGED flags => FlagType'
      /\ UNCHANGED tasks => TaskType'
  BY <1>a DEF table, ident, outcome, flags, tasks, TableType, OutcomeType, FlagType, TaskType
<1>c. /\ UNCHANGED sender => SenderType'
      /\ UNCHANGED pipes => PipeType'
      /\ UNCHANGED calleeVars => AnswerType'
      /\ UNCHANGED fault => fault' \in Fault
  BY <1>a DEF pipes, calleeVars, SenderType, PipeType, AnswerType
<1>d. /\ \A m \in Message : Append(sendTx, m) \in Seq(Message) /\ Append(toCallee, m) \in Seq(Message)
      /\ \A r \in Return : Append(toCaller, r) \in Seq(Return)
      /\ sendTx # <<>> => Head(sendTx) \in Message /\ Tail(sendTx) \in Seq(Message)
      /\ toCallee # <<>> => Head(toCallee) \in Message /\ Tail(toCallee) \in Seq(Message)
      /\ toCaller # <<>> => Head(toCaller) \in Return /\ Tail(toCaller) \in Seq(Return)
  BY <1>a, InTail, InAppend DEF PipeType
<1>e. ASSUME NEW c \in Calls, NEW t \in Slot, NEW err \in BOOLEAN,
             \/ Placeholder(c) \/ ReturnAtOnce(c, err) \/ Serve(c, t)
             \/ \E why \in Fault : Abort(why)
      PROVE  AnswerType' /\ toCaller' \in Seq(Return) /\ fault' \in Fault
  <2>1. [call |-> c, ok |-> ~err] \in Return /\ qid[c] \in ID
    BY <1>a DEF Return, TableType
  <2>2. CASE Placeholder(c)
    BY Zenon, <1>a, <2>1, <2>2 DEF Placeholder, AnswerType, PipeType, NewAnswer, Answer, Slot
  <2>3. CASE ReturnAtOnce(c, err)
    BY Zenon, <1>a, <1>d, <2>1, <2>3 DEF ReturnAtOnce, AnswerType, PipeType, NewAnswer, Answer, Slot
  <2>4. CASE Serve(c, t)
    BY <1>a, <2>1, <2>4 DEF Serve, AnswerType, PipeType, NewAnswer, Answer, Slot
  <2>5. CASE \E why \in Fault : Abort(why)
    BY <1>a, <1>c, <2>5 DEF Abort, PipeType
  <2> QED BY <1>e, <2>2, <2>3, <2>4, <2>5
<1>1. ASSUME NEW c \in Calls, NEW k \in Kinds[c] \ {"pipeline"}, Pose(c, k) PROVE TypeOK'
  <2>0. k \in {"bootstrap", "call"}
    BY <1>1, QuestionAssumption
  <2>1. TableType'
    BY <1>1, <1>a, <2>0 DEF Pose, newQuestion, TableType, table, ident, ID, Slot
  <2>2. OutcomeType'
    BY <1>1, <1>a DEF Pose, newQuestion, OutcomeType, ID, Slot
  <2>3. PipeType'
    BY <1>1, <1>a, <1>d DEF Pose, newQuestion, PipeType, Message, Return
  <2> QED BY ZenonT(60), <1>1, <1>b, <1>c, <2>1, <2>2, <2>3 DEF Pose, TypeOK, callerVars, network
<1>2. ASSUME NEW c \in Calls, NEW t \in Calls, PipelineCaller(c, t) PROVE TypeOK'
  <2>1. TableType'
    BY ZenonT(60), <1>2, <1>a DEF PipelineCaller, TableType, table, ident, ID, Slot
  <2> QED BY <1>2, <1>b, <1>c, <2>1 DEF PipelineCaller, TypeOK, callerVars, network
<1>3. ASSUME NEW c \in Calls, PipelineSend(c) PROVE TypeOK'
  <2>1. TableType'
    BY <1>3, <1>a DEF PipelineSend, newQuestion, TableType, table, ident, ID, Slot
  <2>2. OutcomeType'
    BY <1>3, <1>a DEF PipelineSend, newQuestion, OutcomeType, ID, Slot
  <2>3. PipeType'
    BY <1>3, <1>a, <1>d DEF PipelineSend, newQuestion, PipeType, Message, Return
  <2> QED BY ZenonT(60), <1>3, <1>b, <1>c, <2>1, <2>2, <2>3 DEF PipelineSend, TypeOK, callerVars, network
<1>4. ASSUME NEW c \in Calls, CancelContext(c) PROVE TypeOK'
  <2>1. TaskType'
    BY <1>4, <1>a DEF CancelContext, TaskType, ID, Slot
  <2> QED BY <1>4, <1>b, <1>c, <2>1 DEF CancelContext, TypeOK, callerVars, network
<1>5. ASSUME NEW c \in Calls, handleCancel(c) PROVE TypeOK'
  <2>1. FlagType'
    BY Zenon, <1>5, <1>a DEF handleCancel, FlagType
  <2>2. TaskType'
    BY <1>5, <1>a DEF handleCancel, TaskType, ID, Slot
  <2>3. PipeType'
    BY Zenon, <1>5, <1>a, <1>d DEF handleCancel, PipeType, Message, Return
  <2> QED BY <1>5, <1>b, <1>c, <2>1, <2>2, <2>3 DEF handleCancel, TypeOK, callerVars, network
<1>6. ASSUME NEW c \in Calls, handleCancelDone(c) PROVE TypeOK'
  <2>1. TaskType'
    BY ZenonT(60), <1>6, <1>a DEF handleCancelDone, TaskType, ID, Slot
  <2> QED BY <1>6, <1>b, <1>c, <2>1 DEF handleCancelDone, TypeOK, callerVars, network
<1>7. ASSUME NEW c \in Calls, WaitFinish(c) PROVE TypeOK'
  <2>1. TableType'
    BY ZenonT(60), <1>7, <1>a DEF WaitFinish, Remove, TableType, table, ident, ID, Slot
  <2>2. TaskType'
    BY ZenonT(60), <1>7, <1>a DEF WaitFinish, Remove, TaskType, ID, Slot
  <2> QED BY ZenonT(60), <1>7, <1>b, <1>c, <2>1, <2>2 DEF WaitFinish, TypeOK, callerVars, network
<1>8. ASSUME NEW c \in Calls, ResolveReturn(c) PROVE TypeOK'
  <2>1. OutcomeType'
    BY <1>8, <1>a DEF ResolveReturn, Settle, OutcomeType, ID, Slot
  <2>2. TaskType'
    BY <1>8, <1>a DEF ResolveReturn, Settle, TaskType, ID, Slot
  <2>3. fault' \in Fault
    BY ZenonT(60), <1>8, <1>a DEF ResolveReturn, Settle, Fault, ID, Slot
  <2> QED BY ZenonT(60), <1>8, <1>b, <1>c, <2>1, <2>2, <2>3 DEF ResolveReturn, TypeOK, callerVars, network
<1>9. ASSUME NEW c \in Calls, SendFinish(c) PROVE TypeOK'
  <2>1. TaskType'
    BY ZenonT(60), <1>9, <1>a DEF SendFinish, TaskType, ID, Slot
  <2>2. PipeType'
    BY ZenonT(60), <1>9, <1>a, <1>d DEF SendFinish, PipeType, Message, Return
  <2> QED BY ZenonT(60), <1>9, <1>b, <1>c, <2>1, <2>2 DEF SendFinish, TypeOK, callerVars, network
<1>10. ASSUME NEW c \in Calls, NEW err \in BOOLEAN, PrepareReturn(c, err) PROVE TypeOK'
  <2>1. answers[qid[c]] \in Slot
    BY <1>a DEF TableType, AnswerType
  <2>2. answer' \in [Calls -> Answer]
    BY SMTT(60), <1>10, <1>a, <2>1 DEF PrepareReturn, AnswerType, Slot, Answer
  <2>3. AnswerType'
    BY <1>10, <1>a, <2>2 DEF PrepareReturn, AnswerType
  <2>4. fault' \in Fault
    BY <1>10, <1>a DEF PrepareReturn, Fault
  <2> QED BY ZenonT(60), <1>10, <1>b, <1>c, <2>3, <2>4 DEF PrepareReturn, TypeOK, callerVars, network
<1>11. ASSUME NEW c \in Calls, ReturnCall(c) PROVE TypeOK'
  <2> DEFINE e == answers[qid[c]]
  <2>1. CASE e = nil
    <3>1. AnswerType' /\ PipeType' /\ fault' \in Fault
      BY ZenonT(60), <1>11, <1>a, <2>1 DEF ReturnCall, AnswerType, PipeType, Fault, completeSend
    <3> QED BY ZenonT(60), <1>11, <1>b, <1>c, <3>1 DEF ReturnCall, TypeOK, callerVars
  <2>2. CASE e # nil
    <3>1. e \in Calls /\ qid[e] \in ID /\ answer[e] \in Answer
      BY ZenonT(60), <1>a, <2>2 DEF TableType, AnswerType, Slot
    <3>2. [call |-> e, ok |-> ~answer[e].err] \in Return
      BY <3>1 DEF Return, Answer
    <3>3. [answer[e] EXCEPT !.resultsReady = TRUE, !.returnSent = TRUE] \in Answer
      BY Zenon, <3>1 DEF Answer
    <3>4. completeSend(e, answer[e])
      BY ZenonT(60), <1>11, <2>2 DEF ReturnCall
    <3>5. PipeType'
      BY <1>11, <1>a, <1>d, <3>2, <3>4 DEF ReturnCall, completeSend, PipeType
    <3>6. AnswerType'
      BY ZenonT(60), <1>11, <1>a, <3>1, <3>3, <3>4 DEF ReturnCall, completeSend, destroy, AnswerType, Slot, Answer
    <3>7. fault' \in Fault
      BY ZenonT(60), <1>a, <3>4 DEF completeSend, destroy, Fault
    <3> QED BY ZenonT(60), <1>11, <1>b, <1>c, <3>5, <3>6, <3>7 DEF ReturnCall, TypeOK, callerVars
  <2> QED BY ZenonT(60), <2>1, <2>2
<1>12. ASSUME NEW ok \in BOOLEAN, Send(ok) PROVE TypeOK'
  <2>1. Head(sendTx) \in Message
    BY <1>12, <1>d DEF Send
  <2>2. SenderType'
    BY ZenonT(60), <1>12, <2>1 DEF Send, AfterSend, SenderType, Slot, Message
  <2>3. PipeType'
    BY ZenonT(60), <1>12, <1>a, <1>d DEF Send, PipeType
  <2> QED BY ZenonT(60), <1>12, <1>b, <1>c, <2>2, <2>3 DEF Send, TypeOK, callerVars
<1>13. ASSUME CallSent PROVE TypeOK'
  <2>1. TaskType'
    BY Zenon, <1>13, <1>a DEF CallSent, Idle, TaskType, ID, Slot
  <2>2. SenderType'
    BY <1>13, <1>a DEF CallSent, Idle, SenderType, ID, Slot
  <2> QED BY <1>13, <1>b, <1>c, <2>1, <2>2 DEF CallSent, TypeOK, callerVars, network
<1>14. ASSUME CallFailed PROVE TypeOK'
  <2>1. TableType'
    BY Zenon, <1>14, <1>a DEF CallFailed, TableType, table, ident, ID, Slot
  <2>2. SenderType'
    BY <1>14, <1>a DEF CallFailed, SenderType, ID, Slot
  <2> QED BY <1>14, <1>b, <1>c, <2>1, <2>2 DEF CallFailed, TypeOK, callerVars, network
<1>15. ASSUME RejectFailed PROVE TypeOK'
  <2>1. OutcomeType'
    BY <1>15, <1>a DEF RejectFailed, Settle, OutcomeType, ID, Slot
  <2>2. SenderType'
    BY <1>15, <1>a DEF RejectFailed, Settle, SenderType, ID, Slot
  <2>3. fault' \in Fault
    BY ZenonT(60), <1>15, <1>a DEF RejectFailed, Settle, Fault, ID, Slot
  <2> QED BY ZenonT(60), <1>15, <1>b, <1>c, <2>1, <2>2, <2>3 DEF RejectFailed, TypeOK, callerVars, network
<1>16. ASSUME RemoveFailed PROVE TypeOK'
  <2>1. TableType'
    BY Zenon, <1>16, <1>a DEF RemoveFailed, Remove, Idle, TableType, table, ident, ID, Slot
  <2>2. SenderType'
    BY <1>16, <1>a DEF RemoveFailed, Remove, Idle, SenderType, ID, Slot
  <2> QED BY <1>16, <1>b, <1>c, <2>1, <2>2 DEF RemoveFailed, TypeOK, callerVars, network
<1>17. ASSUME CancelSent PROVE TypeOK'
  <2>1. FlagType'
    BY Zenon, <1>17, <1>a DEF CancelSent, FlagType, SenderType
  <2>2. SenderType'
    BY <1>17, <1>a DEF CancelSent, SenderType, ID, Slot
  <2> QED BY <1>17, <1>b, <1>c, <2>1, <2>2 DEF CancelSent, TypeOK, callerVars, network
<1>18. ASSUME CancelClose PROVE TypeOK'
  <2>1. FlagType'
    BY Zenon, <1>18, <1>a DEF CancelClose, FlagType, SenderType
  <2>2. SenderType'
    BY ZenonT(60), <1>18, <1>a DEF CancelClose, SenderType, ID, Slot
  <2> QED BY <1>18, <1>b, <1>c, <2>1, <2>2 DEF CancelClose, TypeOK, callerVars, network
<1>19. ASSUME CancelReject PROVE TypeOK'
  <2>1. OutcomeType'
    BY ZenonT(60), <1>19, <1>a DEF CancelReject, Settle, Idle, OutcomeType, ID, Slot
  <2>2. SenderType'
    BY ZenonT(60), <1>19, <1>a DEF CancelReject, Settle, Idle, SenderType, ID, Slot
  <2>3. fault' \in Fault
    BY ZenonT(60), <1>19, <1>a DEF CancelReject, Settle, Idle, Fault, ID, Slot
  <2> QED BY ZenonT(60), <1>19, <1>b, <1>c, <2>1, <2>2, <2>3 DEF CancelReject, TypeOK, callerVars, network
<1>20. ASSUME FinishSent PROVE TypeOK'
  <2>1. TableType'
    BY Zenon, <1>20, <1>a DEF FinishSent, Remove, Idle, TableType, table, ident, ID, Slot
  <2>2. FlagType'
    BY Zenon, <1>20, <1>a DEF FinishSent, Remove, Idle, FlagType, SenderType
  <2>3. SenderType'
    BY <1>20, <1>a DEF FinishSent, Remove, Idle, SenderType, ID, Slot
  <2> QED BY ZenonT(60), <1>20, <1>b, <1>c, <2>1, <2>2, <2>3 DEF FinishSent, TypeOK, callerVars, network
<1>21. ASSUME handleReturn PROVE TypeOK'
  <2>0. /\ \/ questions' = questions
           \/ \E id \in ID : questions' = [questions EXCEPT ![id] = nil]
        /\ \/ questionID' = questionID
           \/ \E id \in ID : questionID' = [questionID EXCEPT ![id] = nil]
    <3>1. toCaller # <<>> => qid[Head(toCaller).call] \in ID
      BY <1>a, <1>d DEF TableType, Return
    <3> QED BY ZenonT(60), <1>21, <3>1 DEF handleReturn, Remove, table
  <2>1. TableType'
    <3>1. ident' = ident
      BY ZenonT(60), <1>21 DEF handleReturn
    <3> QED BY SMTT(60), <1>a, <2>0, <3>1 DEF TableType, ident, Slot
  <2>2. OutcomeType'
    BY Zenon, <1>21, <1>a, <1>d DEF handleReturn, Return, OutcomeType, Slot
  <2>3. FlagType'
    BY Zenon, <1>21, <1>a DEF handleReturn, Remove, Return, FlagType
  <2>4. TaskType'
    BY ZenonT(60), <1>21, <1>a DEF handleReturn, Remove, Return, TaskType, ID, Slot
  <2>5. PipeType'
    BY Zenon, <1>21, <1>a, <1>d DEF handleReturn, Remove, Return, PipeType, Message, Return
  <2>6. fault' \in Fault
    BY ZenonT(60), <1>21, <1>a DEF handleReturn, Remove, Return, Fault, ID, Slot
  <2> QED BY Zenon, <1>21, <1>b, <1>c, <2>1, <2>2, <2>3, <2>4, <2>5, <2>6 DEF handleReturn, TypeOK, callerVars, network
<1>22. ASSUME handleBootstrap PROVE TypeOK'
  <2> DEFINE c == Head(toCallee).call
  <2>1. c \in Calls /\ toCallee' \in Seq(Message) /\ UNCHANGED sendTx
    <3>1. receive("call") /\ UNCHANGED sendTx
      BY ZenonT(60), <1>22 DEF handleBootstrap
    <3> QED BY <1>d, <3>1 DEF receive, Message
  <2>2. AnswerType' /\ toCaller' \in Seq(Return) /\ fault' \in Fault
    BY <1>22, <1>a, <1>e, <2>1 DEF handleBootstrap, Fault, Slot, Target, TableType, AnswerType
  <2>3. PipeType'
    BY <1>a, <2>1, <2>2 DEF PipeType
  <2> QED BY ZenonT(60), <1>22, <1>b, <1>c, <2>2, <2>3 DEF handleBootstrap, TypeOK, callerVars
<1>23. ASSUME handleCall PROVE TypeOK'
  <2> DEFINE c == Head(toCallee).call
  <2>1. c \in Calls /\ toCallee' \in Seq(Message) /\ UNCHANGED sendTx
    <3>1. receive("call") /\ UNCHANGED sendTx
      BY Zenon, <1>23 DEF handleCall
    <3> QED BY <1>d, <3>1 DEF receive, Message
  <2>2. \/ Placeholder(c) \/ ReturnAtOnce(c, TRUE) \/ Serve(c, nil)
        \/ kind[c] = "pipeline" /\ Serve(c, Target(c))
        \/ \E why \in Fault : Abort(why)
    BY ZenonT(60), <1>23 DEF handleCall, Fault
  <2>3. nil \in Slot /\ (kind[c] = "pipeline" => Target(c) \in Slot)
    <3>1. c \in Slot /\ (kind[c] = "pipeline" => target[c] \in Calls)
      BY <1>a, <2>1 DEF TableType, Slot
    <3> QED BY ZenonT(60), <1>a, <2>1, <3>1 DEF Target, Slot, TableType, AnswerType
  <2>4. AnswerType' /\ toCaller' \in Seq(Return) /\ fault' \in Fault
    BY Zenon, <1>e, <2>1, <2>2, <2>3
  <2>5. PipeType'
    BY <1>a, <2>1, <2>4 DEF PipeType
  <2> QED BY ZenonT(60), <1>23, <1>b, <1>c, <2>4, <2>5 DEF handleCall, TypeOK, callerVars
<1>24. ASSUME handleFinish PROVE TypeOK'
  <2> DEFINE c == Head(toCallee).call
             e == answers[qid[c]]
  <2>1. c \in Calls /\ e \in Slot /\ PipeType' /\ UNCHANGED sender
    BY Zenon, <1>24, <1>a, <1>d DEF handleFinish, receive, Abort, Message, PipeType, TableType, AnswerType
  <2>2. CASE \E why \in Fault : Abort(why)
    BY Zenon, <1>24, <1>b, <1>c, <2>1, <2>2 DEF handleFinish, Abort, TypeOK, callerVars
  <2>3. CASE e # nil /\ ~(\E why \in Fault : Abort(why))
    <3> DEFINE a == [answer[e] EXCEPT !.finishReceived = TRUE, !.releaseResultCaps = release[c]]
    <3>1. a \in Answer /\ e \in Calls /\ qid[e] \in ID
      <4>1. e \in Calls
        BY ZenonT(60), <2>1, <2>3 DEF Slot
      <4>2. answer[e] \in Answer /\ release[c] \in BOOLEAN /\ qid[e] \in ID
        BY <1>a, <2>1, <4>1 DEF AnswerType, FlagType, TableType
      <4> QED BY Zenon, <4>1, <4>2 DEF Answer
    <3>2. /\ answer' = [answer EXCEPT ![e] = a]
          /\ IF a.returnSent THEN destroy(e, a) ELSE UNCHANGED <<answers, capsReleased, fault>>
          /\ UNCHANGED <<via, server, toCaller>>
      BY ZenonT(60), <1>24, <2>3 DEF handleFinish, Fault
    <3> HIDE DEF a, e
    <3>3. AnswerType' /\ fault' \in Fault
      BY ZenonT(60), <1>a, <3>1, <3>2 DEF destroy, AnswerType, Slot, Answer, Fault
    <3> QED BY ZenonT(60), <1>24, <1>b, <1>c, <2>1, <3>3 DEF handleFinish, TypeOK, callerVars
  <2> QED BY Zenon, <1>24, <2>2, <2>3 DEF handleFinish, Fault
<1>25. ASSUME LoseReturn PROVE TypeOK'
  <2>1. PICK i \in 1..Len(toCaller) :
          toCaller' = [j \in 1..(Len(toCaller) - 1) |-> toCaller[IF j < i THEN j ELSE j + 1]]
    BY <1>25 DEF LoseReturn
  <2>2. toCaller' \in Seq(Return)
    BY <1>a, <2>1, ReturnDrop DEF PipeType
  <2>3. PipeType'
    BY <1>25, <1>a, <2>2 DEF LoseReturn, PipeType
  <2> QED BY <1>25, <1>b, <1>c, <2>3 DEF LoseReturn, TypeOK, callerVars
<1> QED BY ZenonT(60), <1>1, <1>2, <1>3, <1>4, <1>5, <1>6, <1>7, <1>8, <1>9, <1>10, <1>11, <1>12, <1>13, <1>14, <1>15, <1>16, <1>17, <1>18, <1>19, <1>20, <1>21, <1>22, <1>23, <1>24, <1>25 DEF Next


-----------------------------------------------------------------------------
(* Facts the steps below share.                                            *)

\* The entries of tables and the current question of the sender, by type.
LEMMA Types ==
  ASSUME TypeOK
  PROVE  /\ nil \notin Calls
         /\ sender.call \in Slot
         /\ sender.ok \in BOOLEAN
         /\ \A d \in Calls : qid[d] \in ID
         /\ \A i \in ID : questions[i] \in Slot /\ questionID[i] \in Slot /\ answers[i] \in Slot
BY QuestionAssumption DEF TypeOK, TableType, AnswerType, SenderType

\* Call and Finish messages are told apart by their type and their question.
LEMMA Messages ==
  ASSUME NEW c \in Calls, NEW d \in Calls
  PROVE  /\ CallMsg(c) \in Message /\ FinishMsg(c) \in Message
         /\ CallMsg(c) # FinishMsg(d)
         /\ CallMsg(c) = CallMsg(d) => c = d
         /\ FinishMsg(c) = FinishMsg(d) => c = d
BY DEF CallMsg, FinishMsg, Message

\* Every message is the Call or the Finish of some question.
LEMMA MessageForm ==
  ASSUME NEW m \in Message
  PROVE  /\ m.call \in Calls
         /\ m.type = "call" => m = CallMsg(m.call)
         /\ m.type # "call" => m = FinishMsg(m.call) /\ m.type = "finish"
         /\ (m = CallMsg(m.call)) <=> (m.type = "call")
BY DEF CallMsg, FinishMsg, Message

\* The callee's table and the messages towards it, in steps that leave them alone.
LEMMA WireFrame ==
  ASSUME AnswersInv, OrderInv, UniqueInv, UNCHANGED <<toCallee, answers, qid>>
  PROVE  AnswersInv' /\ OrderInv' /\ UniqueInv'
<1>1. AnswersInv'
  BY ZenonT(60) DEF AnswersInv
<1>2. OrderInv'
  BY ZenonT(60) DEF OrderInv
<1>3. UniqueInv'
  BY ZenonT(60) DEF UniqueInv
<1> QED BY ZenonT(60), <1>1, <1>2, <1>3

\* A step that leaves the question table alone keeps its slots in order.
LEMMA SlotSame ==
  ASSUME SlotInv, UNCHANGED <<questions, questionID, qid, returnTask>>,
         \A d \in Calls : promise[d] # "none" => promise'[d] # "none",
         \A i \in ID : questions[i] = nil \/ questions[i] \in Calls
  PROVE  SlotInv'
<1> SUFFICES ASSUME NEW i \in ID, questions[i] # nil
             PROVE  /\ qid[questions[i]] = i /\ questionID[i] = questions[i]
                    /\ returnTask[questions[i]] = "none" /\ promise'[questions[i]] # "none"
  BY ZenonT(60) DEF SlotInv
<1>1. /\ qid[questions[i]] = i /\ questionID[i] = questions[i]
      /\ returnTask[questions[i]] = "none" /\ promise[questions[i]] # "none"
  BY ZenonT(60) DEF SlotInv
<1> QED
  BY ZenonT(60), <1>1

\* A step on the question c keeps the slots of the others in order.
LEMMA SlotOthers ==
  ASSUME SlotInv, NEW c \in Calls, UNCHANGED qid,
         \A i \in ID : questions[i] = nil \/ questions[i] \in Calls,
         \A i \in ID : questions'[i] # nil => questions'[i] = questions[i] /\ questions[i] # c,
         \A i \in ID : questionID'[i] = questionID[i] \/ questionID[i] = c,
         \A d \in Calls : d # c => promise'[d] = promise[d] /\ returnTask'[d] = returnTask[d]
  PROVE  SlotInv'
<1> SUFFICES ASSUME NEW i \in ID, questions'[i] # nil
             PROVE  /\ qid[questions'[i]] = i /\ questionID'[i] = questions'[i]
                    /\ returnTask'[questions'[i]] = "none" /\ promise'[questions'[i]] # "none"
  BY ZenonT(60) DEF SlotInv
<1>1. PICK q \in Calls : q = questions[i] /\ q = questions'[i] /\ q # c
  BY ZenonT(60)
<1>2. qid[q] = i /\ questionID[i] = q /\ returnTask[q] = "none" /\ promise[q] # "none"
  BY SMTT(60), <1>1 DEF SlotInv
<1>3. questionID'[i] = q /\ returnTask'[q] = "none" /\ promise'[q] # "none"
  BY <1>1, <1>2
<1> QED
  BY ZenonT(60), <1>1, <1>2, <1>3

-----------------------------------------------------------------------------
(* Each action keeps Live.                                                 *)

\* Pose and PipelineSend: the new question's ID is free on both sides.
LEMMA NewQuestionLive ==
  ASSUME TypeOK, Live, NEW c \in Calls, promise[c] = "none", newQuestion(c),
         UNCHANGED <<calleeVars, flags, tasks, result, sender, toCallee, toCaller>>,
         \A d \in Calls : kind'[d] = "unborn" => kind[d] = "unborn" /\ d # c
  PROVE  Live'
<1>1. SenderInv /\ SlotInv /\ DistinctInv /\ AnswersInv /\ OrderInv /\ UniqueInv
  BY DEF Live
<1>2. \A d \in Calls : QuestionInv(d) /\ TableInv(d) /\ AnswerInv(d)
  BY DEF Live
<1>3. UNCHANGED <<answers, answer, via, server, capsReleased, finished, finishSent, finishMsgSend, release, 
            ctxDone, canceler, returnTask, result, sender, toCallee, toCaller>>
  BY DEF calleeVars, flags, tasks
<1>4. PICK id \in ID : /\ questionID[id] = nil
                       /\ \A i \in ID : questionID'[i] = IF i = id THEN c ELSE questionID[i]
                       /\ \A i \in ID : questions'[i] = IF i = id THEN c ELSE questions[i]
                       /\ \A d \in Calls : qid'[d] = IF d = c THEN id ELSE qid[d]
   BY DEF newQuestion, TypeOK, TableType
<1>5. \A d \in Calls : promise'[d] = IF d = c THEN "pending" ELSE promise[d]
   BY DEF newQuestion, TypeOK, OutcomeType
<1>6. /\ \A m : InTx(m)' <=> InTx(m) \/ m = CallMsg(c)
      /\ ~InTx(CallMsg(c)) => Distinct(sendTx)'
  <2>1. CallMsg(c) \in Message /\ sendTx \in Seq(Message) /\ sendTx' = Append(sendTx, CallMsg(c))
    BY DEF CallMsg, Message, TypeOK, PipeType, newQuestion
  <2>2. Distinct(sendTx)
    BY <1>1 DEF DistinctInv
  <2> QED BY <2>1, <2>2, InAppend, DistinctAppend DEF InTx
<1>7. (\A m : OnWire(m)' <=> OnWire(m)) /\ (\A d : Returning(d)' <=> Returning(d))
  BY <1>3 DEF OnWire, Returning
<1>8. \A d \in Calls : FinishMsg(d) # CallMsg(c) /\ (CallMsg(d) = CallMsg(c) => d = c)
  BY Messages
<1>9. \A d \in Calls : (Sent(d)' <=> Sent(d)) /\ (SentFinish(d)' <=> SentFinish(d))
  BY ZenonT(60), <1>3 DEF Sent, SentFinish, At
<1>10. sender.call # c /\ ~Sent(c) /\ ~finished[c] /\ (sender.call = nil \/ sender.call \in Calls) /\ nil \notin Calls
      /\ ~InTx(CallMsg(c)) /\ canceler[c] = "none"
  BY ZenonT(60), <1>2, QuestionAssumption DEF QuestionInv, TypeOK, SenderType, Slot, Sent, At
<1>11. qid[c] \in ID /\ qid'[c] = id /\ (\A d \in Calls : qid[d] \in ID /\ qid'[d] \in ID) /\ (\A i \in ID : answers[i] \in Slot /\ questions[i] \in Slot /\ questionID[i] \in Slot)
  BY ZenonT(60), <1>4 DEF TypeOK, TableType, AnswerType
<1>12. server[c] = "none" /\ ~OnWire(CallMsg(c)) /\ ~Returning(c) /\ returnTask[c] = "none"
  BY ZenonT(60), <1>10, <1>2 DEF AnswerInv, QuestionInv
<1>13. \A i \in ID : answers[i] # c
  BY <1>1, <1>2, <1>12, QuestionAssumption DEF AnswersInv, AnswerInv
<1>14. \A i \in 1..Len(toCallee) : toCallee[i].call \in Calls /\ (toCallee[i].type = "call" => toCallee[i].call # c)
  <2>1. \A i \in 1..Len(toCallee) : toCallee[i] \in Message
    BY ZenonT(60), LenProperties DEF TypeOK, PipeType
  <2> QED BY <1>12, <2>1 DEF OnWire, In, CallMsg, Message
<1>15. SenderInv'
  <2>1. CASE sender.call = nil
    BY ZenonT(60), <1>1, <1>3, <2>1 DEF SenderInv
  <2>2. CASE sender.call \in Calls
    <3>1. promise'[sender.call] = promise[sender.call] /\ qid'[sender.call] = qid[sender.call]
      BY ZenonT(60), <1>4, <1>5, <1>10, <2>2
    <3>2. questions[qid[sender.call]] # sender.call => questions'[qid[sender.call]] # sender.call
      BY ZenonT(60), <1>4, <1>10, <1>11, <2>2
    <3>3. InTx(FinishMsg(sender.call))' <=> InTx(FinishMsg(sender.call))
      BY ZenonT(60), <1>3, <1>6, <1>8, <2>2 DEF FinishMsg
    <3> QED BY ZenonT(60), <1>1, <1>3, <3>1, <3>2, <3>3 DEF SenderInv
  <2> QED BY <1>10, <2>1, <2>2
<1>16. SlotInv'
  <2> SUFFICES ASSUME NEW i \in ID, questions'[i] # nil
               PROVE  /\ qid'[questions'[i]] = i /\ questionID'[i] = questions'[i]
                      /\ returnTask'[questions'[i]] = "none" /\ promise'[questions'[i]] # "none"
    BY Zenon DEF SlotInv
  <2>1. CASE i = id
    BY ZenonT(60), <1>3, <1>4, <1>5, <1>11, <1>12, <2>1
  <2>2. CASE i # id
    <3>1. PICK q \in Calls : q = questions[i] /\ q = questions'[i]
      BY ZenonT(60), <1>4, <1>11, <2>2 DEF Slot
    <3>2. qid[q] = i /\ questionID[i] = q /\ returnTask[q] = "none" /\ promise[q] # "none"
      <4>1. questions[i] # nil => /\ qid[questions[i]] = i /\ questionID[i] = questions[i]
                                  /\ returnTask[questions[i]] = "none" /\ promise[questions[i]] # "none"
        BY Zenon, <1>1 DEF SlotInv
      <4>2. q # nil
        BY <1>10
      <4> QED BY <3>1, <4>1, <4>2
    <3>3. q # c
      BY <3>2
    <3> QED BY ZenonT(60), <1>3, <1>4, <1>5, <2>2, <3>1, <3>2, <3>3
  <2> QED BY <2>1, <2>2
<1>17. ASSUME NEW d \in Calls PROVE QuestionInv(d)'
  <2>0. QuestionInv(d)
    BY ZenonT(60), <1>2
  <2>1. CASE d = c
    BY ZenonT(60), <1>3, <1>5, <1>6, <1>8, <1>9, <1>10, <1>12, <2>0, <2>1 DEF QuestionInv, At
  <2>2. CASE d # c
    BY ZenonT(60), <1>3, <1>5, <1>6, <1>8, <1>9, <2>0, <2>2 DEF QuestionInv, At
  <2> QED BY <2>1, <2>2
<1>18. ASSUME NEW d \in Calls PROVE TableInv(d)'
  <2>1. CASE d = c
    BY ZenonT(60), <1>2, <1>3, <1>4, <1>5, <1>6, <1>8, <1>9, <1>10, <1>11, <2>1 DEF TableInv, At
  <2>2. CASE d # c
    <3>1. TableInv(d) /\ qid'[d] = qid[d] /\ promise'[d] = promise[d]
      BY ZenonT(60), <1>2, <1>4, <1>5, <2>2
    <3>2. (InTx(CallMsg(d))' <=> InTx(CallMsg(d))) /\ (InTx(FinishMsg(d))' <=> InTx(FinishMsg(d)))
      BY ZenonT(60), <1>6, <1>8, <2>2 DEF CallMsg, FinishMsg
    <3>3. /\ questions[qid[d]] = d => questions'[qid[d]] = d
          /\ questionID[qid[d]] = d => questionID'[qid[d]] = d
      <4>1. qid[d] \in ID
        BY <1>11
      <4>2. CASE qid[d] = id
        <5>1. questions[id] # nil => questionID[id] = questions[id]
          BY Zenon, <1>1 DEF SlotInv
        <5>2. d # nil /\ questionID[id] = nil
          BY <1>4, <1>10
        <5> QED BY <4>2, <5>1, <5>2
      <4>3. CASE qid[d] # id
        BY ZenonT(60), <1>4, <4>1, <4>3
      <4> QED BY <4>2, <4>3
    <3> QED BY ZenonT(60), <1>3, <1>9, <3>1, <3>2, <3>3 DEF TableInv, At
  <2> QED BY <2>1, <2>2
<1>19. ASSUME NEW d \in Calls PROVE AnswerInv(d)'
  <2>1. CASE d = c
    BY ZenonT(60), <1>2, <1>3, <1>4, <1>7, <1>9, <1>10, <1>11, <1>12, <1>13, <2>1 DEF AnswerInv
  <2>2. CASE d # c
    <3>1. AnswerInv(d) /\ qid'[d] = qid[d]
      BY ZenonT(60), <1>2, <1>4, <2>2
    <3> QED BY ZenonT(60), <1>3, <1>7, <1>9, <3>1 DEF AnswerInv
  <2> QED BY <2>1, <2>2
<1>20. AnswersInv'
  BY ZenonT(60), <1>1, <1>3, <1>4, <1>10, <1>11, <1>13 DEF AnswersInv, Slot
<1>21. OrderInv'
  <2>0. toCallee' = toCallee /\ answers' = answers
    BY ZenonT(60), <1>3
  <2> SUFFICES ASSUME NEW i \in 1..Len(toCallee), NEW d \in Calls
               PROVE  /\ toCallee[i] = FinishMsg(d) => \A j \in 1..Len(toCallee) : toCallee[j] = CallMsg(d) => j < i
                      /\ toCallee[i].type = "call" /\ toCallee[i].call # d /\ answers[qid'[toCallee[i].call]] = d
                           => \E j \in 1..(i - 1) : toCallee[j] = FinishMsg(d)
    BY <2>0, ZenonT(60) DEF OrderInv
  <2>1. toCallee[i].type = "call" => qid'[toCallee[i].call] = qid[toCallee[i].call]
    BY <1>4, <1>14
  <2> QED BY <1>1, <2>1, ZenonT(60) DEF OrderInv
<1>22. DistinctInv'
  BY <1>1, <1>3, <1>6, <1>10 DEF DistinctInv
<1>23. UniqueInv'
  <2>1. \A i \in 1..Len(toCallee) : toCallee[i].type = "call" => qid'[toCallee[i].call] = qid[toCallee[i].call]
    BY ZenonT(60), <1>4, <1>14
  <2>2. toCallee' = toCallee
    BY <1>3
  <2> SUFFICES ASSUME NEW i \in 1..Len(toCallee), NEW j \in 1..Len(toCallee), toCallee[i].type = "call",
                      toCallee[j].type = "call", qid'[toCallee[i].call] = qid'[toCallee[j].call]
               PROVE  i = j
    BY <2>2, Zenon DEF UniqueInv
  <2>3. qid[toCallee[i].call] = qid[toCallee[j].call]
    BY <2>1
  <2> QED BY <1>1, <2>3, ZenonT(60) DEF UniqueInv
<1> QED BY ZenonT(60), <1>15, <1>16, <1>17, <1>18, <1>19, <1>20, <1>21, <1>22, <1>23 DEF Live

\* The question's handleCancel ends, after the promise was settled or because a
\* Finish is already on its way.
LEMMA CancelerDoneLive ==
  ASSUME TypeOK, Live, NEW c \in Calls, canceler[c] = "select",
         canceler' = [canceler EXCEPT ![c] = "done"],
         UNCHANGED <<calleeVars, table, ident, outcome, flags, network, ctxDone, returnTask>>
  PROVE  Live'
<1>a. SenderInv /\ SlotInv /\ DistinctInv /\ AnswersInv /\ OrderInv /\ UniqueInv
  BY DEF Live
<1>b. \A d \in Calls : QuestionInv(d) /\ TableInv(d) /\ AnswerInv(d)
  BY DEF Live
<1>1. UNCHANGED <<answers, answer, via, server, capsReleased, questions, questionID, kind, qid, target,
                  promise, result, finished, finishSent, finishMsgSend, release, sendTx, toCallee,
                  toCaller, sender, returnTask>>
  BY DEF calleeVars, table, ident, outcome, flags, network, pipes
<1>2. \A d \in Calls : canceler'[d] = IF d = c THEN "done" ELSE canceler[d]
  BY DEF TypeOK, TaskType
<1>3. \A m : (InTx(m)' <=> InTx(m)) /\ (OnWire(m)' <=> OnWire(m)) /\ (Returning(m)' <=> Returning(m))
  BY ZenonT(60), <1>1 DEF InTx, OnWire, Returning
<1>4. \A d \in Calls : (Sent(d)' <=> Sent(d)) /\ (SentFinish(d)' <=> SentFinish(d))
  BY <1>1, <1>2 DEF Sent, SentFinish, At
<1>5. sender.call = nil \/ sender.call \in Calls
  BY ZenonT(60), Types DEF Slot
<1>6. SenderInv'
  BY ZenonT(60), <1>a, <1>1, <1>2, <1>3, <1>5 DEF SenderInv
<1>7s. SlotInv'
  BY Zenon, <1>a, <1>1, SlotSame, Types DEF Slot
<1>7. DistinctInv'
  BY ZenonT(60), <1>a, <1>1 DEF DistinctInv, Distinct
<1>7w. AnswersInv' /\ OrderInv' /\ UniqueInv'
  BY ZenonT(60), <1>a, <1>1, WireFrame
<1>8. ASSUME NEW d \in Calls PROVE QuestionInv(d)'
  <2>0. QuestionInv(d)
    BY ZenonT(60), <1>b
  <2> QED BY ZenonT(60), <2>0, <1>1, <1>2, <1>3, <1>4 DEF QuestionInv, At
<1>9. ASSUME NEW d \in Calls PROVE TableInv(d)'
  <2>0. TableInv(d)
    BY ZenonT(60), <1>b
  <2> QED BY ZenonT(60), <2>0, <1>1, <1>2, <1>3, <1>4 DEF TableInv, At
<1>10. ASSUME NEW d \in Calls PROVE AnswerInv(d)'
  <2>0. AnswerInv(d)
    BY ZenonT(60), <1>b
  <2> QED BY ZenonT(60), <2>0, <1>1, <1>3, <1>4 DEF AnswerInv
<1> QED BY ZenonT(60), <1>6, <1>7s, <1>7, <1>7w, <1>8, <1>9, <1>10 DEF Live

\* handleCancel sends the Finish: the question is finished exactly once.
LEMMA CancelLive ==
  ASSUME TypeOK, Live, NEW c \in Calls, handleCancel(c), ~finished[c]
  PROVE  Live'
<1>a. SenderInv /\ SlotInv /\ DistinctInv /\ AnswersInv /\ OrderInv /\ UniqueInv
  BY DEF Live
<1>b. \A d \in Calls : QuestionInv(d) /\ TableInv(d) /\ AnswerInv(d)
  BY ZenonT(60) DEF Live
<1>1. UNCHANGED <<answers, answer, via, server, capsReleased, questions, questionID, kind, qid, target,
                  promise, result, finishSent, finishMsgSend, toCallee, toCaller, sender, returnTask>>
  BY ZenonT(60) DEF handleCancel, calleeVars, table, ident, outcome
<1>2. \A d \in Calls : /\ canceler'[d] = IF d = c THEN "done" ELSE canceler[d]
                       /\ finished'[d] <=> (d = c \/ finished[d])
                       /\ release'[d] <=> (d = c \/ release[d])
  BY ZenonT(60) DEF handleCancel, TypeOK, TaskType, FlagType
<1>3. canceler[c] = "select" /\ Sent(c) /\ promise[c] = "pending" /\ returnTask[c] = "none" /\ ~release[c]
  <2>1. canceler[c] = "select"
    BY ZenonT(60) DEF handleCancel
  <2> QED BY ZenonT(60), <1>b, <2>1 DEF Sent, QuestionInv
<1>4. ~InTx(FinishMsg(c)) /\ ~finishSent[c] /\ ~finishMsgSend[c] /\ result[c] = nil
  BY ZenonT(60), <1>b, <1>3 DEF TableInv, QuestionInv
<1>5. (\A m : InTx(m)' <=> InTx(m) \/ m = FinishMsg(c)) /\ Distinct(sendTx)'
  <2>1. FinishMsg(c) \in Message /\ sendTx \in Seq(Message) /\ sendTx' = Append(sendTx, FinishMsg(c))
    BY Messages DEF FinishMsg, TypeOK, PipeType, handleCancel
  <2>2. Distinct(sendTx)
    BY <1>a DEF DistinctInv
  <2> QED BY ZenonT(60), <1>4, <2>1, <2>2, InAppend, DistinctAppend DEF InTx
<1>6. \A m : (OnWire(m)' <=> OnWire(m)) /\ (Returning(m)' <=> Returning(m))
  BY ZenonT(60), <1>1 DEF OnWire, Returning
<1>7. \A d \in Calls : (Sent(d)' <=> Sent(d)) /\ (SentFinish(d)' <=> SentFinish(d))
  BY ZenonT(60), <1>1, <1>2, <1>3 DEF Sent, SentFinish, At
<1>8. \A d \in Calls : CallMsg(d) # FinishMsg(c) /\ (FinishMsg(d) = FinishMsg(c) => d = c)
  BY ZenonT(60), Messages
<1>9. /\ sender.call = nil \/ sender.call \in Calls
      /\ sender.call = c => sender.at = "callSent"
  <2>1. sender.call = c => sender.at \notin {"reject", "remove", "cancelSent", "close", "cancel", "finishSent"}
    BY <1>a, <1>3 DEF SenderInv
  <2> QED BY ZenonT(60), <1>a, <2>1, Types DEF Slot, TypeOK, SenderType, SenderInv
<1>10. SenderInv'
  BY Zenon, <1>a, <1>1, <1>2, <1>3, <1>5, <1>8, <1>9 DEF SenderInv
<1>11s. SlotInv'
  BY Zenon, <1>a, <1>1, SlotSame, Types DEF Slot
<1>11. DistinctInv'
  BY ZenonT(60), <1>a, <1>1, <1>5 DEF DistinctInv, Distinct
<1>11w. AnswersInv' /\ OrderInv' /\ UniqueInv'
  BY ZenonT(60), <1>a, <1>1, WireFrame
<1>12. ASSUME NEW d \in Calls PROVE QuestionInv(d)'
  <2>0. QuestionInv(d)
    BY <1>b
  <2>1. CASE d = c
    BY Zenon, <2>0, <1>1, <1>2, <1>3, <1>4, <1>5, <1>7, <1>8, <1>9, <2>1 DEF QuestionInv, At
  <2>2. CASE d # c
    BY Zenon, <2>0, <1>1, <1>2, <1>5, <1>7, <1>8, <2>2 DEF QuestionInv, At
  <2> QED BY <2>1, <2>2
<1>13. ASSUME NEW d \in Calls PROVE TableInv(d)'
  <2>0. TableInv(d)
    BY <1>b
  <2>1. CASE d = c
    BY Zenon, <2>0, <1>1, <1>2, <1>3, <1>4, <1>5, <1>7, <1>8, <1>9, <2>1 DEF TableInv, At
  <2>2. CASE d # c
    BY Zenon, <2>0, <1>1, <1>2, <1>5, <1>7, <1>8, <2>2 DEF TableInv, At
  <2> QED BY <2>1, <2>2
<1>14. ASSUME NEW d \in Calls PROVE AnswerInv(d)'
  <2>0. AnswerInv(d)
    BY ZenonT(60), <1>b
  <2> QED BY Zenon, <2>0, <1>1, <1>2, <1>6, <1>7 DEF AnswerInv
<1> QED BY ZenonT(60), <1>10, <1>11s, <1>11, <1>11w, <1>12, <1>13, <1>14 DEF Live

\* The goroutine that waited for a cancelled question's Finish gives the ID back.
LEMMA WaitFinishLive ==
  ASSUME TypeOK, Live, NEW c \in Calls, WaitFinish(c)
  PROVE  Live'
<1>a. SenderInv /\ SlotInv /\ DistinctInv /\ AnswersInv /\ OrderInv /\ UniqueInv
  BY DEF Live
<1>b. \A d \in Calls : QuestionInv(d) /\ TableInv(d) /\ AnswerInv(d)
  BY ZenonT(60) DEF Live
<1>1. UNCHANGED <<answers, answer, via, server, capsReleased, questions, kind, qid, target, promise, result,
                  finished, finishSent, finishMsgSend, release, sendTx, toCallee, toCaller, sender, canceler>>
  BY ZenonT(60) DEF WaitFinish, calleeVars, ident, outcome, flags, network, pipes
<1>2. /\ \A d \in Calls : returnTask'[d] = IF d = c THEN "done" ELSE returnTask[d]
      /\ \A i \in ID : questionID'[i] = IF finishSent[c] /\ i = qid[c] THEN nil ELSE questionID[i]
  BY ZenonT(60) DEF WaitFinish, Remove, TypeOK, TaskType, TableType
<1>3. returnTask[c] = "wait" /\ finishMsgSend[c] /\ release[c] /\ finished[c] /\ Sent(c)
  <2>1. returnTask[c] = "wait" /\ finishMsgSend[c]
    BY DEF WaitFinish
  <2> QED BY ZenonT(60), <1>b, <2>1 DEF QuestionInv
<1>4. questionID[qid[c]] = c
  BY Zenon, <1>b, <1>3 DEF TableInv
<1>5. \A m : (InTx(m)' <=> InTx(m)) /\ (OnWire(m)' <=> OnWire(m)) /\ (Returning(m)' <=> Returning(m))
  BY ZenonT(60), <1>1 DEF InTx, OnWire, Returning
<1>6. \A d \in Calls : (Sent(d)' <=> Sent(d)) /\ (SentFinish(d)' <=> SentFinish(d))
  BY ZenonT(60), <1>1 DEF Sent, SentFinish, At
<1>7. /\ nil \notin Calls /\ \A d \in Calls : qid[d] \in ID
      /\ \A i \in ID : questions[i] = nil \/ questions[i] \in Calls
      /\ sender.call = nil \/ sender.call \in Calls
  BY Types DEF Slot
<1>8. SenderInv'
  BY Zenon, <1>a, <1>1, <1>2, <1>5, <1>7 DEF SenderInv
<1>9. SlotInv'
  <2>1. \A i \in ID : questions[i] # c
    BY ZenonT(60), <1>a, <1>3, <1>7 DEF SlotInv
  <2>2. \A i \in ID : questionID'[i] = questionID[i] \/ questionID[i] = c
    BY ZenonT(60), <1>2, <1>4
  <2> QED BY ZenonT(60), <1>a, <1>1, <1>2, <1>7, <2>1, <2>2, SlotOthers
<1>10. DistinctInv'
  BY ZenonT(60), <1>a, <1>1 DEF DistinctInv, Distinct
<1>10w. AnswersInv' /\ OrderInv' /\ UniqueInv'
  BY <1>a, <1>1, WireFrame
<1>11. ASSUME NEW d \in Calls PROVE QuestionInv(d)'
  <2>0. QuestionInv(d)
    BY <1>b
  <2>1. CASE d = c
    BY Zenon, <2>0, <1>1, <1>2, <1>3, <1>5, <1>6, <2>1 DEF QuestionInv, At
  <2>2. CASE d # c
    BY Zenon, <2>0, <1>1, <1>2, <1>5, <1>6, <2>2 DEF QuestionInv, At
  <2> QED BY <2>1, <2>2
<1>12. ASSUME NEW d \in Calls PROVE TableInv(d)'
  <2>0. TableInv(d)
    BY <1>b
  <2>1. CASE d = c
    <3>1. canceler[c] = "done"
      BY Zenon, <1>b, <1>3 DEF QuestionInv
    <3>2. ~InTx(CallMsg(c)) /\ ~At(c, {"callSent", "reject", "remove"}) /\ ~InTx(FinishMsg(c))
      BY Zenon, <1>a, <1>3, <2>0, <2>1, <3>1 DEF TableInv, SenderInv, At
    <3> QED BY Zenon, <2>0, <1>1, <1>2, <1>4, <1>5, <1>6, <1>7, <2>1, <3>2 DEF TableInv, At
  <2>2. CASE d # c
    BY Zenon, <2>0, <1>1, <1>2, <1>4, <1>5, <1>6, <1>7, <2>2 DEF TableInv, At
  <2> QED BY <2>1, <2>2
<1>13. ASSUME NEW d \in Calls PROVE AnswerInv(d)'
  <2>0. AnswerInv(d)
    BY <1>b
  <2>1. CASE d = c
    BY Zenon, <2>0, <1>1, <1>2, <1>3, <1>5, <1>6, <2>1 DEF AnswerInv
  <2>2. CASE d # c
    BY Zenon, <2>0, <1>1, <1>2, <1>5, <1>6, <2>2 DEF AnswerInv
  <2> QED BY <2>1, <2>2
<1> QED BY ZenonT(60), <1>8, <1>9, <1>10, <1>10w, <1>11, <1>12, <1>13 DEF Live

\* handleReturn's goroutine settles the promise, which nobody else has settled.
LEMMA ResolveReturnLive ==
  ASSUME TypeOK, Live, NEW c \in Calls, ResolveReturn(c)
  PROVE  Live' /\ fault' = fault
<1>a. SenderInv /\ SlotInv /\ DistinctInv /\ AnswersInv /\ OrderInv /\ UniqueInv
  BY DEF Live
<1>b. \A d \in Calls : QuestionInv(d) /\ TableInv(d) /\ AnswerInv(d)
  BY DEF Live
<1>1. UNCHANGED <<answers, answer, via, server, capsReleased, questions, questionID, kind, qid, target, result,
                  finished, finishSent, finishMsgSend, release, sendTx, toCallee, toCaller, sender, canceler>>
  BY DEF ResolveReturn, calleeVars, table, ident, flags, network, pipes
<1>2. /\ returnTask[c] \in {"resolve", "reject"} /\ promise[c] = "pending"
      /\ ~release[c] /\ finished[c] /\ Sent(c) /\ ~finishSent[c] /\ ~finishMsgSend[c]
  <2>1. returnTask[c] \in {"resolve", "reject"}
    BY DEF ResolveReturn
  <2> QED BY Zenon, <1>b, <2>1 DEF QuestionInv
<1>3. PICK how \in {"resolved", "rejected"} : \A d \in Calls : promise'[d] = IF d = c THEN how ELSE promise[d]
  BY Zenon, <1>2 DEF ResolveReturn, Settle, TypeOK, OutcomeType
<1>4. \A d \in Calls : returnTask'[d] = IF d = c THEN "finish" ELSE returnTask[d]
  BY DEF ResolveReturn, TypeOK, TaskType
<1>5. \A m : (InTx(m)' <=> InTx(m)) /\ (OnWire(m)' <=> OnWire(m)) /\ (Returning(m)' <=> Returning(m))
  BY <1>1 DEF InTx, OnWire, Returning
<1>6. \A d \in Calls : (Sent(d)' <=> Sent(d)) /\ (SentFinish(d)' <=> SentFinish(d))
  BY Zenon, <1>1 DEF Sent, SentFinish, At
<1>7. /\ nil \notin Calls /\ \A d \in Calls : qid[d] \in ID
      /\ \A i \in ID : questions[i] = nil \/ questions[i] \in Calls
      /\ sender.call = nil \/ sender.call \in Calls
  BY Zenon, Types DEF Slot
<1>8. ~InTx(CallMsg(c)) /\ ~InTx(FinishMsg(c)) /\ (sender.call = c => sender.at = "callSent" /\ sender.ok)
  <2>1. ~InTx(CallMsg(c)) /\ ~InTx(FinishMsg(c))
    BY <1>b, <1>2 DEF TableInv, Sent, At
  <2>2. sender.call = c => sender.at \notin {"recv", "cancelSent", "close", "cancel", "finishSent"}
    BY ZenonT(60), <1>a, <1>2, <1>7 DEF SenderInv
  <2>3. sender.call = c => sender.at \notin {"reject", "remove"} /\ (sender.at = "callSent" => sender.ok)
    BY Zenon, <1>a, <1>2 DEF SenderInv, Sent, At
  <2> QED BY ZenonT(60), <2>1, <2>2, <2>3 DEF TypeOK, SenderType
<1>9. SenderInv'
  BY Zenon, <1>a, <1>1, <1>3, <1>4, <1>5, <1>7, <1>8 DEF SenderInv
<1>10. SlotInv'
  <2>1. ASSUME NEW i \in ID, questions[i] = c PROVE FALSE
    <3>1. returnTask[c] = "none"
      BY <1>a, <1>7, <2>1, Zenon DEF SlotInv
    <3> QED BY <1>2, <3>1
  <2> QED BY ZenonT(60), <1>a, <1>1, <1>3, <1>4, <1>7, <2>1, SlotOthers
<1>11. DistinctInv'
  BY ZenonT(60), <1>a, <1>1 DEF DistinctInv, Distinct
<1>11w. AnswersInv' /\ OrderInv' /\ UniqueInv'
  BY ZenonT(60), <1>a, <1>1, WireFrame
<1>12. ASSUME NEW d \in Calls PROVE QuestionInv(d)'
  <2>0. QuestionInv(d)
    BY <1>b
  <2>1. CASE d = c
    BY Zenon, <2>0, <1>1, <1>2, <1>3, <1>4, <1>5, <1>6, <2>1 DEF QuestionInv, At
  <2>2. CASE d # c
    BY Zenon, <2>0, <1>1, <1>3, <1>4, <1>5, <1>6, <2>2 DEF QuestionInv, At
  <2> QED BY <2>1, <2>2
<1>13. ASSUME NEW d \in Calls PROVE TableInv(d)'
  <2>0. TableInv(d)
    BY <1>b
  <2>1. CASE d = c
    BY Zenon, <2>0, <1>1, <1>2, <1>3, <1>4, <1>5, <1>6, <1>8, <2>1 DEF TableInv, At
  <2>2. CASE d # c
    BY Zenon, <2>0, <1>1, <1>3, <1>4, <1>5, <1>6, <2>2 DEF TableInv, At
  <2> QED BY <2>1, <2>2
<1>14. ASSUME NEW d \in Calls PROVE AnswerInv(d)'
  <2>0. AnswerInv(d)
    BY <1>b
  <2>1. CASE d = c
    BY Zenon, <2>0, <1>1, <1>2, <1>4, <1>5, <1>6, <2>1 DEF AnswerInv
  <2>2. CASE d # c
    BY ZenonT(60), <2>0, <1>1, <1>4, <1>5, <1>6, <2>2 DEF AnswerInv
  <2> QED BY <2>1, <2>2
<1>15. fault' = fault
  BY ZenonT(60), <1>2 DEF ResolveReturn, Settle
<1> QED BY ZenonT(60), <1>9, <1>10, <1>11, <1>11w, <1>12, <1>13, <1>14, <1>15 DEF Live

\* handleReturn's goroutine queues the Finish after settling the promise.
LEMMA SendFinishLive ==
  ASSUME TypeOK, Live, NEW c \in Calls, SendFinish(c)
  PROVE  Live'
<1>a. SenderInv /\ SlotInv /\ DistinctInv /\ AnswersInv /\ OrderInv /\ UniqueInv
  BY DEF Live
<1>b. \A d \in Calls : QuestionInv(d) /\ TableInv(d) /\ AnswerInv(d)
  BY DEF Live
<1>1. UNCHANGED <<answers, answer, via, server, capsReleased, questions, questionID, kind, qid, target, promise,
                  result, finished, finishSent, finishMsgSend, release, toCallee, toCaller, sender, canceler>>
  BY ZenonT(60) DEF SendFinish, calleeVars, table, ident, outcome, flags
<1>2. \A d \in Calls : returnTask'[d] = IF d = c THEN "done" ELSE returnTask[d]
  BY ZenonT(60) DEF SendFinish, TypeOK, TaskType
<1>3. returnTask[c] = "finish" /\ ~release[c] /\ finished[c] /\ Sent(c) /\ ~finishSent[c] /\ ~finishMsgSend[c]
  <2>1. returnTask[c] = "finish"
    BY ZenonT(60) DEF SendFinish
  <2> QED BY ZenonT(60), <1>b, <2>1 DEF QuestionInv
<1>4. ~InTx(FinishMsg(c))
  BY ZenonT(60), <1>b, <1>3 DEF TableInv
<1>5. (\A m : InTx(m)' <=> InTx(m) \/ m = FinishMsg(c)) /\ Distinct(sendTx)'
  <2>1. FinishMsg(c) \in Message /\ sendTx \in Seq(Message) /\ sendTx' = Append(sendTx, FinishMsg(c))
    BY Messages DEF FinishMsg, TypeOK, PipeType, SendFinish
  <2>2. Distinct(sendTx)
    BY ZenonT(60), <1>a DEF DistinctInv
  <2> QED BY ZenonT(60), <1>4, <2>1, <2>2, InAppend, DistinctAppend DEF InTx
<1>6. \A m : (OnWire(m)' <=> OnWire(m)) /\ (Returning(m)' <=> Returning(m))
  BY ZenonT(60), <1>1 DEF OnWire, Returning
<1>7. \A d \in Calls : (Sent(d)' <=> Sent(d)) /\ (SentFinish(d)' <=> SentFinish(d))
  BY ZenonT(60), <1>1 DEF Sent, SentFinish, At
<1>8. \A d \in Calls : CallMsg(d) # FinishMsg(c) /\ (FinishMsg(d) = FinishMsg(c) => d = c)
  BY Messages
<1>9. /\ nil \notin Calls /\ \A d \in Calls : qid[d] \in ID
      /\ \A i \in ID : questions[i] = nil \/ questions[i] \in Calls
      /\ sender.call = nil \/ sender.call \in Calls
  BY Types DEF Slot
<1>10. SenderInv'
  BY Zenon, <1>a, <1>1, <1>2, <1>3, <1>5, <1>8, <1>9 DEF SenderInv
<1>11. SlotInv'
  <2>1. ASSUME NEW i \in ID, questions[i] = c PROVE FALSE
    <3>1. returnTask[c] = "none"
      BY <1>a, <1>9, <2>1, Zenon DEF SlotInv
    <3> QED BY <1>3, <3>1
  <2> QED BY ZenonT(60), <1>a, <1>1, <1>2, <1>9, <2>1, SlotOthers
<1>12. DistinctInv'
  BY ZenonT(60), <1>a, <1>1, <1>5 DEF DistinctInv, Distinct
<1>12w. AnswersInv' /\ OrderInv' /\ UniqueInv'
  BY <1>a, <1>1, WireFrame
<1>13. ASSUME NEW d \in Calls PROVE QuestionInv(d)'
  <2>0. QuestionInv(d)
    BY <1>b
  <2>1. CASE d = c
    BY Zenon, <2>0, <1>1, <1>2, <1>3, <1>5, <1>7, <1>8, <2>1 DEF QuestionInv, At
  <2>2. CASE d # c
    BY Zenon, <2>0, <1>1, <1>2, <1>5, <1>7, <1>8, <2>2 DEF QuestionInv, At
  <2> QED BY <2>1, <2>2
<1>14. ASSUME NEW d \in Calls PROVE TableInv(d)'
  <2>0. TableInv(d)
    BY <1>b
  <2>1. CASE d = c
    BY Zenon, <2>0, <1>1, <1>2, <1>3, <1>5, <1>7, <1>8, <2>1 DEF TableInv, At
  <2>2. CASE d # c
    BY Zenon, <2>0, <1>1, <1>2, <1>5, <1>7, <1>8, <2>2 DEF TableInv, At
  <2> QED BY <2>1, <2>2
<1>15. ASSUME NEW d \in Calls PROVE AnswerInv(d)'
  <2>0. AnswerInv(d)
    BY <1>b
  <2>1. CASE d = c
    BY Zenon, <2>0, <1>1, <1>2, <1>3, <1>6, <1>7, <2>1 DEF AnswerInv
  <2>2. CASE d # c
    BY Zenon, <2>0, <1>1, <1>2, <1>6, <1>7, <2>2 DEF AnswerInv
  <2> QED BY <2>1, <2>2
<1> QED BY <1>10, <1>11, <1>12, <1>12w, <1>13, <1>14, <1>15 DEF Live

\* The send goroutine writes the next message.  A new Call follows the Finish of
\* whoever had its ID before.
LEMMA SendLive ==
  ASSUME TypeOK, Live, NEW ok \in BOOLEAN, Send(ok)
  PROVE  Live'
<1>a. SenderInv /\ SlotInv /\ DistinctInv /\ AnswersInv /\ OrderInv /\ UniqueInv
  BY DEF Live
<1>b. \A d \in Calls : QuestionInv(d) /\ TableInv(d) /\ AnswerInv(d)
  BY ZenonT(60) DEF Live
<1> DEFINE m == Head(sendTx)
           c == m.call
<1>1. UNCHANGED <<answers, answer, via, server, capsReleased, questions, questionID, kind, qid, target, promise,
                  result, finished, finishSent, finishMsgSend, release, toCaller, canceler, returnTask>>
  BY ZenonT(60) DEF Send, callerVars, calleeVars, table, ident, outcome, flags, tasks
<1>2. /\ sendTx \in Seq(Message) /\ toCallee \in Seq(Message) /\ sendTx # <<>>
      /\ sender.at = "recv" /\ sender.call = nil
      /\ sendTx' = Tail(sendTx) /\ toCallee' = IF ok THEN Append(toCallee, m) ELSE toCallee
      /\ sender'.at = AfterSend(m) /\ sender'.call = c /\ sender'.ok = ok
  BY ZenonT(60) DEF Send, Idle, TypeOK, PipeType
<1>3. /\ m \in Message /\ c \in Calls /\ InTx(m) /\ Distinct(sendTx)'
      /\ \A x : InTx(x)' <=> InTx(x) /\ x # m
  <2>1. Distinct(sendTx)
    BY <1>a DEF DistinctInv
  <2>2. /\ m \in Message /\ In(m, sendTx) /\ Distinct(Tail(sendTx)) /\ ~In(m, Tail(sendTx))
        /\ \A x : In(x, sendTx) <=> In(x, Tail(sendTx)) \/ x = m
    BY Zenon, <1>2, <2>1, InTail
  <2>3. c \in Calls
    BY <2>2 DEF Message
  <2> QED BY <1>2, <2>2, <2>3 DEF InTx
<1>4. /\ m.type = "call" => m = CallMsg(c) /\ AfterSend(m) = "callSent"
      /\ m.type # "call" => m = FinishMsg(c) /\ AfterSend(m) = IF release[c] THEN "cancelSent" ELSE "finishSent"
  BY ZenonT(60), <1>3, MessageForm DEF AfterSend
<1>5. \A d \in Calls : /\ (CallMsg(d) = m) <=> (m.type = "call" /\ d = c)
                       /\ (FinishMsg(d) = m) <=> (m.type # "call" /\ d = c)
  BY ZenonT(60), <1>3, <1>4, Messages
<1> HIDE DEF m, c
<1>6. \A x : (OnWire(x)' <=> OnWire(x) \/ (ok /\ x = m)) /\ (Returning(x)' <=> Returning(x))
  BY <1>1, <1>2, <1>3, InAppend DEF OnWire, Returning
<1>7. /\ m.type = "call" => promise[c] = "pending" /\ canceler[c] = "none" /\ ~Sent(c)
                            /\ questions[qid[c]] = c
                            /\ questionID[qid[c]] = c /\ ~finished[c] /\ ~InTx(FinishMsg(c))
      /\ m.type # "call" => /\ finished[c] /\ ~finishSent[c] /\ ~finishMsgSend[c] /\ ~SentFinish(c) /\ Sent(c)
                            /\ promise[c] # "none" /\ ~InTx(CallMsg(c))
                            /\ release[c] => promise[c] = "pending"
                            /\ ~release[c] => returnTask[c] = "done"
  <2>1. TableInv(c) /\ QuestionInv(c)
    BY ZenonT(60), <1>b, <1>3
  <2>2. (sender.call # c) /\ nil \notin Calls
    BY <1>2, <1>3, QuestionAssumption
  <2>3. CASE m.type = "call"
    BY Zenon, <1>3, <1>4, <2>1, <2>2, <2>3 DEF TableInv, QuestionInv, Sent, At
  <2>4. CASE m.type # "call"
    BY Zenon, <1>3, <1>4, <2>1, <2>2, <2>4 DEF TableInv, QuestionInv, Sent, SentFinish, At
  <2> QED BY Zenon, <2>3, <2>4
<1>8. \A d \in Calls : /\ Sent(d)' <=> Sent(d) \/ (d = c /\ m.type = "call" /\ ok)
                       /\ SentFinish(d)' <=> SentFinish(d) \/ (d = c /\ m.type # "call" /\ ok)
  BY Zenon, <1>1, <1>2, <1>3, <1>4, QuestionAssumption DEF Sent, SentFinish, At
<1>9. ~OnWire(m)
  BY Zenon, <1>b, <1>3, <1>4, <1>7 DEF AnswerInv
<1>10. SenderInv'
  <2>1. CASE m.type = "call"
    BY Zenon, <1>1, <1>2, <1>3, <1>4, <1>7, <2>1, QuestionAssumption DEF SenderInv
  <2>2. CASE m.type # "call" /\ release[c]
    BY Zenon, <1>1, <1>2, <1>3, <1>4, <1>7, <2>2, QuestionAssumption DEF SenderInv
  <2>3. CASE m.type # "call" /\ ~release[c]
    BY ZenonT(60), <1>1, <1>2, <1>3, <1>4, <1>7, <2>3, QuestionAssumption DEF SenderInv
  <2> QED BY <2>1, <2>2, <2>3
<1>11s. SlotInv'
  BY ZenonT(60), <1>a, <1>1, SlotSame, Types DEF Slot
<1>11. AnswersInv'
  BY Zenon, <1>a, <1>1 DEF AnswersInv
<1>12. DistinctInv'
  <2>1. Distinct(toCallee)'
    BY ZenonT(60), <1>a, <1>2, <1>3, <1>9, DistinctAppend DEF DistinctInv, OnWire
  <2> QED BY ZenonT(60), <1>a, <1>1, <1>3, <2>1 DEF DistinctInv
<1>13. ASSUME NEW d \in Calls PROVE QuestionInv(d)'
  <2>0. QuestionInv(d)
    BY <1>b
  <2>1. CASE d = c
    <3>1. CASE m.type = "call"
      BY Zenon, <2>0, <1>1, <1>2, <1>3, <1>4, <1>5, <1>7, <1>8, <2>1, <3>1 DEF QuestionInv, At
    <3>2. CASE m.type # "call"
      BY Zenon, <2>0, <1>1, <1>2, <1>3, <1>4, <1>5, <1>7, <1>8, <2>1, <3>2 DEF QuestionInv, At
    <3> QED BY <3>1, <3>2
  <2>2. CASE d # c
    BY Zenon, <2>0, <1>1, <1>2, <1>3, <1>5, <1>8, <2>2 DEF QuestionInv, At
  <2> QED BY <2>1, <2>2
<1>14. ASSUME NEW d \in Calls PROVE TableInv(d)'
  <2>0. TableInv(d)
    BY <1>b
  <2>1. CASE d = c
    <3>1. CASE m.type = "call"
      BY Zenon, <2>0, <1>1, <1>2, <1>3, <1>4, <1>5, <1>7, <1>8, <2>1, <3>1 DEF TableInv, At
    <3>2. CASE m.type # "call"
      BY Zenon, <2>0, <1>1, <1>2, <1>3, <1>4, <1>5, <1>7, <1>8, <2>1, <3>2 DEF TableInv, At
    <3> QED BY <3>1, <3>2
  <2>2. CASE d # c
    BY ZenonT(60), <2>0, <1>1, <1>2, <1>3, <1>5, <1>8, <2>2 DEF TableInv, At
  <2> QED BY <2>1, <2>2
<1>15. ASSUME NEW d \in Calls PROVE AnswerInv(d)'
  <2>0. AnswerInv(d)
    BY <1>b
  <2>1. CASE d = c
    BY Zenon, <2>0, <1>1, <1>5, <1>6, <1>7, <1>8, <2>1 DEF AnswerInv
  <2>2. CASE d # c
    BY Zenon, <2>0, <1>1, <1>5, <1>6, <1>8, <2>2 DEF AnswerInv
  <2> QED BY <2>1, <2>2
<1>16. OrderInv'
  <2>1. CASE ~ok
    BY Zenon, <1>a, <1>1, <1>2, <2>1 DEF OrderInv
  <2>2. CASE ok
    <3>1. /\ Len(toCallee') = Len(toCallee) + 1 /\ toCallee'[Len(toCallee) + 1] = m /\ Len(toCallee) \in Nat
          /\ \A i \in 1..Len(toCallee) : toCallee'[i] = toCallee[i]
      BY <1>2, <1>3, <2>2, AppendProperties, LenProperties
    <3>2. ASSUME NEW d \in Calls, d # c, m.type = "call", answers[qid[c]] = d PROVE OnWire(FinishMsg(d))
      <4>1. qid[d] = qid[c] /\ qid[c] \in ID
        BY ZenonT(60), <1>a, <1>3, <3>2, Types DEF AnswersInv
      <4>2. server[d] # "none" /\ Sent(d) /\ ~(answer[d].returnSent /\ answer[d].finishReceived)
        BY ZenonT(60), <1>b, <3>2, <4>1 DEF AnswerInv
      <4>3. returnTask[d] = "done" /\ finishSent[d]
        <5>1. TableInv(d)
          BY <1>b
        <5> QED BY ZenonT(60), <1>7, <3>2, <4>1, <4>2, <5>1 DEF TableInv
      <4> QED BY ZenonT(60), <1>b, <4>2, <4>3 DEF AnswerInv, SentFinish
    <3>3. ASSUME NEW i \in 1..Len(toCallee'), NEW d \in Calls, toCallee'[i] = FinishMsg(d)
          PROVE  \A j \in 1..Len(toCallee') : toCallee'[j] = CallMsg(d) => j < i
      <4>1. CASE i = Len(toCallee) + 1
        BY SMTT(60), <1>3, <1>5, <3>1, <3>3, <4>1
      <4>2. CASE i \in 1..Len(toCallee)
        <5>1. toCallee[i] = FinishMsg(d) /\ OnWire(FinishMsg(d))
          BY <3>1, <3>3, <4>2 DEF OnWire, In
        <5>2. Sent(d)
          BY ZenonT(60), <1>b, <1>2, <5>1, QuestionAssumption DEF AnswerInv, QuestionInv, SentFinish, At
        <5>3. m # CallMsg(d)
          BY <1>5, <1>7, <5>2
        <5> QED BY SMTT(60), <1>a, <3>1, <4>2, <5>1, <5>3 DEF OrderInv
      <4> QED BY SMTT(60), <3>1, <4>1, <4>2
    <3>4. ASSUME NEW i \in 1..Len(toCallee'), NEW d \in Calls, toCallee'[i].type = "call", toCallee'[i].call # d,
                 answers[qid[toCallee'[i].call]] = d
          PROVE  \E j \in 1..(i - 1) : toCallee'[j] = FinishMsg(d)
      <4>1. CASE i = Len(toCallee) + 1
        <5>1. toCallee'[i] = m /\ m.type = "call" /\ c # d /\ answers[qid[c]] = d
          BY <3>1, <3>4, <4>1 DEF c
        <5>2. OnWire(FinishMsg(d))
          BY <3>2, <5>1, Zenon
        <5>3. PICK j \in 1..Len(toCallee) : toCallee[j] = FinishMsg(d)
          BY ZenonT(60), <5>2 DEF OnWire, In
        <5>4. toCallee'[j] = FinishMsg(d) /\ j \in 1..(i - 1)
          BY <3>1, <4>1, <5>3
        <5> QED BY <5>4, ZenonT(60)
      <4>2. CASE i \in 1..Len(toCallee)
        <5>1. PICK j \in 1..(i - 1) : toCallee[j] = FinishMsg(d)
          BY <1>a, <3>1, <3>4, <4>2 DEF OrderInv
        <5> QED BY SMTT(60), <3>1, <4>2, <5>1
      <4>3. i = Len(toCallee) + 1 \/ i \in 1..Len(toCallee)
        BY SMTT(60), <3>1
      <4> QED BY <4>1, <4>2, <4>3, Zenon
    <3> QED BY ZenonT(60), <1>1, <3>3, <3>4 DEF OrderInv
  <2> QED BY <2>1, <2>2
<1>17. UniqueInv'
  <2>1. CASE ~ok
    BY ZenonT(60), <1>a, <1>1, <1>2, <2>1 DEF UniqueInv
  <2>2. CASE ok
    <3>1. /\ Len(toCallee') = Len(toCallee) + 1 /\ toCallee'[Len(toCallee) + 1] = m /\ Len(toCallee) \in Nat
          /\ \A i \in 1..Len(toCallee) : toCallee'[i] = toCallee[i] /\ toCallee[i] \in Message
      BY SMTT(60), <1>2, <1>3, <2>2, AppendProperties, LenProperties
    <3>2. ASSUME NEW i \in 1..Len(toCallee), toCallee[i].type = "call", m.type = "call"
          PROVE  qid[toCallee[i].call] # qid[c]
      <4> DEFINE d == toCallee[i].call
      <4>1. d \in Calls /\ OnWire(CallMsg(d))
        BY <3>1, <3>2, MessageForm DEF OnWire, In
      <4>2. Sent(d) /\ returnTask[d] # "done" /\ d # c
        BY Zenon, <1>b, <1>7, <3>2, <4>1 DEF AnswerInv
      <4>3. questionID[qid[d]] = d
        BY ZenonT(60), <1>b, <4>1, <4>2 DEF TableInv
      <4> QED BY ZenonT(60), <1>7, <3>2, <4>2, <4>3
    <3>3. ASSUME NEW i \in 1..Len(toCallee'), NEW j \in 1..Len(toCallee'), toCallee'[i].type = "call",
                 toCallee'[j].type = "call", qid[toCallee'[i].call] = qid[toCallee'[j].call]
          PROVE  i = j
      <4>1. CASE i \in 1..Len(toCallee) /\ j \in 1..Len(toCallee)
        BY ZenonT(60), <1>a, <3>1, <3>3, <4>1 DEF UniqueInv
      <4>2. CASE i = Len(toCallee) + 1 /\ j \in 1..Len(toCallee)
        BY ZenonT(60), <3>1, <3>2, <3>3, <4>2 DEF c
      <4>3. CASE j = Len(toCallee) + 1 /\ i \in 1..Len(toCallee)
        BY <3>1, <3>2, <3>3, <4>3 DEF c
      <4> QED BY SMTT(60), <3>1, <4>1, <4>2, <4>3
    <3> QED BY ZenonT(60), <1>1, <3>3 DEF UniqueInv
  <2> QED BY <2>1, <2>2
<1> QED BY ZenonT(60), <1>10, <1>11s, <1>11, <1>12, <1>13, <1>14, <1>15, <1>16, <1>17 DEF Live

-----------------------------------------------------------------------------
(* The callbacks of the send goroutine.                                    *)

\* While a callback runs, the sender works on a question; no queue changes.
LEMMA CallbackFacts ==
  ASSUME TypeOK, Live, sender.at # "recv", UNCHANGED pipes
  PROVE  /\ sender.call \in Calls /\ nil \notin Calls
         /\ \A d \in Calls : qid[d] \in ID
         /\ \A i \in ID : questions[i] = nil \/ questions[i] \in Calls
         /\ \A m : (InTx(m)' <=> InTx(m)) /\ (OnWire(m)' <=> OnWire(m)) /\ (Returning(m)' <=> Returning(m))
         /\ UNCHANGED <<sendTx, toCallee, toCaller>>
<1>1. sender.call \in Calls
  BY Types DEF Live, SenderInv, Slot
<1>2. UNCHANGED <<sendTx, toCallee, toCaller>>
  BY DEF pipes
<1>3. \A m : (InTx(m)' <=> InTx(m)) /\ (OnWire(m)' <=> OnWire(m)) /\ (Returning(m)' <=> Returning(m))
  BY <1>2 DEF InTx, OnWire, Returning
<1> QED BY ZenonT(60), <1>1, <1>2, <1>3, Types DEF Slot

\* onSent of a Call that went out: handleCancel is forked for a question that is
\* pending and in the table.
LEMMA CallSentLive ==
  ASSUME TypeOK, Live, CallSent
  PROVE  Live'
<1>a. SenderInv /\ SlotInv /\ DistinctInv /\ AnswersInv /\ OrderInv /\ UniqueInv
  BY DEF Live
<1>b. \A d \in Calls : QuestionInv(d) /\ TableInv(d) /\ AnswerInv(d)
  BY DEF Live
<1> DEFINE c == sender.call
<1>1. UNCHANGED <<answers, answer, via, server, capsReleased, questions, questionID, kind, qid, target, promise,
                  result, finished, finishSent, finishMsgSend, release, returnTask>>
  BY DEF CallSent, calleeVars, table, ident, outcome, flags
<1>2. sender.at = "callSent" /\ sender.ok /\ sender'.at = "recv" /\ sender'.call = nil /\ sender'.ok
  BY ZenonT(60) DEF CallSent, Idle
<1>3. /\ c \in Calls /\ nil \notin Calls
      /\ \A m : (InTx(m)' <=> InTx(m)) /\ (OnWire(m)' <=> OnWire(m)) /\ (Returning(m)' <=> Returning(m))
      /\ UNCHANGED <<sendTx, toCallee, toCaller>>
  BY <1>2, CallbackFacts DEF CallSent
<1>4. \A d \in Calls : canceler'[d] = IF d = c THEN "select" ELSE canceler[d]
  BY ZenonT(60) DEF CallSent, TypeOK, TaskType
<1>5. canceler[c] = "none"
  BY ZenonT(60), <1>a, <1>2 DEF SenderInv
<1> HIDE DEF c
<1>6. \A d \in Calls : (Sent(d)' <=> Sent(d)) /\ (SentFinish(d)' <=> SentFinish(d))
  BY <1>1, <1>2, <1>3, <1>4 DEF Sent, SentFinish, At, c
<1>7s. SlotInv'
  BY ZenonT(60), <1>a, <1>1, SlotSame, Types DEF Slot
<1>7. SenderInv' /\ DistinctInv'
  BY ZenonT(60), <1>a, <1>1, <1>2, <1>3 DEF SenderInv, DistinctInv, Distinct
<1>7w. AnswersInv' /\ OrderInv' /\ UniqueInv'
  BY <1>a, <1>1, <1>3, WireFrame
<1>8. Sent(c)
  BY <1>2 DEF Sent, At, c
<1>9. ASSUME NEW d \in Calls PROVE QuestionInv(d)'
  <2>0. QuestionInv(d)
    BY ZenonT(60), <1>b
  <2>1. CASE d = c
    BY ZenonT(60), <2>0, <1>1, <1>2, <1>3, <1>4, <1>5, <1>6, <1>8, <2>1 DEF QuestionInv, At, c
  <2>2. CASE d # c
    BY ZenonT(60), <2>0, <1>1, <1>2, <1>3, <1>4, <1>6, <2>2 DEF QuestionInv, At, c
  <2> QED BY <2>1, <2>2
<1>10. ASSUME NEW d \in Calls PROVE TableInv(d)'
  <2>0. TableInv(d)
    BY ZenonT(60), <1>b
  <2>1. CASE d = c
    BY ZenonT(60), <2>0, <1>1, <1>2, <1>3, <1>4, <1>5, <1>6, <1>8, <2>1 DEF TableInv, At, c
  <2>2. CASE d # c
    BY ZenonT(60), <2>0, <1>1, <1>2, <1>3, <1>4, <1>6, <2>2 DEF TableInv, At, c
  <2> QED BY <2>1, <2>2
<1>11. ASSUME NEW d \in Calls PROVE AnswerInv(d)'
  <2>0. AnswerInv(d)
    BY <1>b
  <2> QED BY ZenonT(60), <2>0, <1>1, <1>3, <1>6 DEF AnswerInv
<1> QED BY <1>7s, <1>7, <1>7w, <1>9, <1>10, <1>11 DEF Live

\* onSent of a Call that failed: the slot is cleared while the ID stays taken.
LEMMA CallFailedLive ==
  ASSUME TypeOK, Live, CallFailed
  PROVE  Live'
<1>a. SenderInv /\ SlotInv /\ DistinctInv /\ AnswersInv /\ OrderInv /\ UniqueInv
  BY DEF Live
<1>b. \A d \in Calls : QuestionInv(d) /\ TableInv(d) /\ AnswerInv(d)
  BY DEF Live
<1> DEFINE c == sender.call
<1>1. UNCHANGED <<answers, answer, via, server, capsReleased, questionID, kind, qid, target, promise, result,
                  finished, finishSent, finishMsgSend, release, returnTask, canceler>>
  BY DEF CallFailed, calleeVars, ident, outcome, flags, tasks
<1>2. sender.at = "callSent" /\ ~sender.ok /\ sender'.at = "reject" /\ sender'.call = c /\ ~sender'.ok
  BY DEF CallFailed, TypeOK, SenderType
<1>3. /\ c \in Calls /\ nil \notin Calls /\ \A d \in Calls : qid[d] \in ID
      /\ \A m : (InTx(m)' <=> InTx(m)) /\ (OnWire(m)' <=> OnWire(m)) /\ (Returning(m)' <=> Returning(m))
      /\ UNCHANGED <<sendTx, toCallee, toCaller>>
  BY <1>2, CallbackFacts DEF CallFailed
<1>4. \A i \in ID : questions'[i] = IF i = qid[c] THEN nil ELSE questions[i]
  BY ZenonT(60) DEF CallFailed, TypeOK, TableType
<1>5. canceler[c] = "none" /\ promise[c] = "pending" /\ ~Sent(c) /\ questionID[qid[c]] = c
  BY ZenonT(60), <1>a, <1>b, <1>2, <1>3 DEF SenderInv, TableInv, Sent, At
<1> HIDE DEF c
<1>6. \A d \in Calls : (Sent(d)' <=> Sent(d)) /\ (SentFinish(d)' <=> SentFinish(d))
  BY ZenonT(60), <1>1, <1>2, <1>3 DEF Sent, SentFinish, At, c
<1>7. SenderInv'
  BY ZenonT(60), <1>1, <1>2, <1>3, <1>4, <1>5 DEF SenderInv
<1>8s. SlotInv'
  <2>1. \A i \in ID : questions[i] = nil \/ questions[i] \in Calls
    BY ZenonT(60), Types DEF Slot
  <2>2. \A i \in ID : questions[i] = c => i = qid[c]
    BY ZenonT(60), <1>a, <1>3 DEF SlotInv
  <2> QED BY ZenonT(60), <1>a, <1>1, <1>3, <1>4, <2>1, <2>2, SlotOthers
<1>8. DistinctInv'
  BY <1>a, <1>1, <1>3 DEF DistinctInv, Distinct
<1>8w. AnswersInv' /\ OrderInv' /\ UniqueInv'
  BY ZenonT(60), <1>a, <1>1, <1>3, WireFrame
<1>9. ASSUME NEW d \in Calls PROVE QuestionInv(d)'
  <2>0. QuestionInv(d)
    BY <1>b
  <2> QED BY ZenonT(60), <2>0, <1>1, <1>2, <1>3, <1>6 DEF QuestionInv, At, c
<1>10. ASSUME NEW d \in Calls PROVE TableInv(d)'
  <2>0. TableInv(d)
    BY <1>b
  <2>1. CASE d = c
    BY ZenonT(60), <2>0, <1>1, <1>2, <1>3, <1>4, <1>5, <1>6, <2>1 DEF TableInv, At, c
  <2>2. CASE d # c
    <3>1. questions[qid[d]] = d => qid[d] # qid[c]
      BY ZenonT(60), <1>a, <1>3, <1>5, <2>2 DEF SlotInv
    <3> QED BY ZenonT(60), <2>0, <1>1, <1>2, <1>3, <1>4, <1>6, <2>2, <3>1 DEF TableInv, At, c
  <2> QED BY <2>1, <2>2
<1>11. ASSUME NEW d \in Calls PROVE AnswerInv(d)'
  <2>0. AnswerInv(d)
    BY <1>b
  <2> QED BY ZenonT(60), <2>0, <1>1, <1>3, <1>6 DEF AnswerInv
<1> QED BY ZenonT(60), <1>7, <1>8s, <1>8, <1>8w, <1>9, <1>10, <1>11 DEF Live

\* ... the promise, which nobody else can have settled, is rejected ...
LEMMA RejectFailedLive ==
  ASSUME TypeOK, Live, RejectFailed
  PROVE  Live' /\ fault' = fault
<1>a. SenderInv /\ SlotInv /\ DistinctInv /\ AnswersInv /\ OrderInv /\ UniqueInv
  BY DEF Live
<1>b. \A d \in Calls : QuestionInv(d) /\ TableInv(d) /\ AnswerInv(d)
  BY DEF Live
<1> DEFINE c == sender.call
<1>1. UNCHANGED <<answers, answer, via, server, capsReleased, questions, questionID, kind, qid, target, result,
                  finished, finishSent, finishMsgSend, release, returnTask, canceler>>
  BY DEF RejectFailed, calleeVars, table, ident, flags, tasks
<1>2. sender.at = "reject" /\ sender'.at = "remove" /\ sender'.call = c /\ (sender'.ok <=> sender.ok)
  BY DEF RejectFailed, TypeOK, SenderType
<1>3. /\ c \in Calls /\ nil \notin Calls
      /\ \A i \in ID : questions[i] = nil \/ questions[i] \in Calls
      /\ \A m : (InTx(m)' <=> InTx(m)) /\ (OnWire(m)' <=> OnWire(m)) /\ (Returning(m)' <=> Returning(m))
      /\ UNCHANGED <<sendTx, toCallee, toCaller>>
  BY ZenonT(60), <1>2, CallbackFacts DEF RejectFailed
<1>4. /\ canceler[c] = "none" /\ promise[c] = "pending" /\ ~Sent(c) /\ ~sender.ok
      /\ questions[qid[c]] # c
  BY ZenonT(60), <1>a, <1>2 DEF SenderInv, Sent, At
<1>5. ~InTx(CallMsg(c)) /\ ~InTx(FinishMsg(c)) /\ returnTask[c] = "none"
  BY ZenonT(60), <1>b, <1>3, <1>4 DEF TableInv, QuestionInv, c
<1>6. fault' = fault /\ \A d \in Calls : promise'[d] = IF d = c THEN "rejected" ELSE promise[d]
  BY ZenonT(60), <1>4 DEF RejectFailed, Settle, TypeOK, OutcomeType
<1> HIDE DEF c
<1>7. \A d \in Calls : (Sent(d)' <=> Sent(d)) /\ (SentFinish(d)' <=> SentFinish(d))
  BY ZenonT(60), <1>1, <1>2, <1>3 DEF Sent, SentFinish, At, c
<1>8. SenderInv'
  BY ZenonT(60), <1>1, <1>2, <1>3, <1>4, <1>6 DEF SenderInv
<1>9s. SlotInv'
  BY ZenonT(60), <1>a, <1>1, <1>6, SlotSame, Types DEF Slot
<1>9. DistinctInv'
  BY ZenonT(60), <1>a, <1>1, <1>3 DEF DistinctInv, Distinct
<1>9w. AnswersInv' /\ OrderInv' /\ UniqueInv'
  BY <1>a, <1>1, <1>3, WireFrame
<1>10. ASSUME NEW d \in Calls PROVE QuestionInv(d)'
  <2>0. QuestionInv(d)
    BY <1>b
  <2>1. CASE d = c
    BY ZenonT(60), <2>0, <1>1, <1>2, <1>3, <1>4, <1>5, <1>6, <1>7, <2>1 DEF QuestionInv, At, c
  <2>2. CASE d # c
    BY ZenonT(60), <2>0, <1>1, <1>2, <1>3, <1>6, <1>7, <2>2 DEF QuestionInv, At, c
  <2> QED BY <2>1, <2>2
<1>11. ASSUME NEW d \in Calls PROVE TableInv(d)'
  <2>0. TableInv(d)
    BY <1>b
  <2>1. CASE d = c
    BY ZenonT(60), <2>0, <1>1, <1>2, <1>3, <1>4, <1>5, <1>6, <1>7, <2>1 DEF TableInv, At, c
  <2>2. CASE d # c
    BY ZenonT(60), <2>0, <1>1, <1>2, <1>3, <1>6, <1>7, <2>2 DEF TableInv, At, c
  <2> QED BY <2>1, <2>2
<1>12. ASSUME NEW d \in Calls PROVE AnswerInv(d)'
  <2>0. AnswerInv(d)
    BY <1>b
  <2> QED BY ZenonT(60), <2>0, <1>1, <1>3, <1>7 DEF AnswerInv
<1> QED BY ZenonT(60), <1>6, <1>8, <1>9s, <1>9, <1>9w, <1>10, <1>11, <1>12 DEF Live

\* ... and only then is the ID given back.
LEMMA RemoveFailedLive ==
  ASSUME TypeOK, Live, RemoveFailed
  PROVE  Live'
<1>a. SenderInv /\ SlotInv /\ DistinctInv /\ AnswersInv /\ OrderInv /\ UniqueInv
  BY DEF Live
<1>b. \A d \in Calls : QuestionInv(d) /\ TableInv(d) /\ AnswerInv(d)
  BY DEF Live
<1> DEFINE c == sender.call
<1>1. UNCHANGED <<answers, answer, via, server, capsReleased, questions, kind, qid, target, promise, result,
                  finished, finishSent, finishMsgSend, release, returnTask, canceler>>
  BY DEF RemoveFailed, calleeVars, ident, outcome, flags, tasks
<1>2. sender.at = "remove" /\ sender'.at = "recv" /\ sender'.call = nil /\ sender'.ok
  BY ZenonT(60) DEF RemoveFailed, Idle
<1>3. /\ c \in Calls /\ nil \notin Calls /\ \A d \in Calls : qid[d] \in ID
      /\ \A i \in ID : questions[i] = nil \/ questions[i] \in Calls
      /\ \A m : (InTx(m)' <=> InTx(m)) /\ (OnWire(m)' <=> OnWire(m)) /\ (Returning(m)' <=> Returning(m))
      /\ UNCHANGED <<sendTx, toCallee, toCaller>>
  BY <1>2, CallbackFacts DEF RemoveFailed
<1>4. \A i \in ID : questionID'[i] = IF i = qid[c] THEN nil ELSE questionID[i]
  BY ZenonT(60) DEF RemoveFailed, Remove, TypeOK, TableType
<1>5. /\ canceler[c] = "none" /\ promise[c] = "rejected" /\ ~Sent(c) /\ ~sender.ok
      /\ questions[qid[c]] # c
  BY ZenonT(60), <1>a, <1>2 DEF SenderInv, Sent, At
<1>6. ~InTx(CallMsg(c)) /\ questionID[qid[c]] = c
  BY ZenonT(60), <1>b, <1>2, <1>3, <1>5 DEF TableInv, At, c
<1> HIDE DEF c
<1>7. \A d \in Calls : (Sent(d)' <=> Sent(d)) /\ (SentFinish(d)' <=> SentFinish(d))
  BY ZenonT(60), <1>1, <1>2, <1>3 DEF Sent, SentFinish, At, c
<1>8. SenderInv' /\ DistinctInv'
  BY ZenonT(60), <1>a, <1>1, <1>2, <1>3 DEF SenderInv, DistinctInv, Distinct
<1>8w. AnswersInv' /\ OrderInv' /\ UniqueInv'
  BY ZenonT(60), <1>a, <1>1, <1>3, WireFrame
<1>9. SlotInv'
  <2>1. \A i \in ID : questions[i] # c
    BY ZenonT(60), <1>a, <1>3, <1>5 DEF SlotInv
  <2>2. \A i \in ID : questionID'[i] = questionID[i] \/ questionID[i] = c
    BY ZenonT(60), <1>3, <1>4, <1>6
  <2> QED BY ZenonT(60), <1>a, <1>1, <1>3, <2>1, <2>2, SlotOthers
<1>10. ASSUME NEW d \in Calls PROVE QuestionInv(d)'
  <2>0. QuestionInv(d)
    BY <1>b
  <2> QED BY ZenonT(60), <2>0, <1>1, <1>2, <1>3, <1>7 DEF QuestionInv, At
<1>11. ASSUME NEW d \in Calls PROVE TableInv(d)'
  <2>0. TableInv(d)
    BY <1>b
  <2>1. CASE d = c
    BY Zenon, <2>0, <1>1, <1>2, <1>3, <1>4, <1>5, <1>6, <1>7, <2>1 DEF TableInv, At, c
  <2>2. CASE d # c
    BY Zenon, <2>0, <1>1, <1>2, <1>3, <1>4, <1>6, <1>7, <2>2 DEF TableInv, At, c
  <2> QED BY <2>1, <2>2
<1>12. ASSUME NEW d \in Calls PROVE AnswerInv(d)'
  <2>0. AnswerInv(d)
    BY <1>b
  <2> QED BY Zenon, <2>0, <1>1, <1>3, <1>7 DEF AnswerInv
<1> QED BY ZenonT(60), <1>8, <1>8w, <1>9, <1>10, <1>11, <1>12 DEF Live

\* onSent of handleCancel's Finish: finishSent is set before finishMsgSend.
LEMMA CancelSentLive ==
  ASSUME TypeOK, Live, CancelSent
  PROVE  Live'
<1>a. SenderInv /\ SlotInv /\ DistinctInv /\ AnswersInv /\ OrderInv /\ UniqueInv
  BY DEF Live
<1>b. \A d \in Calls : QuestionInv(d) /\ TableInv(d) /\ AnswerInv(d)
  BY DEF Live
<1> DEFINE c == sender.call
<1>1. UNCHANGED <<answers, answer, via, server, capsReleased, questions, questionID, kind, qid, target, promise,
                  result, finished, finishMsgSend, release, returnTask, canceler>>
  BY DEF CancelSent, calleeVars, table, ident, outcome, tasks
<1>2. sender.at = "cancelSent" /\ sender'.at = "close" /\ sender'.call = c /\ (sender'.ok <=> sender.ok)
  BY DEF CancelSent, TypeOK, SenderType
<1>3. /\ c \in Calls /\ nil \notin Calls
      /\ \A m : (InTx(m)' <=> InTx(m)) /\ (OnWire(m)' <=> OnWire(m)) /\ (Returning(m)' <=> Returning(m))
      /\ UNCHANGED <<sendTx, toCallee, toCaller>>
  BY <1>2, CallbackFacts DEF CancelSent
<1>4. \A d \in Calls : finishSent'[d] <=> IF d = c THEN sender.ok ELSE finishSent[d]
  BY DEF CancelSent, TypeOK, FlagType
<1>5. /\ release[c] /\ promise[c] = "pending" /\ ~InTx(FinishMsg(c)) /\ ~finishMsgSend[c] /\ ~finishSent[c]
      /\ finished[c] /\ canceler[c] = "done"
  BY Zenon, <1>a, <1>b, <1>2, <1>3 DEF SenderInv, QuestionInv
<1>6. returnTask[c] \in {"none", "wait"}
  BY ZenonT(60), <1>b, <1>3, <1>5 DEF QuestionInv
<1> HIDE DEF c
<1>7. \A d \in Calls : (Sent(d)' <=> Sent(d)) /\ (SentFinish(d)' <=> SentFinish(d))
  BY ZenonT(60), <1>1, <1>2, <1>3, <1>4, <1>5 DEF Sent, SentFinish, At, c
<1>8. SenderInv'
  BY ZenonT(60), <1>1, <1>2, <1>3, <1>4, <1>5 DEF SenderInv
<1>9s. SlotInv'
  BY ZenonT(60), <1>a, <1>1, SlotSame, Types DEF Slot
<1>9. DistinctInv'
  BY ZenonT(60), <1>a, <1>1, <1>3 DEF DistinctInv, Distinct
<1>9w. AnswersInv' /\ OrderInv' /\ UniqueInv'
  BY <1>a, <1>1, <1>3, WireFrame
<1>10. ASSUME NEW d \in Calls PROVE QuestionInv(d)'
  <2>0. QuestionInv(d)
    BY <1>b
  <2>1. CASE d = c
    BY Zenon, <2>0, <1>1, <1>2, <1>3, <1>4, <1>5, <1>6, <1>7, <2>1 DEF QuestionInv, At, c
  <2>2. CASE d # c
    BY Zenon, <2>0, <1>1, <1>2, <1>3, <1>4, <1>7, <2>2 DEF QuestionInv, At, c
  <2> QED BY <2>1, <2>2
<1>11. ASSUME NEW d \in Calls PROVE TableInv(d)'
  <2>0. TableInv(d)
    BY <1>b
  <2>1. CASE d = c
    BY ZenonT(60), <2>0, <1>1, <1>2, <1>3, <1>4, <1>5, <1>6, <1>7, <2>1 DEF TableInv, At, c
  <2>2. CASE d # c
    BY ZenonT(60), <2>0, <1>1, <1>2, <1>3, <1>4, <1>7, <2>2 DEF TableInv, At, c
  <2> QED BY <2>1, <2>2
<1>12. ASSUME NEW d \in Calls PROVE AnswerInv(d)'
  <2>0. AnswerInv(d)
    BY <1>b
  <2> QED BY Zenon, <2>0, <1>1, <1>3, <1>7 DEF AnswerInv
<1> QED BY <1>8, <1>9s, <1>9, <1>9w, <1>10, <1>11, <1>12 DEF Live

\* ... finishMsgSend is closed, which lets WaitFinish give the ID back ...
LEMMA CancelCloseLive ==
  ASSUME TypeOK, Live, CancelClose
  PROVE  Live'
<1>a. SenderInv /\ SlotInv /\ DistinctInv /\ AnswersInv /\ OrderInv /\ UniqueInv
  BY DEF Live
<1>b. \A d \in Calls : QuestionInv(d) /\ TableInv(d) /\ AnswerInv(d)
  BY DEF Live
<1> DEFINE c == sender.call
<1>1. UNCHANGED <<answers, answer, via, server, capsReleased, questions, questionID, kind, qid, target, promise,
                  result, finished, finishSent, release, returnTask, canceler>>
  BY DEF CancelClose, calleeVars, table, ident, outcome, tasks
<1>2. sender.at = "close" /\ sender'.at = "cancel" /\ sender'.call = c /\ (sender'.ok <=> sender.ok)
  BY DEF CancelClose, TypeOK, SenderType
<1>3. /\ c \in Calls /\ nil \notin Calls
      /\ \A m : (InTx(m)' <=> InTx(m)) /\ (OnWire(m)' <=> OnWire(m)) /\ (Returning(m)' <=> Returning(m))
      /\ UNCHANGED <<sendTx, toCallee, toCaller>>
  BY <1>2, CallbackFacts DEF CancelClose
<1>4. \A d \in Calls : finishMsgSend'[d] <=> (d = c \/ finishMsgSend[d])
  BY DEF CancelClose, TypeOK, FlagType
<1>5. /\ release[c] /\ promise[c] = "pending" /\ ~InTx(FinishMsg(c)) /\ ~finishMsgSend[c]
      /\ finishSent[c] <=> sender.ok
      /\ finished[c] /\ canceler[c] = "done"
  BY Zenon, <1>a, <1>b, <1>2, <1>3 DEF SenderInv, QuestionInv
<1>6. returnTask[c] \in {"none", "wait"}
  BY ZenonT(60), <1>b, <1>3, <1>5 DEF QuestionInv
<1> HIDE DEF c
<1>7. \A d \in Calls : (Sent(d)' <=> Sent(d)) /\ (SentFinish(d)' <=> SentFinish(d))
  BY ZenonT(60), <1>1, <1>2, <1>3 DEF Sent, SentFinish, At, c
<1>8. SenderInv'
  BY ZenonT(60), <1>1, <1>2, <1>3, <1>4, <1>5 DEF SenderInv
<1>9s. SlotInv'
  BY ZenonT(60), <1>a, <1>1, SlotSame, Types DEF Slot
<1>9. DistinctInv'
  BY <1>a, <1>1, <1>3 DEF DistinctInv, Distinct
<1>9w. AnswersInv' /\ OrderInv' /\ UniqueInv'
  BY <1>a, <1>1, <1>3, WireFrame
<1>10. ASSUME NEW d \in Calls PROVE QuestionInv(d)'
  <2>0. QuestionInv(d)
    BY <1>b
  <2>1. CASE d = c
    BY Zenon, <2>0, <1>1, <1>2, <1>3, <1>4, <1>5, <1>6, <1>7, <2>1 DEF QuestionInv, At, c
  <2>2. CASE d # c
    BY Zenon, <2>0, <1>1, <1>2, <1>3, <1>4, <1>7, <2>2 DEF QuestionInv, At, c
  <2> QED BY <2>1, <2>2
<1>11. ASSUME NEW d \in Calls PROVE TableInv(d)'
  <2>0. TableInv(d)
    BY <1>b
  <2>1. CASE d = c
    BY Zenon, <2>0, <1>1, <1>2, <1>3, <1>4, <1>5, <1>6, <1>7, <2>1 DEF TableInv, At, c
  <2>2. CASE d # c
    BY ZenonT(60), <2>0, <1>1, <1>2, <1>3, <1>4, <1>7, <2>2 DEF TableInv, At, c
  <2> QED BY <2>1, <2>2
<1>12. ASSUME NEW d \in Calls PROVE AnswerInv(d)'
  <2>0. AnswerInv(d)
    BY <1>b
  <2> QED BY Zenon, <2>0, <1>1, <1>3, <1>7 DEF AnswerInv
<1> QED BY <1>8, <1>9s, <1>9, <1>9w, <1>10, <1>11, <1>12 DEF Live

\* ... and the promise is rejected: a cancelled question is never resolved.
LEMMA CancelRejectLive ==
  ASSUME TypeOK, Live, CancelReject
  PROVE  Live' /\ fault' = fault
<1>a. SenderInv /\ SlotInv /\ DistinctInv /\ AnswersInv /\ OrderInv /\ UniqueInv
  BY DEF Live
<1>b. \A d \in Calls : QuestionInv(d) /\ TableInv(d) /\ AnswerInv(d)
  BY DEF Live
<1> DEFINE c == sender.call
<1>1. UNCHANGED <<answers, answer, via, server, capsReleased, questions, questionID, kind, qid, target, result,
                  finished, finishSent, finishMsgSend, release, returnTask, canceler>>
  BY ZenonT(60) DEF CancelReject, calleeVars, table, ident, flags, tasks
<1>2. sender.at = "cancel" /\ sender'.at = "recv" /\ sender'.call = nil /\ sender'.ok
  BY ZenonT(60) DEF CancelReject, Idle
<1>3. /\ c \in Calls /\ nil \notin Calls
      /\ \A i \in ID : questions[i] = nil \/ questions[i] \in Calls
      /\ \A m : (InTx(m)' <=> InTx(m)) /\ (OnWire(m)' <=> OnWire(m)) /\ (Returning(m)' <=> Returning(m))
      /\ UNCHANGED <<sendTx, toCallee, toCaller>>
  BY <1>2, CallbackFacts DEF CancelReject
<1>4. /\ release[c] /\ promise[c] = "pending" /\ ~InTx(FinishMsg(c)) /\ finishMsgSend[c]
      /\ finished[c] /\ canceler[c] = "done"
  BY ZenonT(60), <1>a, <1>b, <1>2, <1>3 DEF SenderInv, QuestionInv
<1>5. returnTask[c] \in {"none", "wait", "done"} /\ ~InTx(CallMsg(c))
  <2>1. QuestionInv(c) /\ TableInv(c)
    BY ZenonT(60), <1>b, <1>3
  <2>2. ~InTx(CallMsg(c))
    BY ZenonT(60), <1>4, <2>1 DEF TableInv
  <2>3. returnTask[c] \in {"none", "wait", "done"}
    BY ZenonT(60), <1>4, <2>1 DEF QuestionInv
  <2> QED BY <2>2, <2>3
<1>6. fault' = fault /\ \A d \in Calls : promise'[d] = IF d = c THEN "rejected" ELSE promise[d]
  BY ZenonT(60), <1>4 DEF CancelReject, Settle, TypeOK, OutcomeType
<1> HIDE DEF c
<1>7. \A d \in Calls : (Sent(d)' <=> Sent(d)) /\ (SentFinish(d)' <=> SentFinish(d))
  BY ZenonT(60), <1>1, <1>2, <1>3 DEF Sent, SentFinish, At, c
<1>8. SenderInv'
  BY ZenonT(60), <1>1, <1>2, <1>3 DEF SenderInv
<1>9s. SlotInv'
  BY <1>a, <1>1, <1>6, SlotSame, Types DEF Slot
<1>9. DistinctInv'
  BY <1>a, <1>1, <1>3 DEF DistinctInv, Distinct
<1>9w. AnswersInv' /\ OrderInv' /\ UniqueInv'
  BY <1>a, <1>1, <1>3, WireFrame
<1>10. ASSUME NEW d \in Calls PROVE QuestionInv(d)'
  <2>0. QuestionInv(d)
    BY <1>b
  <2>1. CASE d = c
    BY Zenon, <2>0, <1>1, <1>2, <1>3, <1>4, <1>5, <1>6, <1>7, <2>1 DEF QuestionInv, At, c
  <2>2. CASE d # c
    BY Zenon, <2>0, <1>1, <1>2, <1>3, <1>6, <1>7, <2>2 DEF QuestionInv, At, c
  <2> QED BY <2>1, <2>2
<1>11. ASSUME NEW d \in Calls PROVE TableInv(d)'
  <2>0. TableInv(d)
    BY <1>b
  <2>1. CASE d = c
    BY Zenon, <2>0, <1>1, <1>2, <1>3, <1>4, <1>5, <1>6, <1>7, <2>1 DEF TableInv, At, c
  <2>2. CASE d # c
    BY ZenonT(60), <2>0, <1>1, <1>2, <1>3, <1>6, <1>7, <2>2 DEF TableInv, At, c
  <2> QED BY <2>1, <2>2
<1>12. ASSUME NEW d \in Calls PROVE AnswerInv(d)'
  <2>0. AnswerInv(d)
    BY <1>b
  <2> QED BY ZenonT(60), <2>0, <1>1, <1>3, <1>7 DEF AnswerInv
<1> QED BY <1>6, <1>8, <1>9s, <1>9, <1>9w, <1>10, <1>11, <1>12 DEF Live

\* onSent of handleReturn's Finish gives the ID back, once.
LEMMA FinishSentLive ==
  ASSUME TypeOK, Live, FinishSent
  PROVE  Live'
<1>a. SenderInv /\ SlotInv /\ DistinctInv /\ AnswersInv /\ OrderInv /\ UniqueInv
  BY DEF Live
<1>b. \A d \in Calls : QuestionInv(d) /\ TableInv(d) /\ AnswerInv(d)
  BY DEF Live
<1> DEFINE c == sender.call
<1>1. UNCHANGED <<answers, answer, via, server, capsReleased, questions, kind, qid, target, promise, result,
                  finished, release, returnTask, canceler>>
  BY Zenon DEF FinishSent, calleeVars, ident, outcome, tasks
<1>2. sender.at = "finishSent" /\ sender'.at = "recv" /\ sender'.call = nil /\ sender'.ok
  BY ZenonT(60) DEF FinishSent, Idle
<1>3. /\ c \in Calls /\ nil \notin Calls /\ \A d \in Calls : qid[d] \in ID
      /\ \A i \in ID : questions[i] = nil \/ questions[i] \in Calls
      /\ \A m : (InTx(m)' <=> InTx(m)) /\ (OnWire(m)' <=> OnWire(m)) /\ (Returning(m)' <=> Returning(m))
      /\ UNCHANGED <<sendTx, toCallee, toCaller>>
  BY ZenonT(60), <1>2, CallbackFacts DEF FinishSent
<1>4. /\ \A d \in Calls : /\ finishSent'[d] <=> IF d = c THEN sender.ok ELSE finishSent[d]
                          /\ finishMsgSend'[d] <=> (d = c \/ finishMsgSend[d])
      /\ \A i \in ID : questionID'[i] = IF sender.ok /\ i = qid[c] THEN nil ELSE questionID[i]
  BY DEF FinishSent, Remove, TypeOK, FlagType, TableType
<1>5. /\ returnTask[c] = "done" /\ ~release[c] /\ ~InTx(FinishMsg(c)) /\ ~finishMsgSend[c] /\ ~finishSent[c]
      /\ finished[c] /\ Sent(c) /\ promise[c] # "none"
  BY Zenon, <1>a, <1>b, <1>2, <1>3 DEF SenderInv, QuestionInv, c
<1>6. ~InTx(CallMsg(c)) /\ questionID[qid[c]] = c
  BY ZenonT(60), <1>b, <1>3, <1>5 DEF TableInv, c
<1> HIDE DEF c
<1>7. \A d \in Calls : (Sent(d)' <=> Sent(d)) /\ (SentFinish(d)' <=> SentFinish(d))
  BY ZenonT(60), <1>1, <1>2, <1>3, <1>4, <1>5 DEF Sent, SentFinish, At, c
<1>8. SenderInv' /\ DistinctInv'
  BY ZenonT(60), <1>a, <1>1, <1>2, <1>3 DEF SenderInv, DistinctInv, Distinct
<1>8w. AnswersInv' /\ OrderInv' /\ UniqueInv'
  BY Zenon, <1>a, <1>1, <1>3, WireFrame
<1>9. SlotInv'
  <2>1. ASSUME NEW i \in ID PROVE questions[i] # c
    <3>1. questions[i] # nil => returnTask[questions[i]] = "none"
      BY Zenon, <1>a DEF SlotInv
    <3>2. c # nil /\ returnTask[c] = "done"
      BY ZenonT(60), <1>3, <1>5
    <3> QED BY <3>1, <3>2
  <2>2. \A i \in ID : questionID'[i] = questionID[i] \/ questionID[i] = c
    BY ZenonT(60), <1>3, <1>4, <1>6
  <2> QED BY ZenonT(60), <1>a, <1>1, <1>3, <2>1, <2>2, SlotOthers
<1>10. ASSUME NEW d \in Calls PROVE QuestionInv(d)'
  <2>0. QuestionInv(d)
    BY <1>b
  <2>1. CASE d = c
    BY Zenon, <2>0, <1>1, <1>2, <1>3, <1>4, <1>5, <1>6, <1>7, <2>1 DEF QuestionInv, At, c
  <2>2. CASE d # c
    BY Zenon, <2>0, <1>1, <1>2, <1>3, <1>4, <1>7, <2>2 DEF QuestionInv, At, c
  <2> QED BY <2>1, <2>2
<1>11. ASSUME NEW d \in Calls PROVE TableInv(d)'
  <2>0. TableInv(d)
    BY <1>b
  <2>1. CASE d = c
    BY Zenon, <2>0, <1>1, <1>2, <1>3, <1>4, <1>5, <1>6, <1>7, <2>1 DEF TableInv, At, c
  <2>2. CASE d # c
    <3>1. TableInv(d)
      BY <1>b
    <3>2. questionID[qid[d]] = d => questionID'[qid[d]] = d
      BY Zenon, <1>3, <1>4, <1>6, <2>2
    <3> QED BY Zenon, <1>1, <1>2, <1>3, <1>4, <1>7, <2>2, <3>1, <3>2 DEF TableInv, At, c
  <2> QED BY <2>1, <2>2
<1>12. ASSUME NEW d \in Calls PROVE AnswerInv(d)'
  <2>0. AnswerInv(d)
    BY <1>b
  <2> QED BY Zenon, <2>0, <1>1, <1>3, <1>7 DEF AnswerInv
<1> QED BY <1>8, <1>8w, <1>9, <1>10, <1>11, <1>12 DEF Live

-----------------------------------------------------------------------------
(* Returns.                                                                *)

\* A Return finds the question it answers, and nobody has popped it before.
LEMMA ReturnLive ==
  ASSUME TypeOK, Live, handleReturn
  PROVE  Live' /\ fault' = fault
<1>a. SenderInv /\ SlotInv /\ DistinctInv /\ AnswersInv /\ OrderInv /\ UniqueInv
  BY DEF Live
<1>b. \A d \in Calls : QuestionInv(d) /\ TableInv(d) /\ AnswerInv(d)
  BY DEF Live
<1> DEFINE m == Head(toCaller)
           c == m.call
<1>1. UNCHANGED <<answers, answer, via, server, capsReleased, kind, qid, target, promise, finishSent,
                  finishMsgSend, release, canceler, sendTx, sender, toCallee>>
  BY Zenon DEF handleReturn, calleeVars, ident
<1>2. /\ c \in Calls /\ Returning(c) /\ DistinctCalls(toCaller)'
      /\ \A d : Returning(d)' <=> Returning(d) /\ d # c
  <2>1. toCaller \in Seq(Return) /\ toCaller # <<>> /\ toCaller' = Tail(toCaller) /\ DistinctCalls(toCaller)
    BY Zenon, <1>a DEF handleReturn, TypeOK, PipeType, DistinctInv
  <2>2. m \in Return
    BY ZenonT(60), <2>1, HeadTailProperties
  <2> QED BY Zenon, <2>1, <2>2, ReturnTail DEF Returning, Return
<1>3. server[c] = "returned" /\ returnTask[c] = "none" /\ Sent(c)
  BY ZenonT(60), <1>b, <1>2 DEF AnswerInv
<1>4. /\ questions[qid[c]] = c /\ questionID[qid[c]] = c /\ promise[c] # "none"
      /\ finished[c] <=> release[c]
      /\ ~finished[c] => promise[c] = "pending" /\ ~finishSent[c] /\ ~finishMsgSend[c]
      /\ result[c] = nil
  <2>1. TableInv(c) /\ QuestionInv(c)
    BY ZenonT(60), <1>b, <1>2
  <2>2. promise[c] # "none"
    BY ZenonT(60), <1>3, <2>1 DEF QuestionInv, Sent, At
  <2> QED BY Zenon, <1>3, <2>1, <2>2 DEF TableInv, QuestionInv
<1>5. nil \notin Calls /\ \A d \in Calls : qid[d] \in ID
  BY Types
<1>6q. /\ fault' = fault
       /\ questions' = [questions EXCEPT ![qid[c]] = nil]
       /\ finished' = [finished EXCEPT ![c] = TRUE]
  BY Zenon, <1>4, <1>5, <1>2 DEF handleReturn
<1>6r. finished[c] =>
         /\ questionID' = IF finishMsgSend[c] /\ finishSent[c] THEN Remove(qid[c]) ELSE questionID
         /\ returnTask' = [returnTask EXCEPT ![c] = IF finishMsgSend[c] THEN "done" ELSE "wait"]
         /\ result' = result
  BY Zenon, <1>4, <1>5, <1>2 DEF handleReturn
<1>6s. ~finished[c] =>
         /\ returnTask' = [returnTask EXCEPT ![c] = IF m.ok THEN "resolve" ELSE "reject"]
         /\ result' = [result EXCEPT ![c] = c]
         /\ questionID' = questionID
  BY Zenon, <1>4, <1>5, <1>2 DEF handleReturn
<1> HIDE DEF m, c
<1>6. /\ fault' = fault
      /\ \A i \in ID : questions'[i] = IF i = qid[c] THEN nil ELSE questions[i]
      /\ \A d \in Calls : finished'[d] <=> (d = c \/ finished[d])
  BY ZenonT(60), <1>2, <1>6q DEF TypeOK, TableType, FlagType
<1>7. \A d \in Calls : d # c => returnTask'[d] = returnTask[d] /\ result'[d] = result[d]
  BY ZenonT(60), <1>2, <1>6r, <1>6s DEF TypeOK, TaskType, OutcomeType
<1>8. finished[c] => returnTask'[c] = (IF finishMsgSend[c] THEN "done" ELSE "wait") /\ result'[c] = nil
  BY ZenonT(60), <1>2, <1>4, <1>6r DEF TypeOK, TaskType
<1>9. ~finished[c] => returnTask'[c] \in {"resolve", "reject"} /\ result'[c] = c
  BY ZenonT(60), <1>2, <1>6s DEF TypeOK, TaskType, OutcomeType
<1>10. \A i \in ID : questionID'[i] =
          IF i = qid[c] /\ finished[c] /\ finishMsgSend[c] /\ finishSent[c] THEN nil ELSE questionID[i]
  BY <1>2, <1>5, <1>6r, <1>6s DEF Remove, TypeOK, TableType
<1>11. \A x : (InTx(x)' <=> InTx(x)) /\ (OnWire(x)' <=> OnWire(x))
  BY ZenonT(60), <1>1 DEF InTx, OnWire
<1>12. \A d \in Calls : (Sent(d)' <=> Sent(d)) /\ (SentFinish(d)' <=> SentFinish(d))
  BY <1>1 DEF Sent, SentFinish, At
<1>13. /\ ~InTx(CallMsg(c)) /\ (finished[c] => ~At(c, {"callSent", "reject", "remove"}))
       /\ ~At(c, {"finishSent"}) /\ (InTx(FinishMsg(c)) => release[c] /\ ~finishSent[c])
  BY ZenonT(60), <1>a, <1>b, <1>2, <1>3, <1>4 DEF SenderInv, QuestionInv, TableInv, Sent, At
<1>14. (sender.call = nil \/ sender.call \in Calls) /\ \A i \in ID : questions[i] = nil \/ questions[i] \in Calls
  BY Types DEF Slot
<1>15. SenderInv'
  BY Zenon, <1>a, <1>1, <1>5, <1>6, <1>7, <1>11, <1>13, <1>14 DEF SenderInv, At
<1>16. SlotInv'
  <2>1. \A i \in ID : questions[i] = c => i = qid[c]
    BY ZenonT(60), <1>a, <1>2, <1>5 DEF SlotInv
  <2>2. \A i \in ID : questions'[i] # nil => questions'[i] = questions[i] /\ questions[i] # c
    BY <1>6, <2>1
  <2>3. \A i \in ID : questionID'[i] = questionID[i] \/ questionID[i] = c
    BY <1>4, <1>10
  <2> QED BY Zenon, <1>a, <1>1, <1>2, <1>7, <1>14, <2>2, <2>3, SlotOthers
<1>17. DistinctInv'
  BY ZenonT(60), <1>a, <1>1, <1>2 DEF DistinctInv, Distinct
<1>17w. AnswersInv' /\ OrderInv' /\ UniqueInv'
  BY <1>a, <1>1, WireFrame
<1>18. ASSUME NEW d \in Calls PROVE QuestionInv(d)'
  <2>0. QuestionInv(d)
    BY <1>b
  <2>1. CASE d = c
    BY ZenonT(60), <2>0, <1>1, <1>3, <1>4, <1>5, <1>6, <1>8, <1>9, <1>11, <1>12, <2>1 DEF QuestionInv, At
  <2>2. CASE d # c
    BY ZenonT(60), <2>0, <1>1, <1>6, <1>7, <1>11, <1>12, <2>2 DEF QuestionInv, At
  <2> QED BY <2>1, <2>2
<1>19. ASSUME NEW d \in Calls PROVE TableInv(d)'
  <2>0. TableInv(d)
    BY <1>b
  <2>1. CASE d = c
    <3>1. TableInv(c)
      BY ZenonT(60), <1>b, <1>2
    <3>2. \A where : At(d, where)' <=> At(d, where)
      BY <1>1 DEF At
    <3>3. questionID'[qid[c]] = c \/ (finished[c] /\ finishSent[c] /\ returnTask'[c] = "done")
      BY ZenonT(60), <1>2, <1>4, <1>5, <1>8, <1>10
    <3>4. returnTask'[c] # "none"
      BY <1>8, <1>9
    <3> QED BY ZenonT(60), <1>1, <1>2, <1>6, <1>11, <1>12, <1>13, <2>1, <3>1, <3>2, <3>3, <3>4 DEF TableInv
  <2>2. CASE d # c
    <3>1. TableInv(d)
      BY <1>b
    <3>2. /\ questionID[qid[d]] = d => questionID'[qid[d]] = d
          /\ questions[qid[d]] = d => questions'[qid[d]] = d
      BY Zenon, <1>2, <1>4, <1>5, <1>6, <1>10, <2>2
    <3> QED BY Zenon, <1>1, <1>6, <1>7, <1>11, <1>12, <2>2, <3>1, <3>2 DEF TableInv, At
  <2> QED BY <2>1, <2>2
<1>20. ASSUME NEW d \in Calls PROVE AnswerInv(d)'
  <2>0. AnswerInv(d)
    BY <1>b
  <2>1. CASE d = c
    BY Zenon, <2>0, <1>1, <1>2, <1>3, <1>11, <1>12, <2>1 DEF AnswerInv
  <2>2. CASE d # c
    BY Zenon, <2>0, <1>1, <1>2, <1>7, <1>11, <1>12, <2>2 DEF AnswerInv
  <2> QED BY <2>1, <2>2
<1> QED BY Zenon, <1>6, <1>15, <1>16, <1>17, <1>17w, <1>18, <1>19, <1>20 DEF Live

-----------------------------------------------------------------------------
(* The callee.                                                             *)

\* The Call at the head of the wire names a free slot of the answer table.
LEMMA HeadCall ==
  ASSUME TypeOK, Live, receive("call")
  PROVE  \E c \in Calls :
            /\ Head(toCallee) = CallMsg(c) /\ Head(toCallee).call = c
            /\ answers[qid[c]] = nil
            /\ server[c] = "none" /\ returnTask[c] = "none" /\ Sent(c) /\ ~Returning(c)
            /\ ~answer[c].finishReceived
            /\ \A m : OnWire(m)' <=> OnWire(m) /\ m # CallMsg(c)
            /\ Distinct(toCallee)'
<1>a. SenderInv /\ SlotInv /\ DistinctInv /\ AnswersInv /\ OrderInv /\ UniqueInv
  BY DEF Live
<1>b. \A d \in Calls : QuestionInv(d) /\ TableInv(d) /\ AnswerInv(d)
  BY DEF Live
<1> DEFINE c == Head(toCallee).call
<1>1. /\ toCallee \in Seq(Message) /\ toCallee # <<>> /\ toCallee' = Tail(toCallee) /\ Distinct(toCallee)
      /\ Head(toCallee).type = "call"
  BY <1>a DEF TypeOK, PipeType, receive, DistinctInv
<1>2. Head(toCallee) \in Message /\ In(Head(toCallee), toCallee) /\ Distinct(toCallee)'
      /\ \A m : In(m, Tail(toCallee)) <=> In(m, toCallee) /\ m # Head(toCallee)
  BY ZenonT(60), <1>1, InTail
<1>3. c \in Calls /\ Head(toCallee) = CallMsg(c)
  BY <1>1, <1>2, MessageForm
<1>4. OnWire(CallMsg(c)) /\ \A m : OnWire(m)' <=> OnWire(m) /\ m # CallMsg(c)
  BY ZenonT(60), <1>1, <1>2, <1>3 DEF OnWire
<1>5. server[c] = "none" /\ Sent(c) /\ ~Returning(c) /\ returnTask[c] = "none" /\ ~answer[c].finishReceived
  BY ZenonT(60), <1>b, <1>3, <1>4 DEF AnswerInv
<1>6. answers[qid[c]] # c
  BY ZenonT(60), <1>b, <1>3, <1>5 DEF AnswerInv
<1>7. answers[qid[c]] = nil
  <2>1. qid[c] \in ID /\ answers[qid[c]] \in Slot
    BY ZenonT(60), <1>3, Types
  <2>2. 1 \in 1..Len(toCallee) /\ toCallee[1] = Head(toCallee)
    BY SMTT(60), <1>1, EmptySeq, LenProperties, HeadTailProperties
  <2>3. \A d \in Calls : d # c /\ answers[qid[c]] = d => \E j \in 1..(1 - 1) : toCallee[j] = FinishMsg(d)
    BY <1>a, <1>1, <2>2 DEF OrderInv
  <2>4. 1..(1 - 1) = {}
    OBVIOUS
  <2> QED BY ZenonT(60), <1>6, <2>1, <2>3, <2>4 DEF Slot
<1> QED BY ZenonT(60), <1>2, <1>3, <1>4, <1>5, <1>7

\* The Calls and Finishes behind a delivered message keep their order.
LEMMA OrderTail ==
  ASSUME TypeOK, Live, toCallee # <<>>, toCallee' = Tail(toCallee), UNCHANGED qid,
         \A i \in ID : answers'[i] = answers[i] \/ answers'[i] = nil
                         \/ (Head(toCallee).type = "call" /\ i = qid[Head(toCallee).call]
                             /\ answers'[i] = Head(toCallee).call),
         Head(toCallee).type # "call" =>
           \A j \in 1..Len(toCallee) : toCallee[j].type = "call" => answers'[qid[toCallee[j].call]] # Head(toCallee).call
  PROVE  OrderInv' /\ UniqueInv'
<1>a. SenderInv /\ SlotInv /\ DistinctInv /\ AnswersInv /\ OrderInv /\ UniqueInv
  BY ZenonT(60) DEF Live
<1>b. \A d \in Calls : QuestionInv(d) /\ TableInv(d) /\ AnswerInv(d)
  BY ZenonT(60) DEF Live
<1>1. toCallee \in Seq(Message) /\ Len(toCallee) \in Nat /\ Len(toCallee) > 0
  BY SMTT(60), EmptySeq, LenProperties DEF TypeOK, PipeType
<1>2. /\ Len(toCallee') = Len(toCallee) - 1 /\ Head(toCallee) = toCallee[1]
      /\ \A i \in 1..Len(toCallee') : toCallee'[i] = toCallee[i + 1] /\ i + 1 \in 1..Len(toCallee)
  BY SMTT(60), <1>1, HeadTailProperties
<1>3. \A i \in 1..Len(toCallee) : toCallee[i] \in Message
  BY ZenonT(60), <1>1, LenProperties
<1>4. UniqueInv'
  <2>1. ASSUME NEW i \in 1..Len(toCallee'), NEW j \in 1..Len(toCallee'), toCallee'[i].type = "call",
               toCallee'[j].type = "call", qid[toCallee'[i].call] = qid[toCallee'[j].call]
        PROVE  i = j
    <3>1. PICK k \in 1..Len(toCallee) : k = i + 1 /\ toCallee'[i] = toCallee[k]
      BY ZenonT(60), <1>2
    <3>2. PICK l \in 1..Len(toCallee) : l = j + 1 /\ toCallee'[j] = toCallee[l]
      BY ZenonT(60), <1>2
    <3>3. k = l
      BY ZenonT(60), <1>a, <2>1, <3>1, <3>2 DEF UniqueInv
    <3> QED BY <1>1, <1>2, <3>1, <3>2, <3>3
  <2> QED BY ZenonT(60), <2>1 DEF UniqueInv
<1>5. ASSUME NEW i \in 1..Len(toCallee'), NEW d \in Calls, toCallee'[i] = FinishMsg(d)
      PROVE  \A j \in 1..Len(toCallee') : toCallee'[j] = CallMsg(d) => j < i
  BY <1>a, <1>1, <1>2, <1>5 DEF OrderInv
<1>6. ASSUME NEW i \in 1..Len(toCallee'), NEW d \in Calls, toCallee'[i].type = "call", toCallee'[i].call # d,
             answers'[qid[toCallee'[i].call]] = d
      PROVE  \E j \in 1..(i - 1) : toCallee'[j] = FinishMsg(d)
  <2> DEFINE x == toCallee'[i].call
  <2>1. x \in Calls /\ qid[x] \in ID /\ nil \notin Calls
    BY <1>2, <1>3, MessageForm, Types
  <2>2. ~(Head(toCallee).type = "call" /\ qid[x] = qid[Head(toCallee).call])
    <3>1. PICK k \in 1..Len(toCallee) : k # 1 /\ toCallee'[i] = toCallee[k]
      BY SMTT(60), <1>1, <1>2
    <3>2. PICK h \in 1..Len(toCallee) : h = 1 /\ Head(toCallee) = toCallee[h]
      BY <1>1, <1>2
    <3> QED BY ZenonT(60), <1>a, <1>6, <3>1, <3>2 DEF UniqueInv
  <2>3. answers[qid[x]] = d
    BY ZenonT(60), <1>6, <2>1, <2>2
  <2>4. PICK j \in 1..((i + 1) - 1) : toCallee[j] = FinishMsg(d)
    BY <1>a, <1>2, <1>6, <2>3 DEF OrderInv
  <2>5. j # 1
    <3>1. CASE j = 1
      <4>1. Head(toCallee) = FinishMsg(d)
        BY ZenonT(60), <1>2, <2>4, <3>1
      <4>2. Head(toCallee).type # "call" /\ Head(toCallee).call = d
        BY SMTT(60), <4>1 DEF FinishMsg
      <4> QED BY <1>2, <1>6, <2>1, <4>2
    <3> QED BY ZenonT(60), <3>1
  <2>6. j - 1 \in 1..(i - 1) /\ j - 1 \in 1..Len(toCallee') /\ toCallee'[j - 1] = FinishMsg(d)
    <3>1. i \in Nat /\ j \in Nat
      BY SMTT(60), <1>1, <1>2
    <3>2. j - 1 \in 1..(i - 1) /\ j - 1 \in 1..Len(toCallee')
      BY <1>1, <1>2, <2>5, <3>1
    <3> QED BY SMTT(60), <1>2, <2>4, <3>1, <3>2
  <2> QED BY ZenonT(60), <2>6
<1>7. OrderInv'
  BY Zenon, <1>5, <1>6 DEF OrderInv
<1> QED BY ZenonT(60), <1>4, <1>7

\* A step that leaves a call's part of both vats alone leaves its answer in order.
LEMMA AnswerFrame ==
  ASSUME NEW d \in Calls, AnswerInv(d),
         Sent(d)' <=> Sent(d), SentFinish(d)' <=> SentFinish(d),
         OnWire(CallMsg(d))' <=> OnWire(CallMsg(d)), OnWire(FinishMsg(d))' <=> OnWire(FinishMsg(d)),
         Returning(d)' => Returning(d),
         server'[d] = server[d], answer'[d] = answer[d], returnTask'[d] = returnTask[d],
         release'[d] = release[d], capsReleased'[d] = capsReleased[d],
         answers'[qid'[d]] = d <=> answers[qid[d]] = d
  PROVE  AnswerInv(d)'
BY ZenonT(60) DEF AnswerInv

\* handleBootstrap and handleCall enter the new answer in the free slot.
LEMMA EnterLive ==
  ASSUME TypeOK, Live, receive("call"), UNCHANGED <<callerVars, sendTx, sender>>,
         NEW c \in Calls, c = Head(toCallee).call, NEW t \in Slot, NEW err \in BOOLEAN,
         Placeholder(c) \/ ReturnAtOnce(c, err) \/ Serve(c, t)
  PROVE  Live' /\ fault' = fault
<1>a. SenderInv /\ SlotInv /\ DistinctInv /\ AnswersInv /\ OrderInv /\ UniqueInv
  BY DEF Live
<1>b. \A d \in Calls : QuestionInv(d) /\ TableInv(d) /\ AnswerInv(d)
  BY ZenonT(60) DEF Live
<1>1. UNCHANGED <<questions, questionID, kind, qid, target, promise, result, finished, finishSent, finishMsgSend,
                  release, canceler, returnTask, sendTx, sender, capsReleased, fault>>
  BY ZenonT(60) DEF callerVars, table, ident, outcome, flags, tasks, Placeholder, ReturnAtOnce, Serve
<1>2. /\ Head(toCallee) = CallMsg(c) /\ answers[qid[c]] = nil
      /\ server[c] = "none" /\ returnTask[c] = "none" /\ Sent(c) /\ ~Returning(c) /\ ~answer[c].finishReceived
      /\ \A m : OnWire(m)' <=> OnWire(m) /\ m # CallMsg(c)
      /\ Distinct(toCallee)'
  BY ZenonT(60), HeadCall
<1>3. /\ nil \notin Calls /\ \A d \in Calls : qid[d] \in ID
      /\ \A i \in ID : answers[i] \in Slot
  BY ZenonT(60), Types
<1>4. \A i \in ID : answers'[i] = IF i = qid[c] THEN c ELSE answers[i]
  BY ZenonT(60) DEF TypeOK, AnswerType, Placeholder, ReturnAtOnce, Serve
<1>5. \A d \in Calls : d # c => answer'[d] = answer[d] /\ server'[d] = server[d]
  BY ZenonT(60) DEF TypeOK, AnswerType, Placeholder, ReturnAtOnce, Serve
<1>6. /\ server'[c] \in {"running", "returned"}
      /\ ~answer'[c].finishReceived /\ ~answer'[c].releaseResultCaps
      /\ answer'[c].returnSent <=> server'[c] = "returned"
  <2>1. c \in DOMAIN answer /\ c \in DOMAIN server
    BY DEF TypeOK, AnswerType
  <2>2. CASE Placeholder(c)
    BY Zenon, <2>1, <2>2 DEF Placeholder, NewAnswer
  <2>3. CASE ReturnAtOnce(c, err)
    BY ZenonT(60), <2>1, <2>3 DEF ReturnAtOnce, NewAnswer
  <2>4. CASE Serve(c, t)
    BY ZenonT(60), <2>1, <2>4 DEF Serve, NewAnswer
  <2> QED BY ZenonT(60), <2>2, <2>3, <2>4
<1>7. DistinctCalls(toCaller)' /\ \A d : Returning(d)' => Returning(d) \/ (d = c /\ server'[c] = "returned")
  <2>1. DistinctCalls(toCaller) /\ toCaller \in Seq(Return)
    BY ZenonT(60), <1>a DEF DistinctInv, TypeOK, PipeType
  <2>2. CASE toCaller' = toCaller
    BY ZenonT(60), <2>1, <2>2 DEF Returning, DistinctCalls
  <2>3. CASE ReturnAtOnce(c, err)
    <3> DEFINE r == [call |-> c, ok |-> ~err]
    <3>1. r \in Return /\ r.call = c /\ toCaller' = Append(toCaller, r) /\ server'[c] = "returned"
      BY ZenonT(60), <2>3 DEF ReturnAtOnce, Return, TypeOK, AnswerType
    <3> HIDE DEF r
    <3> QED BY ZenonT(60), <1>2, <2>1, <3>1, ReturnAppend DEF Returning
  <2> QED BY ZenonT(60), <2>2, <2>3 DEF Placeholder, Serve
<1>8. \A x : InTx(x)' <=> InTx(x)
  BY ZenonT(60), <1>1 DEF InTx
<1>9. \A d \in Calls : (Sent(d)' <=> Sent(d)) /\ (SentFinish(d)' <=> SentFinish(d))
  BY ZenonT(60), <1>1 DEF Sent, SentFinish, At
<1>10. \A d \in Calls : CallMsg(c) # FinishMsg(d) /\ (CallMsg(c) = CallMsg(d) => c = d)
  BY ZenonT(60), Messages
<1>11. SenderInv'
  BY ZenonT(60), <1>a, <1>1, <1>8 DEF SenderInv
<1>12. SlotInv' /\ DistinctInv'
  <2>1. SlotInv'
    BY ZenonT(60), <1>a, <1>1 DEF SlotInv
  <2>2. Distinct(sendTx)'
    BY ZenonT(60), <1>a, <1>1 DEF DistinctInv, Distinct
  <2> QED BY ZenonT(60), <1>2, <1>7, <2>1, <2>2 DEF DistinctInv
<1>13. AnswersInv'
  BY ZenonT(60), <1>a, <1>1, <1>3, <1>4 DEF AnswersInv
<1>14. OrderInv' /\ UniqueInv'
  <2>1. toCallee # <<>> /\ toCallee' = Tail(toCallee) /\ Head(toCallee).type = "call"
    BY ZenonT(60) DEF receive
  <2> QED BY ZenonT(60), <1>1, <1>4, <2>1, OrderTail
<1>15. ASSUME NEW d \in Calls PROVE QuestionInv(d)'
  <2>0. QuestionInv(d)
    BY ZenonT(60), <1>b
  <2> QED BY ZenonT(60), <2>0, <1>1, <1>8, <1>9 DEF QuestionInv, At
<1>16. ASSUME NEW d \in Calls PROVE TableInv(d)'
  <2>0. TableInv(d)
    BY <1>b
  <2> QED BY ZenonT(60), <2>0, <1>1, <1>8, <1>9 DEF TableInv, At
<1>17. ASSUME NEW d \in Calls PROVE AnswerInv(d)'
  <2>0. AnswerInv(d)
    BY <1>b
  <2>1. CASE d = c
    BY Zenon, <2>0, <1>1, <1>2, <1>3, <1>4, <1>6, <1>7, <1>9, <1>10, <2>1 DEF AnswerInv
  <2>2. CASE d # c
    <3>1. /\ OnWire(CallMsg(d))' <=> OnWire(CallMsg(d))
          /\ OnWire(FinishMsg(d))' <=> OnWire(FinishMsg(d))
      BY Zenon, <1>2, <1>10, <2>2
    <3>2. answers'[qid'[d]] = d <=> answers[qid[d]] = d
      BY ZenonT(60), <1>1, <1>2, <1>3, <1>4, <2>2
    <3>3. server'[d] = server[d] /\ answer'[d] = answer[d] /\ (Returning(d)' => Returning(d))
      BY Zenon, <1>5, <1>7, <2>2
    <3>4. returnTask'[d] = returnTask[d] /\ release'[d] = release[d] /\ capsReleased'[d] = capsReleased[d]
      BY ZenonT(60), <1>1
    <3> QED BY Zenon, <1>9, <2>0, <3>1, <3>2, <3>3, <3>4, AnswerFrame
  <2> QED BY ZenonT(60), <2>1, <2>2
<1> QED BY ZenonT(60), <1>1, <1>11, <1>12, <1>13, <1>14, <1>15, <1>16, <1>17 DEF Live

\* The Finish at the head of the wire finds the answer it finishes, for the first time.
LEMMA HeadFinish ==
  ASSUME TypeOK, Live, receive("finish")
  PROVE  \E c \in Calls :
            /\ Head(toCallee) = FinishMsg(c) /\ Head(toCallee).call = c
            /\ answers[qid[c]] = c /\ ~answer[c].finishReceived
            /\ server[c] # "none" /\ SentFinish(c) /\ finished[c] /\ Sent(c)
            /\ \A m : OnWire(m)' <=> OnWire(m) /\ m # FinishMsg(c)
            /\ Distinct(toCallee)'
<1>a. SenderInv /\ SlotInv /\ DistinctInv /\ AnswersInv /\ OrderInv /\ UniqueInv
  BY DEF Live
<1>b. \A d \in Calls : QuestionInv(d) /\ TableInv(d) /\ AnswerInv(d)
  BY DEF Live
<1> DEFINE c == Head(toCallee).call
<1>1. /\ toCallee \in Seq(Message) /\ toCallee # <<>> /\ toCallee' = Tail(toCallee) /\ Distinct(toCallee)
      /\ Head(toCallee).type = "finish"
  BY ZenonT(60), <1>a DEF TypeOK, PipeType, receive, DistinctInv
<1>2. Head(toCallee) \in Message /\ In(Head(toCallee), toCallee) /\ Distinct(toCallee)'
      /\ \A m : In(m, Tail(toCallee)) <=> In(m, toCallee) /\ m # Head(toCallee)
  BY ZenonT(60), <1>1, InTail
<1>3. c \in Calls /\ Head(toCallee) = FinishMsg(c)
  BY ZenonT(60), <1>1, <1>2, MessageForm
<1>4. OnWire(FinishMsg(c)) /\ \A m : OnWire(m)' <=> OnWire(m) /\ m # FinishMsg(c)
  BY ZenonT(60), <1>1, <1>2, <1>3 DEF OnWire
<1>5. SentFinish(c) /\ ~answer[c].finishReceived
  BY ZenonT(60), <1>b, <1>3, <1>4 DEF AnswerInv
<1>6. finished[c]
  BY ZenonT(60), <1>a, <1>b, <1>3, <1>5 DEF SentFinish, At, SenderInv, QuestionInv
<1>7. Sent(c)
  BY Zenon, <1>b, <1>3, <1>6 DEF QuestionInv
<1>8. ~OnWire(CallMsg(c))
  <2>1. PICK h \in 1..Len(toCallee) : h = 1 /\ toCallee[h] = FinishMsg(c)
    <3>1. Len(toCallee) \in Nat \ {0}
      BY ZenonT(60), <1>1, EmptySeq
    <3>2. 1 \in 1..Len(toCallee)
      BY <3>1
    <3>3. toCallee[1] = Head(toCallee)
      BY <1>1
    <3> QED BY ZenonT(60), <1>3, <3>2, <3>3
  <2>2. \A j \in 1..Len(toCallee) : toCallee[j] = CallMsg(c) => j < h
    BY ZenonT(60), <1>a, <1>3, <2>1 DEF OrderInv
  <2>3. ASSUME NEW j \in 1..Len(toCallee), toCallee[j] = CallMsg(c) PROVE FALSE
    <3>1. j < 1
      BY ZenonT(60), <2>1, <2>2, <2>3
    <3> QED BY <2>3, <3>1
  <2> QED BY Zenon, <2>3 DEF OnWire, In
<1>9. server[c] # "none" /\ answers[qid[c]] = c
  BY ZenonT(60), <1>b, <1>3, <1>5, <1>7, <1>8 DEF AnswerInv
<1> QED BY Zenon, <1>2, <1>3, <1>4, <1>5, <1>6, <1>7, <1>9

\* handleFinish finds the answer of the question it names and keeps the tables.
LEMMA FinishLive ==
  ASSUME TypeOK, Live, handleFinish
  PROVE  Live' /\ fault' \in {fault, "nilReleaser"}
<1>a. SenderInv /\ SlotInv /\ DistinctInv /\ AnswersInv /\ OrderInv /\ UniqueInv
  BY DEF Live
<1>b. \A d \in Calls : QuestionInv(d) /\ TableInv(d) /\ AnswerInv(d)
  BY DEF Live
<1>1. UNCHANGED <<questions, questionID, kind, qid, target, promise, result, finished, finishSent, finishMsgSend,
                  release, canceler, returnTask, sendTx, sender>> /\ receive("finish")
  BY Zenon DEF handleFinish, callerVars, table, ident, outcome, flags, tasks
<1>2. PICK c \in Calls :
      /\ Head(toCallee) = FinishMsg(c) /\ Head(toCallee).call = c
      /\ answers[qid[c]] = c /\ ~answer[c].finishReceived
      /\ server[c] # "none" /\ SentFinish(c) /\ finished[c] /\ Sent(c)
      /\ \A m : OnWire(m)' <=> OnWire(m) /\ m # FinishMsg(c)
      /\ Distinct(toCallee)'
  BY ZenonT(60), <1>1, HeadFinish
<1>3. /\ nil \notin Calls /\ \A d \in Calls : qid[d] \in ID
      /\ \A i \in ID : answers[i] \in Slot
  BY Types
<1> DEFINE a == [answer[c] EXCEPT !.finishReceived = TRUE, !.releaseResultCaps = release[c]]
<1>4. /\ answer' = [answer EXCEPT ![c] = a]
      /\ IF a.returnSent THEN destroy(c, a) ELSE UNCHANGED <<answers, capsReleased, fault>>
      /\ UNCHANGED <<via, server, toCaller>>
  BY Zenon, <1>2, <1>3 DEF handleFinish
<1>5. /\ a.finishReceived /\ (a.releaseResultCaps <=> release[c]) /\ (a.returnSent <=> answer[c].returnSent)
  BY DEF TypeOK, AnswerType, FlagType, Answer
<1> HIDE DEF a
<1>6. \A d \in Calls : answer'[d] = IF d = c THEN a ELSE answer[d]
  BY ZenonT(60), <1>4 DEF TypeOK, AnswerType
<1>7. \A i \in ID : answers'[i] = IF i = qid[c] /\ answer[c].returnSent THEN nil ELSE answers[i]
  BY SMTT(60), <1>4, <1>5 DEF destroy, TypeOK, AnswerType
<1>8. /\ fault' \in {fault, "nilReleaser"}
      /\ \A d \in Calls : capsReleased'[d] => capsReleased[d] \/ (d = c /\ release[c])
  BY ZenonT(60), <1>4, <1>5 DEF destroy, TypeOK, AnswerType
<1>9. \A x : (InTx(x)' <=> InTx(x)) /\ (Returning(x)' <=> Returning(x))
  BY ZenonT(60), <1>1, <1>4 DEF InTx, Returning
<1>10. \A d \in Calls : (Sent(d)' <=> Sent(d)) /\ (SentFinish(d)' <=> SentFinish(d))
  BY ZenonT(60), <1>1 DEF Sent, SentFinish, At
<1>11. \A d \in Calls : CallMsg(d) # FinishMsg(c) /\ (FinishMsg(c) = FinishMsg(d) => c = d)
  BY ZenonT(60), Messages
<1>12. SenderInv'
  BY ZenonT(60), <1>a, <1>1, <1>9 DEF SenderInv
<1>13. SlotInv' /\ DistinctInv'
  BY ZenonT(60), <1>a, <1>1, <1>2, <1>4 DEF SlotInv, DistinctInv, DistinctCalls
<1>14. AnswersInv'
  BY ZenonT(60), <1>a, <1>1, <1>3, <1>7 DEF AnswersInv
<1>15. OrderInv' /\ UniqueInv'
  <2>1. toCallee # <<>> /\ toCallee' = Tail(toCallee) /\ Head(toCallee).type # "call"
    BY Zenon, <1>1, <1>2 DEF receive, FinishMsg
  <2>2. ASSUME NEW j \in 1..Len(toCallee), toCallee[j].type = "call", answers'[qid[toCallee[j].call]] = c
        PROVE  FALSE
    <3>1. PICK x \in Calls : x = toCallee[j].call /\ OnWire(CallMsg(x))
      <4>1. toCallee[j] \in Message
        BY ZenonT(60), LenProperties DEF TypeOK, PipeType
      <4> QED BY ZenonT(60), <2>2, <4>1, MessageForm DEF OnWire, In
    <3>2. server[x] = "none" /\ Sent(x) /\ returnTask[x] = "none" /\ x # c
      <4>1. AnswerInv(x) /\ OnWire(CallMsg(x))
        BY ZenonT(60), <1>b, <3>1
      <4>2. server[x] = "none" /\ Sent(x) /\ returnTask[x] = "none"
        BY ZenonT(60), <4>1 DEF AnswerInv
      <4> QED BY ZenonT(60), <1>2, <4>2
    <3>3. qid[x] = qid[c] /\ ~answer[c].returnSent
      <4>1. qid[x] \in ID /\ c # nil /\ answers'[qid[x]] = c
        BY ZenonT(60), <1>3, <2>2, <3>1
      <4>2. answers'[qid[x]] = IF qid[x] = qid[c] /\ answer[c].returnSent THEN nil ELSE answers[qid[x]]
        BY ZenonT(60), <1>7, <4>1
      <4>3. ~(qid[x] = qid[c] /\ answer[c].returnSent) /\ answers[qid[x]] = c
        BY ZenonT(60), <4>1, <4>2
      <4>4. qid[c] = qid[x]
        BY ZenonT(60), <1>a, <4>1, <4>3 DEF AnswersInv
      <4> QED BY ZenonT(60), <4>3, <4>4
    <3>4. returnTask[c] = "none"
      BY ZenonT(60), <1>b, <1>2, <3>3 DEF AnswerInv
    <3>5. TableInv(c) /\ TableInv(x)
      BY ZenonT(60), <1>b
    <3>6. questionID[qid[c]] = c /\ questionID[qid[x]] = x
      BY ZenonT(60), <1>2, <3>2, <3>4, <3>5 DEF TableInv
    <3> QED BY ZenonT(60), <3>2, <3>3, <3>6
  <2> QED BY Zenon, <1>1, <1>2, <1>7, <2>1, <2>2, OrderTail
<1>16. ASSUME NEW d \in Calls PROVE QuestionInv(d)'
  <2>0. QuestionInv(d)
    BY <1>b
  <2> QED BY ZenonT(60), <2>0, <1>1, <1>9, <1>10 DEF QuestionInv, At
<1>17. ASSUME NEW d \in Calls PROVE TableInv(d)'
  <2>0. TableInv(d)
    BY <1>b
  <2> QED BY Zenon, <2>0, <1>1, <1>9, <1>10 DEF TableInv, At
<1>18. ASSUME NEW d \in Calls PROVE AnswerInv(d)'
  <2>0. AnswerInv(d)
    BY ZenonT(60), <1>b
  <2>a. AnswerInv(d) /\ qid'[d] = qid[d] /\ qid[d] \in ID
    BY ZenonT(60), <1>b, <1>1, <1>3
  <2>b. /\ server'[d] = server[d] /\ returnTask'[d] = returnTask[d] /\ release'[d] = release[d]
        /\ (OnWire(CallMsg(d))' <=> OnWire(CallMsg(d)))
    BY ZenonT(60), <1>1, <1>2, <1>4, <1>11
  <2>1. CASE d = c
    <3>1. ~OnWire(FinishMsg(d))' /\ SentFinish(d) /\ Sent(d) /\ server[d] # "none"
      BY ZenonT(60), <1>2, <2>1
    <3>2. /\ answer'[d].finishReceived /\ (answer'[d].releaseResultCaps => release[d])
          /\ answer'[d].returnSent <=> answer[d].returnSent
      BY ZenonT(60), <1>5, <1>6, <2>1
    <3>3. answers'[qid[d]] = d <=> ~answer[d].returnSent
      BY ZenonT(60), <1>2, <1>3, <1>7, <2>1
    <3>4. capsReleased'[d] => release[d]
      BY ZenonT(60), <1>8, <2>a, <2>1 DEF AnswerInv
    <3>5. (Returning(d)' <=> Returning(d)) /\ (Sent(d)' <=> Sent(d)) /\ (SentFinish(d)' <=> SentFinish(d))
      BY <1>9, <1>10
    <3> QED BY Zenon, <2>a, <2>b, <3>1, <3>2, <3>3, <3>4, <3>5 DEF AnswerInv
  <2>2. CASE d # c
    <3>1. answer'[d] = answer[d] /\ (OnWire(FinishMsg(d))' <=> OnWire(FinishMsg(d)))
      BY ZenonT(60), <1>2, <1>6, <1>11, <2>2
    <3>2. (answers'[qid[d]] = d <=> answers[qid[d]] = d) /\ (capsReleased'[d] => capsReleased[d])
      <4>1. answers'[qid[d]] = IF qid[d] = qid[c] /\ answer[c].returnSent THEN nil ELSE answers[qid[d]]
        BY ZenonT(60), <1>7, <2>a
      <4>2. d # nil /\ answers[qid[c]] = c
        BY ZenonT(60), <1>2, <1>3
      <4>3. answers'[qid[d]] = d <=> answers[qid[d]] = d
        BY ZenonT(60), <2>2, <4>1, <4>2
      <4> QED BY ZenonT(60), <1>8, <2>2, <4>3
    <3> QED BY ZenonT(60), <1>9, <1>10, <2>a, <2>b, <3>1, <3>2 DEF AnswerInv
  <2> QED BY <2>1, <2>2
<1> QED BY ZenonT(60), <1>8, <1>12, <1>13, <1>14, <1>15, <1>16, <1>17, <1>18 DEF Live

\* Clearing answer slots keeps the order of the messages on the wire.
LEMMA OrderShrink ==
  ASSUME TypeOK, Live, UNCHANGED <<toCallee, qid>>,
         \A i \in ID : answers'[i] = answers[i] \/ answers'[i] = nil
  PROVE  OrderInv' /\ UniqueInv'
<1>a. SenderInv /\ SlotInv /\ DistinctInv /\ AnswersInv /\ OrderInv /\ UniqueInv
  BY ZenonT(60) DEF Live
<1>b. \A d \in Calls : QuestionInv(d) /\ TableInv(d) /\ AnswerInv(d)
  BY ZenonT(60) DEF Live
<1>1. nil \notin Calls /\ \A d \in Calls : qid[d] \in ID
  BY ZenonT(60), Types
<1>2. \A i \in 1..Len(toCallee) : toCallee[i].call \in Calls
  <2>1. \A i \in 1..Len(toCallee) : toCallee[i] \in Message
    BY ZenonT(60), LenProperties DEF TypeOK, PipeType
  <2> QED BY ZenonT(60), <2>1 DEF Message
<1>3. \A i \in 1..Len(toCallee) : \A c \in Calls :
         answers'[qid[toCallee[i].call]] = c => answers[qid[toCallee[i].call]] = c
  BY <1>1, <1>2
<1>4. OrderInv'
  <2>1. ASSUME NEW i \in 1..Len(toCallee), NEW c \in Calls,
               toCallee[i].type = "call", toCallee[i].call # c, answers'[qid[toCallee[i].call]] = c
        PROVE  \E j \in 1..(i - 1) : toCallee[j] = FinishMsg(c)
    <3>1. answers[qid[toCallee[i].call]] = c
      BY <1>3, <2>1
    <3> QED BY <1>a, <2>1, <3>1 DEF OrderInv
  <2>2. \A i \in 1..Len(toCallee) : \A c \in Calls :
          toCallee[i] = FinishMsg(c) => \A j \in 1..Len(toCallee) : toCallee[j] = CallMsg(c) => j < i
    BY ZenonT(60), <1>a DEF OrderInv
  <2>3. toCallee' = toCallee /\ qid' = qid
    BY ZenonT(60)
  <2> QED BY ONLY ZenonT(60), <2>1, <2>2, <2>3 DEF OrderInv, CallMsg, FinishMsg
<1>5. UniqueInv'
  BY <1>a DEF UniqueInv
<1> QED BY ZenonT(60), <1>4, <1>5

\* PrepareReturn: the answer is still in the table.
LEMMA PrepareReturnLive ==
  ASSUME TypeOK, Live, NEW c \in Calls, NEW err \in BOOLEAN, PrepareReturn(c, err)
  PROVE  Live' /\ fault' = fault
<1>a. SenderInv /\ SlotInv /\ DistinctInv /\ AnswersInv /\ OrderInv /\ UniqueInv
  BY ZenonT(60) DEF Live
<1>b. \A d \in Calls : QuestionInv(d) /\ TableInv(d) /\ AnswerInv(d)
  BY ZenonT(60) DEF Live
<1>1. UNCHANGED <<questions, questionID, kind, qid, target, promise, result, finished, finishSent, finishMsgSend,
                  release, canceler, returnTask, sendTx, sender, toCallee, toCaller, answers, capsReleased>>
      /\ server[c] = "running"
  BY ZenonT(60) DEF PrepareReturn, callerVars, table, ident, outcome, flags, tasks, network, pipes
<1>2. answers[qid[c]] = c /\ c # nil
  BY ZenonT(60), <1>b, <1>1, Types DEF AnswerInv
<1>3. fault' = fault /\ answer' = [answer EXCEPT ![c].err = err]
  BY ZenonT(60), <1>2 DEF PrepareReturn
<1>4. \A d \in Calls : /\ answer'[d].returnSent <=> answer[d].returnSent
                       /\ answer'[d].finishReceived <=> answer[d].finishReceived
                       /\ answer'[d].releaseResultCaps <=> answer[d].releaseResultCaps
  BY <1>3 DEF TypeOK, AnswerType, Answer
<1>5. \A d \in Calls : server'[d] = IF d = c THEN "prepared" ELSE server[d]
  BY ZenonT(60) DEF PrepareReturn, TypeOK, AnswerType
<1>6. \A x : (InTx(x)' <=> InTx(x)) /\ (OnWire(x)' <=> OnWire(x)) /\ (Returning(x)' <=> Returning(x))
  BY ZenonT(60), <1>1 DEF InTx, OnWire, Returning
<1>7. \A d \in Calls : (Sent(d)' <=> Sent(d)) /\ (SentFinish(d)' <=> SentFinish(d))
  BY <1>1 DEF Sent, SentFinish, At
<1>8. SenderInv'
  BY Zenon, <1>a, <1>1, <1>6 DEF SenderInv
<1>9. SlotInv' /\ DistinctInv' /\ AnswersInv'
  BY ZenonT(60), <1>a, <1>1 DEF SlotInv, DistinctInv, Distinct, DistinctCalls, AnswersInv
<1>10. OrderInv' /\ UniqueInv'
  BY <1>1, OrderShrink
<1>11. ASSUME NEW d \in Calls PROVE QuestionInv(d)'
  <2>0. QuestionInv(d)
    BY <1>b
  <2> QED BY Zenon, <2>0, <1>1, <1>6, <1>7 DEF QuestionInv, At
<1>12. ASSUME NEW d \in Calls PROVE TableInv(d)'
  <2>0. TableInv(d)
    BY <1>b
  <2> QED BY Zenon, <2>0, <1>1, <1>6, <1>7 DEF TableInv, At
<1>13. ASSUME NEW d \in Calls PROVE AnswerInv(d)'
  <2>0. AnswerInv(d)
    BY <1>b
  <2>1. AnswerInv(d)
    BY <1>b
  <2> QED BY Zenon, <1>1, <1>4, <1>5, <1>6, <1>7, <2>1 DEF AnswerInv
<1> QED BY ZenonT(60), <1>3, <1>8, <1>9, <1>10, <1>11, <1>12, <1>13 DEF Live

\* Return: it finds the answer, sends the Return and, after a Finish, destroys the answer.
LEMMA ReturnCallLive ==
  ASSUME TypeOK, Live, NEW c \in Calls, ReturnCall(c)
  PROVE  Live' /\ fault' \in {fault, "nilReleaser"}
<1>a. SenderInv /\ SlotInv /\ DistinctInv /\ AnswersInv /\ OrderInv /\ UniqueInv
  BY DEF Live
<1>b. \A d \in Calls : QuestionInv(d) /\ TableInv(d) /\ AnswerInv(d)
  BY ZenonT(60) DEF Live
<1>1. UNCHANGED <<questions, questionID, kind, qid, target, promise, result, finished, finishSent, finishMsgSend,
                  release, canceler, returnTask, sendTx, sender, toCallee>>
      /\ server[c] = "prepared"
  BY DEF ReturnCall, callerVars, table, ident, outcome, flags, tasks
<1>2. /\ answers[qid[c]] = c /\ c # nil /\ ~answer[c].returnSent /\ ~Returning(c) /\ returnTask[c] = "none"
      /\ answer[c].releaseResultCaps => release[c]
  BY ZenonT(60), <1>b, <1>1, Types DEF AnswerInv
<1>3. completeSend(c, answer[c])
  BY ZenonT(60), <1>2 DEF ReturnCall
<1>4. /\ nil \notin Calls /\ \A d \in Calls : qid[d] \in ID
      /\ \A i \in ID : answers[i] \in Slot
  BY Types
<1> DEFINE a == [answer[c] EXCEPT !.resultsReady = TRUE, !.returnSent = TRUE]
<1>5. /\ answer' = [answer EXCEPT ![c] = a]
      /\ toCaller' = Append(toCaller, [call |-> c, ok |-> ~answer[c].err])
      /\ IF answer[c].finishReceived THEN destroy(c, a) ELSE UNCHANGED <<answers, capsReleased, fault>>
  BY <1>3 DEF completeSend
<1>6. /\ a.returnSent /\ (a.finishReceived <=> answer[c].finishReceived)
      /\ (a.releaseResultCaps <=> answer[c].releaseResultCaps)
  BY ZenonT(60) DEF TypeOK, AnswerType, Answer
<1> HIDE DEF a
<1>7. \A d \in Calls : answer'[d] = IF d = c THEN a ELSE answer[d]
  BY ZenonT(60), <1>5 DEF TypeOK, AnswerType
<1>8. \A d \in Calls : server'[d] = IF d = c THEN "returned" ELSE server[d]
  BY ZenonT(60) DEF ReturnCall, TypeOK, AnswerType
<1>9. \A i \in ID : answers'[i] = IF i = qid[c] /\ answer[c].finishReceived THEN nil ELSE answers[i]
  BY SMTT(60), <1>5 DEF destroy, TypeOK, AnswerType
<1>10. /\ fault' \in {fault, "nilReleaser"}
       /\ \A d \in Calls : capsReleased'[d] => capsReleased[d] \/ (d = c /\ release[c])
  BY ZenonT(60), <1>2, <1>5, <1>6 DEF destroy, TypeOK, AnswerType
<1>11. DistinctCalls(toCaller)' /\ \A d : Returning(d)' => Returning(d) \/ d = c
  <2> DEFINE r == [call |-> c, ok |-> ~answer[c].err]
  <2>1. r \in Return /\ r.call = c /\ toCaller' = Append(toCaller, r)
    BY ZenonT(60), <1>5 DEF Return
  <2>2. DistinctCalls(toCaller) /\ toCaller \in Seq(Return)
    BY ZenonT(60), <1>a DEF DistinctInv, TypeOK, PipeType
  <2> HIDE DEF r
  <2> QED BY ZenonT(60), <1>2, <2>1, <2>2, ReturnAppend DEF Returning
<1>12. \A x : (InTx(x)' <=> InTx(x)) /\ (OnWire(x)' <=> OnWire(x))
  BY ZenonT(60), <1>1 DEF InTx, OnWire
<1>13. \A d \in Calls : (Sent(d)' <=> Sent(d)) /\ (SentFinish(d)' <=> SentFinish(d))
  BY <1>1 DEF Sent, SentFinish, At
<1>14. SenderInv'
  BY Zenon, <1>a, <1>1, <1>12 DEF SenderInv
<1>15. SlotInv' /\ DistinctInv'
  BY ZenonT(60), <1>a, <1>1, <1>11 DEF SlotInv, DistinctInv, Distinct
<1>16. AnswersInv'
  BY Zenon, <1>a, <1>1, <1>4, <1>9 DEF AnswersInv
<1>17. OrderInv' /\ UniqueInv'
  BY Zenon, <1>1, <1>9, OrderShrink
<1>18. ASSUME NEW d \in Calls PROVE QuestionInv(d)'
  <2>0. QuestionInv(d)
    BY <1>b
  <2> QED BY Zenon, <2>0, <1>1, <1>12, <1>13 DEF QuestionInv, At
<1>19. ASSUME NEW d \in Calls PROVE TableInv(d)'
  <2>0. TableInv(d)
    BY <1>b
  <2> QED BY Zenon, <2>0, <1>1, <1>12, <1>13 DEF TableInv, At
<1>20. ASSUME NEW d \in Calls PROVE AnswerInv(d)'
  <2>0. AnswerInv(d)
    BY ZenonT(60), <1>b
  <2>a. AnswerInv(d) /\ qid'[d] = qid[d] /\ qid[d] \in ID
    BY ZenonT(60), <1>b, <1>1, <1>4
  <2>1. CASE d = c
    <3>1. /\ answer'[d].returnSent /\ (answer'[d].finishReceived <=> answer[d].finishReceived)
          /\ (answer'[d].releaseResultCaps <=> answer[d].releaseResultCaps)
      BY ZenonT(60), <1>6, <1>7, <2>1
    <3>2. server'[d] = "returned" /\ server[d] = "prepared" /\ returnTask'[d] = "none" /\ returnTask[d] = "none"
      BY ZenonT(60), <1>1, <1>2, <1>8, <2>1
    <3>3. answers'[qid[d]] = d <=> ~answer[d].finishReceived
      BY ZenonT(60), <1>2, <1>4, <1>9, <2>1
    <3>4. capsReleased'[d] => release[d]
      BY Zenon, <1>10, <2>a, <2>1 DEF AnswerInv
    <3>5. /\ (Sent(d)' <=> Sent(d)) /\ (SentFinish(d)' <=> SentFinish(d)) /\ release'[d] = release[d]
          /\ (OnWire(CallMsg(d))' <=> OnWire(CallMsg(d))) /\ (OnWire(FinishMsg(d))' <=> OnWire(FinishMsg(d)))
      BY Zenon, <1>1, <1>12, <1>13
    <3> QED BY ZenonT(60), <2>a, <3>1, <3>2, <3>3, <3>4, <3>5 DEF AnswerInv
  <2>2. CASE d # c
    <3>1. answer'[d] = answer[d] /\ server'[d] = server[d] /\ (Returning(d)' => Returning(d))
      BY ZenonT(60), <1>7, <1>8, <1>11, <2>2
    <3>2. (answers'[qid[d]] = d <=> answers[qid[d]] = d) /\ (capsReleased'[d] => capsReleased[d])
      BY ZenonT(60), <1>2, <1>4, <1>9, <1>10, <2>a, <2>2
    <3> QED BY ZenonT(60), <1>1, <1>12, <1>13, <2>a, <3>1, <3>2 DEF AnswerInv
  <2> QED BY ZenonT(60), <2>1, <2>2
<1> QED BY ZenonT(60), <1>10, <1>14, <1>15, <1>16, <1>17, <1>18, <1>19, <1>20 DEF Live

\* A step that changes none of what Live speaks of, except that Returns may be
\* lost and that a question may be born without a promise.
LEMMA FrameLive ==
  ASSUME TypeOK, Live,
         UNCHANGED <<table, outcome, flags, canceler, returnTask, qid, sendTx, sender, toCallee, answers, answer,
                     server, capsReleased>>,
         \A d \in Calls : kind'[d] = "unborn" => kind[d] = "unborn",
         DistinctCalls(toCaller)', \A d : Returning(d)' => Returning(d)
  PROVE  Live'
<1>a. SenderInv /\ SlotInv /\ DistinctInv /\ AnswersInv /\ OrderInv /\ UniqueInv
  BY ZenonT(60) DEF Live
<1>b. \A d \in Calls : QuestionInv(d) /\ TableInv(d) /\ AnswerInv(d)
  BY ZenonT(60) DEF Live
<1>1. UNCHANGED <<questions, questionID, qid, promise, result, finished, finishSent, finishMsgSend,
                  release, canceler, returnTask, sendTx, sender, toCallee, answers, answer, server, capsReleased>>
  BY ZenonT(60) DEF table, outcome, flags
<1>6. \A x : (InTx(x)' <=> InTx(x)) /\ (OnWire(x)' <=> OnWire(x))
  BY ZenonT(60), <1>1 DEF InTx, OnWire
<1>7. \A d \in Calls : (Sent(d)' <=> Sent(d)) /\ (SentFinish(d)' <=> SentFinish(d))
  BY ZenonT(60), <1>1 DEF Sent, SentFinish, At
<1>8. SenderInv'
  BY ZenonT(60), <1>a, <1>1, <1>6 DEF SenderInv
<1>9. SlotInv' /\ DistinctInv' /\ AnswersInv'
  <2>1. SlotInv' /\ AnswersInv'
    BY ZenonT(60), <1>a, <1>1 DEF SlotInv, AnswersInv
  <2>2. Distinct(sendTx)' /\ Distinct(toCallee)'
    BY ZenonT(60), <1>a, <1>1 DEF DistinctInv, Distinct
  <2> QED BY ZenonT(60), <2>1, <2>2 DEF DistinctInv
<1>10. OrderInv' /\ UniqueInv'
  BY ZenonT(60), <1>1, OrderShrink
<1>11. ASSUME NEW d \in Calls PROVE QuestionInv(d)'
  <2>0. QuestionInv(d)
    BY ZenonT(60), <1>b
  <2>1. QuestionInv(d) /\ (kind'[d] = "unborn" => kind[d] = "unborn")
    BY ZenonT(60), <1>b
  <2> QED BY Zenon, <1>1, <1>6, <1>7, <2>1 DEF QuestionInv, At
<1>12. ASSUME NEW d \in Calls PROVE TableInv(d)'
  <2>0. TableInv(d)
    BY ZenonT(60), <1>b
  <2> QED BY ZenonT(60), <2>0, <1>1, <1>6, <1>7 DEF TableInv, At
<1>13. ASSUME NEW d \in Calls PROVE AnswerInv(d)'
  <2>0. AnswerInv(d)
    BY ZenonT(60), <1>b
  <2>1. Returning(d)' => Returning(d)
    BY ZenonT(60)
  <2>2. server'[d] = server[d] /\ answer'[d] = answer[d] /\ returnTask'[d] = returnTask[d]
        /\ release'[d] = release[d] /\ capsReleased'[d] = capsReleased[d] /\ answers'[qid'[d]] = answers[qid[d]]
    BY ZenonT(60), <1>1
  <2> QED BY ZenonT(60), <1>6, <1>7, <2>0, <2>1, <2>2, AnswerFrame
<1> QED BY Zenon, <1>8, <1>9, <1>10, <1>11, <1>12, <1>13 DEF Live

\* Posing a question: Bootstrap, Send and PipelineSend.
LEMMA PoseLive ==
  ASSUME TypeOK, Live, NEW c \in Calls,
         (\E k \in Kinds[c] \ {"pipeline"} : Pose(c, k)) \/ PipelineSend(c)
  PROVE  Live' /\ fault' = fault
<1>1. \A d \in Calls : kind[d] = "unborn" => promise[d] = "none"
  BY ZenonT(60) DEF Live, QuestionInv
<1>2. promise[c] = "none" /\ newQuestion(c) /\ fault' = fault
  BY ZenonT(60), <1>1 DEF Pose, PipelineSend
<1>3. UNCHANGED <<calleeVars, flags, tasks, result, sender, toCallee, toCaller>>
  BY ZenonT(60) DEF Pose, PipelineSend
<1>4. \A d \in Calls : kind'[d] = "unborn" => kind[d] = "unborn" /\ d # c
  <2>1. "unborn" \notin Kinds[c] /\ kind \in [Calls -> {"unborn", "bootstrap", "call", "pipeline"}]
    BY QuestionAssumption DEF TypeOK, TableType
  <2> QED BY ZenonT(60), <2>1 DEF Pose, PipelineSend
<1> QED BY ZenonT(60), <1>2, <1>3, <1>4, NewQuestionLive

\* Steps that only read the caller's and the callee's tables: Answer.PipelineSend
\* before Conn.lk, the application's cancel, and a Return lost on the way.
LEMMA IdleLive ==
  ASSUME TypeOK, Live,
         \/ \E c, t \in Calls : PipelineCaller(c, t)
         \/ \E c \in Calls : CancelContext(c)
         \/ LoseReturn
  PROVE  Live' /\ fault' = fault
<1>1. /\ fault' = fault
      /\ UNCHANGED <<table, outcome, flags, canceler, returnTask, qid, sendTx, sender, toCallee, answers, answer,
                     server, capsReleased>>
  BY ZenonT(60) DEF PipelineCaller, CancelContext, LoseReturn, callerVars, calleeVars, tasks, ident, network, pipes
<1>2. \A d \in Calls : kind'[d] = "unborn" => kind[d] = "unborn"
  BY DEF PipelineCaller, CancelContext, LoseReturn, callerVars, ident, TypeOK, TableType
<1>3. DistinctCalls(toCaller)' /\ \A d : Returning(d)' => Returning(d)
  <2>1. DistinctCalls(toCaller) /\ toCaller \in Seq(Return)
    BY ZenonT(60) DEF Live, DistinctInv, TypeOK, PipeType
  <2>2. CASE UNCHANGED toCaller
    BY ZenonT(60), <2>1, <2>2 DEF Returning, DistinctCalls
  <2>3. CASE LoseReturn
    <3>1. PICK i \in 1..Len(toCaller) :
             toCaller' = [j \in 1..(Len(toCaller) - 1) |-> toCaller[IF j < i THEN j ELSE j + 1]]
      BY ZenonT(60), <2>3 DEF LoseReturn
    <3>2. PICK t : t = toCaller' /\ t = [j \in 1..(Len(toCaller) - 1) |-> toCaller[IF j < i THEN j ELSE j + 1]]
      BY ZenonT(60), <3>1
    <3>3. DistinctCalls(t) /\ \A d : InCall(d, t) => InCall(d, toCaller)
      BY ONLY ZenonT(60), <2>1, <3>2, ReturnDrop
    <3> QED BY ZenonT(60), <3>2, <3>3 DEF Returning
  <2> QED BY Zenon, <2>2, <2>3 DEF PipelineCaller, CancelContext, network, pipes
<1> QED BY ZenonT(60), <1>1, <1>2, <1>3, FrameLive

\* handleBootstrap and handleCall: no answer ID is reused; a pipelined call whose
\* target is gone, and a Bootstrap without a Return, end the connection and leave
\* the tables alone.
LEMMA CallLive ==
  ASSUME TypeOK, Live, handleBootstrap \/ handleCall
  PROVE  \/ Live' /\ fault' = fault
         \/ /\ fault' \in {"staleTarget", "selfTarget", "noReturn"}
            /\ UNCHANGED <<result, server, answers, qid, capsReleased>>
<1>1. receive("call") /\ UNCHANGED <<callerVars, sendTx, sender>>
  BY ZenonT(60) DEF handleBootstrap, handleCall
<1>2. PICK c \in Calls : c = Head(toCallee).call /\ answers[qid[c]] = nil
  BY ZenonT(60), <1>1, HeadCall
<1>3. CASE Abort("staleTarget") \/ Abort("selfTarget") \/ Abort("noReturn")
  BY ZenonT(60), <1>1, <1>3 DEF Abort, calleeVars, callerVars, outcome, ident
<1>4. CASE \E t \in Slot, err \in BOOLEAN : Placeholder(c) \/ ReturnAtOnce(c, err) \/ Serve(c, t)
  BY ZenonT(60), <1>1, <1>2, <1>4, EnterLive
<1>5. CASE handleBootstrap
  <2>1. Abort("noReturn") \/ \E err \in BOOLEAN : ReturnAtOnce(c, err)
    BY ZenonT(60), <1>2, <1>5 DEF handleBootstrap
  <2>2. nil \in Slot
    BY DEF Slot
  <2> QED BY ZenonT(60), <1>3, <1>4, <2>1, <2>2
<1>6. CASE handleCall
  <2>1. kind[c] = "pipeline" => Target(c) \in Slot
    <3>1. c \in Slot /\ nil \in Slot
      BY ZenonT(60) DEF Slot
    <3>2. kind[c] = "pipeline" => target[c] \in Calls
      BY DEF TypeOK, TableType, Slot
    <3> QED BY ZenonT(60), <3>1, <3>2, Types DEF Target
  <2>2. \/ Placeholder(c) \/ ReturnAtOnce(c, TRUE) \/ Serve(c, nil)
        \/ kind[c] = "pipeline" /\ Serve(c, Target(c))
        \/ Abort("staleTarget") \/ Abort("selfTarget")
    BY ZenonT(60), <1>2, <1>6 DEF handleCall
  <2>3. nil \in Slot
    BY DEF Slot
  <2> QED BY ZenonT(60), <1>3, <1>4, <2>1, <2>2, <2>3
<1> QED BY <1>5, <1>6

\* Every step keeps the tables of the two vats consistent, or ends the connection
\* because a pipelined call found its target gone or found itself, or because a
\* Bootstrap got no Return.
LEMMA StepLive ==
  ASSUME TypeOK, Live, Next
  PROVE  \/ Live' /\ fault' \in {"none", "nilReleaser"}
         \/ /\ fault' \in {"staleTarget", "selfTarget", "noReturn"}
            /\ UNCHANGED <<result, server, answers, qid, capsReleased>>
<1>1. fault = "none"
  BY ZenonT(60) DEF Next, Running
<1>2. ASSUME NEW c \in Calls, handleCancel(c) PROVE Live' /\ fault' = fault
  <2>1. fault' = fault
    BY ZenonT(60), <1>2 DEF handleCancel
  <2>2. CASE ~finished[c]
    BY ZenonT(60), <1>2, <2>1, <2>2, CancelLive
  <2>3. CASE finished[c]
    <3>1. canceler[c] = "select" /\ canceler' = [canceler EXCEPT ![c] = "done"]
      BY ZenonT(60), <1>2 DEF handleCancel
    <3>2. finished' = finished /\ release' = release
      BY ZenonT(60), <1>2, <2>3 DEF handleCancel, TypeOK, FlagType
    <3>3. UNCHANGED <<calleeVars, table, ident, outcome, flags, network, ctxDone, returnTask>>
      BY ZenonT(60), <1>2, <2>3, <3>2 DEF handleCancel, flags, network, pipes
    <3> QED BY ZenonT(60), <2>1, <3>1, <3>3, CancelerDoneLive
  <2> QED BY ZenonT(60), <2>2, <2>3
<1>3. ASSUME NEW c \in Calls, handleCancelDone(c) PROVE Live' /\ fault' = fault
  BY Zenon, <1>3, CancelerDoneLive DEF handleCancelDone
<1>4. ASSUME NEW c \in Calls, WaitFinish(c) \/ ResolveReturn(c) \/ SendFinish(c) PROVE Live' /\ fault' = fault
  <2>1. CASE WaitFinish(c)
    <3>1. fault' = fault
      BY ZenonT(60), <2>1 DEF WaitFinish
    <3> QED BY ZenonT(60), <2>1, <3>1, WaitFinishLive
  <2>2. CASE SendFinish(c)
    <3>1. fault' = fault
      BY ZenonT(60), <2>2 DEF SendFinish
    <3> QED BY <2>2, <3>1, SendFinishLive
  <2> QED BY ZenonT(60), <1>4, <2>1, <2>2, ResolveReturnLive
<1>5. ASSUME NEW ok \in BOOLEAN, Send(ok) PROVE Live' /\ fault' = fault
  <2>1. fault' = fault
    BY ZenonT(60), <1>5 DEF Send
  <2> QED BY ZenonT(60), <1>5, <2>1, SendLive
<1>6. CASE CallSent \/ CallFailed \/ RejectFailed \/ RemoveFailed
  <2>1. CallSent \/ CallFailed \/ RemoveFailed => fault' = fault
    BY ZenonT(60) DEF CallSent, CallFailed, RemoveFailed
  <2> QED BY ZenonT(60), <1>1, <1>6, <2>1, CallSentLive, CallFailedLive, RejectFailedLive, RemoveFailedLive
<1>7. CASE CancelSent \/ CancelClose \/ CancelReject \/ FinishSent
  <2>1. CancelSent \/ CancelClose \/ FinishSent => fault' = fault
    BY DEF CancelSent, CancelClose, FinishSent
  <2> QED BY <1>1, <1>7, <2>1, CancelSentLive, CancelCloseLive, CancelRejectLive, FinishSentLive
<1>8. CASE handleReturn
  BY ZenonT(60), <1>1, <1>8, ReturnLive
<1>9. CASE handleBootstrap \/ handleCall
  BY ZenonT(60), <1>1, <1>9, CallLive
<1>10. CASE handleFinish
  BY ZenonT(60), <1>1, <1>10, FinishLive
<1>11. ASSUME NEW c \in Calls, NEW err \in BOOLEAN, PrepareReturn(c, err) \/ ReturnCall(c)
       PROVE  Live' /\ fault' \in {"none", "nilReleaser"}
  BY ZenonT(60), <1>1, <1>11, PrepareReturnLive, ReturnCallLive
<1>12. ASSUME NEW c \in Calls, NEW k \in Kinds[c] \ {"pipeline"}, Pose(c, k) PROVE Live' /\ fault' = fault
  BY ZenonT(60), <1>12, PoseLive
<1>13. ASSUME NEW c \in Calls, PipelineSend(c) PROVE Live' /\ fault' = fault
  BY ZenonT(60), <1>13, PoseLive
<1>14. CASE (\E c, t \in Calls : PipelineCaller(c, t)) \/ (\E c \in Calls : CancelContext(c)) \/ LoseReturn
  BY ZenonT(60), <1>1, <1>14, IdleLive
<1> QED BY ZenonT(60), <1>1, <1>2, <1>3, <1>4, <1>5, <1>6, <1>7, <1>8, <1>9, <1>10, <1>11, <1>12, <1>13, <1>14 DEF Next

\* What the consistent tables say about the results of calls.
LEMMA LiveSafety == TypeOK /\ Live /\ fault \in {"none", "nilReleaser"} => Safety
<1> SUFFICES ASSUME TypeOK, Live, fault \in {"none", "nilReleaser"} PROVE Safety
  OBVIOUS
<1>1. \A d \in Calls : QuestionInv(d) /\ AnswerInv(d)
  BY DEF Live
<1>2. ResultIsOwn
  BY Zenon, <1>1 DEF ResultIsOwn, QuestionInv
<1>3. ReturnerFindsAnswer
  BY Zenon, <1>1 DEF ReturnerFindsAnswer, AnswerInv
<1>4. ResultCapsReleasedOnce
  BY Zenon, <1>1 DEF ResultCapsReleasedOnce, AnswerInv, QuestionInv
<1> QED BY <1>2, <1>3, <1>4 DEF Safety, NoProtocolError, ResolvedOnce

\* The empty tables of a new connection.
LEMMA LiveInit == Init => IInv
<1> SUFFICES ASSUME Init PROVE IInv
  OBVIOUS
<1>1. TypeOK
  BY ZenonT(60), TypeInit
<1>2. /\ sendTx = <<>> /\ toCallee = <<>> /\ toCaller = <<>> /\ sender.call = nil /\ sender.at = "recv" /\ sender.ok
      /\ nil \notin Calls
  BY Types, <1>1 DEF Init, Idle
<1>3. \A d \in Calls : /\ kind[d] = "unborn" /\ promise[d] = "none" /\ result[d] = nil
                       /\ ~finished[d] /\ ~finishSent[d] /\ ~finishMsgSend[d] /\ ~release[d]
                       /\ canceler[d] = "none" /\ returnTask[d] = "none" /\ qid[d] \in ID
                       /\ server[d] = "none" /\ ~capsReleased[d]
  BY ZenonT(60), Types, <1>1 DEF Init
<1>4. \A d \in Calls : ~answer[d].returnSent /\ ~answer[d].finishReceived /\ ~answer[d].releaseResultCaps
  BY ZenonT(60) DEF Init, NewAnswer
<1>5. \A i \in ID : questions[i] = nil /\ answers[i] = nil
  BY ZenonT(60) DEF Init
<1>6. \A m : ~InTx(m) /\ ~OnWire(m) /\ ~Returning(m)
  BY <1>2 DEF InTx, OnWire, Returning, In, InCall
<1>7. \A d \in Calls : ~Sent(d) /\ ~SentFinish(d) /\ \A w : ~At(d, w)
  BY ZenonT(60), <1>2, <1>3 DEF Sent, SentFinish, At
<1>8. SenderInv
  BY ZenonT(60), <1>2 DEF SenderInv
<1>9. SlotInv /\ AnswersInv
  BY ZenonT(60), <1>5 DEF SlotInv, AnswersInv
<1>10. DistinctInv /\ OrderInv /\ UniqueInv
  BY <1>2 DEF DistinctInv, Distinct, DistinctCalls, OrderInv, UniqueInv
<1>11. \A d \in Calls : QuestionInv(d)
  BY ZenonT(60), <1>2, <1>3, <1>6, <1>7 DEF QuestionInv
<1>12. \A d \in Calls : TableInv(d)
  BY Zenon, <1>2, <1>3, <1>6, <1>7 DEF TableInv
<1>13. \A d \in Calls : AnswerInv(d)
  <2> TAKE d \in Calls
  <2>1. answers[qid[d]] # d
    BY ZenonT(60), <1>2, <1>3, <1>5
  <2> QED BY Zenon, <1>3, <1>4, <1>6, <1>7, <2>1 DEF AnswerInv
<1>14. Live
  BY SMTT(60), <1>8, <1>9, <1>10, <1>11, <1>12, <1>13 DEF Live
<1>15. fault = "none"
  BY DEF Init
<1> QED BY ZenonT(60), <1>1, <1>14, <1>15, LiveSafety DEF IInv

\* No step invalidates the inductive invariant.
LEMMA StepIInv == IInv /\ [Next]_vars => IInv'
<1> SUFFICES ASSUME IInv, [Next]_vars PROVE IInv'
  OBVIOUS
<1>1. TypeOK /\ Safety /\ (fault = "none" => Live)
  BY ZenonT(60) DEF IInv
<1>2. CASE Next
  <2>1. fault = "none" /\ Live
    BY ZenonT(60), <1>1, <1>2 DEF Next, Running
  <2>2. TypeOK'
    BY ZenonT(60), <1>1, <1>2, TypeNext
  <2>3. CASE Live' /\ (fault \in {"none", "nilReleaser"})'
    <3>1. Safety'
      BY <2>2, <2>3, LiveSafety, PTL
    <3> QED BY <2>2, <2>3, <3>1 DEF IInv
  <2>4. CASE fault' \in {"staleTarget", "selfTarget", "noReturn"} /\ UNCHANGED <<result, server, answers, qid, capsReleased>>
    BY Zenon, <1>1, <2>2, <2>4 DEF IInv, Safety, NoProtocolError, ResolvedOnce, ResultIsOwn, ReturnerFindsAnswer,
                            ResultCapsReleasedOnce
  <2> QED BY ZenonT(60), <1>1, <1>2, <2>1, <2>3, <2>4, StepLive
<1>3. CASE UNCHANGED vars
  <2>1. UNCHANGED <<table, ident, outcome, flags, tasks, pipes, sender, calleeVars, fault>>
    BY ZenonT(60), <1>3 DEF vars, callerVars, network
  <2>2. TypeOK'
    <3>1. TableType' /\ OutcomeType' /\ FlagType' /\ TaskType'
      BY ZenonT(60), <1>1, <2>1 DEF table, ident, outcome, flags, tasks, TypeOK, TableType, OutcomeType, FlagType, TaskType
    <3>2. SenderType' /\ PipeType' /\ AnswerType' /\ fault' \in Fault
      BY ZenonT(60), <1>1, <2>1 DEF pipes, calleeVars, TypeOK, SenderType, PipeType, AnswerType
    <3> QED BY ZenonT(60), <3>1, <3>2 DEF TypeOK
  <2>3. Safety'
    BY ZenonT(60), <1>1, <2>1 DEF ident, outcome, calleeVars, Safety, NoProtocolError, ResolvedOnce, ResultIsOwn,
                      ReturnerFindsAnswer, ResultCapsReleasedOnce
  <2>4. ASSUME fault = "none" PROVE Live'
    <3>1. UNCHANGED <<table, outcome, flags, canceler, returnTask, qid, sendTx, sender, toCallee, answers, answer,
                      server, capsReleased>> /\ toCaller' = toCaller /\ kind' = kind
      BY ZenonT(60), <2>1 DEF tasks, ident, pipes, calleeVars
    <3>2. DistinctCalls(toCaller)' /\ \A d : Returning(d)' => Returning(d)
      BY <1>1, <2>4, <3>1 DEF Live, DistinctInv, DistinctCalls, Returning
    <3> QED BY ZenonT(60), <1>1, <2>4, <3>1, <3>2, FrameLive
  <2> QED BY ZenonT(60), <2>1, <2>2, <2>3, <2>4 DEF IInv
<1> QED BY <1>2, <1>3

\* The inductive invariant holds in every reachable state.
THEOREM Invariance == Spec => []IInv
BY LiveInit, StepIInv, PTL DEF Spec

\* Conn's and the peer's tables, queues and goroutines always hold values of
\* their types: Append, Tail and table updates never mix calls, IDs and nil.
THEOREM TypeCorrect == Spec => []TypeOK
<1>1. IInv => TypeOK
  BY ZenonT(60) DEF IInv
<1> QED BY <1>1, Invariance, PTL

\* Whatever the interleaving of the send goroutine, handleCancel, the goroutines
\* of handleReturn and the peer, handleCall never sees an ID in use, handleReturn
\* never an unknown question and handleFinish never an unknown or finished answer.
THEOREM ProtocolRespected == Spec => []NoProtocolError
<1>1. IInv => NoProtocolError
  BY ZenonT(60) DEF IInv, Safety
<1> QED BY <1>1, Invariance, PTL

\* The cancel path, the failed send and handleReturn never settle a promise twice.
THEOREM SettledOnce == Spec => []ResolvedOnce
<1>1. IInv => ResolvedOnce
  BY ZenonT(60) DEF IInv, Safety
<1> QED BY <1>1, Invariance, PTL

\* IDs are reused, and still a question is only ever resolved by its own answer.
THEOREM OwnResult == Spec => []ResultIsOwn
<1>1. IInv => ResultIsOwn
  BY ZenonT(60) DEF IInv, Safety
<1> QED BY <1>1, Invariance, PTL

\* ansReturner looks its answer up by ID in PrepareReturn and again in Return;
\* until it has returned, the entry it finds is its own.
THEOREM ReturnerSafe == Spec => []ReturnerFindsAnswer
<1>1. IInv => ReturnerFindsAnswer
  BY ZenonT(60) DEF IInv, Safety
<1> QED BY <1>1, Invariance, PTL

\* The references to the capabilities in the results of a call are given back by
\* one side only: never by destroy when handleReturn has taken the results.
THEOREM CapsReleasedOnce == Spec => []ResultCapsReleasedOnce
<1>1. IInv => ResultCapsReleasedOnce
  BY DEF IInv, Safety
<1> QED BY <1>1, Invariance, PTL
-----------------------------------------------------------------------------
(***************************************************************************)
(* RpcQuestion implements CallContract, for any calls, IDs and failures.   *)
(* Beside the inductive invariant it takes one fact about data: a Return   *)
(* with results, on the wire or taken by handleReturn, is the Return of an *)
(* answer without an exception.                                            *)
(***************************************************************************)

\* What a Return says agrees with the answer it is the Return of.
ReturnInv ==
  /\ \A i \in 1..Len(toCaller) : toCaller[i].ok => ~answer[toCaller[i].call].err
  /\ \A c \in Calls : returnTask[c] = "resolve" => ~answer[c].err

-------------------------------------------------------------------------------
(* What a step does to a promise and to the service of a call.             *)

\* The caller settles nothing and the callee's answers stay as they are.
Quiet == UNCHANGED <<promise, answer, server>>

\* The promise of c goes from one state to another.
Moves(c, from, to) ==
  promise[c] = from /\ promise' = [promise EXCEPT ![c] = to] /\ UNCHANGED <<answer, server>>

\* The answer of c becomes a, and its service where.
Serves(c, where, a) ==
  UNCHANGED promise /\ server' = [server EXCEPT ![c] = where] /\ answer' = [answer EXCEPT ![c] = a]

\* The steps of the caller and of the wire that brings it Returns.
CallerNext ==
  \/ \E c \in Calls : \/ \E k \in Kinds[c] \ {"pipeline"} : Pose(c, k)
                      \/ \E t \in Calls : PipelineCaller(c, t)
                      \/ PipelineSend(c)
                      \/ CancelContext(c)
                      \/ handleCancel(c) \/ handleCancelDone(c)
                      \/ WaitFinish(c) \/ ResolveReturn(c) \/ SendFinish(c)
  \/ \E ok \in BOOLEAN : Send(ok)
  \/ CallSent \/ CallFailed \/ RejectFailed \/ RemoveFailed
  \/ CancelSent \/ CancelClose \/ CancelReject \/ FinishSent
  \/ handleReturn \/ LoseReturn

\* A promise is posed, rejected, or resolved by the goroutine of a Return with results
\* (newQuestion, onSent, handleCancel, handleReturn).
LEMMA CallerSteps ==
  ASSUME TypeOK, Live, fault = "none", CallerNext
  PROVE  \/ Quiet
         \/ \E c \in Calls : \/ Moves(c, "none", "pending")
                             \/ Moves(c, "pending", "rejected")
                             \/ Moves(c, "pending", "resolved") /\ returnTask[c] = "resolve"
<1>a. SenderInv /\ \A d \in Calls : QuestionInv(d)
  BY DEF Live
<1>1. ASSUME NEW c \in Calls, (\E k \in Kinds[c] \ {"pipeline"} : Pose(c, k)) \/ PipelineSend(c)
      PROVE  Moves(c, "none", "pending")
  <2>1. promise[c] = "none"
    BY ZenonT(60), <1>a, <1>1 DEF Pose, PipelineSend, QuestionInv
  <2>2. promise' = [promise EXCEPT ![c] = "pending"] /\ UNCHANGED <<answer, server>>
    BY ZenonT(60), <1>1 DEF Pose, PipelineSend, newQuestion, calleeVars
  <2> QED BY <2>1, <2>2 DEF Moves
<1>2. ASSUME NEW c \in Calls, \/ \E t \in Calls : PipelineCaller(c, t)
                              \/ CancelContext(c) \/ handleCancel(c) \/ handleCancelDone(c)
                              \/ WaitFinish(c) \/ SendFinish(c)
      PROVE  Quiet
  BY ZenonT(60), <1>2 DEF PipelineCaller, CancelContext, handleCancel, handleCancelDone, WaitFinish, SendFinish, Quiet,
                          calleeVars, outcome
<1>3. CASE \/ \E ok \in BOOLEAN : Send(ok)
           \/ CallSent \/ CallFailed \/ RemoveFailed \/ CancelSent \/ CancelClose \/ FinishSent
           \/ handleReturn \/ LoseReturn
  <2>1. Quiet
    BY ZenonT(60), <1>3 DEF Send, CallSent, CallFailed, RemoveFailed, CancelSent, CancelClose, FinishSent,
                            handleReturn, LoseReturn, Quiet, calleeVars, callerVars, outcome
  <2> QED BY <2>1
<1>4. CASE RejectFailed \/ CancelReject
  <2>1. sender.call \in Calls /\ promise[sender.call] = "pending"
    <3>1. sender.at \in {"reject", "cancel"} /\ sender.call \in Slot
      BY ZenonT(60), <1>4, Types DEF RejectFailed, CancelReject
    <3>2. sender.call # nil
      BY ZenonT(60), <1>a, <3>1 DEF SenderInv
    <3>3. promise[sender.call] = "pending"
      <4>1. CASE sender.at = "cancel"
        BY ZenonT(60), <1>a, <4>1 DEF SenderInv
      <4>2. CASE sender.at = "reject"
        BY ZenonT(60), <1>a, <4>2 DEF SenderInv
      <4> QED BY <3>1, <4>1, <4>2
    <3> QED BY <3>1, <3>2, <3>3 DEF Slot
  <2>2. Moves(sender.call, "pending", "rejected")
    BY ZenonT(60), <1>4, <2>1 DEF RejectFailed, CancelReject, Settle, Moves, calleeVars
  <2> QED BY ZenonT(60), <2>1, <2>2
<1>5. ASSUME NEW c \in Calls, ResolveReturn(c)
      PROVE  \/ Moves(c, "pending", "rejected")
             \/ Moves(c, "pending", "resolved") /\ returnTask[c] = "resolve"
  <2>1. promise[c] = "pending" /\ returnTask[c] \in {"resolve", "reject"}
    BY ZenonT(60), <1>a, <1>5 DEF ResolveReturn, QuestionInv
  <2> QED BY ZenonT(60), <1>5, <2>1 DEF ResolveReturn, Settle, Moves, calleeVars
<1> QED BY ZenonT(60), <1>1, <1>2, <1>3, <1>4, <1>5 DEF CallerNext

\* What a step of the callee does to the call c: its service becomes w and its answer a.
\* Either the call enters, or its method prepares or makes its Return, or the answer
\* stays the results or the exception it was.
CalleeStep(c, w, a) ==
  /\ Serves(c, w, a) /\ UNCHANGED returnTask
  /\ toCaller' \in {toCaller, Append(toCaller, [call |-> c, ok |-> ~a.err])}
  /\ \/ server[c] = "none" /\ promise[c] # "none" /\ w \in {"running", "returned"}
     \/ server[c] = "running" /\ w = "prepared"
     \/ server[c] = "prepared" /\ w = "returned"
     \/ server[c] = w /\ a.err = answer[c].err

\* handleBootstrap and handleCall enter a call that was posed and has no answer yet.
LEMMA EnterStep ==
  ASSUME TypeOK, Live, handleBootstrap \/ handleCall
  PROVE  \/ Quiet /\ UNCHANGED <<returnTask, toCaller>>
         \/ \E c \in Calls : \E w \in {"running", "returned"} : \E a \in Answer : CalleeStep(c, w, a)
<1>1. receive("call")
  BY ZenonT(60) DEF handleBootstrap, handleCall
<1>2. PICK c \in Calls : Head(toCallee).call = c /\ server[c] = "none" /\ Sent(c)
  BY ZenonT(60), <1>1, HeadCall
<1>3. promise[c] # "none"
  BY ZenonT(60), <1>2 DEF Live, QuestionInv, Sent, At
<1>4. UNCHANGED <<promise, returnTask>>
  BY ZenonT(60) DEF handleBootstrap, handleCall, callerVars, outcome, tasks
<1>5. \/ \E why : Abort(why)
      \/ Placeholder(c)
      \/ \E err \in BOOLEAN : ReturnAtOnce(c, err)
      \/ \E t : Serve(c, t)
  BY ZenonT(60), <1>2 DEF handleBootstrap, handleCall
<1>6. CASE \E why : Abort(why)
  BY <1>4, <1>6 DEF Abort, Quiet, calleeVars
<1>7. CASE Placeholder(c)
  <2> DEFINE a == [NewAnswer EXCEPT !.err = TRUE, !.resultsReady = TRUE, !.returnSent = TRUE, !.placeholder = TRUE]
  <2>1. a \in Answer
    BY ZenonT(60) DEF Answer, NewAnswer
  <2>2. answer' = [answer EXCEPT ![c] = a] /\ server' = [server EXCEPT ![c] = "returned"] /\ toCaller' = toCaller
    BY <1>7 DEF Placeholder
  <2> HIDE DEF a
  <2>3. CalleeStep(c, "returned", a)
    BY ZenonT(60), <1>2, <1>3, <1>4, <2>2 DEF CalleeStep, Serves
  <2> QED BY <2>1, <2>3
<1>8. ASSUME NEW err \in BOOLEAN, ReturnAtOnce(c, err)
      PROVE  \E a \in Answer : CalleeStep(c, "returned", a)
  <2> DEFINE a == [NewAnswer EXCEPT !.err = err, !.resultsReady = TRUE, !.returnSent = TRUE]
  <2>1. a \in Answer /\ a.err = err
    BY ZenonT(60) DEF Answer, NewAnswer
  <2>2. /\ answer' = [answer EXCEPT ![c] = a] /\ server' = [server EXCEPT ![c] = "returned"]
        /\ toCaller' = Append(toCaller, [call |-> c, ok |-> ~err])
    BY <1>8 DEF ReturnAtOnce
  <2> HIDE DEF a
  <2>3. CalleeStep(c, "returned", a)
    BY ZenonT(60), <1>2, <1>3, <1>4, <2>1, <2>2 DEF CalleeStep, Serves
  <2> QED BY <2>1, <2>3
<1>9. ASSUME NEW t, Serve(c, t)
      PROVE  \E a \in Answer : CalleeStep(c, "running", a)
  <2>1. NewAnswer \in Answer
    BY DEF Answer, NewAnswer
  <2>2. CalleeStep(c, "running", NewAnswer)
    BY ZenonT(60), <1>2, <1>3, <1>4, <1>9 DEF CalleeStep, Serves, Serve
  <2> QED BY ZenonT(60), <2>1, <2>2
<1> QED BY ZenonT(60), <1>5, <1>6, <1>7, <1>8, <1>9

\* A Finish does not change what the answer is.
LEMMA FinishStep ==
  ASSUME TypeOK, Live, handleFinish
  PROVE  \/ Quiet /\ UNCHANGED <<returnTask, toCaller>>
         \/ \E c \in Calls : \E w \in {"none", "running", "prepared", "returned"} : \E a \in Answer : CalleeStep(c, w, a)
<1>1. receive("finish") /\ UNCHANGED <<promise, returnTask>>
  BY ZenonT(60) DEF handleFinish, callerVars, outcome, tasks
<1>2. PICK c \in Calls : Head(toCallee).call = c /\ answers[qid[c]] = c
  BY ZenonT(60), <1>1, HeadFinish
<1>3. CASE \E why : Abort(why)
  BY <1>1, <1>3 DEF Abort, Quiet, calleeVars
<1>4. CASE ~\E why : Abort(why)
  <2> DEFINE a == [answer[c] EXCEPT !.finishReceived = TRUE, !.releaseResultCaps = release[c]]
  <2>1. answer' = [answer EXCEPT ![c] = a] /\ UNCHANGED <<server, toCaller>>
    BY ZenonT(60), <1>2, <1>4 DEF handleFinish
  <2>2. a \in Answer /\ a.err = answer[c].err
    <3>1. answer[c] \in Answer /\ release[c] \in BOOLEAN
      BY DEF TypeOK, AnswerType, FlagType
    <3>2. a.err = answer[c].err
      BY ZenonT(60), <3>1 DEF Answer
    <3> QED BY ZenonT(60), <3>1, <3>2 DEF Answer
  <2> HIDE DEF a
  <2>3. server' = [server EXCEPT ![c] = server[c]] /\ server[c] \in {"none", "running", "prepared", "returned"}
    BY <2>1 DEF TypeOK, AnswerType
  <2>4. CalleeStep(c, server[c], a)
    BY ZenonT(60), <1>1, <2>1, <2>2, <2>3 DEF CalleeStep, Serves
  <2> QED BY <2>2, <2>3, <2>4
<1> QED BY ZenonT(60), <1>3, <1>4

\* ansReturner settles what the answer is in PrepareReturn and keeps it in Return.
LEMMA ReturnerStep ==
  ASSUME TypeOK, Live, NEW c \in Calls, ReturnCall(c) \/ \E err \in BOOLEAN : PrepareReturn(c, err)
  PROVE  \E w \in {"prepared", "returned"} : \E a \in Answer : CalleeStep(c, w, a)
<1>1. UNCHANGED <<promise, returnTask>> /\ server[c] \in {"running", "prepared"}
  BY ZenonT(60) DEF PrepareReturn, ReturnCall, callerVars, outcome, tasks
<1>2. answers[qid[c]] = c /\ c # nil
  <2>1. AnswerInv(c)
    BY DEF Live
  <2> QED BY ZenonT(60), <1>1, <2>1, Types DEF AnswerInv
<1>3. ASSUME NEW err \in BOOLEAN, PrepareReturn(c, err)
      PROVE  \E a \in Answer : CalleeStep(c, "prepared", a)
  <2> DEFINE a == [answer[c] EXCEPT !.err = err]
  <2>1. answer' = [answer EXCEPT ![c].err = err]
    BY ZenonT(60), <1>2, <1>3 DEF PrepareReturn
  <2>2. answer' = [answer EXCEPT ![c] = a] /\ a \in Answer
    BY <2>1 DEF TypeOK, AnswerType, Answer
  <2>3. server[c] = "running" /\ server' = [server EXCEPT ![c] = "prepared"] /\ toCaller' = toCaller
    BY <1>3 DEF PrepareReturn, network, pipes
  <2> HIDE DEF a
  <2>4. CalleeStep(c, "prepared", a)
    BY ZenonT(60), <1>1, <2>2, <2>3 DEF CalleeStep, Serves
  <2> QED BY <2>2, <2>4
<1>4. ASSUME ReturnCall(c)
      PROVE  \E a \in Answer : CalleeStep(c, "returned", a)
  <2> DEFINE a == [answer[c] EXCEPT !.resultsReady = TRUE, !.returnSent = TRUE]
  <2>1. completeSend(c, answer[c])
    BY ZenonT(60), <1>2, <1>4 DEF ReturnCall
  <2>2. answer' = [answer EXCEPT ![c] = a] /\ toCaller' = Append(toCaller, [call |-> c, ok |-> ~answer[c].err])
    BY <2>1 DEF completeSend
  <2>3. a \in Answer /\ a.err = answer[c].err
    BY ZenonT(60) DEF TypeOK, AnswerType, Answer
  <2>4. server[c] = "prepared" /\ server' = [server EXCEPT ![c] = "returned"]
    BY ZenonT(60), <1>4 DEF ReturnCall
  <2> HIDE DEF a
  <2>5. CalleeStep(c, "returned", a)
    BY ZenonT(60), <1>1, <2>2, <2>3, <2>4 DEF CalleeStep, Serves
  <2> QED BY <2>3, <2>5
<1> QED BY ZenonT(60), <1>3, <1>4

-------------------------------------------------------------------------------
(* A Return says what its answer is.                                       *)

\* The caller adds no Return, and takes only what a Return says.
LEMMA CallerReturns ==
  ASSUME TypeOK, Live, IInv', CallerNext
  PROVE  /\ answer' = answer
         /\ \A i \in 1..Len(toCaller') : \E j \in 1..Len(toCaller) : toCaller'[i] = toCaller[j]
         /\ \A d \in Calls : returnTask'[d] = "resolve" =>
               \/ returnTask[d] = "resolve"
               \/ \E j \in 1..Len(toCaller) : toCaller[j].call = d /\ toCaller[j].ok
<1>1. answer' = answer
  BY ZenonT(60) DEF CallerNext, Pose, PipelineCaller, PipelineSend, CancelContext, handleCancel, handleCancelDone,
     WaitFinish, ResolveReturn, SendFinish, Send, CallSent, CallFailed, RejectFailed, RemoveFailed,
     CancelSent, CancelClose, CancelReject, FinishSent, handleReturn, LoseReturn, calleeVars
<1>2. CASE handleReturn
  <2> DEFINE m == Head(toCaller)
             q == questions[qid[m.call]]
  <2>1. /\ toCaller \in Seq(Return) /\ toCaller # <<>> /\ toCaller' = Tail(toCaller)
        /\ Len(toCaller) \in Nat
    BY ZenonT(60), <1>2, LenProperties DEF TypeOK, PipeType, handleReturn
  <2>2. /\ 1 \in 1..Len(toCaller) /\ m = toCaller[1]
        /\ Len(Tail(toCaller)) = Len(toCaller) - 1
        /\ \A i \in 1..(Len(toCaller) - 1) : Tail(toCaller)[i] = toCaller[i + 1]
    BY SMTT(60), <2>1, EmptySeq, LenProperties, HeadTailProperties
  <2>3. \A i \in 1..Len(toCaller') : \E j \in 1..Len(toCaller) : toCaller'[i] = toCaller[j]
    <3> TAKE i \in 1..Len(toCaller')
    <3>1. i + 1 \in 1..Len(toCaller) /\ toCaller'[i] = toCaller[i + 1]
      BY SMTT(60), <2>1, <2>2
    <3> QED BY <3>1
  <2>4. m.call \in Calls /\ q \in Slot
    <3>1. m \in Return
      BY <2>1, <2>2, LenProperties
    <3>2. m.call \in Calls
      BY ZenonT(60), <3>1 DEF Return
    <3> QED BY <3>2, Types
  <2>5. ASSUME NEW d \in Calls, returnTask'[d] = "resolve"
        PROVE  returnTask[d] = "resolve" \/ (m.call = d /\ m.ok)
    <3>1. CASE returnTask'[d] = returnTask[d]
      BY ZenonT(60), <2>5, <3>1
    <3>2. CASE returnTask'[d] # returnTask[d]
      <4>1. q = d /\ ~finished[d] /\ m.ok /\ result' = [result EXCEPT ![d] = m.call]
        BY ZenonT(60), <1>2, <2>5, <3>2 DEF handleReturn, TypeOK, TaskType
      <4>2. result'[d] = m.call
        BY ZenonT(60), <4>1 DEF TypeOK, OutcomeType
      <4>3. result'[d] \in {nil, d}
        BY ZenonT(60) DEF IInv, Safety, ResultIsOwn
      <4>4. m.call = d
        BY ZenonT(60), <2>4, <4>2, <4>3, Types
      <4> QED BY <4>1, <4>4
    <3> QED BY <3>1, <3>2
  <2> HIDE DEF m, q
  <2> QED BY ZenonT(60), <1>1, <2>2, <2>3, <2>5
<1>3. CASE LoseReturn
  <2>1. PICK i \in 1..Len(toCaller) :
           toCaller' = [j \in 1..(Len(toCaller) - 1) |-> toCaller[IF j < i THEN j ELSE j + 1]]
    BY ZenonT(60), <1>3 DEF LoseReturn
  <2>2. Len(toCaller) \in Nat /\ toCaller' \in Seq(Return)
    BY LenProperties, <2>1, ReturnDrop DEF TypeOK, PipeType
  <2>3. Len(toCaller') = Len(toCaller) - 1
    <3>1. Len(toCaller) - 1 \in Nat
      BY <2>1, <2>2
    <3> QED BY <2>1, <2>2, <3>1, LenProperties
  <2>4. \A k \in 1..Len(toCaller') : \E j \in 1..Len(toCaller) : toCaller'[k] = toCaller[j]
    <3> TAKE k \in 1..Len(toCaller')
    <3>1. (IF k < i THEN k ELSE k + 1) \in 1..Len(toCaller) /\ toCaller'[k] = toCaller[IF k < i THEN k ELSE k + 1]
      BY <2>1, <2>2, <2>3
    <3> QED BY <3>1
  <2>5. returnTask' = returnTask
    BY ZenonT(60), <1>3 DEF LoseReturn, callerVars, tasks
  <2> QED BY <1>1, <2>4, <2>5
<1>4. CASE ~handleReturn /\ ~LoseReturn
  <2>1. toCaller' = toCaller
    BY ZenonT(60), <1>4 DEF CallerNext, Pose, PipelineCaller, PipelineSend, CancelContext, handleCancel, handleCancelDone,
       WaitFinish, ResolveReturn, SendFinish, Send, CallSent, CallFailed, RejectFailed, RemoveFailed,
       CancelSent, CancelClose, CancelReject, FinishSent, network, pipes
  <2>2. \/ returnTask' = returnTask
        \/ \E c \in Calls : returnTask' = [returnTask EXCEPT ![c] = "done"]
        \/ \E c \in Calls : returnTask' = [returnTask EXCEPT ![c] = "finish"]
    BY ZenonT(60), <1>4 DEF CallerNext, Pose, PipelineCaller, PipelineSend, CancelContext, handleCancel, handleCancelDone,
       WaitFinish, ResolveReturn, SendFinish, Send, CallSent, CallFailed, RejectFailed, RemoveFailed,
       CancelSent, CancelClose, CancelReject, FinishSent, callerVars, tasks
  <2>3. \A d \in Calls : returnTask'[d] = "resolve" => returnTask[d] = "resolve"
    BY <2>2 DEF TypeOK, TaskType
  <2> QED BY <1>1, <2>1, <2>3
<1> QED BY ZenonT(60), <1>2, <1>3, <1>4

\* A Return and its answer agree from step to step.
LEMMA ReturnInvNext == ASSUME IInv, IInv', ReturnInv, [Next]_vars PROVE ReturnInv'
<1>1. CASE UNCHANGED vars
  BY <1>1 DEF ReturnInv, vars, callerVars, tasks, network, pipes, calleeVars
<1>2. CASE Next
  <2>1. TypeOK /\ TypeOK' /\ Live /\ fault = "none"
    BY ZenonT(60), <1>2 DEF IInv, Next, Running
  <2>2. /\ Len(toCaller) \in Nat /\ Len(toCaller') \in Nat
        /\ \A j \in 1..Len(toCaller) : toCaller[j].call \in Calls
        /\ \A j \in 1..Len(toCaller') : toCaller'[j].call \in Calls
    <3>1. toCaller \in Seq(Return) /\ toCaller' \in Seq(Return)
      BY <2>1 DEF TypeOK, PipeType
    <3>2. /\ Len(toCaller) \in Nat /\ Len(toCaller') \in Nat
          /\ \A j \in 1..Len(toCaller) : toCaller[j] \in Return
          /\ \A j \in 1..Len(toCaller') : toCaller'[j] \in Return
      BY <3>1, LenProperties
    <3>3. \A r \in Return : r.call \in Calls
      BY ZenonT(60) DEF Return
    <3> QED BY ZenonT(60), <3>2, <3>3
  <2>3. CASE answer' = answer /\ UNCHANGED <<returnTask, toCaller>>
    BY <2>3 DEF ReturnInv
  <2>4. CASE /\ answer' = answer
             /\ \A i \in 1..Len(toCaller') : \E j \in 1..Len(toCaller) : toCaller'[i] = toCaller[j]
             /\ \A d \in Calls : returnTask'[d] = "resolve" =>
                   \/ returnTask[d] = "resolve"
                   \/ \E j \in 1..Len(toCaller) : toCaller[j].call = d /\ toCaller[j].ok
    BY ZenonT(60), <2>4 DEF ReturnInv
  <2>5. ASSUME NEW c \in Calls, NEW w, NEW a \in Answer, CalleeStep(c, w, a)
        PROVE  ReturnInv'
    <3>1. /\ answer'[c] = a /\ \A d \in Calls : d # c => answer'[d] = answer[d]
          /\ returnTask' = returnTask
      BY <2>1, <2>5 DEF CalleeStep, Serves, TypeOK, AnswerType
    <3>2. ASSUME NEW d \in Calls, Returning(d) \/ returnTask[d] # "none", ~answer[d].err
          PROVE  ~answer'[d].err
      <4>1. server[d] = "returned"
        BY ZenonT(60), <2>1, <3>2 DEF Live, AnswerInv
      <4>2. CASE d = c
        BY ZenonT(60), <2>5, <3>1, <3>2, <4>1, <4>2 DEF CalleeStep
      <4>3. CASE d # c
        BY <3>1, <3>2, <4>3
      <4> QED BY <4>2, <4>3
    <3>3. ASSUME NEW d \in Calls, returnTask'[d] = "resolve"
          PROVE  ~answer'[d].err
      BY ZenonT(60), <3>1, <3>2, <3>3 DEF ReturnInv
    <3>4. ASSUME NEW j \in 1..Len(toCaller), toCaller[j].ok
          PROVE  ~answer'[toCaller[j].call].err
      <4>1. Returning(toCaller[j].call) /\ ~answer[toCaller[j].call].err
        BY ZenonT(60), <3>4 DEF Returning, InCall, ReturnInv
      <4> QED BY ZenonT(60), <2>2, <3>2, <4>1
    <3>5. ASSUME NEW i \in 1..Len(toCaller'), toCaller'[i].ok
          PROVE  ~answer'[toCaller'[i].call].err
      <4> DEFINE r == [call |-> c, ok |-> ~a.err]
      <4>1. CASE toCaller' = toCaller
        BY ZenonT(60), <3>4, <3>5, <4>1
      <4>2. CASE toCaller' = Append(toCaller, r)
        <5>1. toCaller'[i] = r \/ \E j \in 1..Len(toCaller) : toCaller'[i] = toCaller[j]
          <6>1. toCaller \in Seq(Return) /\ r \in Return
            BY ZenonT(60), <2>1 DEF TypeOK, PipeType, Return
          <6> HIDE DEF r
          <6>2. /\ Len(toCaller') = Len(toCaller) + 1
                /\ \A j \in 1..Len(toCaller) : toCaller'[j] = toCaller[j]
                /\ toCaller'[Len(toCaller) + 1] = r
            BY <4>2, <6>1, AppendProperties
          <6>3. Len(toCaller) \in Nat /\ i \in 1..(Len(toCaller) + 1)
            BY ZenonT(60), <2>2, <6>2
          <6>4. i \in 1..Len(toCaller) \/ i = Len(toCaller) + 1
            BY ZenonT(60), <6>3, LastOrEarlier
          <6> QED BY ZenonT(60), <6>2, <6>4
        <5>2. r.call = c /\ r.ok = ~a.err
          OBVIOUS
        <5> HIDE DEF r
        <5>3. CASE toCaller'[i] = r
          BY ZenonT(60), <3>1, <3>5, <5>2, <5>3
        <5>4. CASE \E j \in 1..Len(toCaller) : toCaller'[i] = toCaller[j]
          BY ZenonT(60), <3>4, <3>5, <5>4
        <5> QED BY ZenonT(60), <5>1, <5>3, <5>4
      <4>3. toCaller' \in {toCaller, Append(toCaller, r)}
        BY <2>5 DEF CalleeStep
      <4> HIDE DEF r
      <4> QED BY <4>1, <4>2, <4>3
    <3> QED BY ZenonT(60), <3>3, <3>5 DEF ReturnInv
  <2>6. CASE handleBootstrap \/ handleCall
    BY ZenonT(60), <2>1, <2>3, <2>5, <2>6, EnterStep DEF Quiet
  <2>7. CASE handleFinish
    BY ZenonT(60), <2>1, <2>3, <2>5, <2>7, FinishStep DEF Quiet
  <2>8. ASSUME NEW c \in Calls, ReturnCall(c) \/ \E err \in BOOLEAN : PrepareReturn(c, err)
        PROVE  ReturnInv'
    BY ZenonT(60), <2>1, <2>5, <2>8, ReturnerStep
  <2>9. CASE ~(handleBootstrap \/ handleCall \/ handleFinish
               \/ \E c \in Calls : ReturnCall(c) \/ \E err \in BOOLEAN : PrepareReturn(c, err))
    <3>1. CallerNext
      BY ZenonT(60), <1>2, <2>9 DEF Next, CallerNext
    <3> QED BY ZenonT(60), <2>1, <2>4, <3>1, CallerReturns
  <2> QED BY <2>6, <2>7, <2>8, <2>9
<1> QED BY ZenonT(60), <1>1, <1>2

-------------------------------------------------------------------------------
(* The refinement.                                                         *)

\* The services of all the calls, as the contract sees them.
Services == [c \in Calls |-> Service(c)]

\* A step that changes no answer and no server goroutine changes no service.
LEMMA ServicesKept == ASSUME UNCHANGED <<answer, server>> PROVE Services' = Services
BY ZenonT(60) DEF Services, Service

\* A step of the callee enters a call, returns one, or is hidden from the application.
LEMMA CalleeContract ==
  ASSUME TypeOK, NEW c \in Calls, NEW w \in {"none", "running", "prepared", "returned"}, NEW a \in Answer,
         CalleeStep(c, w, a)
  PROVE  [Contract!Next]_(Contract!vars)
<1> DEFINE how == IF w = "none" THEN "none"
                  ELSE IF w \in {"running", "prepared"} THEN "running"
                  ELSE IF a.err THEN "exception" ELSE "results"
<1>1. answer' = [answer EXCEPT ![c] = a] /\ server' = [server EXCEPT ![c] = w] /\ promise' = promise
  BY ZenonT(60) DEF CalleeStep, Serves
<1>2. answer'[c] = a /\ server'[c] = w /\ \A d \in Calls : d # c => answer'[d] = answer[d] /\ server'[d] = server[d]
  BY <1>1 DEF TypeOK, AnswerType
<1>3. Service(c)' = how
  BY <1>2 DEF Service
<1>4. \A d \in Calls : d # c => Service(d)' = Service(d)
  BY <1>2 DEF Service
<1>5. Services' = [Services EXCEPT ![c] = how]
  <2> HIDE DEF how
  <2> QED BY ZenonT(60), <1>3, <1>4 DEF Services
<1>6. CASE server[c] = "none" /\ promise[c] # "none" /\ w \in {"running", "returned"}
  <2>1. Services[c] = "none" /\ how \in {"running", "results", "exception"}
    BY ZenonT(60), <1>6 DEF Services, Service
  <2> HIDE DEF how
  <2>2. Contract!Accept(c, how)
    BY ZenonT(60), <1>1, <1>5, <1>6, <2>1 DEF Contract!Accept, Services
  <2> QED BY <2>1, <2>2 DEF Contract!Next
<1>7. CASE server[c] = "prepared" /\ w = "returned"
  <2>1. Services[c] = "running" /\ how \in {"results", "exception"}
    BY ZenonT(60), <1>7 DEF Services, Service
  <2> HIDE DEF how
  <2>2. Contract!Return(c, how)
    BY ZenonT(60), <1>1, <1>5, <1>7, <2>1 DEF Contract!Return, Services
  <2> QED BY <2>1, <2>2 DEF Contract!Next
<1>8. CASE (server[c] = "running" /\ w = "prepared") \/ (server[c] = w /\ a.err = answer[c].err)
  <2>1. Service(c) = how
    BY <1>8 DEF Service
  <2> HIDE DEF how
  <2>2. Services' = Services
    BY ZenonT(60), <1>5, <2>1 DEF Services
  <2> QED BY <1>1, <2>2 DEF Contract!vars, Services
<1> QED BY ZenonT(60), <1>6, <1>7, <1>8 DEF CalleeStep

\* A step of the caller poses a call or settles it, with results only if the callee
\* returned them.
LEMMA CallerContract ==
  ASSUME IInv, ReturnInv, fault = "none", CallerNext
  PROVE  [Contract!Next]_(Contract!vars)
<1>1. TypeOK /\ Live
  BY ZenonT(60) DEF IInv
<1>2. CASE Quiet
  <2>1. Services' = Services /\ promise' = promise
    BY <1>2, ServicesKept DEF Quiet
  <2> QED BY <2>1 DEF Contract!vars, Services
<1>3. ASSUME NEW c \in Calls, Moves(c, "none", "pending")
      PROVE  Contract!Next
  <2>1. Services' = Services
    BY <1>3, ServicesKept DEF Moves
  <2>2. Contract!Pose(c)
    BY <1>3, <2>1 DEF Moves, Contract!Pose, Services
  <2> QED BY <2>2 DEF Contract!Next
<1>4. ASSUME NEW c \in Calls, Moves(c, "pending", "rejected")
      PROVE  Contract!Next
  <2>1. Services' = Services
    BY <1>4, ServicesKept DEF Moves
  <2>2. Contract!Reject(c)
    BY <1>4, <2>1 DEF Moves, Contract!Reject, Services
  <2> QED BY <2>2 DEF Contract!Next
<1>5. ASSUME NEW c \in Calls, Moves(c, "pending", "resolved"), returnTask[c] = "resolve"
      PROVE  Contract!Next
  <2>1. Services' = Services
    BY <1>5, ServicesKept DEF Moves
  <2>2. server[c] = "returned" /\ ~answer[c].err
    <3>1. AnswerInv(c)
      BY <1>1 DEF Live
    <3> QED BY ZenonT(60), <1>5, <3>1 DEF AnswerInv, ReturnInv
  <2>3. Services[c] = "results"
    BY ZenonT(60), <2>2 DEF Services, Service
  <2>4. Contract!Resolve(c)
    BY <1>5, <2>1, <2>3 DEF Moves, Contract!Resolve, Services
  <2> QED BY <2>4 DEF Contract!Next
<1> QED BY ZenonT(60), <1>1, <1>2, <1>3, <1>4, <1>5, CallerSteps

\* Every step of the two vats is a step of the contract, or one it does not see.
LEMMA ContractStep == ASSUME IInv, ReturnInv, [Next]_vars PROVE [Contract!Next]_(Contract!vars)
<1>1. CASE UNCHANGED vars
  <2>1. UNCHANGED <<promise, answer, server>>
    BY <1>1 DEF vars, callerVars, outcome, calleeVars
  <2>2. Services' = Services
    BY <2>1, ServicesKept
  <2> QED BY ZenonT(60), <2>1, <2>2 DEF Contract!vars, Services
<1>2. CASE Next
  <2>1. TypeOK /\ Live /\ fault = "none"
    BY ZenonT(60), <1>2 DEF IInv, Next, Running
  <2>2. ASSUME Quiet
        PROVE  [Contract!Next]_(Contract!vars)
    <3>1. Services' = Services /\ promise' = promise
      BY <2>2, ServicesKept DEF Quiet
    <3> QED BY <3>1 DEF Contract!vars, Services
  <2>3. CASE handleBootstrap \/ handleCall
    BY ZenonT(60), <2>1, <2>2, <2>3, EnterStep, CalleeContract
  <2>4. CASE handleFinish
    BY ZenonT(60), <2>1, <2>2, <2>4, FinishStep, CalleeContract
  <2>5. CASE \E c \in Calls : ReturnCall(c) \/ \E err \in BOOLEAN : PrepareReturn(c, err)
    BY ZenonT(60), <2>1, <2>5, ReturnerStep, CalleeContract
  <2>6. CASE CallerNext
    BY <2>1, <2>6, CallerContract
  <2>7. \/ handleBootstrap \/ handleCall \/ handleFinish \/ CallerNext
        \/ \E c \in Calls : ReturnCall(c) \/ \E err \in BOOLEAN : PrepareReturn(c, err)
    BY ZenonT(60), <1>2 DEF Next, CallerNext
  <2> QED BY <2>3, <2>4, <2>5, <2>6, <2>7
<1> QED BY <1>1, <1>2

\* Two vats that exchange Bootstrap, Call, Return and Finish through failing
\* transports, with IDs reused and calls cancelled at any time, give the application
\* the contract of a call: served at most once, settled at most once, and resolved
\* only when the server has returned results for this very call (question.go,
\* answer.go and the handlers of rpc.go).
THEOREM ContractImplemented == Spec => ImplementsContract
<1>1. Init => Contract!Init /\ ReturnInv
  <2> SUFFICES ASSUME Init PROVE Contract!Init /\ ReturnInv
    BY ZenonT(60)
  <2>1. promise = [c \in Calls |-> "none"] /\ \A c \in Calls : server[c] = "none" /\ returnTask[c] = "none"
    BY DEF Init
  <2>2. \A c \in Calls : Service(c) = "none"
    BY ZenonT(60), <2>1 DEF Service
  <2>3. Contract!Init
    BY ZenonT(60), <2>1, <2>2 DEF Contract!Init
  <2>4. ReturnInv
    <3>1. toCaller = <<>>
      BY DEF Init
    <3>2. 1..Len(toCaller) = {}
      BY <3>1, EmptyIndices
    <3> QED BY ZenonT(60), <2>1, <3>2 DEF ReturnInv
  <2> QED BY <2>3, <2>4
<1>2. IInv /\ IInv' /\ ReturnInv /\ [Next]_vars => ReturnInv'
  BY ReturnInvNext
<1>3. IInv /\ ReturnInv /\ [Next]_vars => [Contract!Next]_(Contract!vars)
  BY ContractStep
<1> QED BY <1>1, <1>2, <1>3, Invariance, PTL DEF Spec, ImplementsContract, Contract!Spec
=============================================================================
