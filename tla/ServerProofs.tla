----------------------------- MODULE ServerProofs -----------------------------
(***************************************************************************)
(* Proofs about Server for every finite set of calls.                      *)
(*                                                                         *)
(* The inductive invariant says who holds the right to receive: exactly    *)
(* one of a goroutine in Recv, one in wg.Wait, the end after Shutdown, and *)
(* a call under way that has not called Go.                                *)
(***************************************************************************)
EXTENDS Server, FiniteSetTheorems, TLAPS

UnderWay(c) == call[c] \in {"method", "fulfill", "return", "release"}
Busy(c) == UnderWay(c) /\ ~acked[c]
Served == {"method", "fulfill", "return", "release", "done"}
Counted == {c \in Calls : call[c] = "counted" \/ call[c] = "queued" \/ UnderWay(c)}

\* wg counts the calls between start and wg.Done.
CountInv == wg = Cardinality(Counted)

\* The right to receive is held once.
HolderInv ==
  /\ pulling + waiting + shutdowns <= 1
  /\ \A c \in Calls : Busy(c) => pulling = 0 /\ waiting = 0 /\ shutdowns = 0
  /\ \A c, d \in Calls : Busy(c) /\ Busy(d) => c = d

\* A closed queue takes no more calls.
ClosedInv ==
  /\ waiting > 0 \/ shutdowns > 0 => closed

\* The queue is the part of order that has not begun.
Taken == Len(order) - Len(callQueue)
OrderInv ==
  /\ Len(callQueue) <= Len(order)
  /\ \A i \in 1..Len(callQueue) : callQueue[i] = order[Taken + i]
  /\ \A i \in 1..Len(order) : IF i <= Taken THEN Begun(order[i]) ELSE call[order[i]] = "queued"
  /\ \A i, j \in 1..Len(order) : order[i] = order[j] => i = j

IInv == TypeOK /\ CountInv /\ HolderInv /\ ClosedInv /\ OrderInv /\ InOrder /\ ShutdownLast

-----------------------------------------------------------------------------
\* The initial state of New satisfies the invariant.
LEMMA InitIInv == Init => IInv
<1> SUFFICES ASSUME Init PROVE IInv
  OBVIOUS
<1>1. TypeOK
  <2>1. call \in [Calls -> CallState] /\ acked \in [Calls -> BOOLEAN]
    BY DEF Init, CallState
  <2>2. order \in Seq(Calls) /\ callQueue \in Seq(Calls)
    BY DEF Init
  <2> QED
    BY Zenon, <2>1, <2>2 DEF Init, TypeOK
<1>2. CountInv
  <2>1. Counted = {}
    BY DEF Init, Counted, UnderWay
  <2> QED
    BY <2>1, FS_EmptySet DEF Init, CountInv
<1>3. HolderInv /\ ClosedInv
  BY DEF Init, HolderInv, ClosedInv, Busy, UnderWay
<1>4. OrderInv /\ InOrder /\ ShutdownLast
  BY DEF Init, OrderInv, InOrder, ShutdownLast, Taken
<1> QED
  BY <1>1, <1>2, <1>3, <1>4 DEF IInv

\* wg follows the calls between start and wg.Done through a step that moves one
\* call and the counter as the step does.
LEMMA CountStep ==
  ASSUME TypeOK, CountInv, NEW c \in Calls, NEW to \in CallState,
         call' = [call EXCEPT ![c] = to],
         LET isIn(s) == s \in {"counted", "queued", "method", "fulfill", "return", "release"}
         IN /\ ~isIn(call[c]) /\ isIn(to) => wg' = wg + 1
            /\ isIn(call[c]) /\ ~isIn(to) => wg' = wg - 1
            /\ (isIn(call[c]) <=> isIn(to)) => wg' = wg
  PROVE  CountInv' /\ wg' \in Nat
<1> DEFINE isIn(s) == s \in {"counted", "queued", "method", "fulfill", "return", "release"}
<1>1. IsFiniteSet(Counted)
  BY CallsAssumption, FS_Subset DEF Counted
<1>2. Counted = {d \in Calls : isIn(call[d])}
  BY DEF Counted, UnderWay
<1>3. Counted' = {d \in Calls : isIn(call'[d])}
  BY DEF Counted, UnderWay
<1>4. \A d \in Calls : call'[d] = IF d = c THEN to ELSE call[d]
  BY DEF TypeOK
<1>5. wg = Cardinality(Counted) /\ wg \in Nat
  BY DEF CountInv, TypeOK
<1>6. CASE ~isIn(call[c]) /\ isIn(to)
  <2>1. Counted' = Counted \cup {c} /\ c \notin Counted
    BY <1>2, <1>3, <1>4, <1>6
  <2> QED
    BY <1>1, <1>5, <1>6, <2>1, FS_AddElement DEF CountInv
<1>7. CASE isIn(call[c]) /\ ~isIn(to)
  <2>1. Counted' = Counted \ {c} /\ c \in Counted
    BY <1>2, <1>3, <1>4, <1>7
  <2>2. Cardinality(Counted \ {c}) = Cardinality(Counted) - 1
    BY Zenon, <1>1, <2>1, FS_RemoveElement
  <2>3. Cardinality(Counted \ {c}) \in Nat
    BY Zenon, <1>1, FS_RemoveElement, FS_CardinalityType
  <2> QED
    BY <1>5, <1>7, <2>1, <2>2, <2>3 DEF CountInv
<1>8. CASE isIn(call[c]) <=> isIn(to)
  <2>1. Counted' = Counted
    BY <1>2, <1>3, <1>4, <1>8
  <2> QED
    BY <1>5, <1>8, <2>1 DEF CountInv
<1> QED
  BY <1>6, <1>7, <1>8

\* A call that is not under way before or after a step can be moved without
\* disturbing who receives.
LEMMA IdleStep ==
  ASSUME IInv, NEW c \in Calls, NEW from, NEW to, Step(c, from, to),
         <<from, to>> \in {<<"none", "refused">>, <<"none", "counted">>, <<"counted", "queued">>},
         from = "none" => ~closed,
         UNCHANGED <<acked, closed, pulling, waiting, shutdowns>>
  PROVE  /\ call' \in [Calls -> CallState]
         /\ \A d \in Calls : d # c => call'[d] = call[d]
         /\ HolderInv' /\ ClosedInv'
         /\ shutdowns = 0
<1>1. to \in CallState /\ call \in [Calls -> CallState]
  BY DEF IInv, TypeOK, CallState
<1>2. call' = [call EXCEPT ![c] = to] /\ call[c] = from
  BY DEF Step
<1>3. \A d \in Calls : d # c => call'[d] = call[d]
  BY <1>1, <1>2
<1>4. ~UnderWay(c) /\ ~UnderWay(c)'
  BY <1>1, <1>2 DEF UnderWay
<1>5. \A d \in Calls : Busy(d)' <=> Busy(d)
  BY <1>3, <1>4 DEF Busy, UnderWay
<1>6. HolderInv' /\ ClosedInv'
  BY <1>5 DEF IInv, HolderInv, ClosedInv
<1>7. shutdowns = 0
  BY <1>2 DEF IInv, ShutdownLast, TypeOK, ClosedInv
<1> QED
  BY <1>1, <1>2, <1>3, <1>6, <1>7

\* A step that leaves the queue alone and takes no call back keeps the order.
LEMMA OrderFrame ==
  ASSUME TypeOK, OrderInv, InOrder, order' = order, callQueue' = callQueue,
         \A d \in Calls : /\ call[d] = "queued" => call'[d] = "queued"
                          /\ call[d] \in Served => call'[d] \in Served
                          /\ acked[d] => acked'[d]
                          /\ call[d] = "done" => call'[d] = "done"
  PROVE  OrderInv' /\ InOrder'
<1>1. \A i \in 1..Len(order) : order[i] \in Calls
  BY DEF TypeOK
<1>2. \A i \in 1..Len(order) :
         /\ IF i <= Taken THEN call[order[i]] \in Served ELSE call[order[i]] = "queued"
         /\ call'[order[i]] \in Served <=> call[order[i]] \in Served
  BY <1>1 DEF OrderInv, Begun, Served
<1>3. \A i \in 1..Len(order) :
         IF i <= Taken THEN call'[order[i]] \in Served ELSE call'[order[i]] = "queued"
  BY <1>1, <1>2
<1>4. Taken' = Taken
  BY DEF Taken
<1>5. OrderInv'
  BY <1>3, <1>4 DEF OrderInv, Begun, Served
<1>6. ASSUME NEW j \in 1..Len(order), NEW k \in 1..Len(order), j < k, call'[order[k]] \in Served
      PROVE  acked'[order[j]] \/ call'[order[j]] = "done"
  <2>1. call[order[k]] \in Served
    BY <1>2, <1>6
  <2>2. acked[order[j]] \/ call[order[j]] = "done"
    BY <1>6, <2>1 DEF InOrder, Begun, Served
  <2> QED
    BY <1>1, <2>2
<1>7. InOrder'
  BY <1>6 DEF InOrder, Begun, Served
<1> QED
  BY <1>5, <1>7

\* Send and Recv refuse a call, or start counts it.
LEMMA BeginStep ==
  ASSUME IInv, NEW c \in Calls, Refuse(c) \/ start(c)
  PROVE  IInv'
<1> DEFINE to == IF wg' = wg THEN "refused" ELSE "counted"
<1>0. wg \in Nat /\ TypeOK /\ CountInv
  BY DEF IInv, TypeOK
<1>1. /\ Step(c, "none", to) /\ to \in {"refused", "counted"} /\ to \in CallState
      /\ wg' = IF to = "counted" THEN wg + 1 ELSE wg
      /\ ~closed /\ UNCHANGED <<acked, order, callQueue, closed, pulling, waiting, shutdowns>>
  BY <1>0 DEF Refuse, start, CallState
<1> HIDE DEF to
<1>2. /\ call' \in [Calls -> CallState] /\ HolderInv' /\ ClosedInv' /\ shutdowns = 0
      /\ \A d \in Calls : d # c => call'[d] = call[d]
  BY <1>1, IdleStep
<1>3. call[c] = "none" /\ call' = [call EXCEPT ![c] = to]
  BY <1>1 DEF Step
<1>4. CountInv' /\ wg' \in Nat
  BY Zenon, <1>0, <1>1, <1>3, CountStep
<1>5. TypeOK'
  BY <1>1, <1>2, <1>4 DEF IInv, TypeOK
<1>6. OrderInv' /\ InOrder'
  <2>1. \A d \in Calls : d = c \/ call'[d] = call[d]
    BY <1>2
  <2> QED
    BY <1>1, <1>3, <2>1, OrderFrame DEF IInv, Served
<1>7. ShutdownLast'
  BY <1>1, <1>2 DEF ShutdownLast
<1> QED
  BY <1>2, <1>4, <1>5, <1>6, <1>7 DEF IInv

\* callQueue.Send adds the call to the end of the queue and of the order.
LEMMA EnqueueStep ==
  ASSUME IInv, NEW c \in Calls, Enqueue(c)
  PROVE  IInv'
<1>0. TypeOK /\ CountInv /\ OrderInv /\ InOrder
  BY DEF IInv
<1>1. /\ call' \in [Calls -> CallState] /\ HolderInv' /\ ClosedInv' /\ shutdowns = 0
      /\ \A d \in Calls : d # c => call'[d] = call[d]
  BY IdleStep DEF Enqueue
<1>2. /\ "queued" \in CallState /\ call' = [call EXCEPT ![c] = "queued"] /\ call[c] = "counted"
      /\ UNCHANGED <<acked, closed, wg, pulling, waiting, shutdowns>>
      /\ order' = Append(order, c) /\ callQueue' = Append(callQueue, c)
  BY DEF Enqueue, Step, CallState
<1>3. CountInv' /\ wg' \in Nat
  BY Zenon, <1>0, <1>2, CountStep
<1>4. TypeOK'
  BY <1>0, <1>1, <1>2, <1>3 DEF TypeOK
<1>5. \A i \in 1..Len(order) :
         /\ order[i] \in Calls
         /\ IF i <= Taken THEN call[order[i]] \in Served ELSE call[order[i]] = "queued"
  BY <1>0 DEF OrderInv, TypeOK, Begun, Served
<1>6. \A i \in 1..Len(order) : order[i] # c /\ call'[order[i]] = call[order[i]]
  BY ZenonT(60), <1>1, <1>2, <1>5 DEF Served
<1>7. call'[c] = "queued"
  BY <1>0, <1>2 DEF TypeOK
<1>8. /\ Len(order) \in Nat /\ Len(callQueue) \in Nat /\ Len(callQueue) <= Len(order)
      /\ Len(order') = Len(order) + 1 /\ Len(callQueue') = Len(callQueue) + 1
      /\ \A i \in 1..Len(order) : order'[i] = order[i]
      /\ \A i \in 1..Len(callQueue) : callQueue'[i] = callQueue[i]
      /\ order'[Len(order) + 1] = c /\ callQueue'[Len(callQueue) + 1] = c
  BY <1>0, <1>2 DEF TypeOK, OrderInv
<1>9. Taken' = Taken /\ Taken \in Nat /\ Len(order) = Taken + Len(callQueue)
  BY <1>8 DEF Taken
<1>10. \A i \in 1..Len(order') : i \in 1..Len(order) \/ i = Len(order) + 1
  BY <1>8
<1>11. OrderInv'
  <2>1. \A i \in 1..Len(callQueue') : callQueue'[i] = order'[Taken' + i]
    <3>1. ASSUME NEW i \in 1..Len(callQueue') PROVE callQueue'[i] = order'[Taken' + i]
      <4>1. CASE i = Len(callQueue) + 1
        BY <1>8, <1>9, <4>1
      <4>2. CASE i \in 1..Len(callQueue)
        <5>1. Taken + i \in 1..Len(order) /\ callQueue[i] = order[Taken + i]
          BY <1>0, <1>8, <1>9, <4>2 DEF OrderInv
        <5> QED
          BY <1>8, <1>9, <4>2, <5>1
      <4> QED
        BY <1>8, <4>1, <4>2
    <3> QED
      BY <3>1
  <2>2. \A i \in 1..Len(order') :
           IF i <= Taken' THEN call'[order'[i]] \in Served ELSE call'[order'[i]] = "queued"
    BY <1>5, <1>6, <1>7, <1>8, <1>9, <1>10
  <2>3. \A i, j \in 1..Len(order') : order'[i] = order'[j] => i = j
    BY <1>0, <1>6, <1>8, <1>10 DEF OrderInv
  <2> QED
    BY <1>8, <2>1, <2>2, <2>3 DEF OrderInv, Begun, Served
<1>12. ASSUME NEW j \in 1..Len(order'), NEW k \in 1..Len(order'), j < k, call'[order'[k]] \in Served
       PROVE  acked'[order'[j]] \/ call'[order'[j]] = "done"
  <2>1. k \in 1..Len(order)
    BY <1>7, <1>8, <1>10, <1>12 DEF Served
  <2>2. j \in 1..Len(order)
    BY <1>8, <1>12, <2>1
  <2>3. acked[order[j]] \/ call[order[j]] = "done"
    BY <1>0, <1>6, <1>8, <1>12, <2>1, <2>2 DEF InOrder, Begun, Served
  <2> QED
    BY <1>2, <1>6, <1>8, <2>2, <2>3
<1>13. InOrder'
  BY <1>12 DEF InOrder, Begun, Served
<1>14. ShutdownLast'
  BY <1>1, <1>2 DEF ShutdownLast
<1> QED
  BY <1>1, <1>3, <1>4, <1>11, <1>13, <1>14 DEF IInv

\* handleCalls takes the first call that has not begun; all earlier ones have
\* called Go or are done, for the goroutine that takes it holds no other call.
LEMMA TakeStep ==
  ASSUME IInv, handleCalls
  PROVE  IInv'
<1>0. TypeOK /\ CountInv /\ HolderInv /\ OrderInv /\ InOrder
  BY DEF IInv
<1> DEFINE c == Head(callQueue)
<1>1. /\ c \in Calls /\ callQueue \in Seq(Calls) /\ callQueue # <<>> /\ c = callQueue[1]
      /\ call[c] = "queued" /\ call' = [call EXCEPT ![c] = "method"]
      /\ callQueue' = Tail(callQueue) /\ pulling > 0 /\ pulling' = pulling - 1
      /\ UNCHANGED <<acked, order, closed, wg, waiting, shutdowns>>
  BY <1>0 DEF handleCalls, Step, TypeOK
<1> HIDE DEF c
<1>2. "method" \in CallState /\ \A d \in Calls : call'[d] = IF d = c THEN "method" ELSE call[d]
  BY <1>0, <1>1 DEF TypeOK, CallState
<1>3. CountInv' /\ wg' \in Nat
  BY Zenon, <1>0, <1>1, <1>2, CountStep
<1>4. /\ pulling = 1 /\ pulling' = 0 /\ waiting = 0 /\ shutdowns = 0
      /\ \A d \in Calls : ~Busy(d)
  BY <1>0, <1>1 DEF HolderInv, TypeOK
<1>5. TypeOK'
  <2>1. call' \in [Calls -> CallState] /\ callQueue' \in Seq(Calls)
    BY <1>0, <1>1, <1>2 DEF TypeOK
  <2> QED
    BY <1>0, <1>1, <1>3, <1>4, <2>1 DEF TypeOK
<1>6. \A d \in Calls : Busy(d)' => d = c
  BY <1>1, <1>2, <1>4 DEF Busy, UnderWay
<1>7. HolderInv' /\ ClosedInv' /\ ShutdownLast'
  BY <1>1, <1>4, <1>6 DEF HolderInv, ClosedInv, ShutdownLast
<1>8. /\ Len(order) \in Nat /\ Len(callQueue) \in Nat \ {0} /\ Len(callQueue) <= Len(order)
      /\ Len(callQueue') = Len(callQueue) - 1
      /\ \A i \in 1..Len(callQueue') : callQueue'[i] = callQueue[i + 1]
  BY <1>0, <1>1 DEF TypeOK, OrderInv
<1>9. /\ Taken \in Nat /\ Taken' = Taken + 1 /\ Len(order) = Taken + Len(callQueue)
      /\ Taken + 1 \in 1..Len(order)
  BY <1>1, <1>8 DEF Taken
<1>10. order[Taken + 1] = c
  BY <1>0, <1>1, <1>8 DEF OrderInv
<1>11. \A i \in 1..Len(order) :
          /\ order[i] \in Calls /\ (order[i] = c <=> i = Taken + 1)
          /\ IF i <= Taken THEN call[order[i]] \in Served ELSE call[order[i]] = "queued"
  <2>1. \A i \in 1..Len(order) : order[i] \in Calls
    BY <1>0 DEF TypeOK
  <2>2. \A i \in 1..Len(order) : order[i] = c <=> i = Taken + 1
    BY <1>0, <1>9, <1>10 DEF OrderInv
  <2>3. \A i \in 1..Len(order) :
           IF i <= Taken THEN call[order[i]] \in Served ELSE call[order[i]] = "queued"
    BY <1>0 DEF OrderInv, Begun, Served
  <2> QED
    BY <2>1, <2>2, <2>3
<1>12. \A i \in 1..Len(order) :
          /\ i # Taken + 1 => call'[order[i]] = call[order[i]]
          /\ i = Taken + 1 => call'[order[i]] = "method"
  BY <1>2, <1>11
<1>13. OrderInv'
  <2>1. \A i \in 1..Len(callQueue') : callQueue'[i] = order[Taken' + i]
    <3> TAKE i \in 1..Len(callQueue')
    <3>1. i + 1 \in 1..Len(callQueue) /\ callQueue'[i] = callQueue[i + 1] /\ i \in Nat
      BY <1>8
    <3>2. callQueue[i + 1] = order[Taken + (i + 1)]
      BY <1>0, <3>1 DEF OrderInv
    <3>3. Taken + (i + 1) = Taken' + i
      BY <1>9, <3>1
    <3> QED
      BY <3>1, <3>2, <3>3
  <2>2. \A i \in 1..Len(order) :
           IF i <= Taken' THEN call'[order[i]] \in Served ELSE call'[order[i]] = "queued"
    BY <1>9, <1>11, <1>12 DEF Served
  <2>3. Len(callQueue') <= Len(order)
    BY <1>8
  <2> QED
    BY <1>0, <1>1, <2>1, <2>2, <2>3 DEF OrderInv, Begun, Served
<1>14. ASSUME NEW j \in 1..Len(order), NEW k \in 1..Len(order), j < k, call'[order[k]] \in Served
       PROVE  acked[order[j]] \/ call'[order[j]] = "done"
  <2>1. k <= Taken + 1 /\ j <= Taken
    BY <1>9, <1>11, <1>12, <1>14 DEF Served
  <2>2. call[order[j]] \in Served /\ order[j] \in Calls /\ call'[order[j]] = call[order[j]]
    BY <1>9, <1>11, <1>12, <2>1
  <2> QED
    BY <1>4, <2>2 DEF Busy, UnderWay, Served
<1>15. InOrder'
  BY <1>1, <1>14 DEF InOrder, Begun, Served
<1> QED
  BY <1>3, <1>5, <1>7, <1>13, <1>15 DEF IInv

\* A call under way moves on without calling Go or ending: MethodReturns, Fulfill
\* and Return.
LEMMA MoveStep ==
  ASSUME IInv, NEW c \in Calls, MethodReturns(c) \/ Fulfill(c) \/ Return(c)
  PROVE  IInv'
<1>0. TypeOK /\ CountInv /\ HolderInv /\ OrderInv /\ InOrder /\ ClosedInv /\ ShutdownLast
  BY DEF IInv
<1>1. PICK to \in {"fulfill", "return", "release"} : call' = [call EXCEPT ![c] = to]
  BY DEF MethodReturns, Fulfill, Return, Step
<1>2. /\ call[c] \in {"method", "fulfill", "return"} /\ to \in CallState
      /\ UNCHANGED <<acked, order, callQueue, closed, wg, pulling, waiting, shutdowns>>
  BY DEF MethodReturns, Fulfill, Return, Step, CallState
<1>3. \A d \in Calls : call'[d] = IF d = c THEN to ELSE call[d]
  BY <1>0, <1>1 DEF TypeOK
<1>4. CountInv' /\ wg' \in Nat
  BY Zenon, <1>0, <1>1, <1>2, CountStep
<1>5. TypeOK'
  BY <1>0, <1>1, <1>2 DEF TypeOK
<1>6. OrderInv' /\ InOrder'
  BY <1>0, <1>2, <1>3, OrderFrame DEF Served
<1>7. \A d \in Calls : Busy(d)' <=> Busy(d)
  BY <1>2, <1>3 DEF Busy, UnderWay
<1>8. HolderInv' /\ ClosedInv'
  BY <1>0, <1>2, <1>7 DEF HolderInv, ClosedInv
<1>9. ShutdownLast'
  BY <1>0, <1>2 DEF ShutdownLast
<1> QED
  BY <1>4, <1>5, <1>6, <1>8, <1>9 DEF IInv

\* wg.Done: the goroutine takes the queue back unless its call has called Go.
LEMMA DoneStep ==
  ASSUME IInv, NEW c \in Calls, Done(c)
  PROVE  IInv'
<1>0. TypeOK /\ CountInv /\ HolderInv /\ OrderInv /\ InOrder /\ ClosedInv /\ ShutdownLast
  BY DEF IInv
<1>1. /\ call[c] = "release" /\ call' = [call EXCEPT ![c] = "done"] /\ "done" \in CallState
      /\ wg' = wg - 1 /\ pulling' = IF acked[c] THEN pulling ELSE pulling + 1
      /\ UNCHANGED <<acked, order, callQueue, closed, waiting, shutdowns>>
  BY DEF Done, Step, CallState
<1>2. \A d \in Calls : call'[d] = IF d = c THEN "done" ELSE call[d]
  BY <1>0, <1>1 DEF TypeOK
<1>3. CountInv' /\ wg' \in Nat
  BY Zenon, <1>0, <1>1, CountStep
<1>4. TypeOK'
  BY <1>0, <1>1, <1>3 DEF TypeOK
<1>5. OrderInv' /\ InOrder'
  BY <1>0, <1>1, <1>2, OrderFrame DEF Served
<1>6. \A d \in Calls : Busy(d)' <=> Busy(d) /\ d # c
  BY <1>1, <1>2 DEF Busy, UnderWay
<1>7. HolderInv'
  <2>1. CASE acked[c]
    BY <1>0, <1>1, <1>6, <2>1 DEF HolderInv
  <2>2. CASE ~acked[c]
    <3>1. Busy(c) /\ pulling = 0 /\ waiting = 0 /\ shutdowns = 0
      BY <1>0, <1>1, <2>2 DEF HolderInv, Busy, UnderWay
    <3>2. \A d \in Calls : ~Busy(d)'
      BY <1>0, <1>6, <3>1 DEF HolderInv
    <3> QED
      BY <1>1, <2>2, <3>1, <3>2 DEF HolderInv
  <2> QED
    BY <2>1, <2>2
<1>8. ClosedInv' /\ ShutdownLast'
  BY <1>0, <1>1 DEF ClosedInv, ShutdownLast
<1> QED
  BY <1>3, <1>4, <1>5, <1>7, <1>8 DEF IInv

\* Call.Go passes the right to receive on to a new goroutine.
LEMMA GoStep ==
  ASSUME IInv, NEW c \in Calls, Go(c)
  PROVE  IInv'
<1>0. TypeOK /\ CountInv /\ HolderInv /\ OrderInv /\ InOrder /\ ClosedInv /\ ShutdownLast
  BY DEF IInv
<1>1. /\ call[c] = "method" /\ ~acked[c] /\ acked' = [acked EXCEPT ![c] = TRUE]
      /\ pulling' = pulling + 1
      /\ UNCHANGED <<call, order, callQueue, closed, wg, waiting, shutdowns>>
  BY DEF Go
<1>2. /\ \A d \in Calls : d # c => acked'[d] = acked[d]
      /\ acked'[c]
  BY <1>0, <1>1 DEF TypeOK
<1>3. TypeOK'
  BY <1>0, <1>1 DEF TypeOK
<1>4. CountInv'
  BY <1>0, <1>1 DEF CountInv, Counted, UnderWay
<1>5. \A d \in Calls : acked[d] => acked'[d]
  BY <1>1, <1>2
<1>6. OrderInv' /\ InOrder'
  BY <1>0, <1>1, <1>5, OrderFrame
<1>7. Busy(c) /\ pulling = 0 /\ waiting = 0 /\ shutdowns = 0
  BY <1>0, <1>1 DEF HolderInv, Busy, UnderWay
<1>8. \A d \in Calls : ~Busy(d)'
  <2> TAKE d \in Calls
  <2>1. CASE d = c
    BY <1>2, <2>1 DEF Busy
  <2>2. CASE d # c
    BY <1>0, <1>1, <1>2, <1>7, <2>2 DEF HolderInv, Busy, UnderWay
  <2> QED
    BY <2>1, <2>2
<1>9. HolderInv' /\ ClosedInv' /\ ShutdownLast'
  BY <1>1, <1>7, <1>8 DEF HolderInv, ClosedInv, ShutdownLast
<1> QED
  BY <1>3, <1>4, <1>6, <1>9 DEF IInv

\* Closing the queue, leaving it for wg.Wait, and calling the Shutdowner once no
\* call is counted any more.
LEMMA CloseStep ==
  ASSUME IInv, Shutdown \/ handleClosed \/ WaitShutdown \/ UNCHANGED vars
  PROVE  IInv'
<1>0. TypeOK /\ CountInv /\ HolderInv /\ OrderInv /\ InOrder /\ ClosedInv /\ ShutdownLast
  BY DEF IInv
<1>1. UNCHANGED <<call, acked, order, callQueue, wg>>
  BY DEF Shutdown, handleClosed, WaitShutdown, vars
<1>2. CountInv'
  BY <1>0, <1>1 DEF CountInv, Counted, UnderWay
<1>3. OrderInv' /\ InOrder'
  BY <1>0, <1>1, OrderFrame
<1>4. \A d \in Calls : Busy(d)' <=> Busy(d)
  BY <1>1 DEF Busy, UnderWay
<1>5. TypeOK'
  <2>1. closed' \in BOOLEAN
    BY Zenon, <1>0 DEF TypeOK, Shutdown, handleClosed, WaitShutdown, vars
  <2>2. pulling' \in Nat /\ waiting' \in Nat /\ shutdowns' \in Nat
    BY SMTT(60), <1>0 DEF TypeOK, Shutdown, handleClosed, WaitShutdown, vars
  <2> QED
    BY <1>0, <1>1, <2>1, <2>2 DEF TypeOK
<1>6. HolderInv' /\ ClosedInv'
  BY <1>0, <1>1, <1>4 DEF TypeOK, HolderInv, ClosedInv, Shutdown, handleClosed, WaitShutdown, vars
<1>7. ShutdownLast'
  <2>1. CASE shutdowns' = shutdowns
    BY <1>0, <1>1, <2>1 DEF ShutdownLast
  <2>2. CASE WaitShutdown
    <3>1. wg = 0 /\ waiting > 0 /\ shutdowns' = shutdowns + 1
      BY <2>2 DEF WaitShutdown
    <3>2. shutdowns' = 1
      BY <1>0, <3>1 DEF HolderInv, TypeOK
    <3>3. Counted = {}
      <4>1. IsFiniteSet(Counted)
        BY CallsAssumption, FS_Subset DEF Counted
      <4> QED
        BY Zenon, <1>0, <3>1, <4>1, FS_EmptySet DEF CountInv
    <3>4. \A d \in Calls : call[d] \in {"none", "refused", "done"}
      BY <1>0, <3>3 DEF Counted, UnderWay, TypeOK, CallState
    <3> QED
      BY <1>1, <3>2, <3>4 DEF ShutdownLast
  <2> QED
    BY <2>1, <2>2 DEF Shutdown, handleClosed, vars
<1> QED
  BY <1>2, <1>3, <1>5, <1>6, <1>7 DEF IInv

\* Every step of Server preserves the invariant.
LEMMA NextIInv == IInv /\ [Next]_vars => IInv'
BY BeginStep, EnqueueStep, TakeStep, MoveStep, DoneStep, GoStep, CloseStep DEF Next

\* The invariant holds in every reachable state.
THEOREM Invariance == Spec => []IInv
BY InitIInv, NextIInv, PTL DEF Spec

\* wg never goes negative and the counters of goroutines stay natural numbers,
\* for any finite set of calls.
THEOREM TypeCorrect == Spec => []TypeOK
<1>1. IInv => TypeOK
  BY DEF IInv
<1> QED
  BY <1>1, Invariance, PTL

\* There is never more than one goroutine pulling from callQueue, whichever
\* methods call Go.
THEOREM SingleReceiver == Spec => []OneReceiver
<1>1. IInv => OneReceiver
  BY DEF IInv, TypeOK, HolderInv, OneReceiver
<1> QED
  BY <1>1, Invariance, PTL

\* A method begins only when every call queued before it has called Go or has
\* ended.
THEOREM DeliveryOrder == Spec => []InOrder
<1>1. IInv => InOrder
  BY DEF IInv
<1> QED
  BY <1>1, Invariance, PTL

\* The Shutdowner is called at most once, and after every call has been serviced.
THEOREM ShutdownAfterCalls == Spec => []ShutdownLast
<1>1. IInv => ShutdownLast
  BY DEF IInv
<1> QED
  BY <1>1, Invariance, PTL
===============================================================================
