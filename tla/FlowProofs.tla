------------------------------ MODULE FlowProofs -------------------------------
(***************************************************************************)
(* Flow-limited and streaming calls, for any number of calls and any       *)
(* sizes: reservations stay within the limit and end with the answer, no   *)
(* call waits for room that is there, and WaitStreaming misses no failure. *)
(* For the BBR limiter, that its counters are those of the messages in     *)
(* flight, for any messages, sizes and parameters.                         *)
(***************************************************************************)
EXTENDS Calls, Bbr, SumTheorems

Place == {"idle", "refused", "begun", "sending", "sent", "panicked", "waiting", "granted", "register",
          "respond", "returned", "recorded", "done"}

\* Type invariant.
TypeOK ==
  /\ Size \in [CallIds -> Nat]
  /\ at \in [CallIds -> Place]
  /\ answer \in [CallIds -> {"open", "ok", "failed"}]
  /\ cur \in Nat
  /\ owed \in SUBSET CallIds /\ signals \in SUBSET CallIds
  /\ queue \in Seq(CallIds)
  /\ err \in CallIds \cup {None}
  /\ group \in SUBSET CallIds
  /\ wait \in [at : {"idle", "waiting", "reading", "done"}, before : SUBSET Stream, got : CallIds \cup {None}]

\* Who owes a reservation will give it back: its promise will run gotResponse, or
\* its goroutine has yet to look at the answer.
OwedInv(place, ans, owing, sig) ==
  \A c \in CallIds : /\ c \in owing => place[c] \in {"granted", "register", "respond"} \/ c \in sig
                     /\ c \in sig => place[c] = "returned" /\ ans[c] = "open"
                     /\ place[c] = "respond" => ans[c] # "open"

\* The queue holds the waiting calls, each once, and none that can never be granted.
InQueue(c, q) == \E i \in 1..Len(q) : q[i] = c
QueueInv(place, q) ==
  /\ \A i, j \in 1..Len(q) : q[i] = q[j] => i = j
  /\ \A c \in CallIds : place[c] = "waiting" <=> InQueue(c, q)
  /\ \A c \in CallIds : place[c] = "waiting" => Size[c] <= Limit

\* The head of the queue waits for a reservation that somebody holds.
HeadInv == queue # <<>> => cur > 0 /\ (cur + Size[Head(queue)] > Limit \/ cur = Limit)

FlowInv ==
  /\ cur = Total(owed) /\ cur <= Limit
  /\ OwedInv(at, answer, owed, signals)
  /\ QueueInv(at, queue)
  /\ HeadInv

\* A streaming call is counted in until its answer is there and its error recorded.
StreamInv ==
  /\ \A c \in Stream : /\ at[c] \notin {"idle", "refused", "done"} => c \in group
                       /\ at[c] = "recorded" => err # None
                       /\ at[c] = "done" => answer[c] = "ok" \/ err # None
  /\ \A c \in wait.before : at[c] \notin {"idle", "refused"}
  /\ wait.at \in {"reading", "done"} => \A c \in wait.before : at[c] = "done"
  /\ wait.at = "done" /\ wait.got = None => \A c \in wait.before : answer[c] = "ok"

IInv == TypeOK /\ FlowInv /\ StreamInv

-------------------------------------------------------------------------------
(* The semaphore.                                                          *)

\* A nonempty set of numbers with a bound has a greatest element, and Max is it.
LEMMA MaxOf ==
  ASSUME NEW n \in Nat, NEW T, T \subseteq 0..n, T # {}
  PROVE  Max(T) \in T /\ \A y \in T : y <= Max(T)
<1> DEFINE D == {n - t : t \in T}
<1>0. \A t \in T : t \in 0..n /\ t \in Int /\ n - t \in Nat
  OBVIOUS
<1>1. D \subseteq Nat /\ D # {}
  BY <1>0
<1>2. PICK d \in D : \A e \in D : d <= e
  BY ZenonT(60), <1>1, LeastNumber
<1>3. PICK x \in T : d = n - x
  BY <1>2
<1>4. \A y \in T : x >= y
  <2> TAKE y \in T
  <2>1. n - y \in D
    OBVIOUS
  <2>2. n - x <= n - y /\ x \in Int /\ y \in Int
    BY <1>0, <1>2, <1>3, <2>1
  <2> QED BY <2>2
<1>5. Max(T) \in T /\ \A y \in T : Max(T) >= y
  BY ZenonT(60), <1>3, <1>4 DEF Max
<1> QED
  <2> DEFINE m == Max(T)
  <2>1. m \in T /\ m \in Int /\ \A y \in T : m >= y
    BY ZenonT(60), <1>0, <1>5
  <2> HIDE DEF m
  <2>2. \A y \in T : y <= m
    BY <1>0, <2>1
  <2> QED BY <2>1, <2>2 DEF m

\* The first i calls of a queue that holds each once.
LEMMA PrefixTotal ==
  ASSUME IsFiniteSet(CallIds), Size \in [CallIds -> Nat], NEW q \in Seq(CallIds), NEW i \in 0..Len(q)
  PROVE  /\ Range(SubSeq(q, 1, i)) = {q[k] : k \in 1..i}
         /\ Range(SubSeq(q, 1, i)) \in SUBSET CallIds
         /\ Total(Range(SubSeq(q, 1, i))) \in Nat
<1>1. Len(q) \in Nat /\ \A k \in 1..Len(q) : q[k] \in CallIds
  BY LenProperties
<1>2. /\ SubSeq(q, 1, i) \in Seq(CallIds) /\ Len(SubSeq(q, 1, i)) = i
      /\ \A k \in 1..i : SubSeq(q, 1, i)[k] = q[k]
  BY <1>1, SubSeqProperties
<1>3. DOMAIN SubSeq(q, 1, i) = 1..i
  BY <1>2, LenProperties
<1>4. Range(SubSeq(q, 1, i)) = {SubSeq(q, 1, i)[k] : k \in 1..i}
  BY ZenonT(60), <1>3 DEF Range
<1>5. Range(SubSeq(q, 1, i)) = {q[k] : k \in 1..i}
  BY <1>2, <1>4
<1>6. {q[k] : k \in 1..i} \in SUBSET CallIds
  BY <1>1
<1>7. IsFiniteSet(Range(SubSeq(q, 1, i)))
  BY <1>5, <1>6, FS_Subset
<1>8. Total(Range(SubSeq(q, 1, i))) \in Nat
  BY <1>5, <1>6, <1>7, SumType DEF Total
<1> QED BY <1>5, <1>6, <1>8

\* notifyWaiters grants from the head what fits, and stops at the first call that
\* does not.
LEMMA NotifyProperties ==
  ASSUME FlowAssumption, Size \in [CallIds -> Nat], NEW n \in Nat, n <= Limit, NEW q \in Seq(CallIds),
         \A i, j \in 1..Len(q) : q[i] = q[j] => i = j
  PROVE  \E f \in 0..Len(q) : \E g \in SUBSET CallIds :
            /\ g = {q[k] : k \in 1..f}
            /\ Notify(n, q) = [cur |-> n + Total(g), granted |-> g, queue |-> SubSeq(q, f + 1, Len(q))]
            /\ Total(g) \in Nat /\ n + Total(g) <= Limit
            /\ f < Len(q) => n + Total(g) + Size[q[f + 1]] > Limit
<1> DEFINE T == {i \in 0..Len(q) : n + Total(Range(SubSeq(q, 1, i))) <= Limit}
           f == Max(T)
           g == Range(SubSeq(q, 1, f))
<1>1. Len(q) \in Nat /\ Limit \in Nat /\ IsFiniteSet(CallIds) /\ \A k \in 1..Len(q) : q[k] \in CallIds
  BY LenProperties DEF FlowAssumption
<1>2. 0 \in T
  <2>1. 0 \in 0..Len(q)
    BY <1>1
  <2>2. Range(SubSeq(q, 1, 0)) = {q[k] : k \in 1..0}
    BY <1>1, <2>1, PrefixTotal
  <2>3. {q[k] : k \in 1..0} = {}
    OBVIOUS
  <2>4. Total(Range(SubSeq(q, 1, 0))) = 0
    BY ZenonT(60), <2>2, <2>3, SumEmpty DEF Total
  <2> QED BY <1>1, <2>1, <2>4
<1>3. T \subseteq 0..Len(q) /\ T # {}
  BY <1>2
<1>4. f \in T /\ \A y \in T : y <= f
  <2> HIDE DEF T
  <2> QED BY ZenonT(60), <1>1, <1>3, MaxOf
<1>5. f \in 0..Len(q) /\ n + Total(g) <= Limit
  <2> HIDE DEF f
  <2> QED BY <1>4
<1> HIDE DEF f
<1>6. g = {q[k] : k \in 1..f} /\ g \in SUBSET CallIds /\ Total(g) \in Nat
  BY SMTT(60), <1>1, <1>5, PrefixTotal
<1>7. Notify(n, q) = [cur |-> n + Total(g), granted |-> g, queue |-> SubSeq(q, f + 1, Len(q))]
  BY DEF Notify, f
<1>8. ASSUME f < Len(q)
      PROVE  n + Total(g) + Size[q[f + 1]] > Limit
  <2>1. f + 1 \in 0..Len(q) /\ f + 1 \in 1..Len(q) /\ f \in Nat
    BY <1>1, <1>5, <1>8
  <2> DEFINE x == q[f + 1]
             h == Range(SubSeq(q, 1, f + 1))
  <2>2. h = {q[k] : k \in 1..(f + 1)} /\ Total(h) \in Nat
    BY <1>1, <2>1, PrefixTotal
  <2>3. x \in CallIds /\ Size[x] \in Nat
    BY <1>1, <2>1
  <2>4. x \notin g
    <3>1. \A k \in 1..f : k \in 1..Len(q) /\ k # f + 1
      BY <1>1, <1>5, <2>1
    <3> QED BY ZenonT(60), <1>6, <2>1, <3>1
  <2>5. h = g \cup {x}
    <3>1. 1..(f + 1) = (1..f) \cup {f + 1}
      BY <2>1
    <3> QED BY ZenonT(60), <1>6, <2>2, <3>1
  <2>6. IsFiniteSet(g)
    BY <1>1, <1>6, FS_Subset
  <2>7. Total(g \cup {x}) = Size[x] + Total(g)
    <3> HIDE DEF x, g
    <3>1. \A y \in g : Size[y] \in Nat
      BY <1>6
    <3> QED BY <2>3, <2>4, <2>6, <3>1, SumAdd DEF Total
  <2>8. ~(n + Total(h) <= Limit)
    <3>1. ~(f + 1 \in T)
      BY <1>4, <2>1
    <3> QED BY <2>1, <3>1
  <2> HIDE DEF x, g, h
  <2>9. n + Total(h) > Limit
    BY <1>1, <2>2, <2>8
  <2>10. n + (Size[x] + Total(g)) > Limit
    BY <2>5, <2>7, <2>9
  <2>11. n + Total(g) + Size[x] > Limit
    BY <1>6, <2>3, <2>10
  <2> QED BY <2>11 DEF x
<1> HIDE DEF g
<1> QED BY ZenonT(60), <1>5, <1>6, <1>7, <1>8

\* Whatever made room, granting it from the head of the queue keeps the books.
LEMMA GrantingKeeps ==
  ASSUME FlowAssumption, TypeOK, Size' = Size,
         NEW n \in Nat, NEW owing \in SUBSET CallIds, NEW q \in Seq(CallIds), NEW moved \in [CallIds -> Place],
         n = Total(owing), n <= Limit,
         OwedInv(moved, answer', owing, signals'), QueueInv(moved, q),
         Granting(n, owing, q, moved)
  PROVE  /\ FlowInv'
         /\ cur' \in Nat /\ owed' \in SUBSET CallIds /\ queue' \in Seq(CallIds) /\ at' \in [CallIds -> Place]
         /\ \A c \in CallIds : at'[c] = moved[c] \/ (moved[c] = "waiting" /\ at'[c] = "granted")
<1>1. PICK f \in 0..Len(q), g \in SUBSET CallIds :
            /\ g = {q[k] : k \in 1..f}
            /\ Notify(n, q) = [cur |-> n + Total(g), granted |-> g, queue |-> SubSeq(q, f + 1, Len(q))]
            /\ Total(g) \in Nat /\ n + Total(g) <= Limit
            /\ f < Len(q) => n + Total(g) + Size[q[f + 1]] > Limit
  BY ZenonT(60), NotifyProperties DEF TypeOK, QueueInv
<1>2. /\ cur' = n + Total(g) /\ owed' = owing \cup g /\ queue' = SubSeq(q, f + 1, Len(q))
      /\ at' = [c \in CallIds |-> IF c \in g THEN "granted" ELSE moved[c]]
  BY <1>1 DEF Granting
<1>3. Len(q) \in Nat /\ IsFiniteSet(CallIds) /\ (\A k \in 1..Len(q) : q[k] \in CallIds) /\ Limit \in Nat
  BY LenProperties DEF FlowAssumption
<1>4. \A c \in g : InQueue(c, q) /\ moved[c] = "waiting"
  <2>1. \A k \in 1..f : k \in 1..Len(q)
    BY <1>3
  <2>2. \A c \in g : InQueue(c, q) /\ c \in CallIds
    BY <1>1, <2>1 DEF InQueue
  <2> QED BY <2>2 DEF QueueInv
<1>5. g \cap owing = {}
  BY <1>4 DEF OwedInv
<1>6. cur' = Total(owing \cup g)
  <2>1. IsFiniteSet(owing) /\ IsFiniteSet(g) /\ \A x \in owing \cup g : Size[x] \in Nat
    BY <1>3, FS_Subset DEF TypeOK
  <2> QED BY <1>2, <1>5, <2>1, SumUnion DEF Total
<1>7. /\ queue' \in Seq(CallIds) /\ Len(queue') = Len(q) - f
      /\ \A k \in 1..(Len(q) - f) : queue'[k] = q[f + k]
  <2>1. f + 1 \in Int /\ Len(q) \in Int /\ \A k \in (f + 1)..Len(q) : q[k] \in CallIds
    BY <1>3
  <2>2. /\ SubSeq(q, f + 1, Len(q)) \in Seq(CallIds)
        /\ Len(SubSeq(q, f + 1, Len(q))) = IF f + 1 <= Len(q) THEN Len(q) - (f + 1) + 1 ELSE 0
        /\ \A k \in 1..(Len(q) - (f + 1) + 1) : SubSeq(q, f + 1, Len(q))[k] = q[f + 1 + k - 1]
    BY SMTT(60), <2>1, SubSeqProperties
  <2> QED BY SMTT(60), <1>2, <1>3, <2>2
<1>8. \A i, j \in 1..Len(queue') : queue'[i] = queue'[j] => i = j
  <2> SUFFICES ASSUME NEW i \in 1..Len(queue'), NEW j \in 1..Len(queue'), queue'[i] = queue'[j]
               PROVE  i = j
    OBVIOUS
  <2>1. f + i \in 1..Len(q) /\ f + j \in 1..Len(q) /\ q[f + i] = q[f + j]
    BY <1>3, <1>7
  <2>2. f + i = f + j
    BY <2>1 DEF QueueInv
  <2> QED BY <1>3, <1>7, <2>2
<1>9. \A c \in CallIds : InQueue(c, queue') <=> InQueue(c, q) /\ c \notin g
  <2> TAKE c \in CallIds
  <2>1. ASSUME InQueue(c, queue')
        PROVE  InQueue(c, q) /\ c \notin g
    <3>1. PICK i \in 1..Len(queue') : queue'[i] = c
      BY <2>1 DEF InQueue
    <3>2. f + i \in 1..Len(q) /\ q[f + i] = c
      BY <1>3, <1>7, <3>1
    <3>3. \A k \in 1..f : k \in 1..Len(q) /\ k # f + i
      BY <1>3, <1>7
    <3>4. c \notin g
      BY SMTT(60), <1>1, <3>2, <3>3 DEF QueueInv
    <3> QED BY <3>2, <3>4 DEF InQueue
  <2>2. ASSUME InQueue(c, q), c \notin g
        PROVE  InQueue(c, queue')
    <3>1. PICK k \in 1..Len(q) : q[k] = c
      BY <2>2 DEF InQueue
    <3>2. ~(k \in 1..f)
      BY <1>1, <2>2, <3>1
    <3>3. k - f \in 1..(Len(q) - f) /\ f + (k - f) = k
      BY <1>3, <3>2
    <3> QED BY ZenonT(60), <1>7, <3>1, <3>3 DEF InQueue
  <2> QED BY <2>1, <2>2
<1>10. at' \in [CallIds -> Place] /\ \A c \in CallIds : at'[c] = IF c \in g THEN "granted" ELSE moved[c]
  BY <1>2 DEF Place
<1>11. QueueInv(at, queue)'
  <2>1. \A c \in CallIds : at'[c] = "waiting" <=> InQueue(c, queue')
    BY <1>9, <1>10 DEF QueueInv
  <2>2. \A c \in CallIds : at'[c] = "waiting" => Size'[c] <= Limit
    BY <1>10 DEF QueueInv
  <2> QED BY <1>8, <2>1, <2>2 DEF QueueInv, InQueue
<1>12. OwedInv(at, answer, owed, signals)'
  BY <1>2, <1>4, <1>10 DEF OwedInv
<1>13. HeadInv'
  <2> SUFFICES ASSUME queue' # <<>> PROVE cur' > 0 /\ cur' + Size[Head(queue')] > Limit
    BY DEF HeadInv
  <2>1. Len(queue') \in Nat \ {0} /\ Head(queue') = queue'[1]
    BY <1>7, EmptySeq, LenProperties, HeadTailProperties
  <2>2. f < Len(q) /\ f + 1 \in 1..Len(q) /\ Head(queue') = q[f + 1]
    BY SMTT(60), <1>3, <1>7, <2>1
  <2>3. cur' + Size[Head(queue')] > Limit
    BY <1>1, <1>2, <2>2
  <2>4. PICK s \in Nat : s = Size[Head(queue')] /\ s <= Limit
    <3>1. q[f + 1] \in CallIds /\ InQueue(q[f + 1], q)
      BY <1>3, <2>2 DEF InQueue
    <3> QED BY <2>2, <3>1 DEF QueueInv, TypeOK
  <2>5. cur' \in Nat
    BY <1>1, <1>2
  <2> QED BY <1>3, <2>3, <2>4, <2>5
<1>14. cur' = Total(owed)' /\ cur' <= Limit
  BY <1>1, <1>2, <1>6 DEF Total
<1>15. FlowInv'
  BY ZenonT(60), <1>11, <1>12, <1>13, <1>14 DEF FlowInv
<1>16. cur' \in Nat /\ owed' \in SUBSET CallIds
  BY <1>1, <1>2
<1>17. \A c \in CallIds : at'[c] = moved[c] \/ (moved[c] = "waiting" /\ at'[c] = "granted")
  BY <1>4, <1>10
<1> QED BY ZenonT(60), <1>7, <1>10, <1>15, <1>16, <1>17

-------------------------------------------------------------------------------
(* What steps of other kinds keep.                                         *)

\* A call that holds no reservation, waits for none and looks at no answer may move.
LEMMA FlowKept ==
  ASSUME TypeOK, FlowInv, UNCHANGED <<Size, cur, owed, signals, queue>>,
         \A c \in CallIds :
            \/ at'[c] = at[c] /\ answer'[c] = answer[c]
            \/ /\ c \notin signals
               /\ at[c] \notin {"waiting", "granted", "register", "respond"}
               /\ at'[c] \notin {"waiting", "granted", "register", "respond"}
  PROVE  FlowInv'
<1>1. OwedInv(at, answer, owed, signals)'
  BY DEF FlowInv, OwedInv
<1>2. QueueInv(at, queue)'
  BY DEF FlowInv, QueueInv, InQueue
<1>3. cur' = Total(owed)' /\ cur' <= Limit /\ HeadInv'
  BY DEF FlowInv, Total, HeadInv
<1> QED BY ZenonT(60), <1>1, <1>2, <1>3 DEF FlowInv

\* Between StreamBegin and its end a streaming call stays counted in.
LEMMA StreamKept ==
  ASSUME TypeOK, StreamInv, UNCHANGED <<err, group, wait>>,
         \A c \in CallIds :
            /\ \/ at'[c] = at[c]
               \/ c \notin Stream
               \/ /\ at[c] \notin {"idle", "refused", "recorded", "done"}
                  /\ at'[c] \notin {"idle", "refused", "recorded", "done"}
            /\ answer'[c] = answer[c] \/ answer[c] = "open"
  PROVE  StreamInv'
<1>1. Stream \subseteq CallIds /\ wait.before \subseteq Stream
  BY DEF TypeOK, CallIds
<1> QED BY <1>1 DEF StreamInv

-------------------------------------------------------------------------------
(* The actions.                                                            *)

\* gotResponse gives back what the call reserved, if it did, and makes room for others.
LEMMA GotResponseKeeps ==
  ASSUME FlowAssumption, TypeOK, FlowInv, Size' = Size, NEW c \in CallIds, at[c] # "waiting",
         NEW where \in {"returned", "register"},
         c \notin signals', \A d \in CallIds : d # c => (d \in signals' <=> d \in signals) /\ answer'[d] = answer[d],
         GotResponse(c, where)
  PROVE  /\ FlowInv'
         /\ cur' \in Nat /\ owed' \in SUBSET CallIds /\ queue' \in Seq(CallIds) /\ at' \in [CallIds -> Place]
         /\ \A d \in CallIds : \/ at'[d] = at[d]
                               \/ d = c /\ at'[d] = where
                               \/ at[d] = "waiting" /\ at'[d] = "granted"
<1> DEFINE moved == [at EXCEPT ![c] = where]
           owing == owed \ {c}
<1>1. moved \in [CallIds -> Place] /\ \A d \in CallIds : moved[d] = IF d = c THEN where ELSE at[d]
  BY DEF TypeOK, Place
<1> HIDE DEF moved
<1>2. QueueInv(moved, queue)
  BY <1>1 DEF FlowInv, QueueInv
<1>3. OwedInv(moved, answer', owing, signals')
  BY <1>1 DEF FlowInv, OwedInv
<1>4. CASE c \in owed
  <2>1. Granting(cur - Size[c], owing, queue, moved)
    BY <1>4 DEF GotResponse, moved
  <2>2. IsFiniteSet(owed) /\ IsFiniteSet(owing) /\ (\A d \in owed : Size[d] \in Nat) /\ Size[c] \in Nat
    BY FS_Subset DEF FlowAssumption, TypeOK
  <2>3. Total(owed) = Size[c] + Total(owing) /\ Total(owing) \in Nat
    BY SMTT(60), <1>4, <2>2, SumRemove, SumType DEF Total
  <2>4. cur - Size[c] \in Nat /\ cur - Size[c] = Total(owing) /\ cur - Size[c] <= Limit
    BY <2>2, <2>3 DEF FlowInv, TypeOK, FlowAssumption
  <2>5. owing \in SUBSET CallIds /\ queue \in Seq(CallIds)
    BY DEF TypeOK
  <2> DEFINE n == cur - Size[c]
  <2> HIDE DEF owing, n
  <2>6. Granting(n, owing, queue, moved) /\ n \in Nat /\ n = Total(owing) /\ n <= Limit
    BY SMTT(60), <2>1, <2>4 DEF n
  <2>7. /\ FlowInv'
        /\ cur' \in Nat /\ owed' \in SUBSET CallIds /\ queue' \in Seq(CallIds) /\ at' \in [CallIds -> Place]
        /\ \A d \in CallIds : at'[d] = moved[d] \/ (moved[d] = "waiting" /\ at'[d] = "granted")
    BY <1>1, <1>2, <1>3, <2>5, <2>6, GrantingKeeps
  <2> QED BY ZenonT(60), <1>1, <2>7
<1>5. CASE c \notin owed
  <2>1. at' = moved /\ UNCHANGED <<cur, owed, queue>>
    BY <1>5 DEF GotResponse, Move, moved
  <2>2. owing = owed
    BY <1>5
  <2>3. OwedInv(at, answer, owed, signals)'
    BY <1>3, <2>1, <2>2
  <2>4. QueueInv(at, queue)'
    BY <1>2, <2>1 DEF QueueInv
  <2>5. cur' = Total(owed)' /\ cur' <= Limit /\ HeadInv'
    BY <2>1 DEF FlowInv, Total, HeadInv
  <2>6. FlowInv'
    BY ZenonT(60), <2>3, <2>4, <2>5 DEF FlowInv
  <2>7. cur' \in Nat /\ owed' \in SUBSET CallIds /\ queue' \in Seq(CallIds) /\ at' \in [CallIds -> Place]
    BY <1>1, <2>1 DEF TypeOK
  <2> QED BY ZenonT(60), <1>1, <2>1, <2>6, <2>7
<1> QED BY <1>4, <1>5

\* Respond: the goroutine found the answer there and gives back.
LEMMA RespondInv == ASSUME FlowAssumption, IInv, NEW c \in CallIds, Respond(c) PROVE IInv'
<1>1. TypeOK /\ FlowInv /\ StreamInv
  BY DEF IInv
<1>2. at[c] = "respond" /\ GotResponse(c, "returned") /\ UNCHANGED <<Size, answer, signals, err, group, wait>>
  BY DEF Respond
<1>3. c \notin signals
  BY <1>1, <1>2 DEF FlowInv, OwedInv
<1>4. /\ FlowInv'
      /\ cur' \in Nat /\ owed' \in SUBSET CallIds /\ queue' \in Seq(CallIds) /\ at' \in [CallIds -> Place]
      /\ \A d \in CallIds : \/ at'[d] = at[d]
                            \/ d = c /\ at'[d] = "returned"
                            \/ at[d] = "waiting" /\ at'[d] = "granted"
  BY <1>1, <1>2, <1>3, GotResponseKeeps
<1>5. TypeOK'
  BY ZenonT(60), <1>1, <1>2, <1>4 DEF TypeOK
<1>6. StreamInv'
  BY <1>1, <1>2, <1>4, StreamKept
<1> QED BY <1>4, <1>5, <1>6 DEF IInv

\* Answered: the promise runs gotResponse, if it was registered.
LEMMA AnsweredInv == ASSUME FlowAssumption, IInv, NEW c \in CallIds, Answered(c) PROVE IInv'
<1>1. TypeOK /\ FlowInv /\ StreamInv
  BY DEF IInv
<1>2. /\ answer[c] = "open" /\ signals' = signals \ {c} /\ UNCHANGED <<Size, err, group, wait>>
      /\ at[c] \notin {"idle", "refused", "begun", "sending"}
  BY DEF Answered
<1>3. PICK how \in {"ok", "failed"} : answer' = [answer EXCEPT ![c] = how]
  BY ZenonT(60) DEF Answered
<1>4. answer' \in [CallIds -> {"open", "ok", "failed"}] /\ \A d \in CallIds : answer'[d] = IF d = c THEN how ELSE answer[d]
  BY <1>1, <1>3 DEF TypeOK
<1>5. CASE c \in signals
  <2>1. at[c] = "returned" /\ GotResponse(c, "returned")
    BY <1>1, <1>5 DEF Answered, FlowInv, OwedInv
  <2>2. c \notin signals' /\ \A d \in CallIds : d # c => (d \in signals' <=> d \in signals) /\ answer'[d] = answer[d]
    BY <1>2, <1>4
  <2>3. /\ FlowInv'
        /\ cur' \in Nat /\ owed' \in SUBSET CallIds /\ queue' \in Seq(CallIds) /\ at' \in [CallIds -> Place]
        /\ \A d \in CallIds : \/ at'[d] = at[d]
                              \/ d = c /\ at'[d] = "returned"
                              \/ at[d] = "waiting" /\ at'[d] = "granted"
    BY <1>1, <1>2, <2>1, <2>2, GotResponseKeeps
  <2>4. signals' \in SUBSET CallIds
    BY <1>1, <1>2 DEF TypeOK
  <2>5. TypeOK'
    BY ZenonT(60), <1>1, <1>2, <1>4, <2>3, <2>4 DEF TypeOK
  <2>6. StreamInv'
    BY <1>1, <1>2, <1>4, <2>1, <2>3, StreamKept
  <2> QED BY SMTT(60), <2>3, <2>5, <2>6 DEF IInv
<1>6. CASE c \notin signals
  <2>1. UNCHANGED <<at, cur, owed, queue>> /\ signals' = signals
    BY <1>2, <1>6 DEF Answered
  <2>2. OwedInv(at, answer, owed, signals)'
    BY <1>1, <1>4, <1>6, <2>1 DEF FlowInv, OwedInv
  <2>3. QueueInv(at, queue)'
    BY SMTT(60), <1>1, <1>2, <2>1 DEF FlowInv, QueueInv, InQueue
  <2>4. cur' = Total(owed)' /\ cur' <= Limit /\ HeadInv'
    BY <1>1, <1>2, <2>1 DEF FlowInv, Total, HeadInv
  <2>5. FlowInv'
    BY ZenonT(60), <2>2, <2>3, <2>4 DEF FlowInv
  <2>6. TypeOK'
    BY ZenonT(60), <1>1, <1>2, <1>4, <2>1 DEF TypeOK
  <2>7. StreamInv'
    BY ZenonT(60), <1>1, <1>2, <1>4, <2>1, StreamKept
  <2> QED BY <2>5, <2>6, <2>7 DEF IInv
<1> QED BY <1>5, <1>6

\* A call moves on to register, with a reservation or without.
LEMMA MovedOnInv ==
  ASSUME IInv, NEW c \in CallIds, at[c] \in {"sent", "granted"}, Move(c, "register"),
         UNCHANGED <<Size, answer, cur, owed, signals, queue, err, group, wait>>
  PROVE  IInv'
<1>1. TypeOK /\ FlowInv /\ StreamInv
  BY ZenonT(60) DEF IInv
<1>2. at' \in [CallIds -> Place] /\ \A d \in CallIds : at'[d] = IF d = c THEN "register" ELSE at[d]
  BY <1>1 DEF TypeOK, Place, Move
<1>3. OwedInv(at, answer, owed, signals)'
  BY <1>1, <1>2 DEF FlowInv, OwedInv
<1>4. QueueInv(at, queue)'
  BY <1>1, <1>2 DEF FlowInv, QueueInv, InQueue
<1>5. cur' = Total(owed)' /\ cur' <= Limit /\ HeadInv'
  BY <1>1 DEF FlowInv, Total, HeadInv
<1>6. FlowInv'
  BY ZenonT(60), <1>3, <1>4, <1>5 DEF FlowInv
<1>7. StreamInv'
  BY ZenonT(60), <1>1, <1>2, StreamKept
<1>8. TypeOK'
  BY ZenonT(60), <1>1, <1>2 DEF TypeOK
<1> QED BY <1>6, <1>7, <1>8 DEF IInv

\* Woken: the call goes on with its reservation, or gives it back.
LEMMA WokenInv == ASSUME FlowAssumption, IInv, NEW c \in CallIds, Woken(c) PROVE IInv'
<1>1. TypeOK /\ FlowInv /\ StreamInv
  BY ZenonT(60) DEF IInv
<1>2. at[c] = "granted" /\ UNCHANGED <<Size, answer, signals, err, group, wait>>
  BY DEF Woken
<1>3. CASE Move(c, "register") /\ UNCHANGED <<cur, owed, queue>>
  BY <1>2, <1>3, MovedOnInv
<1>4. CASE GotResponse(c, "register")
  <2>1. c \notin signals
    BY <1>1, <1>2 DEF FlowInv, OwedInv
  <2>2. /\ FlowInv'
        /\ cur' \in Nat /\ owed' \in SUBSET CallIds /\ queue' \in Seq(CallIds) /\ at' \in [CallIds -> Place]
        /\ \A d \in CallIds : \/ at'[d] = at[d]
                              \/ d = c /\ at'[d] = "register"
                              \/ at[d] = "waiting" /\ at'[d] = "granted"
    BY <1>1, <1>2, <1>4, <2>1, GotResponseKeeps
  <2>3. TypeOK'
    BY ZenonT(60), <1>1, <1>2, <2>2 DEF TypeOK
  <2>4. StreamInv'
    BY <1>1, <1>2, <2>2, StreamKept
  <2> QED BY <2>2, <2>3, <2>4 DEF IInv
<1> QED BY <1>3, <1>4 DEF Woken

\* StartMessage: the message panics, is granted its room, or waits behind the others.
LEMMA StartMessageInv == ASSUME FlowAssumption, IInv, NEW c \in CallIds, StartMessage(c) PROVE IInv'
<1>1. TypeOK /\ FlowInv /\ StreamInv
  BY ZenonT(60) DEF IInv
<1>2. at[c] = "sent" /\ UNCHANGED <<Size, answer, signals, err, group, wait>>
  BY DEF StartMessage
<1>3. c \notin signals /\ c \notin owed /\ ~InQueue(c, queue)
  BY <1>1, <1>2 DEF FlowInv, OwedInv, QueueInv
<1>4. ASSUME NEW where \in {"panicked", "waiting", "register"}
      PROVE  /\ [at EXCEPT ![c] = where] \in [CallIds -> Place]
             /\ \A d \in CallIds : [at EXCEPT ![c] = where][d] = IF d = c THEN where ELSE at[d]
  BY <1>1 DEF TypeOK, Place
<1>5. CASE Move(c, "panicked") /\ UNCHANGED <<cur, owed, queue>>
  <2>1. at' \in [CallIds -> Place] /\ \A d \in CallIds : at'[d] = IF d = c THEN "panicked" ELSE at[d]
    BY <1>4, <1>5 DEF Move
  <2>2. FlowInv'
    BY ZenonT(60), <1>1, <1>2, <1>3, <1>5, <2>1, FlowKept
  <2>3. StreamInv'
    BY ZenonT(60), <1>1, <1>2, <2>1, StreamKept
  <2>4. TypeOK'
    BY ZenonT(60), <1>1, <1>2, <1>5, <2>1 DEF TypeOK
  <2> QED BY <2>2, <2>3, <2>4 DEF IInv
<1>6. CASE /\ cur + Size[c] <= Limit /\ queue = <<>>
           /\ Granting(cur + Size[c], owed \cup {c}, queue, [at EXCEPT ![c] = "register"])
  <2> DEFINE moved == [at EXCEPT ![c] = "register"]
             n == cur + Size[c]
             owing == owed \cup {c}
  <2>1. moved \in [CallIds -> Place] /\ \A d \in CallIds : moved[d] = IF d = c THEN "register" ELSE at[d]
    BY <1>4
  <2>2. IsFiniteSet(owed) /\ (\A d \in owed : Size[d] \in Nat) /\ Size[c] \in Nat
    BY SMTT(60), <1>1, FS_Subset DEF FlowAssumption, TypeOK
  <2>3. n = Total(owing) /\ n \in Nat /\ n <= Limit
    <3>1. Total(owing) = Size[c] + Total(owed)
      BY <1>3, <2>2, SumAdd DEF Total
    <3> QED BY SMTT(60), <1>1, <1>6, <2>2, <3>1 DEF FlowInv, TypeOK
  <2>4. owing \in SUBSET CallIds /\ queue \in Seq(CallIds)
    BY SMTT(60), <1>1 DEF TypeOK
  <2> HIDE DEF moved
  <2>5. QueueInv(moved, queue)
    BY ZenonT(60), <1>1, <1>3, <2>1 DEF FlowInv, QueueInv
  <2>6. OwedInv(moved, answer', owing, signals')
    BY <1>1, <1>2, <1>3, <2>1 DEF FlowInv, OwedInv
  <2>7. Granting(n, owing, queue, moved)
    BY <1>6 DEF moved
  <2> HIDE DEF n, owing
  <2>8. /\ FlowInv'
        /\ cur' \in Nat /\ owed' \in SUBSET CallIds /\ queue' \in Seq(CallIds) /\ at' \in [CallIds -> Place]
        /\ \A d \in CallIds : at'[d] = moved[d] \/ (moved[d] = "waiting" /\ at'[d] = "granted")
    BY ZenonT(60), <1>1, <1>2, <2>1, <2>3, <2>4, <2>5, <2>6, <2>7, GrantingKeeps
  <2>9. StreamInv'
    BY ZenonT(60), <1>1, <1>2, <2>1, <2>8, StreamKept
  <2>10. TypeOK'
    BY ZenonT(60), <1>1, <1>2, <2>8 DEF TypeOK
  <2> QED BY <2>8, <2>9, <2>10 DEF IInv
<1>7. CASE /\ Size[c] <= Limit /\ (cur + Size[c] > Limit \/ queue # <<>>)
           /\ Move(c, "waiting") /\ queue' = Append(queue, c) /\ UNCHANGED <<cur, owed>>
  <2>1. at' \in [CallIds -> Place] /\ \A d \in CallIds : at'[d] = IF d = c THEN "waiting" ELSE at[d]
    BY <1>4, <1>7 DEF Move
  <2>2. /\ queue' \in Seq(CallIds) /\ Len(queue') = Len(queue) + 1 /\ Len(queue) \in Nat
        /\ \A i \in 1..Len(queue) : queue'[i] = queue[i]
        /\ queue'[Len(queue) + 1] = c
    BY SMTT(60), <1>1, <1>7, AppendProperties, LenProperties DEF TypeOK
  <2>3. \A i \in 1..Len(queue') : i \in 1..Len(queue) \/ i = Len(queue) + 1
    BY <2>2
  <2>4. \A i \in 1..Len(queue) : queue[i] # c
    BY SMTT(60), <1>3 DEF InQueue
  <2>5. \A i, j \in 1..Len(queue') : queue'[i] = queue'[j] => i = j
    BY SMTT(60), <1>1, <2>2, <2>3, <2>4 DEF FlowInv, QueueInv
  <2>6. \A d \in CallIds : InQueue(d, queue') <=> InQueue(d, queue) \/ d = c
    BY <2>2, <2>3 DEF InQueue
  <2>7. QueueInv(at, queue)'
    <3>1. \A d \in CallIds : at'[d] = "waiting" <=> InQueue(d, queue')
      BY ZenonT(60), <1>1, <2>1, <2>6 DEF FlowInv, QueueInv
    <3>2. \A d \in CallIds : at'[d] = "waiting" => Size'[d] <= Limit
      BY <1>1, <1>2, <1>7, <2>1 DEF FlowInv, QueueInv
    <3> QED BY SMTT(60), <2>5, <3>1, <3>2 DEF QueueInv, InQueue
  <2>8. OwedInv(at, answer, owed, signals)'
    BY ZenonT(60), <1>1, <1>2, <1>3, <1>7, <2>1 DEF FlowInv, OwedInv
  <2>9. HeadInv'
    <3>1. Head(queue') = IF queue = <<>> THEN c ELSE Head(queue)
      <4>1. Head(queue') = queue'[1]
        BY <2>2
      <4>2. CASE queue = <<>>
        BY <2>2, <4>1, <4>2
      <4>3. CASE queue # <<>>
        <5>1. Len(queue) \in Nat \ {0} /\ Head(queue) = queue[1]
          BY <1>1, <4>3, EmptySeq DEF TypeOK
        <5> QED BY SMTT(60), <2>2, <4>1, <4>3, <5>1
      <4> QED BY <4>2, <4>3
    <3>2. Size[c] \in Nat /\ cur \in Nat /\ Limit \in Nat
      BY SMTT(60), <1>1 DEF TypeOK, FlowAssumption
    <3> QED BY SMTT(60), <1>1, <1>2, <1>7, <3>1, <3>2 DEF FlowInv, HeadInv
  <2>10. cur' = Total(owed)' /\ cur' <= Limit
    BY <1>1, <1>2, <1>7 DEF FlowInv, Total
  <2>11. FlowInv'
    BY ZenonT(60), <2>7, <2>8, <2>9, <2>10 DEF FlowInv
  <2>12. StreamInv'
    BY ZenonT(60), <1>1, <1>2, <2>1, StreamKept
  <2>13. TypeOK'
    BY ZenonT(60), <1>1, <1>2, <1>7, <2>1, <2>2 DEF TypeOK
  <2> QED BY <2>11, <2>12, <2>13 DEF IInv
<1>8. CASE Move(c, "register") /\ UNCHANGED <<cur, owed, queue>>
  BY <1>1, <1>2, <1>8, MovedOnInv
<1> QED BY ZenonT(60), <1>5, <1>6, <1>7, <1>8 DEF StartMessage

\* Cancelled: a call gives up waiting, and those behind the head get their chance.
LEMMA CancelledInv == ASSUME FlowAssumption, IInv, NEW c \in CallIds, Cancelled(c) PROVE IInv'
<1>1. TypeOK /\ FlowInv /\ StreamInv
  BY ZenonT(60) DEF IInv
<1>2. at[c] = "waiting" /\ UNCHANGED <<Size, answer, signals, err, group, wait>>
  BY DEF Cancelled
<1>3. PICK k \in 1..Len(queue) :
         /\ queue[k] = c
         /\ \/ k = 1 /\ cur < Limit /\ Granting(cur, owed, Dequeued(queue, k), [at EXCEPT ![c] = "register"])
            \/ /\ k # 1 \/ cur >= Limit
               /\ queue' = Dequeued(queue, k) /\ Move(c, "register") /\ UNCHANGED <<cur, owed>>
  BY DEF Cancelled
<1> DEFINE moved == [at EXCEPT ![c] = "register"]
           rest == Dequeued(queue, k)
<1>4. moved \in [CallIds -> Place] /\ \A d \in CallIds : moved[d] = IF d = c THEN "register" ELSE at[d]
  BY <1>1 DEF TypeOK, Place
<1>5. /\ rest \in Seq(CallIds) /\ Len(rest) = Len(queue) - 1 /\ Len(queue) \in Nat
      /\ \A j \in 1..Len(rest) : rest[j] = IF j < k THEN queue[j] ELSE queue[j + 1]
  <2>1. queue \in Seq(CallIds)
    BY <1>1 DEF TypeOK
  <2>2. Len(queue) \in Nat
    BY <2>1, LenProperties
  <2>3. /\ rest \in Seq(CallIds) /\ Len(rest) = Len(queue) - 1
        /\ \A j \in 1..(Len(queue) - 1) : rest[j] = IF j < k THEN queue[j] ELSE queue[j + 1]
    BY ZenonT(60), <2>1, WithoutProperties DEF Dequeued
  <2> HIDE DEF rest
  <2> QED BY <2>2, <2>3
<1>6. (\/ k = 1 /\ Granting(cur, owed, rest, moved)
       \/ (k # 1 \/ cur >= Limit) /\ queue' = rest /\ at' = moved /\ UNCHANGED <<cur, owed>>)
  BY <1>3 DEF Move
<1> HIDE DEF moved, rest
<1>7. \A i, j \in 1..Len(rest) : rest[i] = rest[j] => i = j
  <2> SUFFICES ASSUME NEW i \in 1..Len(rest), NEW j \in 1..Len(rest), rest[i] = rest[j]
               PROVE  i = j
    OBVIOUS
  <2> DEFINE a == IF i < k THEN i ELSE i + 1
             b == IF j < k THEN j ELSE j + 1
  <2>1. a \in 1..Len(queue) /\ b \in 1..Len(queue) /\ queue[a] = rest[i] /\ queue[b] = rest[j]
    BY <1>5
  <2>2. a = b
    BY <1>1, <2>1 DEF FlowInv, QueueInv
  <2> QED BY <1>5, <2>2
<1>8. \A d \in CallIds : InQueue(d, rest) <=> InQueue(d, queue) /\ d # c
  <2> TAKE d \in CallIds
  <2>1. ASSUME InQueue(d, rest)
        PROVE  InQueue(d, queue) /\ d # c
    <3>1. PICK j \in 1..Len(rest) : rest[j] = d
      BY <2>1 DEF InQueue
    <3> DEFINE b == IF j < k THEN j ELSE j + 1
    <3>2. b \in 1..Len(queue) /\ queue[b] = d /\ b # k
      BY SMTT(60), <1>5, <3>1
    <3> HIDE DEF b
    <3>3. d # c
      BY <1>1, <1>3, <3>2 DEF FlowInv, QueueInv
    <3> QED BY <3>2, <3>3 DEF InQueue
  <2>2. ASSUME InQueue(d, queue), d # c
        PROVE  InQueue(d, rest)
    <3>1. PICK b \in 1..Len(queue) : queue[b] = d
      BY <2>2 DEF InQueue
    <3>2. b # k
      BY <1>3, <2>2, <3>1
    <3> DEFINE j == IF b < k THEN b ELSE b - 1
    <3>3. j \in 1..Len(rest) /\ rest[j] = d
      <4>1. CASE b < k
        BY <1>5, <3>1, <4>1
      <4>2. CASE b > k
        <5>1. b - 1 \in 1..Len(rest) /\ ~(b - 1 < k) /\ (b - 1) + 1 = b
          BY <1>5, <4>2
        <5> QED BY <1>5, <3>1, <4>2, <5>1
      <4> QED BY <3>2, <4>1, <4>2
    <3> QED BY <3>3 DEF InQueue
  <2> QED BY <2>1, <2>2
<1>9. QueueInv(moved, rest)
  BY ZenonT(60), <1>1, <1>4, <1>7, <1>8 DEF FlowInv, QueueInv
<1>10. OwedInv(moved, answer', owed, signals')
  BY <1>1, <1>2, <1>4 DEF FlowInv, OwedInv
<1>11. CASE k = 1 /\ Granting(cur, owed, rest, moved)
  <2>1. cur \in Nat /\ owed \in SUBSET CallIds /\ cur = Total(owed) /\ cur <= Limit
    BY ZenonT(60), <1>1 DEF TypeOK, FlowInv
  <2>2. /\ FlowInv'
        /\ cur' \in Nat /\ owed' \in SUBSET CallIds /\ queue' \in Seq(CallIds) /\ at' \in [CallIds -> Place]
        /\ \A d \in CallIds : at'[d] = moved[d] \/ (moved[d] = "waiting" /\ at'[d] = "granted")
    BY ZenonT(60), <1>1, <1>2, <1>4, <1>5, <1>9, <1>10, <1>11, <2>1, GrantingKeeps
  <2>3. StreamInv'
    BY ZenonT(60), <1>1, <1>2, <1>4, <2>2, StreamKept
  <2>4. TypeOK'
    BY ZenonT(60), <1>1, <1>2, <2>2 DEF TypeOK
  <2> QED BY <2>2, <2>3, <2>4 DEF IInv
<1>12. CASE (k # 1 \/ cur >= Limit) /\ queue' = rest /\ at' = moved /\ UNCHANGED <<cur, owed>>
  <2>1. OwedInv(at, answer, owed, signals)' /\ QueueInv(at, queue)'
    BY <1>2, <1>9, <1>10, <1>12 DEF QueueInv
  <2>2. ASSUME queue' # <<>>, k # 1
        PROVE  Head(queue') = Head(queue)
    <3>1. Len(queue) > 1 /\ Len(rest) > 0 /\ rest[1] = queue[1]
      BY <1>5, <2>2
    <3>2. queue \in Seq(CallIds)
      BY <1>1 DEF TypeOK
    <3>3. queue # <<>> /\ rest # <<>>
      BY <3>1
    <3>4. Head(queue) = queue[1] /\ Head(rest) = rest[1]
      BY <1>5, <3>2, <3>3
    <3> QED BY <1>12, <3>1, <3>3, <3>4
  <2>3. queue # <<>> /\ cur \in Nat /\ Limit \in Nat
    BY <1>1, <1>3 DEF TypeOK, FlowAssumption
  <2>4. cur' = Total(owed)' /\ cur' <= Limit /\ HeadInv'
    BY <1>1, <1>2, <1>12, <2>2, <2>3 DEF FlowInv, Total, HeadInv
  <2>5. FlowInv'
    BY ZenonT(60), <2>1, <2>4 DEF FlowInv
  <2>6. StreamInv'
    BY ZenonT(60), <1>1, <1>2, <1>4, <1>12, StreamKept
  <2>7. TypeOK'
    BY ZenonT(60), <1>1, <1>2, <1>4, <1>5, <1>12 DEF TypeOK
  <2> QED BY <2>5, <2>6, <2>7 DEF IInv
<1> QED BY <1>6, <1>11, <1>12

\* Register: under the promise's lock, either the signal is added or the answer is seen.
LEMMA RegisterInv == ASSUME IInv, NEW c \in CallIds, Register(c) PROVE IInv'
<1>1. TypeOK /\ FlowInv /\ StreamInv
  BY ZenonT(60) DEF IInv
<1>2. at[c] = "register" /\ UNCHANGED <<Size, answer, cur, owed, queue, err, group, wait>>
  BY DEF Register
<1>3. PICK where \in {"returned", "respond"} :
         /\ at' = [at EXCEPT ![c] = where]
         /\ \/ where = "returned" /\ answer[c] = "open" /\ signals' = signals \cup {c}
            \/ where = "respond" /\ answer[c] # "open" /\ signals' = signals
  BY DEF Register, Move
<1>4. /\ at' \in [CallIds -> Place] /\ signals' \in SUBSET CallIds
      /\ \A d \in CallIds : at'[d] = IF d = c THEN where ELSE at[d]
  BY <1>1, <1>3 DEF TypeOK, Place
<1>5. OwedInv(at, answer, owed, signals)'
  BY SMTT(60), <1>1, <1>2, <1>3, <1>4 DEF FlowInv, OwedInv
<1>6. QueueInv(at, queue)'
  BY <1>1, <1>2, <1>4 DEF FlowInv, QueueInv, InQueue
<1>7. cur' = Total(owed)' /\ cur' <= Limit /\ HeadInv'
  BY <1>1, <1>2 DEF FlowInv, Total, HeadInv
<1>8. FlowInv'
  BY ZenonT(60), <1>5, <1>6, <1>7 DEF FlowInv
<1>9. StreamInv'
  BY ZenonT(60), <1>1, <1>2, <1>4, StreamKept
<1>10. TypeOK'
  BY ZenonT(60), <1>1, <1>2, <1>4 DEF TypeOK
<1> QED BY <1>8, <1>9, <1>10 DEF IInv

\* SendCall and HookSend: the call has nothing to do with the limiter yet.
LEMMA SendInv == ASSUME IInv, NEW c \in CallIds, SendCall(c) \/ HookSend(c) PROVE IInv'
<1>1. TypeOK /\ FlowInv /\ StreamInv
  BY ZenonT(60) DEF IInv
<1>2. UNCHANGED <<Size, cur, owed, signals, queue, err, group, wait>>
  BY DEF SendCall, HookSend
<1>3. at[c] \in {"idle", "begun", "sending"} /\ (c \in Stream => at[c] # "idle")
  BY DEF SendCall, HookSend
<1>4. PICK where \in {"returned", "sending", "sent"} : at' = [at EXCEPT ![c] = where]
  BY DEF SendCall, HookSend, Move
<1>5. at' \in [CallIds -> Place] /\ \A d \in CallIds : at'[d] = IF d = c THEN where ELSE at[d]
  BY <1>1, <1>4 DEF TypeOK, Place
<1>6. /\ answer' \in [CallIds -> {"open", "ok", "failed"}]
      /\ \A d \in CallIds : answer'[d] = answer[d] \/ (d = c /\ SendCall(c) /\ answer'[c] = "failed")
  BY ZenonT(60), <1>1 DEF TypeOK, SendCall, HookSend
<1>7. c \notin signals
  BY <1>1, <1>3 DEF FlowInv, OwedInv
<1>8. FlowInv'
  BY ZenonT(60), <1>1, <1>2, <1>3, <1>5, <1>6, <1>7, FlowKept
<1>9. StreamInv'
  <2>1. Stream \subseteq CallIds /\ wait.before \subseteq Stream
    BY <1>1 DEF TypeOK, CallIds
  <2>2. \A d \in Stream : d = c => at[d] \in {"begun", "sending"}
    BY <1>3
  <2> QED BY ZenonT(60), <1>1, <1>2, <1>5, <1>6, <2>1, <2>2 DEF StreamInv
<1>10. TypeOK'
  BY ZenonT(60), <1>1, <1>2, <1>5, <1>6 DEF TypeOK
<1> QED BY <1>8, <1>9, <1>10 DEF IInv

\* SendStreamCall and its goroutine: counted in, the error recorded, counted out.
LEMMA StreamStepInv ==
  ASSUME FlowAssumption, IInv, NEW c \in CallIds, StreamBegin(c) \/ StreamFailed(c) \/ StreamDone(c)
  PROVE  IInv'
<1>1. TypeOK /\ FlowInv /\ StreamInv
  BY ZenonT(60) DEF IInv
<1>2. UNCHANGED <<Size, answer, cur, owed, signals, queue, wait>> /\ c \in Stream
  BY ZenonT(60) DEF StreamBegin, StreamFailed, StreamDone
<1>3. PICK where \in {"refused", "begun", "recorded", "done"} : at' = [at EXCEPT ![c] = where]
  BY ZenonT(60) DEF StreamBegin, StreamFailed, StreamDone, Move
<1>4. at' \in [CallIds -> Place] /\ \A d \in CallIds : at'[d] = IF d = c THEN where ELSE at[d]
  BY ZenonT(60), <1>1, <1>3 DEF TypeOK, Place
<1>5. at[c] \in {"idle", "recorded"} \/ (at[c] = "returned" /\ answer[c] # "open")
  BY ZenonT(60) DEF StreamBegin, StreamFailed, StreamDone
<1>6. c \notin signals
  BY <1>1, <1>5 DEF FlowInv, OwedInv
<1>7. FlowInv'
  BY ZenonT(60), <1>1, <1>2, <1>4, <1>5, <1>6, FlowKept
<1>8. Stream \subseteq CallIds /\ wait.before \subseteq Stream /\ None \notin CallIds
  BY <1>1 DEF TypeOK, CallIds, FlowAssumption
<1>9. CASE StreamBegin(c)
  <2>1. /\ at[c] = "idle" /\ err' = err
        /\ \/ where = "refused" /\ group' = group
           \/ where = "begun" /\ group' = group \cup {c}
    BY ZenonT(60), <1>1, <1>4, <1>9 DEF StreamBegin, Move, TypeOK
  <2>2. StreamInv'
    BY ZenonT(60), <1>1, <1>2, <1>4, <1>8, <2>1 DEF StreamInv
  <2>3. err' \in CallIds \cup {None} /\ group' \in SUBSET CallIds
    BY <1>1, <2>1 DEF TypeOK
  <2>4. TypeOK'
    BY ZenonT(60), <1>1, <1>2, <1>4, <2>3 DEF TypeOK
  <2> QED BY <1>7, <2>2, <2>4 DEF IInv
<1>10. CASE StreamFailed(c)
  <2>1. at[c] = "returned" /\ err' = c /\ where = "recorded" /\ group' = group
    BY ZenonT(60), <1>1, <1>4, <1>10 DEF StreamFailed, Move, TypeOK
  <2>2. StreamInv'
    BY ZenonT(60), <1>1, <1>2, <1>4, <1>8, <2>1 DEF StreamInv
  <2>3. err' \in CallIds \cup {None} /\ group' \in SUBSET CallIds
    BY ZenonT(60), <1>1, <2>1 DEF TypeOK
  <2>4. TypeOK'
    BY ZenonT(60), <1>1, <1>2, <1>4, <2>3 DEF TypeOK
  <2> QED BY <1>7, <2>2, <2>4 DEF IInv
<1>11. CASE StreamDone(c)
  <2>1. /\ at[c] = "recorded" \/ (at[c] = "returned" /\ answer[c] = "ok")
        /\ err' = err /\ where = "done" /\ group' = group \ {c}
    BY ZenonT(60), <1>1, <1>4, <1>11 DEF StreamDone, Move, TypeOK
  <2>2. StreamInv'
    BY ZenonT(60), <1>1, <1>2, <1>4, <1>8, <2>1 DEF StreamInv
  <2>3. err' \in CallIds \cup {None} /\ group' \in SUBSET CallIds
    BY SMTT(60), <1>1, <2>1 DEF TypeOK
  <2>4. TypeOK'
    BY ZenonT(60), <1>1, <1>2, <1>4, <2>3 DEF TypeOK
  <2> QED BY <1>7, <2>2, <2>4 DEF IInv
<1> QED BY <1>9, <1>10, <1>11

\* WaitStreaming: it passes when every call begun before it has been counted out, and
\* reads the error after that.
LEMMA WaitInv == ASSUME IInv, WaitStreaming \/ WaitOver \/ WaitReturns PROVE IInv'
<1>1. TypeOK /\ FlowInv /\ StreamInv
  BY ZenonT(60) DEF IInv
<1>2. UNCHANGED <<Size, at, answer, cur, owed, signals, queue, err, group>>
  BY ZenonT(60) DEF WaitStreaming, WaitOver, WaitReturns
<1>3. FlowInv'
  BY ZenonT(60), <1>1, <1>2, FlowKept
<1>4. Stream \subseteq CallIds /\ wait.before \subseteq Stream
  BY <1>1 DEF TypeOK, CallIds
<1>5. wait' \in [at : {"idle", "waiting", "reading", "done"}, before : SUBSET Stream, got : CallIds \cup {None}]
  BY ZenonT(60), <1>1 DEF WaitStreaming, WaitOver, WaitReturns, TypeOK
<1>6. TypeOK'
  BY ZenonT(60), <1>1, <1>2, <1>5 DEF TypeOK
<1>7. CASE WaitStreaming
  <2>1. wait'.at = "waiting" /\ wait'.before = {c \in Stream : at[c] \notin {"idle", "refused"}}
    BY ZenonT(60), <1>1, <1>7 DEF WaitStreaming, TypeOK
  <2> QED BY ZenonT(60), <1>1, <1>2, <1>3, <1>6, <2>1 DEF IInv, StreamInv
<1>8. CASE WaitOver
  <2>1. wait'.at = "reading" /\ wait'.before = wait.before /\ group = {}
    BY ZenonT(60), <1>1, <1>8 DEF WaitOver, TypeOK
  <2> QED BY ZenonT(60), <1>1, <1>2, <1>3, <1>4, <1>6, <2>1 DEF IInv, StreamInv
<1>9. CASE WaitReturns
  <2>1. wait'.at = "done" /\ wait'.before = wait.before /\ wait'.got = err /\ wait.at = "reading"
    BY <1>1, <1>9 DEF WaitReturns, TypeOK
  <2> QED BY ZenonT(60), <1>1, <1>2, <1>3, <1>4, <1>6, <2>1 DEF IInv, StreamInv
<1> QED BY <1>7, <1>8, <1>9

-------------------------------------------------------------------------------
(* The theorems.                                                           *)

\* No call has been made: nothing is reserved and nobody waits.
LEMMA InitInv == ASSUME FlowAssumption, CallsInit PROVE IInv
<1>1. TypeOK
  <2>1. Size \in [CallIds -> Nat]
    BY DEF CallsInit, FlowAssumption
  <2>2. /\ at \in [CallIds -> Place] /\ answer \in [CallIds -> {"open", "ok", "failed"}] /\ cur \in Nat
        /\ owed \in SUBSET CallIds /\ signals \in SUBSET CallIds /\ queue \in Seq(CallIds)
        /\ err \in CallIds \cup {None} /\ group \in SUBSET CallIds
    BY SMTT(60) DEF CallsInit, Place
  <2>3. wait \in [at : {"idle", "waiting", "reading", "done"}, before : SUBSET Stream, got : CallIds \cup {None}]
    BY DEF CallsInit
  <2> QED BY ZenonT(60), <2>1, <2>2, <2>3 DEF TypeOK
<1>2. Total(owed) = 0 /\ Limit \in Nat
  BY SumEmpty DEF CallsInit, Total, FlowAssumption
<1>3. \A c \in CallIds : at[c] = "idle"
  BY DEF CallsInit
<1>4. FlowInv
  <2>1. QueueInv(at, queue)
    <3>1. queue = <<>> /\ Len(queue) = 0
      BY DEF CallsInit
    <3>2. 1..Len(queue) = {}
      BY <3>1
    <3> QED BY <1>3, <3>2 DEF QueueInv, InQueue
  <2>2. OwedInv(at, answer, owed, signals)
    BY <1>3 DEF CallsInit, OwedInv
  <2>3. cur = Total(owed) /\ cur <= Limit /\ queue = <<>>
    BY <1>2 DEF CallsInit
  <2> QED BY ZenonT(60), <2>1, <2>2, <2>3 DEF FlowInv, HeadInv
<1>5. StreamInv
  BY ZenonT(60), <1>3 DEF CallsInit, StreamInv, CallIds
<1> QED BY <1>1, <1>4, <1>5 DEF IInv

\* Every action keeps the invariant.
LEMMA NextInv == ASSUME FlowAssumption, IInv, [CallsNext]_callsVars PROVE IInv'
<1>1. CASE UNCHANGED callsVars
  <2>1. UNCHANGED <<Size, at, answer, cur, owed, signals, queue, err, group, wait>>
    BY <1>1 DEF callsVars
  <2>2. TypeOK'
    BY ZenonT(60), <2>1 DEF IInv, TypeOK
  <2>3. FlowInv'
    BY ZenonT(60), <2>1, FlowKept DEF IInv
  <2>4. StreamInv'
    BY ZenonT(60), <2>1, StreamKept DEF IInv
  <2> QED BY <2>2, <2>3, <2>4 DEF IInv
<1>2. ASSUME NEW c \in CallIds, StreamBegin(c) \/ Step(c) \/ Cancelled(c) \/ Answered(c)
      PROVE  IInv'
  BY ZenonT(60), <1>2, SendInv, StartMessageInv, WokenInv, RegisterInv, RespondInv, StreamStepInv, CancelledInv, AnsweredInv
     DEF Step
<1>3. CASE WaitStreaming \/ WaitOver \/ WaitReturns
  BY <1>3, WaitInv
<1> QED BY ZenonT(60), <1>1, <1>2, <1>3 DEF CallsNext

\* The books of the limiter, of the promises' signals and of the streaming calls agree.
THEOREM FlowInvariant == ASSUME FlowAssumption PROVE CallsSpec => []IInv
<1>1. CallsInit => IInv
  BY InitInv
<1>2. IInv /\ [CallsNext]_callsVars => IInv'
  BY NextInv
<1> QED BY <1>1, <1>2, PTL DEF CallsSpec

\* What the fixed limiter holds is what unanswered calls reserved, within the limit:
\* SendCall gives back every reservation, whether the answer comes before StartMessage,
\* before the signal is registered or after it.
THEOREM ReservationsReturned == ASSUME FlowAssumption PROVE CallsSpec => []ReservedUntilAnswered
<1>1. IInv => ReservedUntilAnswered
  <2> SUFFICES ASSUME IInv PROVE ReservedUntilAnswered
    OBVIOUS
  <2>1. cur = Total(owed) /\ cur <= Limit /\ owed \in SUBSET CallIds /\ OwedInv(at, answer, owed, signals)
    BY DEF IInv, TypeOK, FlowInv
  <2>2. \A c \in owed : answer[c] = "open" \/ at[c] \in {"granted", "register", "respond"}
    BY ZenonT(60), <2>1 DEF OwedInv
  <2> QED BY <2>1, <2>2 DEF ReservedUntilAnswered
<1> QED BY <1>1, FlowInvariant, PTL

\* A call in StartMessage waits only while others hold room that they will give back,
\* whoever is cancelled, answered or granted in between, messages of size zero included.
THEOREM WaitsAreNeeded == ASSUME FlowAssumption PROVE CallsSpec => []WaitsOnlyForAnswers
<1>1. IInv => WaitsOnlyForAnswers
  <2> SUFFICES ASSUME IInv, queue # <<>>
               PROVE  /\ cur + Size[Head(queue)] > Limit \/ cur = Limit
                      /\ owed # {}
                      /\ \A c \in owed : c \in signals \/ at[c] \in {"granted", "register", "respond"}
    BY DEF WaitsOnlyForAnswers
  <2>1. /\ owed \in SUBSET CallIds /\ OwedInv(at, answer, owed, signals) /\ cur = Total(owed)
        /\ cur > 0 /\ (cur + Size[Head(queue)] > Limit \/ cur = Limit)
    BY ZenonT(60) DEF IInv, TypeOK, FlowInv, HeadInv
  <2>2. owed # {}
    <3> SUFFICES ASSUME owed = {} PROVE FALSE
      OBVIOUS
    <3>1. Total(owed) = 0
      BY SumEmpty DEF Total
    <3> QED BY <2>1, <3>1
  <2> QED BY <2>1, <2>2 DEF OwedInv
<1> QED BY <1>1, FlowInvariant, PTL

\* WaitStreaming returns no error only when every streaming call begun before it was
\* answered with success: the goroutine of SendStreamCall records before it counts out.
THEOREM StreamFailureSeen == ASSUME FlowAssumption PROVE CallsSpec => []WaitSeesFailure
<1>1. IInv => WaitSeesFailure
  BY ZenonT(60) DEF IInv, StreamInv, WaitSeesFailure
<1> QED BY <1>1, FlowInvariant, PTL

-------------------------------------------------------------------------------
(* The BBR limiter.                                                        *)

LimiterTypes ==
  /\ message \in [Messages -> {"idle", "asking", "refused", "inflight", "acking", "answered"}]
  /\ sent \in Int /\ delivered \in Int /\ packetsInflight \in Int /\ running \in BOOLEAN

LimiterInv == LimiterTypes /\ InflightIsOutstanding

\* The messages in flight are finitely many, each with a size.
LEMMA InFlightFinite ==
  ASSUME BbrAssumption
  PROVE  /\ IsFiniteSet(InFlight) /\ Cardinality(InFlight) \in Nat
         /\ \A m \in InFlight : MessageSize[m] \in Nat
         /\ SumFunctionOnSet(MessageSize, InFlight) \in Nat
<1>1. InFlight \subseteq Messages /\ IsFiniteSet(Messages)
  BY Zenon DEF InFlight, BbrAssumption
<1>2. IsFiniteSet(InFlight) /\ Cardinality(InFlight) \in Nat
  BY <1>1, FS_Subset, FS_CardinalityType
<1>3. \A m \in InFlight : MessageSize[m] \in Nat
  BY <1>1 DEF BbrAssumption
<1> QED BY <1>2, <1>3, SumType

\* A message that is granted adds its size and one packet to what is in flight.
LEMMA GrantedStep ==
  ASSUME BbrAssumption, LimiterInv, NEW m \in Messages, DoSend(m)
  PROVE  LimiterInv'
<1>1. /\ LimiterTypes' /\ running' = running
      /\ InFlight' = InFlight \cup {m} /\ m \notin InFlight
      /\ sent' = sent + MessageSize[m] /\ delivered' = delivered /\ packetsInflight' = packetsInflight + 1
  BY SMTT(60) DEF LimiterInv, LimiterTypes, BbrAssumption, DoSend, MoveMessage, InFlight
<1>2. /\ SumFunctionOnSet(MessageSize, InFlight \cup {m}) = MessageSize[m] + SumFunctionOnSet(MessageSize, InFlight)
      /\ Cardinality(InFlight \cup {m}) = Cardinality(InFlight) + 1
      /\ MessageSize[m] \in Nat
  <2>1. MessageSize[m] \in Nat
    BY DEF BbrAssumption
  <2>2. Cardinality(InFlight \cup {m}) = Cardinality(InFlight) + 1
    BY <1>1, InFlightFinite, FS_AddElement
  <2> QED BY <1>1, <2>1, <2>2, InFlightFinite, SumAdd
<1>3. running => /\ sent = delivered + SumFunctionOnSet(MessageSize, InFlight)
                 /\ packetsInflight = Cardinality(InFlight)
  BY Zenon DEF LimiterInv, InflightIsOutstanding
<1>4. running' => /\ sent' = delivered' + SumFunctionOnSet(MessageSize, InFlight')
                  /\ packetsInflight' = Cardinality(InFlight')
  BY <1>1, <1>2, <1>3, InFlightFinite DEF LimiterInv, LimiterTypes
<1> QED BY Zenon, <1>1, <1>4 DEF LimiterInv, InflightIsOutstanding

\* An acknowledged message takes its size and one packet from what is in flight.
LEMMA AcknowledgedStep ==
  ASSUME BbrAssumption, LimiterInv, NEW m \in Messages, OnAck(m)
  PROVE  LimiterInv'
<1>1. /\ LimiterTypes' /\ running' = running
      /\ InFlight' = InFlight \ {m} /\ m \in InFlight
      /\ delivered' = delivered + MessageSize[m] /\ sent' = sent /\ packetsInflight' = packetsInflight - 1
  <2>1. /\ message[m] = "acking" /\ message' = [message EXCEPT ![m] = "answered"] /\ running' = running
        /\ delivered' = delivered + MessageSize[m] /\ sent' = sent /\ packetsInflight' = packetsInflight - 1
    BY DEF OnAck, MoveMessage
  <2> QED BY <2>1 DEF LimiterInv, LimiterTypes, BbrAssumption, InFlight
<1>2. /\ SumFunctionOnSet(MessageSize, InFlight) = MessageSize[m] + SumFunctionOnSet(MessageSize, InFlight \ {m})
      /\ Cardinality(InFlight \ {m}) = Cardinality(InFlight) - 1
      /\ MessageSize[m] \in Nat
      /\ SumFunctionOnSet(MessageSize, InFlight \ {m}) \in Nat
  <2>1. MessageSize[m] \in Nat /\ SumFunctionOnSet(MessageSize, InFlight') \in Nat
    <3>1. IsFiniteSet(InFlight \ {m}) /\ \A k \in InFlight \ {m} : MessageSize[k] \in Nat
      BY SMTT(60), InFlightFinite, FS_RemoveElement
    <3> QED BY <1>1, <3>1, SumType DEF BbrAssumption
  <2>2. Cardinality(InFlight \ {m}) = Cardinality(InFlight) - 1
    BY SMTT(60), <1>1, InFlightFinite, FS_RemoveElement
  <2> QED BY <1>1, <2>1, <2>2, InFlightFinite, SumRemove
<1>3. running => /\ sent = delivered + SumFunctionOnSet(MessageSize, InFlight)
                 /\ packetsInflight = Cardinality(InFlight)
  BY Zenon DEF LimiterInv, InflightIsOutstanding
<1>4. running' => /\ sent' = delivered' + SumFunctionOnSet(MessageSize, InFlight')
                  /\ packetsInflight' = Cardinality(InFlight')
  BY <1>1, <1>2, <1>3, InFlightFinite DEF LimiterInv, LimiterTypes
<1> QED BY Zenon, <1>1, <1>4 DEF LimiterInv, InflightIsOutstanding

\* While the limiter runs, what was sent and not delivered is what is in flight,
\* in bytes and in packets (Limiter.doSend, Limiter.onAck), for any messages, so
\* that the unsigned differences never wrap.
THEOREM CountersExact ==
  ASSUME BbrAssumption
  PROVE  BbrSpec => []InflightIsOutstanding
<1>1. BbrInit => LimiterInv
  <2> SUFFICES ASSUME BbrInit PROVE LimiterInv
    OBVIOUS
  <2>1. LimiterTypes /\ InFlight = {} /\ sent = 0 /\ delivered = 0 /\ packetsInflight = 0
    BY DEF BbrInit, LimiterTypes, InFlight
  <2> QED BY <2>1, SumEmpty, FS_EmptySet DEF LimiterInv, InflightIsOutstanding
<1>2. LimiterInv /\ [BbrNext]_bbrVars => LimiterInv'
  <2> SUFFICES ASSUME LimiterInv, [BbrNext]_bbrVars PROVE LimiterInv'
    OBVIOUS
  <2>1. ASSUME LimiterTypes', InFlight' = InFlight, UNCHANGED counters, running' => running PROVE LimiterInv'
    BY Zenon, <2>1 DEF LimiterInv, InflightIsOutstanding, counters
  <2>2. ASSUME NEW m \in Messages, BbrStartMessage(m) \/ BbrCancel(m) \/ BbrGotResponse(m) PROVE LimiterInv'
    BY <2>1, <2>2 DEF BbrStartMessage, BbrCancel, BbrGotResponse, MoveMessage, LimiterInv, LimiterTypes, InFlight, counters
  <2>3. ASSUME NEW m \in Messages, Stopped(m) PROVE LimiterInv'
    BY <2>3 DEF Stopped, MoveMessage, LimiterInv, LimiterTypes, InflightIsOutstanding, counters
  <2>4. ASSUME NEW m \in Messages, SendRequest(m) PROVE LimiterInv'
    BY <2>4, GrantedStep DEF SendRequest
  <2>5. ASSUME NEW m \in Messages, OnAck(m) PROVE LimiterInv'
    BY <2>5, AcknowledgedStep
  <2>6. CASE TimeToSend
    <3>1. ASSUME UNCHANGED <<message, counters, bbrStateVars, running>> PROVE LimiterInv'
      BY <2>1, <3>1 DEF LimiterInv, LimiterTypes, InFlight, counters
    <3> QED BY <2>6, <3>1, GrantedStep DEF TimeToSend, Asking
  <2>7. CASE ReleaseLimiter
    BY ZenonT(60), <2>1, <2>7 DEF ReleaseLimiter, LimiterInv, LimiterTypes, InFlight, counters
  <2>8. CASE UNCHANGED bbrVars
    BY <2>1, <2>8 DEF bbrVars, LimiterInv, LimiterTypes, InFlight, counters
  <2> QED BY Zenon, <2>2, <2>3, <2>4, <2>5, <2>6, <2>7, <2>8 DEF BbrNext
<1>3. LimiterInv => InflightIsOutstanding
  BY DEF LimiterInv
<1> QED BY <1>1, <1>2, <1>3, PTL DEF BbrSpec

===============================================================================
