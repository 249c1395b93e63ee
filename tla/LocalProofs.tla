------------------------------ MODULE LocalProofs ------------------------------
(***************************************************************************)
(* Two parts that other packages rely on without a message being sent: the *)
(* promise with its queue of pipelined calls, and the ID generator.        *)
(*                                                                         *)
(* Calls on a promise are delivered in the order in which they were made,  *)
(* and none is answered twice, for any callers and any number of calls.    *)
(* Every call made is at one place: with the goroutine that makes it, in   *)
(* the queue, or answered.  A call that has returned is in the queue or    *)
(* answered, so that a call made afterwards is queued behind it, or does   *)
(* not wait in the queue at all; and whoever does not wait in the queue is *)
(* delivered only when the queue has been drained for good.                *)
(*                                                                         *)
(* idgen implements IdPool for any word size and any number of IDs: the    *)
(* bit set of the IDs given back holds exactly the numbers below idgen.i   *)
(* that nobody holds, and min finds the least of them.                     *)
(***************************************************************************)
EXTENDS Promise, IdGen, WellFoundedInduction, TLAPS

-------------------------------------------------------------------------------
(* The promise.                                                            *)

Queued(c) == \E k \in DOMAIN q : q[k].call = c

Places == {"idle", "hook", "queue", "base", "resolved"}

Types ==
  /\ on \in Seq(Nat) /\ caller \in Seq(Callers) /\ basis \in Seq(Int) /\ before \in Seq(SUBSET Nat)
  /\ Len(caller) = Len(on) /\ Len(basis) = Len(on) /\ Len(before) = Len(on)
  /\ \A c \in Made : on[c] \in 0..Len(on)
  /\ doing \in [Callers -> [at : Places, call : Nat]]
  /\ q \in Seq([call : Nat, basis : Int])
  /\ outcome \in Seq([call : Nat, to : Int])

\* The queue has been drained, and nothing is queued any more.
Emptied == resolver \in {"clients", "signal", "release", "done"}

\* How far the promise is resolved.
StageInv ==
  /\ bases \in Nat
  /\ bases = 0 <=> resolver \in {"start", "queue"}
  /\ Emptied => q = <<>>
  /\ ready /\ ~fails => Emptied
  /\ state = "resolved" => Emptied
  /\ clients = "fulfilled" => Emptied

\* A call is at one place.
PlaceInv ==
  /\ \A g \in Callers : doing[g] # Idle =>
       /\ doing[g].call \in Made /\ caller[doing[g].call] = g
       /\ ~Queued(doing[g].call) /\ ~Done(doing[g].call)
  /\ \A c \in Made : Returned(c) => Queued(c) \/ Done(c)
  /\ \A k \in DOMAIN q : q[k].call \in Made /\ ~Done(q[k].call)
  /\ \A k, j \in DOMAIN q : q[k].call = q[j].call => k = j
  /\ \A k \in DOMAIN outcome : outcome[k].call \in Made

\* Before a call come calls that have returned; they are ahead of it in the queue.
BeforeInv ==
  /\ \A c \in Made : \A d \in before[c] : d \in Made /\ Returned(d)
  /\ \A j \in DOMAIN q : \A d \in before[q[j].call] :
       Done(d) \/ \E k \in DOMAIN q : k < j /\ q[k].call = d

Order == Types /\ PlaceInv /\ BeforeInv /\ InOrder
IInv == StageInv /\ Order

-------------------------------------------------------------------------------
(* Sequences and calls.                                                    *)

\* The length of a sequence bounds its domain.
LEMMA LenFacts ==
  ASSUME NEW S, NEW s \in Seq(S)
  PROVE  Len(s) \in Nat /\ DOMAIN s = 1..Len(s) /\ \A k \in DOMAIN s : s[k] \in S
OBVIOUS

\* What is appended is at the one new index.
LEMMA AppendFacts ==
  ASSUME NEW S, NEW s \in Seq(S), NEW x \in S
  PROVE  /\ Append(s, x) \in Seq(S)
         /\ Len(Append(s, x)) = Len(s) + 1
         /\ DOMAIN Append(s, x) = DOMAIN s \cup {Len(s) + 1}
         /\ Len(s) + 1 \notin DOMAIN s
         /\ \A k \in DOMAIN s : Append(s, x)[k] = s[k] /\ k < Len(s) + 1 /\ k \in Nat
         /\ Append(s, x)[Len(s) + 1] = x
OBVIOUS

\* What is behind the head moves up by one.
LEMMA TailFacts ==
  ASSUME NEW S, NEW s \in Seq(S), s # <<>>
  PROVE  /\ Tail(s) \in Seq(S)
         /\ 1 \in DOMAIN s /\ Head(s) = s[1]
         /\ \A k \in DOMAIN Tail(s) : k \in Nat /\ k + 1 \in DOMAIN s /\ k + 1 # 1 /\ Tail(s)[k] = s[k + 1]
         /\ \A k \in DOMAIN s : k # 1 => k - 1 \in DOMAIN Tail(s) /\ Tail(s)[k - 1] = s[k]
OBVIOUS

\* A sequence of which an element is replaced keeps its length.
LEMMA ExceptFacts ==
  ASSUME NEW S, NEW s \in Seq(S), NEW c, NEW x \in S
  PROVE  [s EXCEPT ![c] = x] \in Seq(S) /\ Len([s EXCEPT ![c] = x]) = Len(s)
<1> DEFINE t == [s EXCEPT ![c] = x]
<1>1. Len(s) \in Nat /\ s \in [1..Len(s) -> S]
  OBVIOUS
<1>2. t \in [1..Len(s) -> S]
  BY ZenonT(60), <1>1
<1> HIDE DEF t
<1>3. t \in Seq(S) /\ Len(t) = Len(s)
  BY <1>1, <1>2
<1> QED BY <1>3 DEF t

\* The calls made are numbered from one, and each has a caller and calls before it.
LEMMA MadeFacts ==
  ASSUME Types
  PROVE  /\ Len(on) \in Nat /\ Made = 1..Len(on) /\ 0 \notin Made
         /\ DOMAIN caller = Made /\ DOMAIN basis = Made /\ DOMAIN before = Made
         /\ \A c \in Made : caller[c] \in Callers
BY DEF Types, Made

\* A goroutine that makes a call is not idle, as calls are numbered from one.
LEMMA NotIdle ==
  ASSUME Types, NEW g \in Callers, doing[g].at # "idle"
  PROVE  doing[g] # Idle
BY DEF Idle

\* NewCall numbers the call, and notes the calls that have returned.
LEMMA NewCallFacts ==
  ASSUME Types, NEW g \in Callers, NEW t \in 0..Len(on), NewCall(g, t)
  PROVE  /\ on' \in Seq(Nat) /\ caller' \in Seq(Callers) /\ basis' \in Seq(Int) /\ before' \in Seq(SUBSET Nat)
         /\ Len(caller') = Len(on') /\ Len(basis') = Len(on') /\ Len(before') = Len(on')
         /\ \A c \in Made' : on'[c] \in 0..Len(on')
         /\ Made' = Made \cup {Len(on) + 1} /\ Len(on) + 1 \notin Made
         /\ \A c \in Made : caller'[c] = caller[c] /\ before'[c] = before[c]
         /\ caller'[Len(on) + 1] = g
         /\ before'[Len(on) + 1] = {c \in Made : Returned(c)}
         /\ doing[g] = Idle
<1>1. /\ on \in Seq(Nat) /\ caller \in Seq(Callers) /\ basis \in Seq(Int) /\ before \in Seq(SUBSET Nat)
      /\ Len(caller) = Len(on) /\ Len(basis) = Len(on) /\ Len(before) = Len(on)
      /\ \A c \in Made : on[c] \in 0..Len(on)
  BY Zenon DEF Types
<1>2. /\ on' = Append(on, t) /\ caller' = Append(caller, g) /\ basis' = Append(basis, NotQueued)
      /\ before' = Append(before, {c \in Made : Returned(c)}) /\ doing[g] = Idle
  BY Zenon DEF NewCall
<1>3. t \in Nat /\ NotQueued \in Int /\ {c \in Made : Returned(c)} \in SUBSET Nat /\ Len(on) \in Nat
  BY MadeFacts DEF NotQueued
<1>4. /\ on' \in Seq(Nat) /\ Len(on') = Len(on) + 1 /\ DOMAIN on' = DOMAIN on \cup {Len(on) + 1}
      /\ Len(on) + 1 \notin DOMAIN on /\ (\A c \in DOMAIN on : on'[c] = on[c]) /\ on'[Len(on) + 1] = t
  BY <1>1, <1>2, <1>3, AppendFacts
<1>5. /\ caller' \in Seq(Callers) /\ Len(caller') = Len(on) + 1
      /\ (\A c \in DOMAIN caller : caller'[c] = caller[c]) /\ caller'[Len(on) + 1] = g
  BY <1>1, <1>2, AppendFacts
<1>6. basis' \in Seq(Int) /\ Len(basis') = Len(on) + 1
  BY <1>1, <1>2, <1>3, AppendFacts
<1>7. /\ before' \in Seq(SUBSET Nat) /\ Len(before') = Len(on) + 1
      /\ (\A c \in DOMAIN before : before'[c] = before[c])
      /\ before'[Len(on) + 1] = {c \in Made : Returned(c)}
  BY <1>1, <1>2, <1>3, AppendFacts
<1>8. \A c \in Made' : on'[c] \in 0..Len(on')
  <2>1. \A x \in 0..Len(on) : x \in 0..(Len(on) + 1)
    BY <1>3
  <2> QED BY Zenon, <1>1, <1>4, <2>1 DEF Made
<1> QED BY Zenon, <1>2, <1>4, <1>5, <1>6, <1>7, <1>8, MadeFacts DEF Made

-------------------------------------------------------------------------------
(* What a step does to the calls.                                          *)

\* The goroutine that resolves, or calls Client, leaves the calls alone.
LEMMA QuietStep ==
  ASSUME Order, UNCHANGED <<callVars, doing, q, outcome>>
  PROVE  Order'
<1>1. /\ on' = on /\ caller' = caller /\ basis' = basis /\ before' = before
      /\ doing' = doing /\ q' = q /\ outcome' = outcome
  BY DEF callVars
<1>2. Made' = Made /\ \A c : (Queued(c)' <=> Queued(c)) /\ (Done(c)' <=> Done(c)) /\ (Returned(c)' <=> Returned(c))
  BY Zenon, <1>1 DEF Made, Queued, Done, Returned
<1>3. Types' /\ InOrder'
  BY <1>1, <1>2 DEF Order, Types, InOrder
<1>4. PlaceInv'
  BY Zenon, <1>1, <1>2 DEF Order, PlaceInv
<1>5. BeforeInv'
  BY <1>1, <1>2 DEF Order, BeforeInv
<1> QED BY Zenon, <1>3, <1>4, <1>5 DEF Order

\* A goroutine goes on with its call.
LEMMA MoveStep ==
  ASSUME Order, UNCHANGED <<callVars, q, outcome>>, NEW g \in Callers, NEW at \in Places, doing[g].at # "idle",
         Goto(g, at, doing[g].call)
  PROVE  Order'
<1>1. Types /\ PlaceInv /\ BeforeInv /\ InOrder
  BY Zenon DEF Order
<1>2. /\ on' = on /\ caller' = caller /\ basis' = basis /\ before' = before
      /\ q' = q /\ outcome' = outcome
  BY DEF callVars
<1>3. /\ doing' \in [Callers -> [at : Places, call : Nat]]
      /\ \A h \in Callers : doing'[h].call = doing[h].call
      /\ \A h \in Callers : h # g => doing'[h] = doing[h]
  BY <1>1 DEF Goto, Types
<1>4. doing[g] # Idle
  BY <1>1, NotIdle
<1>5. Types'
  BY Zenon, <1>1, <1>2, <1>3 DEF Types, Made
<1>6. Made' = Made /\ \A c : (Queued(c)' <=> Queued(c)) /\ (Done(c)' <=> Done(c))
  BY Zenon, <1>2 DEF Made, Queued, Done
<1>7. \A c : Returned(c)' <=> Returned(c)
  BY Zenon, <1>1, <1>2, <1>3, <1>6, MadeFacts DEF Returned
<1>8. PlaceInv'
  <2>1. ASSUME NEW h \in Callers, doing'[h] # Idle
        PROVE  /\ doing'[h].call \in Made' /\ caller'[doing'[h].call] = h
               /\ ~Queued(doing[h].call)' /\ ~Done(doing[h].call)'
    <3>1. doing[h] # Idle /\ doing'[h].call = doing[h].call
      BY Zenon, <1>3, <1>4, <2>1
    <3>2. /\ doing[h].call \in Made /\ caller[doing[h].call] = h
          /\ ~Queued(doing[h].call) /\ ~Done(doing[h].call)
      BY Zenon, <1>1, <3>1 DEF PlaceInv
    <3> QED BY Zenon, <1>2, <1>6, <3>1, <3>2 DEF Queued, Done
  <2>2. \A c \in Made' : Returned(c)' => Queued(c)' \/ Done(c)'
    BY Zenon, <1>1, <1>6, <1>7 DEF PlaceInv
  <2>3. /\ \A k \in DOMAIN q' : q'[k].call \in Made' /\ ~Done(q[k].call)'
        /\ \A k, j \in DOMAIN q' : q'[k].call = q'[j].call => k = j
        /\ \A k \in DOMAIN outcome' : outcome'[k].call \in Made'
    BY <1>1, <1>2, <1>6 DEF PlaceInv, Done
  <2> QED BY Zenon, <2>1, <2>2, <2>3 DEF PlaceInv
<1>9. BeforeInv'
  BY <1>1, <1>2, <1>6, <1>7 DEF BeforeInv
<1>10. InOrder'
  BY <1>1, <1>2 DEF InOrder
<1> QED BY Zenon, <1>5, <1>8, <1>9, <1>10 DEF Order

\* A goroutine makes a call that waits.
LEMMA MakeStep ==
  ASSUME Order, UNCHANGED <<q, outcome>>, NEW g \in Callers, NEW t \in 0..Len(on), NEW at \in Places,
         NewCall(g, t), Goto(g, at, Len(on) + 1)
  PROVE  Order'
<1>n. PICK n : n = Len(on) + 1
  OBVIOUS
<1>1. Types /\ PlaceInv /\ BeforeInv /\ InOrder
  BY Zenon DEF Order
<1>2. /\ Made' = Made \cup {n} /\ n \notin Made /\ 0 \notin Made /\ n \in Nat
      /\ \A c \in Made : caller'[c] = caller[c] /\ before'[c] = before[c] /\ caller[c] \in Callers
      /\ caller'[n] = g /\ before'[n] = {c \in Made : Returned(c)}
  BY <1>n, <1>1, NewCallFacts, MadeFacts
<1>3. /\ doing' \in [Callers -> [at : Places, call : Nat]]
      /\ doing'[g].call = n
      /\ \A h \in Callers : h # g => doing'[h] = doing[h]
      /\ doing[g].call = 0
  <2>1. doing \in [Callers -> [at : Places, call : Nat]] /\ doing[g] = Idle
    BY <1>1, NewCallFacts DEF Types
  <2> QED BY <1>n, <1>2, <2>1 DEF Goto, Idle
<1>4. Types'
  BY Zenon, <1>1, <1>3, NewCallFacts DEF Types
<1>5. \A c \in Made : Returned(c)' <=> Returned(c)
  <2>1. ASSUME NEW c \in Made PROVE doing'[caller'[c]].call # c <=> doing[caller[c]].call # c
    <3>1. CASE caller[c] = g
      BY ZenonT(60), <1>2, <1>3, <3>1
    <3>2. CASE caller[c] # g
      BY ZenonT(60), <1>2, <1>3, <3>2
    <3> QED BY Zenon, <3>1, <3>2
  <2> QED BY Zenon, <1>2, <2>1 DEF Returned
<1>6. ~Returned(n)'
  BY <1>2, <1>3 DEF Returned
<1>7. \A c : (Queued(c)' <=> Queued(c)) /\ (Done(c)' <=> Done(c))
  BY Zenon DEF Queued, Done
<1>8. ~Queued(n) /\ ~Done(n)
  BY <1>1, <1>2 DEF PlaceInv, Queued, Done
<1>9. PlaceInv'
  <2>1. ASSUME NEW h \in Callers, doing'[h] # Idle
        PROVE  /\ doing'[h].call \in Made' /\ caller'[doing'[h].call] = h
               /\ ~Queued(doing[h].call)' /\ ~Done(doing[h].call)'
    <3>1. CASE h = g
      BY Zenon, <1>2, <1>3, <1>8, <3>1 DEF Queued, Done
    <3>2. CASE h # g
      <4>1. doing'[h] = doing[h] /\ doing[h] # Idle
        BY Zenon, <1>3, <2>1, <3>2
      <4> QED BY <1>1, <1>2, <4>1 DEF PlaceInv, Queued, Done
    <3> QED BY Zenon, <3>1, <3>2
  <2>2. \A c \in Made' : Returned(c)' => Queued(c)' \/ Done(c)'
    BY <1>1, <1>2, <1>5, <1>6, <1>7 DEF PlaceInv
  <2> QED BY Zenon, <1>1, <1>2, <1>7, <2>1, <2>2 DEF PlaceInv
<1>10. BeforeInv'
  <2>1. ASSUME NEW c \in Made', NEW d \in before'[c] PROVE d \in Made' /\ Returned(d)'
    BY Zenon, <1>1, <1>2, <1>5, <2>1 DEF BeforeInv
  <2>2. \A j \in DOMAIN q : before'[q[j].call] = before[q[j].call]
    BY Zenon, <1>1, <1>2 DEF PlaceInv
  <2> QED BY <1>1, <1>7, <2>1, <2>2 DEF BeforeInv
<1>11. InOrder'
  <2>1. \A k \in DOMAIN outcome : before'[outcome[k].call] = before[outcome[k].call]
    BY Zenon, <1>1, <1>2 DEF PlaceInv
  <2> QED BY <1>1, <2>1 DEF InOrder
<1> QED BY Zenon, <1>4, <1>9, <1>10, <1>11 DEF Order

\* An answer is given once, and a delivery comes after the calls before it.
LEMMA DeliverFacts ==
  ASSUME Types, InOrder, NEW c \in Nat, NEW to \in Int, Deliver(c, to), ~Done(c),
         \A k \in DOMAIN outcome : before'[outcome[k].call] = before[outcome[k].call],
         to # Rejected => \A d \in before'[c] : Done(d)
  PROVE  /\ outcome' \in Seq([call : Nat, to : Int])
         /\ \A d : Done(d)' <=> Done(d) \/ d = c
         /\ \A k \in DOMAIN outcome' : outcome'[k].call = c \/ \E j \in DOMAIN outcome : outcome'[k].call = outcome[j].call
         /\ InOrder'
<1> DEFINE n == Len(outcome)
<1>1. /\ outcome \in Seq([call : Nat, to : Int]) /\ n \in Nat
      /\ DOMAIN outcome = 1..n
  BY LenFacts DEF Types
<1>2. /\ outcome' \in Seq([call : Nat, to : Int])
      /\ DOMAIN outcome' = 1..(n + 1)
      /\ \A k \in 1..n : outcome'[k] = outcome[k]
      /\ outcome'[n + 1].call = c /\ outcome'[n + 1].to = to
  BY <1>1 DEF Deliver
<1> HIDE DEF n
<1>3. \A k \in 1..(n + 1) : k \in 1..n \/ k = n + 1
  BY <1>1
<1>4. n + 1 \in 1..(n + 1) /\ \A k \in 1..n : k \in 1..(n + 1)
  BY <1>1
<1>5. \A d : Done(d)' <=> Done(d) \/ d = c
  BY ZenonT(60), <1>1, <1>2, <1>3, <1>4 DEF Done
<1>6. \A k, j \in DOMAIN outcome' : outcome'[k].call = outcome'[j].call => k = j
  <2>1. \A k, j \in 1..n : outcome[k].call = outcome[j].call => k = j
    BY Zenon, <1>1 DEF InOrder
  <2>2. \A k \in 1..n : outcome[k].call # c
    BY <1>1 DEF Done
  <2> QED BY <1>2, <1>3, <2>1, <2>2
<1>7. ASSUME NEW k \in DOMAIN outcome', outcome'[k].to # Rejected, NEW d \in before'[outcome'[k].call]
      PROVE  \E j \in 1..(k - 1) : outcome'[j].call = d
  <2>1. CASE k \in 1..n
    <3>1. outcome[k].to # Rejected /\ d \in before[outcome[k].call]
      BY <1>1, <1>2, <1>7, <2>1
    <3>2. PICK j \in 1..(k - 1) : outcome[j].call = d
      BY Zenon, <1>1, <2>1, <3>1 DEF InOrder
    <3>3. j \in 1..n
      BY <1>1, <2>1
    <3> QED BY <1>2, <3>2, <3>3
  <2>2. CASE k = n + 1
    <3>1. PICK j \in 1..n : outcome[j].call = d
      BY ZenonT(60), <1>1, <1>2, <1>7, <2>2 DEF Done
    <3>2. j \in 1..(k - 1)
      BY <1>1, <2>2
    <3> QED BY <1>2, <3>1, <3>2
  <2> QED BY <1>2, <1>3, <2>1, <2>2
<1>8. InOrder'
  BY <1>6, <1>7 DEF InOrder
<1> QED BY ZenonT(60), <1>1, <1>2, <1>3, <1>5, <1>8

\* The calls that have returned are answered when nothing is queued.
LEMMA NoneQueued ==
  ASSUME Order, q = <<>>
  PROVE  \A d \in Made : Returned(d) => Done(d)
BY DEF Order, PlaceInv, Queued

\* A goroutine makes a call that is answered at once: when the queue is drained.
LEMMA MakeDoneStep ==
  ASSUME Order, NEW g \in Callers, NEW t \in 0..Len(on), NEW to \in Int, NewCall(g, t),
         Deliver(Len(on) + 1, to), q = <<>>, q' = q, doing' = doing
  PROVE  Order'
<1>n. PICK n : n = Len(on) + 1
  OBVIOUS
<1>1. Types /\ PlaceInv /\ BeforeInv /\ InOrder
  BY Zenon DEF Order
<1>2. /\ Made' = Made \cup {n} /\ n \notin Made /\ n \in Nat
      /\ \A c \in Made : caller'[c] = caller[c] /\ before'[c] = before[c] /\ caller[c] \in Callers
      /\ caller'[n] = g /\ before'[n] = {c \in Made : Returned(c)}
  BY <1>n, <1>1, NewCallFacts, MadeFacts
<1>3. ~Done(n) /\ \A k \in DOMAIN outcome : before'[outcome[k].call] = before[outcome[k].call]
  BY <1>1, <1>2 DEF PlaceInv, Done
<1>4. \A d \in before'[n] : Done(d)
  BY <1>2, NoneQueued
<1>5. /\ outcome' \in Seq([call : Nat, to : Int])
      /\ \A d : Done(d)' <=> Done(d) \/ d = n
      /\ \A k \in DOMAIN outcome' : outcome'[k].call = n \/ \E j \in DOMAIN outcome : outcome'[k].call = outcome[j].call
      /\ InOrder'
  BY <1>n, <1>1, <1>2, <1>3, <1>4, DeliverFacts
<1>6. Types'
  BY Zenon, <1>1, <1>5, NewCallFacts DEF Types
<1>7. \A c \in Made : Returned(c)' <=> Returned(c)
  BY <1>2 DEF Returned
<1>8. \A c : ~Queued(c) /\ ~Queued(c)'
  BY DEF Queued
<1>9. PlaceInv'
  <2>1. ASSUME NEW h \in Callers, doing'[h] # Idle
        PROVE  /\ doing'[h].call \in Made' /\ caller'[doing'[h].call] = h
               /\ ~Queued(doing[h].call)' /\ ~Done(doing[h].call)'
    <3>1. /\ doing[h].call \in Made /\ caller[doing[h].call] = h /\ ~Done(doing[h].call)
      BY <1>1, <2>1 DEF PlaceInv
    <3>2. \A d : d = doing'[h].call => d \in Made /\ caller'[d] = h /\ ~Queued(d)' /\ ~Done(d)'
      BY <1>2, <1>5, <1>8, <3>1
    <3> QED BY <1>2, <3>2 DEF Queued, Done
  <2>2. \A c \in Made' : Returned(c)' => Queued(c)' \/ Done(c)'
    BY <1>2, <1>5, <1>7, NoneQueued
  <2>3. \A k \in DOMAIN outcome' : outcome'[k].call \in Made'
    <3>1. \A j \in DOMAIN outcome : outcome[j].call \in Made
      BY Zenon, <1>1 DEF PlaceInv
    <3> QED BY Zenon, <1>2, <1>5, <3>1
  <2>4. DOMAIN q' = {}
    OBVIOUS
  <2> QED BY Zenon, <2>1, <2>2, <2>3, <2>4 DEF PlaceInv
<1>10. BeforeInv'
  <2>1. ASSUME NEW c \in Made', NEW d \in before'[c] PROVE d \in Made' /\ Returned(d)'
    BY <1>1, <1>2, <1>7, <2>1 DEF BeforeInv
  <2>2. DOMAIN q' = {}
    OBVIOUS
  <2> QED BY Zenon, <2>1, <2>2 DEF BeforeInv
<1> QED BY Zenon, <1>5, <1>6, <1>9, <1>10 DEF Order

\* The call of a goroutine is answered: when the queue is drained, or by an error.
LEMMA AnswerStep ==
  ASSUME Order, NEW g \in Callers, NEW to \in Int, doing[g].at # "idle", Deliver(doing[g].call, to), Return(g),
         to # Rejected => q = <<>>, UNCHANGED <<callVars, q>>
  PROVE  Order'
<1>c. PICK c : c = doing[g].call
  OBVIOUS
<1>1. Types /\ PlaceInv /\ BeforeInv /\ InOrder
  BY Zenon DEF Order
<1>2. on' = on /\ caller' = caller /\ basis' = basis /\ before' = before /\ q' = q
  BY DEF callVars
<1>3. /\ doing' \in [Callers -> [at : Places, call : Nat]]
      /\ doing'[g] = Idle /\ doing'[g].call = 0
      /\ \A h \in Callers : h # g => doing'[h] = doing[h]
  BY <1>1 DEF Return, Types, Idle, Places
<1>4. c \in Made /\ caller[c] = g /\ ~Queued(c) /\ ~Done(c) /\ c \in Nat
  BY <1>c, <1>1, NotIdle, MadeFacts DEF PlaceInv
<1>5. to # Rejected => \A d \in before'[c] : Done(d)
  BY ZenonT(60), <1>1, <1>2, <1>4, NoneQueued DEF BeforeInv
<1>6. /\ outcome' \in Seq([call : Nat, to : Int])
      /\ \A d : Done(d)' <=> Done(d) \/ d = c
      /\ \A k \in DOMAIN outcome' : outcome'[k].call = c \/ \E j \in DOMAIN outcome : outcome'[k].call = outcome[j].call
      /\ InOrder'
  BY <1>c, <1>1, <1>2, <1>4, <1>5, DeliverFacts
<1>7. Made' = Made /\ 0 \notin Made /\ (\A d \in Made : caller[d] \in Callers) /\ \A d : Queued(d)' <=> Queued(d)
  BY <1>1, <1>2, MadeFacts DEF Made, Queued
<1>8. Types'
  BY Zenon, <1>1, <1>2, <1>3, <1>6, <1>7 DEF Types
<1>9. \A d \in Made : Returned(d)' <=> Returned(d) \/ d = c
  BY ZenonT(60), <1>c, <1>2, <1>3, <1>4, <1>7 DEF Returned
<1>10. PlaceInv'
  <2>1. ASSUME NEW h \in Callers, doing'[h] # Idle
        PROVE  /\ doing'[h].call \in Made' /\ caller'[doing'[h].call] = h
               /\ ~Queued(doing[h].call)' /\ ~Done(doing[h].call)'
    <3>1. h # g /\ doing'[h] = doing[h]
      BY <1>3, <2>1
    <3>2. /\ doing[h].call \in Made /\ caller[doing[h].call] = h
          /\ ~Queued(doing[h].call) /\ ~Done(doing[h].call)
      BY <1>1, <2>1, <3>1 DEF PlaceInv
    <3>3. \A d : d = doing'[h].call => d \in Made' /\ caller'[d] = h /\ ~Queued(d)' /\ ~Done(d)'
      BY <1>2, <1>4, <1>6, <1>7, <3>1, <3>2
    <3> QED BY <3>3 DEF Queued, Done
  <2>2. \A d \in Made' : Returned(d)' => Queued(d)' \/ Done(d)'
    BY Zenon, <1>1, <1>6, <1>7, <1>9 DEF PlaceInv
  <2>3. \A k \in DOMAIN q' : q'[k].call \in Made' /\ ~Done(q[k].call)'
    <3>1. ASSUME NEW k \in DOMAIN q PROVE \A d : d = q[k].call => d \in Made' /\ ~Done(d)'
      BY <1>1, <1>4, <1>6, <1>7 DEF PlaceInv, Queued
    <3> QED BY <1>2, <3>1 DEF Done
  <2>4. \A k, j \in DOMAIN q' : q'[k].call = q'[j].call => k = j
    BY Zenon, <1>1, <1>2 DEF PlaceInv
  <2>5. \A k \in DOMAIN outcome' : outcome'[k].call \in Made'
    <3>1. \A j \in DOMAIN outcome : outcome[j].call \in Made
      BY Zenon, <1>1 DEF PlaceInv
    <3> QED BY Zenon, <1>4, <1>6, <1>7, <3>1
  <2> QED BY Zenon, <2>1, <2>2, <2>3, <2>4, <2>5 DEF PlaceInv
<1>11. BeforeInv'
  <2>1. ASSUME NEW d \in Made', NEW e \in before'[d] PROVE e \in Made' /\ Returned(e)'
    BY <1>1, <1>2, <1>7, <1>9, <2>1 DEF BeforeInv
  <2>2. ASSUME NEW j \in DOMAIN q', NEW d \in before'[q'[j].call]
        PROVE  Done(d)' \/ \E k \in DOMAIN q' : k < j /\ q'[k].call = d
    BY <1>1, <1>2, <1>6, <2>2 DEF BeforeInv
  <2> QED BY Zenon, <2>1, <2>2 DEF BeforeInv
<1> QED BY Zenon, <1>6, <1>8, <1>10, <1>11 DEF Order

\* A call is queued behind all the others.
LEMMA EnqueueStep ==
  ASSUME Order, NEW g \in Callers, Enqueue(g)
  PROVE  Order'
<1>c. PICK c : c = doing[g].call
  OBVIOUS
<1> DEFINE e == [call |-> c, basis |-> BasisOf(c)]
<1>1. Types /\ PlaceInv /\ BeforeInv /\ InOrder
  BY Zenon DEF Order
<1>2. /\ on' = on /\ caller' = caller /\ before' = before /\ outcome' = outcome
      /\ basis' = [basis EXCEPT ![c] = Len(q)] /\ q' = Append(q, e) /\ Return(g) /\ doing[g].at # "idle"
  BY <1>c DEF Enqueue
<1>3. /\ doing' \in [Callers -> [at : Places, call : Nat]]
      /\ doing'[g] = Idle /\ doing'[g].call = 0
      /\ \A h \in Callers : h # g => doing'[h] = doing[h]
  BY <1>1, <1>2 DEF Return, Types, Idle, Places
<1>4. c \in Made /\ caller[c] = g /\ ~Queued(c) /\ ~Done(c) /\ c \in Nat
  BY <1>c, <1>1, <1>2, NotIdle, MadeFacts DEF PlaceInv
<1>5. /\ Made' = Made /\ 0 \notin Made /\ (\A d \in Made : caller[d] \in Callers)
      /\ \A d : Done(d)' <=> Done(d)
  BY <1>1, <1>2, MadeFacts DEF Made, Done
<1>6. BasisOf(c) \in Int
  <2>1. on[c] \in 0..Len(on) /\ basis \in Seq(Int) /\ DOMAIN basis = 1..Len(on) /\ Len(on) \in Nat
    BY <1>1, <1>4, MadeFacts DEF Types
  <2>2. on[c] # 0 => on[c] \in DOMAIN basis
    BY <2>1
  <2> QED BY <2>1, <2>2 DEF BasisOf, Root
<1>7. /\ q' \in Seq([call : Nat, basis : Int])
      /\ DOMAIN q' = DOMAIN q \cup {Len(q) + 1} /\ Len(q) + 1 \notin DOMAIN q
      /\ \A k \in DOMAIN q : q'[k] = q[k] /\ k < Len(q) + 1
      /\ q'[Len(q) + 1].call = c
  <2>1. q \in Seq([call : Nat, basis : Int]) /\ e \in [call : Nat, basis : Int] /\ e.call = c
    BY <1>1, <1>4, <1>6 DEF Types
  <2> HIDE DEF e
  <2> QED BY <1>2, <2>1, AppendFacts
<1> HIDE DEF e
<1>8. \A d : Queued(d)' <=> Queued(d) \/ d = c
  BY <1>7 DEF Queued
<1>9. Types'
  <2>1. basis' \in Seq(Int) /\ Len(basis') = Len(on)
    <3>1. basis \in Seq(Int) /\ Len(basis) = Len(on) /\ Len(q) \in Int
      BY <1>1, LenFacts DEF Types
    <3>2. [basis EXCEPT ![c] = Len(q)] \in Seq(Int) /\ Len([basis EXCEPT ![c] = Len(q)]) = Len(basis)
      BY ONLY <3>1, ExceptFacts
    <3> QED BY Zenon, <1>2, <3>1, <3>2
  <2> QED BY Zenon, <1>1, <1>2, <1>3, <1>5, <1>7, <2>1 DEF Types
<1>10. \A d \in Made : Returned(d)' <=> Returned(d) \/ d = c
  BY ZenonT(60), <1>c, <1>2, <1>3, <1>4, <1>5 DEF Returned
<1>11. PlaceInv'
  <2>1. ASSUME NEW h \in Callers, doing'[h] # Idle
        PROVE  /\ doing'[h].call \in Made' /\ caller'[doing'[h].call] = h
               /\ ~Queued(doing[h].call)' /\ ~Done(doing[h].call)'
    <3>1. h # g /\ doing'[h] = doing[h]
      BY <1>3, <2>1
    <3>2. /\ doing[h].call \in Made /\ caller[doing[h].call] = h
          /\ ~Queued(doing[h].call) /\ ~Done(doing[h].call)
      BY <1>1, <2>1, <3>1 DEF PlaceInv
    <3>3. \A d : d = doing'[h].call => d \in Made' /\ caller'[d] = h /\ ~Queued(d)' /\ ~Done(d)'
      BY <1>2, <1>4, <1>5, <1>8, <3>1, <3>2
    <3> QED BY <3>3 DEF Queued, Done
  <2>2. \A d \in Made' : Returned(d)' => Queued(d)' \/ Done(d)'
    BY <1>1, <1>5, <1>8, <1>10 DEF PlaceInv
  <2>3. \A k \in DOMAIN q' : q'[k].call \in Made' /\ ~Done(q[k].call)'
    <3>1. ASSUME NEW k \in DOMAIN q' PROVE \A d : d = q'[k].call => d \in Made' /\ ~Done(d)'
      BY <1>1, <1>4, <1>5, <1>7 DEF PlaceInv
    <3> QED BY <3>1 DEF Done
  <2>4. \A k, j \in DOMAIN q' : q'[k].call = q'[j].call => k = j
    BY <1>1, <1>4, <1>7 DEF PlaceInv, Queued
  <2>5. \A k \in DOMAIN outcome' : outcome'[k].call \in Made'
    BY <1>1, <1>2, <1>5 DEF PlaceInv
  <2> QED BY Zenon, <2>1, <2>2, <2>3, <2>4, <2>5 DEF PlaceInv
<1>12. BeforeInv'
  <2>1. ASSUME NEW d \in Made', NEW b \in before'[d] PROVE b \in Made' /\ Returned(b)'
    BY <1>1, <1>2, <1>5, <1>10, <2>1 DEF BeforeInv
  <2>2. ASSUME NEW j \in DOMAIN q', NEW d \in before'[q'[j].call]
        PROVE  Done(d)' \/ \E k \in DOMAIN q' : k < j /\ q'[k].call = d
    <3>1. CASE j \in DOMAIN q
      BY <1>1, <1>2, <1>5, <1>7, <2>2, <3>1 DEF BeforeInv
    <3>2. CASE j = Len(q) + 1
      <4>1. d \in Made /\ Returned(d)
        BY <1>1, <1>2, <1>4, <1>7, <2>2, <3>2 DEF BeforeInv
      <4>2. Queued(d) \/ Done(d)
        BY <1>1, <4>1 DEF PlaceInv
      <4> QED BY <1>5, <1>7, <3>2, <4>2 DEF Queued
    <3> QED BY <1>7, <3>1, <3>2
  <2> QED BY Zenon, <2>1, <2>2 DEF BeforeInv
<1>13. InOrder'
  BY <1>1, <1>2 DEF InOrder
<1> QED BY Zenon, <1>9, <1>11, <1>12, <1>13 DEF Order

\* The first call of the queue is answered.
LEMMA DrainStep ==
  ASSUME Order, NEW to \in Int, q # <<>>, Deliver(Head(q).call, to), q' = Tail(q), UNCHANGED <<callVars, doing>>
  PROVE  Order'
<1>c. PICK c : c = Head(q).call
  OBVIOUS
<1>1. Types /\ PlaceInv /\ BeforeInv /\ InOrder
  BY Zenon DEF Order
<1>2. on' = on /\ caller' = caller /\ basis' = basis /\ before' = before /\ doing' = doing
  BY DEF callVars
<1>3. /\ q' \in Seq([call : Nat, basis : Int]) /\ 1 \in DOMAIN q /\ c = q[1].call /\ DOMAIN q \subseteq Nat \ {0}
      /\ \A k \in DOMAIN q' : k \in Nat /\ k + 1 \in DOMAIN q /\ k + 1 # 1 /\ q'[k] = q[k + 1]
      /\ \A k \in DOMAIN q : k # 1 => k - 1 \in DOMAIN q' /\ q'[k - 1] = q[k]
  BY SMTT(60), <1>c, <1>1, TailFacts, LenFacts DEF Types
<1>4. c \in Made /\ ~Done(c) /\ Queued(c) /\ c \in Nat
  BY <1>1, <1>3, MadeFacts DEF PlaceInv, Queued
<1>5. \A d \in before'[c] : Done(d)
  <2>1. ASSUME NEW d \in before[c] PROVE Done(d) \/ \E k \in DOMAIN q : k < 1 /\ q[k].call = d
    BY <1>1, <1>3 DEF BeforeInv
  <2> QED BY <1>2, <1>3, <2>1
<1>6. /\ outcome' \in Seq([call : Nat, to : Int])
      /\ \A d : Done(d)' <=> Done(d) \/ d = c
      /\ \A k \in DOMAIN outcome' : outcome'[k].call = c \/ \E j \in DOMAIN outcome : outcome'[k].call = outcome[j].call
      /\ InOrder'
  BY <1>c, <1>1, <1>2, <1>4, <1>5, DeliverFacts
<1>7. Made' = Made /\ \A d : Returned(d)' <=> Returned(d)
  BY Zenon, <1>2 DEF Made, Returned
<1>8. \A d : /\ Queued(d)' => Queued(d) /\ d # c
             /\ Queued(d) => Queued(d)' \/ d = c
  <2>1. ASSUME NEW d, Queued(d)' PROVE Queued(d) /\ d # c
    BY <1>1, <1>3, <2>1 DEF Queued, PlaceInv
  <2>2. ASSUME NEW d, Queued(d) PROVE Queued(d)' \/ d = c
    BY ZenonT(60), <1>3, <2>2 DEF Queued
  <2> QED BY Zenon, <2>1, <2>2
<1>9. Types'
  BY Zenon, <1>1, <1>2, <1>3, <1>6, <1>7 DEF Types
<1>10. PlaceInv'
  <2>1. ASSUME NEW h \in Callers, doing'[h] # Idle
        PROVE  /\ doing'[h].call \in Made' /\ caller'[doing'[h].call] = h
               /\ ~Queued(doing[h].call)' /\ ~Done(doing[h].call)'
    <3>1. /\ doing[h].call \in Made /\ caller[doing[h].call] = h
          /\ ~Queued(doing[h].call) /\ ~Done(doing[h].call)
      BY <1>1, <1>2, <2>1 DEF PlaceInv
    <3>2. \A d : d = doing'[h].call => d \in Made' /\ caller'[d] = h /\ ~Queued(d)' /\ ~Done(d)'
      BY <1>2, <1>4, <1>6, <1>7, <1>8, <3>1
    <3> QED BY <3>2 DEF Queued, Done
  <2>2. \A d \in Made' : Returned(d)' => Queued(d)' \/ Done(d)'
    BY <1>1, <1>6, <1>7, <1>8 DEF PlaceInv
  <2>3. \A k \in DOMAIN q' : q'[k].call \in Made' /\ ~Done(q[k].call)'
    <3>1. ASSUME NEW k \in DOMAIN q' PROVE \A d : d = q'[k].call => d \in Made' /\ ~Done(d)'
      <4>1. k + 1 \in DOMAIN q /\ 1 \in DOMAIN q /\ k + 1 # 1 /\ q'[k] = q[k + 1] /\ c = q[1].call
        BY <1>3
      <4>2. q[k + 1].call \in Made /\ ~Done(q[k + 1].call) /\ q[k + 1].call # c
        BY Zenon, <1>1, <4>1 DEF PlaceInv
      <4> QED BY Zenon, <1>6, <1>7, <4>1, <4>2
    <3> QED BY <3>1 DEF Done
  <2>4. ASSUME NEW k \in DOMAIN q', NEW j \in DOMAIN q', q'[k].call = q'[j].call PROVE k = j
    <3>1. k + 1 = j + 1
      BY <1>1, <1>3, <2>4 DEF PlaceInv
    <3> QED BY <1>3, <3>1
  <2>5. \A k \in DOMAIN outcome' : outcome'[k].call \in Made'
    <3>1. \A j \in DOMAIN outcome : outcome[j].call \in Made
      BY Zenon, <1>1 DEF PlaceInv
    <3> QED BY Zenon, <1>4, <1>6, <1>7, <3>1
  <2> QED BY Zenon, <2>1, <2>2, <2>3, <2>4, <2>5 DEF PlaceInv
<1>11. BeforeInv'
  <2>1. ASSUME NEW d \in Made', NEW b \in before'[d] PROVE b \in Made' /\ Returned(b)'
    BY <1>1, <1>2, <1>7, <2>1 DEF BeforeInv
  <2>2. ASSUME NEW j \in DOMAIN q', NEW d \in before'[q'[j].call]
        PROVE  Done(d)' \/ \E k \in DOMAIN q' : k < j /\ q'[k].call = d
    <3>1. Done(d) \/ \E k \in DOMAIN q : k < j + 1 /\ q[k].call = d
      BY <1>1, <1>2, <1>3, <2>2 DEF BeforeInv
    <3>2. CASE Done(d)
      BY <1>6, <3>2
    <3>3. ASSUME NEW e \in DOMAIN q, e < j + 1, q[e].call = d
          PROVE  Done(d)' \/ \E k \in DOMAIN q' : k < j /\ q'[k].call = d
      <4>1. CASE e = 1
        BY ZenonT(60), <1>3, <1>6, <3>3, <4>1
      <4>2. CASE e # 1
        <5>1. e - 1 \in DOMAIN q' /\ q'[e - 1].call = d
          BY ZenonT(60), <1>3, <3>3, <4>2
        <5>2. e - 1 < j
          BY <1>3, <3>3
        <5> QED BY <5>1, <5>2
      <4> QED BY <4>1, <4>2
    <3> QED BY Zenon, <3>1, <3>2, <3>3
  <2> QED BY Zenon, <2>1, <2>2 DEF BeforeInv
<1> QED BY Zenon, <1>6, <1>9, <1>10, <1>11 DEF Order

-------------------------------------------------------------------------------
(* The induction.                                                          *)

\* The stages fit together whatever step is taken.
LEMMA StageStep ==
  ASSUME StageInv, q \in Seq([call : Nat, basis : Int]), PromiseNext
  PROVE  StageInv'
<1>1. ASSUME NEW g \in Callers,
             \/ PipelineSend(g) \/ ClientSend(g) \/ (\E d \in Made : PipelineOn(g, d)) \/ PipelineClientSend(g)
             \/ AwaitBase(g) \/ BaseReady(g) \/ ResolvedSend(g) \/ Cancel(g)
      PROVE  StageInv'
  <2>1. UNCHANGED <<state, fails, clients, q, bases, ready, resolver>>
    BY ZenonT(60), <1>1 DEF PipelineSend, ClientSend, PipelineOn, PipelineClientSend, AwaitBase, BaseReady, ResolvedSend,
       Cancel, stateVars, queueVars
  <2> QED BY ZenonT(60), <2>1 DEF StageInv, Emptied
<1>2. ASSUME NEW g \in Callers, Enqueue(g) PROVE StageInv'
  BY ZenonT(60), <1>2 DEF Enqueue, StageInv, Emptied, stateVars
<1>3. ASSUME NEW g \in Callers, Client(g) PROVE StageInv'
  BY <1>3 DEF Client, StageInv, Emptied, queueVars
<1>4. CASE StartResolve
  BY <1>4 DEF StartResolve, StageInv, Emptied, queueVars
<1>5. CASE StartDrain
  BY <1>5, LenFacts DEF StartDrain, StageInv, Emptied, stateVars
<1>6. CASE Drain
  BY <1>6 DEF Drain, StageInv, Emptied, stateVars
<1>7. CASE Drained
  BY <1>7 DEF Drained, StageInv, Emptied, stateVars
<1>8. CASE FulfillClients
  BY <1>8 DEF FulfillClients, StageInv, Emptied, queueVars
<1>9. CASE Signal
  BY <1>9 DEF Signal, StageInv, Emptied, queueVars
<1>10. CASE ReleaseClients
  BY <1>10 DEF ReleaseClients, StageInv, Emptied, queueVars, stateVars
<1> QED BY Zenon, <1>1, <1>2, <1>3, <1>4, <1>5, <1>6, <1>7, <1>8, <1>9, <1>10 DEF PromiseNext

\* A call is delivered to a number, or rejected.
LEMMA Deliveries ==
  ASSUME NEW c
  PROVE  /\ Resolution(c) => \E to \in Int : Deliver(c, to)
         /\ \A b : BaseRecv(c, b) => \E to \in Int : Deliver(c, to) /\ (fails => to = Rejected)
<1>1. Root \in Int /\ Rejected \in Int /\ Panicked \in Int
  BY DEF Root, Rejected, Panicked
<1> QED BY Zenon, <1>1 DEF Resolution, BaseRecv

\* Every step keeps calls at their places and in their order.
LEMMA OrderStep ==
  ASSUME IInv, PromiseNext
  PROVE  Order'
<1>1. StageInv /\ Order /\ Types
  BY Zenon DEF IInv, Order
<1>2. /\ 0 \in 0..Len(on) /\ \A d \in Made : d \in 0..Len(on)
      /\ Root = 0 /\ Rejected \in Int
      /\ {"queue", "resolved", "hook", "base"} \subseteq Places
  BY <1>1, MadeFacts DEF Root, Rejected, Places
<1>3. /\ state = "resolved" \/ clients = "fulfilled" => q = <<>>
      /\ ready /\ ~fails => q = <<>>
  BY <1>1 DEF StageInv
<1>4. ASSUME NEW g \in Callers, PipelineSend(g) PROVE Order'
  <2>1. NewCall(g, 0) /\ q' = q
    BY Zenon, <1>2, <1>4 DEF PipelineSend, queueVars
  <2>2. CASE state \in {"unresolved", "pending"} /\ outcome' = outcome /\ \E at \in Places : Goto(g, at, Len(on) + 1)
    BY <1>1, <1>2, <2>1, <2>2, MakeStep
  <2>3. CASE state = "resolved" /\ doing' = doing /\ Resolution(Len(on) + 1)
    BY <1>1, <1>2, <1>3, <2>1, <2>3, Deliveries, MakeDoneStep
  <2> QED BY Zenon, <1>2, <1>4, <2>2, <2>3 DEF PipelineSend
<1>5. ASSUME NEW g \in Callers, ClientSend(g) PROVE Order'
  <2>1. NewCall(g, 0) /\ q' = q
    BY Zenon, <1>2, <1>5 DEF ClientSend, queueVars
  <2>2. CASE outcome' = outcome /\ Goto(g, "hook", Len(on) + 1)
    BY <1>1, <1>2, <2>1, <2>2, MakeStep
  <2>3. CASE clients = "fulfilled" /\ doing' = doing /\ Resolution(Len(on) + 1)
    BY <1>1, <1>2, <1>3, <2>1, <2>3, Deliveries, MakeDoneStep
  <2> QED BY Zenon, <1>5, <2>2, <2>3 DEF ClientSend
<1>6. ASSUME NEW g \in Callers, NEW d \in Made, PipelineOn(g, d) PROVE Order'
  <2>1. NewCall(g, d) /\ q' = q /\ outcome' = outcome /\ Goto(g, "queue", Len(on) + 1)
    BY Zenon, <1>6 DEF PipelineOn, queueVars
  <2> QED BY <1>1, <1>2, <2>1, MakeStep
<1>7. ASSUME NEW g \in Callers, PipelineClientSend(g) PROVE Order'
  <2>1. doing[g].at = "hook" /\ UNCHANGED callVars /\ q' = q
    BY Zenon, <1>7 DEF PipelineClientSend, queueVars
  <2>2. CASE outcome' = outcome /\ \E at \in Places : Goto(g, at, doing[g].call)
    BY <1>1, <2>1, <2>2, MoveStep
  <2>3. CASE state = "resolved" /\ Resolution(doing[g].call) /\ Return(g)
    BY ZenonT(60), <1>1, <1>3, <2>1, <2>3, Deliveries, AnswerStep
  <2> QED BY Zenon, <1>2, <1>7, <2>2, <2>3 DEF PipelineClientSend
<1>8. ASSUME NEW g \in Callers, Enqueue(g) PROVE Order'
  BY <1>1, <1>8, EnqueueStep
<1>9. ASSUME NEW g \in Callers, AwaitBase(g) PROVE Order'
  <2>1. doing[g].at = "queue" /\ UNCHANGED callVars /\ q' = q /\ outcome' = outcome /\ Goto(g, "base", doing[g].call)
    BY Zenon, <1>9 DEF AwaitBase, queueVars
  <2> QED BY <1>1, <1>2, <2>1, MoveStep
<1>10. ASSUME NEW g \in Callers, BaseReady(g) PROVE Order'
  <2>1. /\ doing[g].at = "base" /\ ready /\ UNCHANGED callVars /\ q' = q /\ Return(g)
        /\ BaseRecv(doing[g].call, BasisOf(doing[g].call))
    BY Zenon, <1>10 DEF BaseReady, queueVars
  <2>2. PICK to \in Int : Deliver(doing[g].call, to) /\ (fails => to = Rejected)
    BY Zenon, <2>1, Deliveries
  <2> QED BY <1>1, <1>3, <2>1, <2>2, AnswerStep
<1>11. ASSUME NEW g \in Callers, ResolvedSend(g) PROVE Order'
  <2>1. /\ doing[g].at = "resolved" /\ state = "resolved" /\ UNCHANGED callVars /\ q' = q /\ Return(g)
        /\ Resolution(doing[g].call)
    BY Zenon, <1>11 DEF ResolvedSend, queueVars
  <2> QED BY <1>1, <1>3, <2>1, Deliveries, AnswerStep
<1>12. ASSUME NEW g \in Callers, Cancel(g) PROVE Order'
  <2>1. /\ doing[g].at # "idle" /\ UNCHANGED callVars /\ q' = q /\ Return(g)
        /\ Deliver(doing[g].call, Rejected)
    BY <1>12 DEF Cancel, queueVars
  <2> QED BY <1>1, <1>2, <2>1, AnswerStep
<1>13. ASSUME NEW g \in Callers, Client(g) PROVE Order'
  BY <1>1, <1>13, QuietStep DEF Client, queueVars
<1>14. CASE Drain
  <2>1. q # <<>> /\ q' = Tail(q) /\ UNCHANGED <<callVars, doing>> /\ BaseRecv(Head(q).call, Head(q).basis)
    BY <1>14 DEF Drain
  <2> QED BY ZenonT(60), <1>1, <2>1, Deliveries, DrainStep
<1>15. CASE StartResolve \/ StartDrain \/ Drained \/ FulfillClients \/ Signal \/ ReleaseClients
  <2>1. UNCHANGED <<callVars, doing, q, outcome>>
    BY <1>15 DEF StartResolve, StartDrain, Drained, FulfillClients, Signal, ReleaseClients, queueVars
  <2> QED BY <1>1, <2>1, QuietStep
<1> QED BY Zenon, <1>4, <1>5, <1>6, <1>7, <1>8, <1>9, <1>10, <1>11, <1>12, <1>13, <1>14, <1>15 DEF PromiseNext

\* No call has been made yet.
LEMMA InitInv == PromiseInit => IInv
<1> SUFFICES ASSUME PromiseInit PROVE IInv
  OBVIOUS
<1>1. /\ on = <<>> /\ caller = <<>> /\ basis = <<>> /\ before = <<>> /\ q = <<>> /\ outcome = <<>>
      /\ doing = [g \in Callers |-> Idle]
  BY DEF PromiseInit
<1>2. Types
  BY <1>1 DEF Types, Made, Idle, Places
<1>3. PlaceInv /\ BeforeInv /\ InOrder
  BY <1>1 DEF PlaceInv, BeforeInv, InOrder, Made
<1>4. StageInv
  BY DEF PromiseInit, StageInv, Emptied
<1> QED BY Zenon, <1>2, <1>3, <1>4 DEF IInv, Order

\* Every call is at one place, a call that has returned is queued or answered, and
\* a queued call is behind those that came before it (answer.go, answerqueue.go),
\* for any callers and calls, whether or not the promise is left locked.
THEOREM PromiseInvariant == PromiseSpec => []IInv
<1>1. IInv /\ [PromiseNext]_promiseVars => IInv'
  <2> SUFFICES ASSUME IInv, [PromiseNext]_promiseVars PROVE IInv'
    OBVIOUS
  <2>1. CASE PromiseNext
    BY <2>1, StageStep, OrderStep DEF IInv, Order, Types
  <2>2. CASE UNCHANGED promiseVars
    <3>1. UNCHANGED <<callVars, doing, q, outcome>> /\ UNCHANGED <<state, fails, clients, q, bases, ready, resolver>>
      BY <2>2 DEF promiseVars, callVars
    <3>2. StageInv'
      BY <3>1 DEF IInv, StageInv, Emptied
    <3> QED BY <3>1, <3>2, QuietStep DEF IInv
  <2> QED BY <2>1, <2>2
<1> QED BY InitInv, <1>1, PTL DEF PromiseSpec

\* A call that had returned before another was made is delivered before it,
\* whether they waited in the queue, at a base, for the resolution or not at all,
\* and no call is answered twice (Answer.PipelineSend, queueCaller.PipelineRecv,
\* AnswerQueue.Fulfill, Promise.Resolve).
THEOREM PipelinedInOrder == PromiseSpec => []InOrder
<1>1. IInv => InOrder
  BY Zenon DEF IInv, Order
<1> QED BY PromiseInvariant, <1>1, PTL

-------------------------------------------------------------------------------
(* The ID generator.                                                       *)

\* The bit set is the complement of what is held among the IDs handed out so far.
IdInv ==
  /\ IdGenTypeOK
  /\ inUse \subseteq 0..(i - 1)
  /\ \A n \in Nat : has(free, n) <=> n \in 0..(i - 1) /\ n \notin inUse

\* A nonempty set of natural numbers has a least element.
LEMMA LeastNumber ==
  ASSUME NEW T, T \subseteq Nat, T # {}
  PROVE  \E x \in T : \A y \in T : x <= y
<1>1. PICK x \in T : \A y \in T : ~(<<y, x>> \in OpToRel(<, Nat))
  BY NatLessThanWellFounded, WFMin, Zenon
<1>2. \A y \in T : ~(y < x)
  BY ZenonT(60), <1>1 DEF OpToRel
<1>3. x \in Nat /\ \A y \in T : y \in Nat
  OBVIOUS
<1>4. \A y \in T : x <= y
  BY <1>2, <1>3
<1> QED BY <1>4

\* A number is the word it is in and the bit it has there.
LEMMA WordAndBit ==
  ASSUME IdAssumption, NEW n \in Nat
  PROVE  /\ n \div WordBits \in Nat /\ n % WordBits \in Bit
         /\ n = (n \div WordBits) * WordBits + (n % WordBits)
<1>1. WordBits \in Nat \ {0}
  BY DEF IdAssumption
<1>2. n \div WordBits \in Nat
  BY <1>1
<1>3. n % WordBits \in 0..(WordBits - 1)
  BY <1>1
<1>4. n = (n \div WordBits) * WordBits + (n % WordBits)
  BY <1>1
<1> QED BY <1>2, <1>3, <1>4 DEF Bit

\* Word a and bit b make a number that div and mod take apart again.
LEMMA BitOfWord ==
  ASSUME IdAssumption, NEW a \in Nat, NEW b \in Bit
  PROVE  /\ a * WordBits + b \in Nat
         /\ (a * WordBits + b) \div WordBits = a
         /\ (a * WordBits + b) % WordBits = b
<1>1. WordBits \in Nat \ {0} /\ b \in 0..(WordBits - 1)
  BY DEF IdAssumption, Bit
<1>2. a * WordBits \in Nat
  BY <1>1
<1>3. a * WordBits + b \in Nat
  BY <1>1, <1>2
<1>4. (a * WordBits + b) \div WordBits = a
  BY <1>1
<1>5. (a * WordBits + b) % WordBits = b
  BY <1>1
<1> QED BY <1>3, <1>4, <1>5

\* add grows the slice as far as it must and adds one number.
LEMMA AddProperties ==
  ASSUME IdAssumption, NEW s \in Seq(SUBSET Bit), NEW n \in Nat
  PROVE  /\ add(s, n) \in Seq(SUBSET Bit)
         /\ \A m \in Nat : has(add(s, n), m) <=> has(s, m) \/ m = n
<1> DEFINE w == n \div WordBits
           b == n % WordBits
           len == IF w >= Len(s) THEN w + 1 ELSE Len(s)
           t == add(s, n)
<1>1. w \in Nat /\ b \in Bit /\ n = w * WordBits + b
  BY WordAndBit
<1>2. Len(s) \in Nat /\ s \in [1..Len(s) -> SUBSET Bit]
  BY LenFacts
<1>3. len \in Nat /\ len >= Len(s) /\ w + 1 \in 1..len
  BY <1>1, <1>2
<1>4. Grown(s, n) = [k \in 1..len |-> IF k <= Len(s) THEN s[k] ELSE {}]
  BY DEF Grown
<1>5. t = [Grown(s, n) EXCEPT ![w + 1] = @ \cup {b}]
  BY DEF add
<1> HIDE DEF w, b, len, t
<1>6. \A k \in 1..len : t[k] = (IF k <= Len(s) THEN s[k] ELSE {}) \cup (IF k = w + 1 THEN {b} ELSE {})
  BY <1>3, <1>4, <1>5
<1>7. t \in [1..len -> SUBSET Bit]
  <2>1. DOMAIN t = 1..len /\ t = [k \in 1..len |-> t[k]]
    BY ZenonT(60), <1>4, <1>5
  <2>2. \A k \in 1..len : t[k] \in SUBSET Bit
    <3> TAKE k \in 1..len
    <3>1. (IF k <= Len(s) THEN s[k] ELSE {}) \in SUBSET Bit
      BY <1>2, <1>3
    <3> QED BY <1>1, <1>6, <3>1
  <2> QED BY <2>1, <2>2
<1>8. t \in Seq(SUBSET Bit) /\ Len(t) = len
  BY <1>3, <1>7, LenFacts
<1>9. \A m \in Nat : has(t, m) <=> has(s, m) \/ m = n
  <2> TAKE m \in Nat
  <2> DEFINE v == m \div WordBits
             c == m % WordBits
  <2>1. v \in Nat /\ c \in Bit /\ m = v * WordBits + c
    BY WordAndBit
  <2>2. has(t, m) <=> v < len /\ c \in t[v + 1]
    BY <1>8 DEF has
  <2>3. has(s, m) <=> v < Len(s) /\ c \in s[v + 1]
    BY DEF has
  <2>4. m = n <=> v = w /\ c = b
    BY <1>1, <2>1 DEF w, b
  <2> HIDE DEF v, c
  <2>5. v < len <=> v + 1 \in 1..len
    BY <1>3, <2>1
  <2>6. v < Len(s) <=> v + 1 <= Len(s)
    BY <1>2, <2>1
  <2>7. v + 1 = w + 1 <=> v = w
    BY <1>1, <2>1
  <2>8. v < Len(s) => v < len
    BY <1>2, <1>3, <2>1
  <2>9. v = w => v < len
    BY <1>1, <1>3
  <2> QED BY <1>6, <2>2, <2>3, <2>4, <2>5, <2>6, <2>7, <2>8, <2>9
<1> QED BY <1>8, <1>9 DEF t

\* remove takes one number out.
LEMMA RemoveProperties ==
  ASSUME IdAssumption, NEW s \in Seq(SUBSET Bit), NEW n \in Nat
  PROVE  /\ remove(s, n) \in Seq(SUBSET Bit)
         /\ \A m \in Nat : has(remove(s, n), m) <=> has(s, m) /\ m # n
<1> DEFINE w == n \div WordBits
           b == n % WordBits
           t == remove(s, n)
<1>1. w \in Nat /\ b \in Bit /\ n = w * WordBits + b
  BY WordAndBit
<1>2. Len(s) \in Nat /\ s \in [1..Len(s) -> SUBSET Bit]
  BY LenFacts
<1>3. t = IF w < Len(s) THEN [s EXCEPT ![w + 1] = @ \ {b}] ELSE s
  BY DEF remove
<1> HIDE DEF w, b, t
<1>4. \A k \in 1..Len(s) : t[k] = IF k = w + 1 THEN s[k] \ {b} ELSE s[k]
  <2>1. CASE w < Len(s)
    <3>1. t = [s EXCEPT ![w + 1] = s[w + 1] \ {b}]
      BY <1>3, <2>1
    <3> QED BY ZenonT(60), <1>2, <3>1
  <2>2. CASE ~(w < Len(s))
    <3>1. \A k \in 1..Len(s) : k # w + 1
      BY <1>1, <1>2, <2>2
    <3> QED BY <1>3, <2>2, <3>1
  <2> QED BY ZenonT(60), <2>1, <2>2
<1>5. t \in [1..Len(s) -> SUBSET Bit]
  <2>1. DOMAIN t = 1..Len(s) /\ t = [k \in 1..Len(s) |-> t[k]]
    BY ZenonT(60), <1>2, <1>3
  <2>2. \A k \in 1..Len(s) : t[k] \in SUBSET Bit
    <3> TAKE k \in 1..Len(s)
    <3>1. s[k] \in SUBSET Bit
      BY <1>2
    <3> QED BY ZenonT(60), <1>4, <3>1
  <2> QED BY <2>1, <2>2
<1>6. t \in Seq(SUBSET Bit) /\ Len(t) = Len(s)
  BY <1>2, <1>5, LenFacts
<1>7. \A m \in Nat : has(t, m) <=> has(s, m) /\ m # n
  <2> TAKE m \in Nat
  <2> DEFINE v == m \div WordBits
             c == m % WordBits
  <2>1. v \in Nat /\ c \in Bit /\ m = v * WordBits + c
    BY WordAndBit
  <2>2. has(t, m) <=> v < Len(s) /\ c \in t[v + 1]
    BY <1>6 DEF has
  <2>3. has(s, m) <=> v < Len(s) /\ c \in s[v + 1]
    BY DEF has
  <2>4. m = n <=> v = w /\ c = b
    BY <1>1, <2>1 DEF w, b
  <2> HIDE DEF v, c
  <2>5. v < Len(s) <=> v + 1 \in 1..Len(s)
    BY <1>2, <2>1
  <2>6. v + 1 = w + 1 <=> v = w
    BY <1>1, <2>1
  <2> QED BY ZenonT(60), <1>4, <2>2, <2>3, <2>4, <2>5, <2>6
<1> QED BY <1>6, <1>7 DEF t

\* min is the least number of a set that is not empty.
LEMMA MinProperties ==
  ASSUME IdAssumption, NEW s \in Seq(SUBSET Bit), NonZero(s) # {}
  PROVE  /\ min(s) \in Nat /\ has(s, min(s))
         /\ \A n \in Nat : has(s, n) => min(s) <= n
<1> DEFINE k == FirstWord(s)
           b == CHOOSE x \in s[k] : \A y \in s[k] : x <= y
<1>0. WordBits \in Nat \ {0}
  BY DEF IdAssumption
<1>1. Len(s) \in Nat /\ s \in [1..Len(s) -> SUBSET Bit]
  BY LenFacts
<1>2. NonZero(s) \subseteq Nat
  BY <1>1 DEF NonZero
<1>3. k \in NonZero(s) /\ \A l \in NonZero(s) : k <= l
  <2>1. \E l \in NonZero(s) : \A m \in NonZero(s) : l <= m
    BY <1>2, LeastNumber
  <2> QED BY ZenonT(60), <2>1 DEF FirstWord
<1> HIDE DEF k
<1>4. k \in 1..Len(s) /\ s[k] # {} /\ s[k] \subseteq Bit /\ s[k] \subseteq Nat
  BY <1>0, <1>1, <1>3 DEF NonZero, Bit
<1>5. b \in s[k] /\ \A y \in s[k] : b <= y
  <2>1. \E x \in s[k] : \A y \in s[k] : x <= y
    BY <1>4, LeastNumber
  <2> QED BY ZenonT(60), <2>1
<1>6. min(s) = (k - 1) * WordBits + b
  BY DEF min, k
<1> HIDE DEF b
<1> DEFINE a == k - 1
<1>7. a \in Nat /\ b \in Bit /\ a < Len(s) /\ a + 1 = k
  BY <1>1, <1>4, <1>5
<1> HIDE DEF a
<1>8. min(s) = a * WordBits + b
  BY <1>6 DEF a
<1>9. min(s) \in Nat /\ min(s) \div WordBits = a /\ min(s) % WordBits = b
  BY <1>7, <1>8, BitOfWord
<1>10. has(s, min(s))
  BY <1>5, <1>7, <1>9 DEF has
<1>11. ASSUME NEW n \in Nat, has(s, n)
       PROVE  min(s) <= n
  <2> DEFINE v == n \div WordBits
             c == n % WordBits
  <2>1. v \in Nat /\ c \in Bit /\ n = v * WordBits + c /\ v < Len(s) /\ c \in s[v + 1]
    BY <1>11, WordAndBit DEF has
  <2> HIDE DEF v, c
  <2>2. v + 1 \in NonZero(s)
    BY <1>1, <2>1 DEF NonZero
  <2>3. a <= v
    BY <1>3, <1>7, <2>1, <2>2
  <2>4. c \in Nat /\ c < WordBits /\ b \in Nat /\ b < WordBits
    BY <1>0, <1>7, <2>1 DEF Bit
  <2>5. CASE a = v
    <3>1. b <= c
      BY <1>5, <1>7, <2>1, <2>5
    <3> QED BY <1>0, <1>7, <1>8, <2>1, <2>4, <2>5, <3>1
  <2>6. CASE a < v
    <3>1. a + 1 <= v /\ a + 1 \in Nat
      BY <1>7, <2>1, <2>6
    <3>2. (a + 1) * WordBits <= v * WordBits /\ (a + 1) * WordBits = a * WordBits + WordBits
      BY <1>0, <1>7, <2>1, <3>1
    <3>3. a * WordBits \in Nat /\ v * WordBits \in Nat
      BY <1>0, <1>7, <2>1
    <3> QED BY <1>0, <1>8, <2>1, <2>4, <3>2, <3>3
  <2> QED BY <1>7, <2>1, <2>3, <2>5, <2>6
<1> QED BY <1>9, <1>10, <1>11

\* A set without a word that is not zero is empty.
LEMMA EmptySet ==
  ASSUME IdAssumption, NEW s \in Seq(SUBSET Bit), NonZero(s) = {}
  PROVE  \A n \in Nat : ~has(s, n)
<1> SUFFICES ASSUME NEW n \in Nat, has(s, n) PROVE FALSE
  OBVIOUS
<1>1. n \div WordBits \in Nat /\ Len(s) \in Nat
  BY WordAndBit, LenFacts
<1>2. n \div WordBits + 1 \in NonZero(s)
  BY <1>1 DEF has, NonZero
<1> QED BY <1>2

-------------------------------------------------------------------------------
(* idgen.                                                                  *)

\* next takes the least number of the bit set, which is the least that nobody holds.
LEMMA NextFree ==
  ASSUME IdAssumption, IdInv, nextFree
  PROVE  IdInv' /\ \E n \in 0..(MaxUint - 1) : Pool!Allocate(n)
<1> DEFINE n == min(free)
<1>1. IdGenTypeOK /\ i \in Nat /\ i <= MaxUint /\ MaxUint \in Nat /\ free \in Seq(SUBSET Bit) /\ NonZero(free) # {}
  BY DEF IdInv, IdGenTypeOK, nextFree, IdAssumption
<1>2. free' = remove(free, n) /\ inUse' = inUse \cup {n} /\ UNCHANGED <<i, panicked>>
  BY DEF nextFree
<1>3. n \in Nat /\ has(free, n) /\ \A m \in Nat : has(free, m) => n <= m
  BY <1>1, MinProperties
<1> HIDE DEF n
<1>4. n \in 0..(i - 1) /\ n \notin inUse
  BY <1>3 DEF IdInv
<1>5. \A m \in 0..(n - 1) : m \in inUse
  <2> TAKE m \in 0..(n - 1)
  <2>1. m \in Nat /\ ~(n <= m) /\ m \in 0..(i - 1)
    BY <1>1, <1>3, <1>4
  <2> QED BY <1>3, <2>1 DEF IdInv
<1>6. n \in 0..(MaxUint - 1) /\ n \in 0..MaxUint
  BY <1>1, <1>4
<1>7. Pool!Allocate(n)
  BY <1>2, <1>4, <1>5 DEF Pool!Allocate
<1>8. free' \in Seq(SUBSET Bit) /\ \A m \in Nat : has(free', m) <=> has(free, m) /\ m # n
  BY ZenonT(60), <1>1, <1>2, <1>3, RemoveProperties
<1>9. IdGenTypeOK'
  BY <1>1, <1>2, <1>6, <1>8 DEF IdGenTypeOK
<1>10. inUse' \subseteq 0..(i' - 1)
  BY <1>2, <1>4 DEF IdInv
<1>11. \A m \in Nat : has(free', m) <=> m \in 0..(i' - 1) /\ m \notin inUse'
  BY <1>2, <1>8 DEF IdInv
<1>12. IdInv'
  BY ZenonT(60), <1>9, <1>10, <1>11 DEF IdInv, has
<1> QED BY <1>6, <1>7, <1>12

\* With nothing given back, all the IDs below idgen.i are held.
LEMMA NextNew ==
  ASSUME IdAssumption, IdInv, nextNew
  PROVE  IdInv' /\ Pool!Next
<1>1. IdGenTypeOK /\ i \in Nat /\ i <= MaxUint /\ MaxUint \in Nat /\ free \in Seq(SUBSET Bit) /\ NonZero(free) = {}
  BY DEF IdInv, IdGenTypeOK, nextNew, IdAssumption
<1>2. \A m \in Nat : ~has(free, m)
  BY <1>1, EmptySet
<1>3. \A m \in 0..(i - 1) : m \in inUse
  BY <1>1, <1>2 DEF IdInv
<1>4. CASE i = MaxUint
  <2>1. panicked' = TRUE /\ UNCHANGED <<i, inUse, free>>
    BY <1>4 DEF nextNew
  <2>2. Pool!Exhaust
    BY <1>3, <1>4, <2>1 DEF Pool!Exhaust
  <2>3. IdInv'
    BY <2>1 DEF IdInv, IdGenTypeOK, has
  <2> QED BY <2>2, <2>3 DEF Pool!Next
<1>5. CASE i # MaxUint
  <2>1. i' = i + 1 /\ inUse' = inUse \cup {i} /\ UNCHANGED <<free, panicked>>
    BY <1>5 DEF nextNew
  <2>2. i \in 0..(MaxUint - 1) /\ i + 1 \in 0..MaxUint
    BY <1>1, <1>5
  <2>3. i \notin inUse
    BY <1>1 DEF IdInv
  <2>4. Pool!Allocate(i)
    BY <1>3, <2>1, <2>3 DEF Pool!Allocate
  <2>5. IdGenTypeOK'
    BY <1>1, <2>1, <2>2 DEF IdGenTypeOK
  <2>6. inUse' \subseteq 0..(i' - 1)
    BY <1>1, <2>1 DEF IdInv
  <2>7. \A m \in Nat : has(free', m) <=> m \in 0..(i' - 1) /\ m \notin inUse'
    <3> TAKE m \in Nat
    <3>1. ~has(free', m)
      BY <1>2, <2>1
    <3>2. m \in 0..(i' - 1) => m \in 0..(i - 1) \/ m = i
      BY <1>1, <2>1
    <3> QED BY <1>3, <2>1, <3>1, <3>2
  <2>8. IdInv'
    BY ZenonT(60), <2>5, <2>6, <2>7 DEF IdInv, has
  <2> QED BY <2>2, <2>4, <2>8 DEF Pool!Next
<1> QED BY <1>4, <1>5

\* An ID that is given back goes into the bit set, and nothing else changes.
LEMMA RemoveID ==
  ASSUME IdAssumption, IdInv, removeID
  PROVE  IdInv' /\ \E n \in 0..(MaxUint - 1) : Pool!Free(n)
<1>1. IdGenTypeOK /\ i \in Nat /\ i <= MaxUint /\ MaxUint \in Nat /\ free \in Seq(SUBSET Bit)
  BY DEF IdInv, IdGenTypeOK, IdAssumption
<1>2. PICK n \in inUse : free' = add(free, n) /\ inUse' = inUse \ {n} /\ UNCHANGED <<i, panicked>>
  BY DEF removeID
<1>3. n \in 0..(i - 1) /\ n \in 0..(MaxUint - 1) /\ n \in Nat
  <2>1. n \in 0..(i - 1)
    BY <1>2 DEF IdInv
  <2> QED BY <1>1, <2>1
<1>4. Pool!Free(n)
  BY <1>2 DEF Pool!Free
<1>5. free' \in Seq(SUBSET Bit) /\ \A m \in Nat : has(free', m) <=> has(free, m) \/ m = n
  BY ZenonT(60), <1>1, <1>2, <1>3, AddProperties
<1>6. IdGenTypeOK'
  BY <1>1, <1>2, <1>5 DEF IdGenTypeOK
<1>7. inUse' \subseteq 0..(i' - 1)
  BY <1>2 DEF IdInv
<1>8. \A m \in Nat : has(free', m) <=> m \in 0..(i' - 1) /\ m \notin inUse'
  BY <1>2, <1>3, <1>5 DEF IdInv
<1>9. IdInv'
  BY ZenonT(60), <1>6, <1>7, <1>8 DEF IdInv, has
<1> QED BY <1>3, <1>4, <1>9

\* Callers of next and remove can think of a pool of numbers: next returns the least
\* that nobody holds and panics only when all are held, for words of any size and any
\* order in which the IDs of questions, exports and embargoes are given back.
THEOREM PoolImplemented == ASSUME IdAssumption PROVE IdGenSpec => PoolSpec
<1>1. IdGenInit => IdInv /\ Pool!Init
  <2> SUFFICES ASSUME IdGenInit PROVE IdInv /\ Pool!Init
    OBVIOUS
  <2>1. i = 0 /\ free = <<>> /\ inUse = {} /\ panicked = FALSE
    BY DEF IdGenInit
  <2>2. IdGenTypeOK
    <3>1. MaxUint \in Nat /\ <<>> \in Seq(SUBSET Bit)
      BY DEF IdAssumption
    <3>2. i \in 0..MaxUint /\ inUse \subseteq 0..MaxUint
      BY <2>1, <3>1
    <3> QED BY ZenonT(60), <2>1, <3>1, <3>2 DEF IdGenTypeOK
  <2>3. \A n \in Nat : ~has(free, n)
    <3>1. free \in Seq(SUBSET Bit) /\ NonZero(free) = {}
      BY <2>1 DEF NonZero
    <3> QED BY <3>1, EmptySet
  <2>4. 0..(i - 1) = {}
    BY <2>1
  <2>5. IdInv
    BY <2>1, <2>2, <2>3, <2>4 DEF IdInv
  <2> QED BY <2>1, <2>5 DEF Pool!Init
<1>2. IdInv /\ [IdGenNext]_idgenVars => IdInv' /\ [Pool!Next]_(Pool!vars)
  <2> SUFFICES ASSUME IdInv, [IdGenNext]_idgenVars PROVE IdInv' /\ [Pool!Next]_(Pool!vars)
    OBVIOUS
  <2>1. CASE UNCHANGED idgenVars
    BY <2>1 DEF idgenVars, IdInv, IdGenTypeOK, has, Pool!vars
  <2>2. CASE nextFree
    BY <2>2, NextFree DEF Pool!Next
  <2>3. CASE nextNew
    BY <2>3, NextNew
  <2>4. CASE removeID
    BY <2>4, RemoveID DEF Pool!Next
  <2> QED BY <2>1, <2>2, <2>3, <2>4 DEF IdGenNext
<1> QED BY <1>1, <1>2, PTL DEF IdGenSpec, PoolSpec, Pool!Spec
================================================================================
