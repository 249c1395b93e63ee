----------------------------- MODULE EmbargoProofs -----------------------------
(***************************************************************************)
(* Calls reach the capability in the order in which they were made, for    *)
(* any number of calls, but for those sent behind the Disembargo or with   *)
(* none.  The argument is that the two wires and the peer's queue are one  *)
(* line in which no call overtakes another, that the Disembargo and its    *)
(* echo stand in that line behind every call that is not late, and that    *)
(* nothing passes the embargo before the echo arrives.                     *)
(***************************************************************************)
EXTENDS Embargo, TLAPS

disembargo == Message("disembargo")
loopback == Message("loopback")
resolved == Message("resolved")
broken == Message("broken")

CallMessages == {CallMessage(c) : c \in CallNumbers}
Others == {disembargo, Message("release")}
ToPeer == CallMessages \cup Others
ToHere == CallMessages \cup {loopback, resolved, broken}

Ordered(s, L) == \A i, j \in DOMAIN s : i < j => s[i] < s[j] \/ s[j] \in L
Before(s, x, y) == \E i, j \in DOMAIN s : i < j /\ s[i] = x /\ s[j] = y

\* The line of calls: the wire to here, the peer's queue, the wire to the peer.
OnLine(c) == CallMessage(c) \in Elems(toHere) \/ c \in Elems(held) \/ CallMessage(c) \in Elems(toPeer)
Ahead(c, d) ==
  \/ Before(toHere, CallMessage(c), CallMessage(d))
  \/ CallMessage(c) \in Elems(toHere) /\ (d \in Elems(held) \/ CallMessage(d) \in Elems(toPeer))
  \/ Before(held, c, d)
  \/ c \in Elems(held) /\ CallMessage(d) \in Elems(toPeer)
  \/ Before(toPeer, CallMessage(c), CallMessage(d))

\* The Disembargo, or its echo, is in the line, and ahead of a call.
Marked == loopback \in Elems(toHere) \/ disembargo \in Elems(toPeer)
MarkAhead(d) ==
  \/ Before(toHere, loopback, CallMessage(d))
  \/ loopback \in Elems(toHere) /\ (d \in Elems(held) \/ CallMessage(d) \in Elems(toPeer))
  \/ Before(toPeer, disembargo, CallMessage(d))

News == {resolved, broken}

Types ==
  /\ EmbargoTypeOK
  /\ toPeer \in Seq(ToPeer) /\ toHere \in Seq(ToHere)
  /\ released \in BOOLEAN /\ exported \in BOOLEAN /\ told \in BOOLEAN /\ down \in BOOLEAN
  /\ down => toPeer = <<>>

\* How far the resolution is, at the peer, on the wire and here.
StageInv ==
  /\ peer \in {"resolved", "broken"} => held = <<>>
  /\ told => peer \in {"resolved", "broken"}
  /\ \A m \in News : m \in Elems(toHere) => told /\ handler = "idle" /\ m.type = peer
  /\ \A m, n \in News : ~Before(toHere, m, n)
  /\ handler # "idle" => told
  /\ handler \in {"idle", "reject"} => embargo = "none" /\ ~Marked
  /\ handler = "fulfill" => peer = "resolved"
  /\ handler = "fulfill" /\ via = "resolve" => embargo # "none"
  /\ route = "wire" <=> handler \in {"idle", "reject", "fulfill"}
  /\ route = "local" => embargo = "none"
  /\ Marked => embargo # "none"
  /\ embargo # "none" => peer = "resolved"
  /\ ~down /\ (Marked \/ embargo \in {"draining", "lifted"}) => Overtakable
  /\ queued # <<>> => route = "embargo"

\* Every call is at one place and was made before those behind it.
LineInv ==
  /\ calling = "started" => made > 0 /\ queued = <<>>
  /\ \A c \in Elems(got) \cup Elems(queued) : c <= Sent
  /\ \A c \in CallNumbers : OnLine(c) => c <= Sent
  /\ \A c, d \in CallNumbers : Ahead(c, d) => c < d
  /\ \A c \in CallNumbers : MarkAhead(c) => c \in late

\* What the capability has received was made before what it has yet to receive.
GotInv ==
  /\ EOrderButLate
  /\ ~down => \A c \in Elems(got), d \in CallNumbers : OnLine(d) => c < d \/ d \in late
  /\ \A c \in Elems(got), d \in Elems(queued) : c < d
  /\ Ordered(queued, {})
  /\ ~down => \A c \in CallNumbers, d \in Elems(queued) : OnLine(c) => c < d

\* Once calls can reach the capability directly, only late calls are on the line.
PassInv ==
  ~down /\ (embargo \in {"draining", "lifted"} \/ route = "local" \/ (handler = "fulfill" /\ embargo = "none"))
    => \A c \in CallNumbers : OnLine(c) => c \in late

IInv == Types /\ StageInv /\ LineInv /\ GotInv /\ PassInv

-------------------------------------------------------------------------------
(* Sequences and messages.                                                 *)

\* Nothing is in an empty sequence.
LEMMA EmptyFacts ==
  /\ Elems(<<>>) = {}
  /\ \A y, z : ~Before(<<>>, y, z)
BY DEF Elems, Before

\* What is added to a sequence is behind everything else.
LEMMA AppendFacts ==
  ASSUME NEW S, NEW s \in Seq(S), NEW x \in S
  PROVE  /\ Append(s, x) \in Seq(S)
         /\ Elems(Append(s, x)) = Elems(s) \cup {x}
         /\ \A y, z : Before(Append(s, x), y, z) <=> Before(s, y, z) \/ (y \in Elems(s) /\ z = x)
<1> DEFINE t == Append(s, x)
<1>1. /\ t \in Seq(S) /\ Len(s) \in Nat /\ DOMAIN s = 1..Len(s) /\ DOMAIN t = 1..(Len(s) + 1)
      /\ \A i \in 1..Len(s) : t[i] = s[i]
      /\ t[Len(s) + 1] = x
  OBVIOUS
<1> HIDE DEF t
<1>2. Elems(t) = Elems(s) \cup {x}
  <2>1. ASSUME NEW y \in Elems(t) PROVE y \in Elems(s) \cup {x}
    BY <1>1 DEF Elems
  <2>2. ASSUME NEW y \in Elems(s) PROVE y \in Elems(t)
    BY <1>1 DEF Elems
  <2>3. x \in Elems(t)
    BY <1>1 DEF Elems
  <2> QED BY <2>1, <2>2, <2>3
<1>3. ASSUME NEW y, NEW z PROVE Before(t, y, z) <=> Before(s, y, z) \/ (y \in Elems(s) /\ z = x)
  <2>1. ASSUME Before(t, y, z) PROVE Before(s, y, z) \/ (y \in Elems(s) /\ z = x)
    <3>1. PICK i, j \in 1..(Len(s) + 1) : i < j /\ t[i] = y /\ t[j] = z
      BY <1>1, <2>1 DEF Before
    <3>2. i \in 1..Len(s) /\ s[i] = y /\ (j \in 1..Len(s) \/ j = Len(s) + 1)
      BY <1>1, <3>1
    <3> QED BY <1>1, <3>1, <3>2 DEF Before, Elems
  <2>2. ASSUME Before(s, y, z) PROVE Before(t, y, z)
    <3>1. PICK i, j \in 1..Len(s) : i < j /\ s[i] = y /\ s[j] = z
      BY <1>1, <2>2 DEF Before
    <3>2. i \in DOMAIN t /\ j \in DOMAIN t /\ t[i] = y /\ t[j] = z
      BY <1>1, <3>1
    <3> QED BY <3>1, <3>2 DEF Before
  <2>3. ASSUME y \in Elems(s), z = x PROVE Before(t, y, z)
    <3>1. PICK i \in 1..Len(s) : s[i] = y
      BY <1>1, <2>3 DEF Elems
    <3>2. i \in DOMAIN t /\ Len(s) + 1 \in DOMAIN t /\ i < Len(s) + 1 /\ t[i] = y /\ t[Len(s) + 1] = z
      BY <1>1, <2>3, <3>1
    <3> QED BY <3>2 DEF Before
  <2> QED BY <2>1, <2>2, <2>3
<1> QED BY <1>1, <1>2, <1>3 DEF t

\* The head is ahead of everything else.
LEMMA HeadFacts ==
  ASSUME NEW S, NEW s \in Seq(S), s # <<>>
  PROVE  /\ Head(s) \in S /\ Tail(s) \in Seq(S)
         /\ Elems(s) = Elems(Tail(s)) \cup {Head(s)}
         /\ \A y, z : Before(s, y, z) <=> Before(Tail(s), y, z) \/ (y = Head(s) /\ z \in Elems(Tail(s)))
<1> DEFINE t == Tail(s)
           x == Head(s)
<1>1. /\ x \in S /\ t \in Seq(S) /\ Len(s) \in Nat /\ DOMAIN s = 1..Len(s) /\ DOMAIN t = 1..(Len(s) - 1)
      /\ \A i \in 1..(Len(s) - 1) : t[i] = s[i + 1]
      /\ s[1] = x /\ Len(s) >= 1
  OBVIOUS
<1> HIDE DEF t, x
<1>2. Elems(s) = Elems(t) \cup {x}
  <2>1. ASSUME NEW y \in Elems(s) PROVE y \in Elems(t) \cup {x}
    <3>1. PICK i \in 1..Len(s) : s[i] = y
      BY <1>1 DEF Elems
    <3>2. i = 1 \/ (i - 1 \in 1..(Len(s) - 1) /\ t[i - 1] = y)
      BY <1>1, <3>1
    <3> QED BY <1>1, <3>1, <3>2 DEF Elems
  <2>2. ASSUME NEW y \in Elems(t) PROVE y \in Elems(s)
    <3>1. PICK i \in 1..(Len(s) - 1) : t[i] = y
      BY <1>1 DEF Elems
    <3>2. i + 1 \in 1..Len(s) /\ s[i + 1] = y
      BY <1>1, <3>1
    <3> QED BY <1>1, <3>2 DEF Elems
  <2>3. x \in Elems(s)
    BY <1>1 DEF Elems
  <2> QED BY <2>1, <2>2, <2>3
<1>3. ASSUME NEW y, NEW z PROVE Before(s, y, z) <=> Before(t, y, z) \/ (y = x /\ z \in Elems(t))
  <2>1. ASSUME Before(s, y, z) PROVE Before(t, y, z) \/ (y = x /\ z \in Elems(t))
    <3>1. PICK i, j \in 1..Len(s) : i < j /\ s[i] = y /\ s[j] = z
      BY <1>1, <2>1 DEF Before
    <3>2. j - 1 \in DOMAIN t /\ t[j - 1] = z
      BY <1>1, <3>1
    <3>3. CASE i = 1
      BY <1>1, <3>1, <3>2, <3>3 DEF Elems
    <3>4. CASE i # 1
      <4>1. i - 1 \in DOMAIN t /\ t[i - 1] = y /\ i - 1 < j - 1
        BY <1>1, <3>1, <3>4
      <4> QED BY <3>2, <4>1 DEF Before
    <3> QED BY <3>3, <3>4
  <2>2. ASSUME Before(t, y, z) PROVE Before(s, y, z)
    <3>1. PICK i, j \in 1..(Len(s) - 1) : i < j /\ t[i] = y /\ t[j] = z
      BY <1>1, <2>2 DEF Before
    <3>2. i + 1 \in DOMAIN s /\ j + 1 \in DOMAIN s /\ i + 1 < j + 1 /\ s[i + 1] = y /\ s[j + 1] = z
      BY <1>1, <3>1
    <3> QED BY <3>2 DEF Before
  <2>3. ASSUME y = x, z \in Elems(t) PROVE Before(s, y, z)
    <3>1. PICK j \in 1..(Len(s) - 1) : t[j] = z
      BY <1>1, <2>3 DEF Elems
    <3>2. 1 \in DOMAIN s /\ j + 1 \in DOMAIN s /\ 1 < j + 1 /\ s[1] = y /\ s[j + 1] = z
      BY <1>1, <2>3, <3>1
    <3> QED BY <3>2 DEF Before
  <2> QED BY <2>1, <2>2, <2>3
<1> QED BY <1>1, <1>2, <1>3 DEF t, x

\* Messages of different types are different, and so are the messages of two calls.
LEMMA MessageFacts ==
  /\ \A c, d : CallMessage(c) = CallMessage(d) => c = d
  /\ \A c : /\ CallMessage(c) \notin {disembargo, loopback, resolved, broken, Message("release")}
            /\ CallMessage(c).type = "call" /\ CallMessage(c).call = c
  /\ \A t : Message(t).type = t
  /\ \A m \in ToPeer \cup ToHere : m.type = "call" => m.call \in CallNumbers /\ m = CallMessage(m.call)
<1>1. \A c, d : CallMessage(c) = CallMessage(d) => c = d
  BY DEF CallMessage
<1>2. \A c : CallMessage(c).type = "call" /\ CallMessage(c).call = c
  BY DEF CallMessage
<1>3. \A t : Message(t).type = t
  BY DEF Message
<1>4. \A c : CallMessage(c) \notin {disembargo, loopback, resolved, broken, Message("release")}
  BY <1>2, <1>3 DEF disembargo, loopback, resolved, broken
<1>5. \A m \in ToPeer \cup ToHere : m.type = "call" => m.call \in CallNumbers /\ m = CallMessage(m.call)
  BY <1>2, <1>3 DEF ToPeer, ToHere, CallMessages, Others, disembargo, loopback, resolved, broken
<1> QED BY <1>1, <1>2, <1>3, <1>4, <1>5

-------------------------------------------------------------------------------
(* The line.                                                               *)

\* No call joins the line or passes another, and nothing joins the news.
Shrinks ==
  /\ \A c, d \in CallNumbers : /\ OnLine(c)' => OnLine(c)
                               /\ Ahead(c, d)' => Ahead(c, d)
                               /\ MarkAhead(c)' => MarkAhead(c)
  /\ Marked' => Marked
SameNews ==
  \A m, n \in News : /\ m \in Elems(toHere)' => m \in Elems(toHere)
                     /\ Before(toHere, m, n)' => Before(toHere, m, n)

\* A step that leaves the line alone.
LEMMA LineSame ==
  ASSUME UNCHANGED <<toHere, held, toPeer>>
  PROVE  Shrinks /\ SameNews
BY DEF Shrinks, SameNews, OnLine, Ahead, MarkAhead, Marked

\* A call sent to the peer is the last of the line.
LEMMA SentCall ==
  ASSUME Types, NEW n \in CallNumbers,
         toPeer' = Append(toPeer, CallMessage(n)), UNCHANGED <<toHere, held>>
  PROVE  /\ toPeer' \in Seq(ToPeer) /\ SameNews
         /\ \A c \in CallNumbers : OnLine(c)' => OnLine(c) \/ c = n
         /\ \A c, d \in CallNumbers : Ahead(c, d)' => Ahead(c, d) \/ (OnLine(c) /\ d = n)
         /\ \A d \in CallNumbers : MarkAhead(d)' => MarkAhead(d) \/ (Marked /\ d = n)
         /\ Marked' => Marked
<1>1. CallMessage(n) \in ToPeer /\ toPeer \in Seq(ToPeer)
  BY DEF ToPeer, CallMessages, Types
<1>2. /\ toPeer' \in Seq(ToPeer)
      /\ Elems(toPeer') = Elems(toPeer) \cup {CallMessage(n)}
      /\ \A y, z : Before(toPeer', y, z) <=> Before(toPeer, y, z) \/ (y \in Elems(toPeer) /\ z = CallMessage(n))
  BY <1>1, AppendFacts, Zenon
<1>3. SameNews
  BY DEF SameNews
<1>4. \A c, d \in CallNumbers : CallMessage(c) = CallMessage(n) => c = n
  BY MessageFacts, Zenon
<1>5. CallMessage(n) # disembargo
  BY MessageFacts, Zenon
<1>6. \A c \in CallNumbers : OnLine(c)' => OnLine(c) \/ c = n
  BY <1>2, <1>4, Zenon DEF OnLine
<1>7. \A c, d \in CallNumbers : Ahead(c, d)' => Ahead(c, d) \/ (OnLine(c) /\ d = n)
  BY <1>2, <1>4, ZenonT(30) DEF OnLine, Ahead
<1>8. \A d \in CallNumbers : MarkAhead(d)' => MarkAhead(d) \/ (Marked /\ d = n)
  BY <1>2, <1>4, ZenonT(30) DEF MarkAhead, Marked
<1>9. Marked' => Marked
  BY <1>2, <1>5, Zenon DEF Marked
<1> QED BY <1>2, <1>3, <1>6, <1>7, <1>8, <1>9

\* Another message sent to the peer.
LEMMA SentOther ==
  ASSUME Types, NEW m \in Others,
         toPeer' = Append(toPeer, m), UNCHANGED <<toHere, held>>
  PROVE  /\ toPeer' \in Seq(ToPeer) /\ SameNews
         /\ \A c, d \in CallNumbers : /\ OnLine(c)' => OnLine(c)
                                      /\ Ahead(c, d)' => Ahead(c, d)
                                      /\ MarkAhead(c)' => MarkAhead(c)
         /\ Marked' => Marked \/ m = disembargo
<1>1. m \in ToPeer /\ toPeer \in Seq(ToPeer)
  BY DEF ToPeer, Others, Types
<1>2. /\ toPeer' \in Seq(ToPeer)
      /\ Elems(toPeer') = Elems(toPeer) \cup {m}
      /\ \A y, z : Before(toPeer', y, z) <=> Before(toPeer, y, z) \/ (y \in Elems(toPeer) /\ z = m)
  BY <1>1, AppendFacts
<1>3. SameNews
  BY DEF SameNews
<1>4. \A c \in CallNumbers : CallMessage(c) # m
  BY MessageFacts, Zenon DEF Others
<1>5. ASSUME NEW c \in CallNumbers, NEW d \in CallNumbers
      PROVE /\ OnLine(c)' => OnLine(c)
            /\ Ahead(c, d)' => Ahead(c, d)
            /\ MarkAhead(c)' => MarkAhead(c)
  <2>1. OnLine(c)' => OnLine(c)
    BY <1>2, <1>4, Zenon DEF OnLine
  <2>2. Ahead(c, d)' => Ahead(c, d)
    BY <1>2, <1>4 DEF Ahead
  <2>3. MarkAhead(c)' => MarkAhead(c)
    BY <1>2, <1>4 DEF MarkAhead
  <2> QED BY <2>1, <2>2, <2>3
<1>6. Marked' => Marked \/ m = disembargo
  BY <1>2, Zenon DEF Marked
<1> QED BY <1>2, <1>3, <1>5, <1>6

\* The peer takes a message and sends nothing for it.
LEMMA Taken ==
  ASSUME Types, toPeer # <<>>, toPeer' = Tail(toPeer), UNCHANGED <<toHere, held>>
  PROVE  toPeer' \in Seq(ToPeer) /\ Shrinks /\ SameNews
<1>1. /\ toPeer' \in Seq(ToPeer)
      /\ Elems(toPeer) = Elems(toPeer') \cup {Head(toPeer)}
      /\ \A y, z : Before(toPeer, y, z) <=> Before(toPeer', y, z) \/ (y = Head(toPeer) /\ z \in Elems(toPeer'))
  BY HeadFacts, Zenon DEF Types
<1>2. SameNews
  BY DEF SameNews
<1>3. Shrinks
  BY <1>1, ZenonT(30) DEF Shrinks, OnLine, Ahead, MarkAhead, Marked
<1> QED BY <1>1, <1>2, <1>3

\* The peer queues a call.
LEMMA Queued ==
  ASSUME Types, NEW n \in CallNumbers, toPeer # <<>>, Head(toPeer) = CallMessage(n), toPeer' = Tail(toPeer),
         held' = Append(held, n), UNCHANGED toHere
  PROVE  toPeer' \in Seq(ToPeer) /\ held' \in Seq(CallNumbers) /\ Shrinks /\ SameNews
<1>1. /\ toPeer' \in Seq(ToPeer)
      /\ Elems(toPeer) = Elems(toPeer') \cup {CallMessage(n)}
      /\ \A y, z : Before(toPeer, y, z) <=> Before(toPeer', y, z) \/ (y = CallMessage(n) /\ z \in Elems(toPeer'))
  BY HeadFacts, Zenon DEF Types
<1>2. /\ held' \in Seq(CallNumbers)
      /\ Elems(held') = Elems(held) \cup {n}
      /\ \A y, z : Before(held', y, z) <=> Before(held, y, z) \/ (y \in Elems(held) /\ z = n)
  <2>1. held \in Seq(CallNumbers)
    BY DEF Types, EmbargoTypeOK
  <2> QED BY <2>1, AppendFacts
<1>3. SameNews
  BY DEF SameNews
<1>4. ASSUME NEW c \in CallNumbers, NEW d \in CallNumbers
      PROVE /\ OnLine(c)' => OnLine(c)
            /\ Ahead(c, d)' => Ahead(c, d)
            /\ MarkAhead(c)' => MarkAhead(c)
  BY <1>1, <1>2, ZenonT(60) DEF OnLine, Ahead, MarkAhead
<1>5. Marked' => Marked
  BY <1>1, Zenon DEF Marked
<1>6. Shrinks
  BY <1>4, <1>5 DEF Shrinks
<1> QED BY <1>1, <1>2, <1>3, <1>6

\* The peer forwards a call it has just received.
LEMMA Forwarded ==
  ASSUME Types, held = <<>>, NEW n \in CallNumbers, toPeer # <<>>, Head(toPeer) = CallMessage(n), toPeer' = Tail(toPeer),
         toHere' = Append(toHere, CallMessage(n)), UNCHANGED held
  PROVE  toPeer' \in Seq(ToPeer) /\ toHere' \in Seq(ToHere) /\ Shrinks /\ SameNews
<1>1. /\ toPeer' \in Seq(ToPeer)
      /\ Elems(toPeer) = Elems(toPeer') \cup {CallMessage(n)}
      /\ \A y, z : Before(toPeer, y, z) <=> Before(toPeer', y, z) \/ (y = CallMessage(n) /\ z \in Elems(toPeer'))
  BY HeadFacts, Zenon DEF Types
<1>2. /\ toHere' \in Seq(ToHere)
      /\ Elems(toHere') = Elems(toHere) \cup {CallMessage(n)}
      /\ \A y, z : Before(toHere', y, z) <=> Before(toHere, y, z) \/ (y \in Elems(toHere) /\ z = CallMessage(n))
  <2>1. toHere \in Seq(ToHere) /\ CallMessage(n) \in ToHere
    BY DEF Types, ToHere, CallMessages
  <2> QED BY <2>1, AppendFacts
<1>3. \A d : d \notin Elems(held) /\ d \notin Elems(held')
  BY EmptyFacts
<1>4. CallMessage(n) \notin News /\ CallMessage(n) # loopback
  BY MessageFacts, Zenon DEF News
<1>5. SameNews
  BY <1>2, <1>4 DEF SameNews
<1>6. ASSUME NEW c \in CallNumbers, NEW d \in CallNumbers
      PROVE /\ OnLine(c)' => OnLine(c)
            /\ Ahead(c, d)' => Ahead(c, d)
            /\ MarkAhead(c)' => MarkAhead(c)
  <2>1. OnLine(c)' => OnLine(c)
    BY <1>1, <1>2 DEF OnLine
  <2>2. Ahead(c, d)' => Ahead(c, d)
    BY <1>1, <1>2, <1>3 DEF Ahead
  <2>3. MarkAhead(c)' => MarkAhead(c)
    BY <1>1, <1>2, <1>4 DEF MarkAhead
  <2> QED BY <2>1, <2>2, <2>3
<1>7. Marked' => Marked
  BY <1>1, <1>2, <1>4 DEF Marked
<1>8. Shrinks
  BY <1>6, <1>7 DEF Shrinks
<1> QED BY <1>1, <1>2, <1>5, <1>8

\* The peer echoes the Disembargo.
LEMMA Echoed ==
  ASSUME Types, held = <<>>, toPeer # <<>>, Head(toPeer) = disembargo, toPeer' = Tail(toPeer),
         toHere' = Append(toHere, loopback), UNCHANGED held
  PROVE  toPeer' \in Seq(ToPeer) /\ toHere' \in Seq(ToHere) /\ Shrinks /\ SameNews
<1>1. /\ toPeer' \in Seq(ToPeer)
      /\ Elems(toPeer) = Elems(toPeer') \cup {disembargo}
      /\ \A y, z : Before(toPeer, y, z) <=> Before(toPeer', y, z) \/ (y = disembargo /\ z \in Elems(toPeer'))
  BY HeadFacts, Zenon DEF Types
<1>2. /\ toHere' \in Seq(ToHere)
      /\ Elems(toHere') = Elems(toHere) \cup {loopback}
      /\ \A y, z : Before(toHere', y, z) <=> Before(toHere, y, z) \/ (y \in Elems(toHere) /\ z = loopback)
  <2>1. toHere \in Seq(ToHere) /\ loopback \in ToHere
    BY DEF Types, ToHere
  <2> QED BY <2>1, AppendFacts
<1>3. \A d : d \notin Elems(held) /\ d \notin Elems(held')
  BY EmptyFacts
<1>4. loopback \notin News /\ \A c : CallMessage(c) # loopback /\ CallMessage(c) # disembargo
  <2>1. loopback.type = "loopback" /\ resolved.type = "resolved" /\ broken.type = "broken"
    BY MessageFacts DEF loopback, resolved, broken
  <2>2. loopback \notin News
    BY <2>1 DEF News
  <2> QED BY <2>2, MessageFacts, Zenon
<1>5. SameNews
  BY <1>2, <1>4 DEF SameNews
<1>6. ASSUME NEW c \in CallNumbers, NEW d \in CallNumbers
      PROVE /\ OnLine(c)' => OnLine(c)
            /\ Ahead(c, d)' => Ahead(c, d)
            /\ MarkAhead(c)' => MarkAhead(c)
  <2>1. OnLine(c)' => OnLine(c)
    BY <1>1, <1>2, <1>4 DEF OnLine
  <2>2. Ahead(c, d)' => Ahead(c, d)
    BY <1>1, <1>2, <1>4 DEF Ahead
  <2>3. MarkAhead(c)' => MarkAhead(c)
    BY <1>1, <1>2, <1>3, <1>4 DEF MarkAhead
  <2> QED BY <2>1, <2>2, <2>3
<1>7. Marked' => Marked
  BY <1>1, <1>2 DEF Marked
<1>8. Shrinks
  BY <1>6, <1>7 DEF Shrinks
<1> QED BY <1>1, <1>2, <1>5, <1>8

\* The peer forwards the first call of its queue.
LEMMA Drained ==
  ASSUME Types, held # <<>>, held' = Tail(held), toHere' = Append(toHere, CallMessage(Head(held))), UNCHANGED toPeer
  PROVE  held' \in Seq(CallNumbers) /\ toHere' \in Seq(ToHere) /\ Shrinks /\ SameNews
<1> DEFINE n == Head(held)
<1>1. /\ n \in CallNumbers /\ held' \in Seq(CallNumbers)
      /\ Elems(held) = Elems(held') \cup {n}
      /\ \A y, z : Before(held, y, z) <=> Before(held', y, z) \/ (y = n /\ z \in Elems(held'))
  <2>1. held \in Seq(CallNumbers)
    BY DEF Types, EmbargoTypeOK
  <2> QED BY <2>1, HeadFacts
<1>2. /\ toHere' \in Seq(ToHere)
      /\ Elems(toHere') = Elems(toHere) \cup {CallMessage(n)}
      /\ \A y, z : Before(toHere', y, z) <=> Before(toHere, y, z) \/ (y \in Elems(toHere) /\ z = CallMessage(n))
  <2>1. toHere \in Seq(ToHere) /\ CallMessage(n) \in ToHere
    BY <1>1 DEF Types, ToHere, CallMessages
  <2> QED BY <2>1, AppendFacts
<1> HIDE DEF n
<1>3. CallMessage(n) \notin News /\ CallMessage(n) # loopback
  BY MessageFacts, Zenon DEF News
<1>4. \A c \in CallNumbers : CallMessage(c) = CallMessage(n) => c = n
  BY MessageFacts, Zenon
<1>5. SameNews
  BY <1>2, <1>3 DEF SameNews
<1>6. ASSUME NEW c \in CallNumbers, NEW d \in CallNumbers
      PROVE /\ OnLine(c)' => OnLine(c)
            /\ Ahead(c, d)' => Ahead(c, d)
            /\ MarkAhead(c)' => MarkAhead(c)
  <2>1. OnLine(c)' => OnLine(c)
    BY <1>1, <1>2, <1>4 DEF OnLine
  <2>2. Ahead(c, d)' => Ahead(c, d)
    BY <1>1, <1>2, <1>4 DEF Ahead
  <2>3. MarkAhead(c)' => MarkAhead(c)
    BY <1>1, <1>2, <1>3, <1>4 DEF MarkAhead
  <2> QED BY <2>1, <2>2, <2>3
<1>7. Marked' => Marked
  BY <1>2, <1>3 DEF Marked
<1>8. Shrinks
  BY <1>6, <1>7 DEF Shrinks
<1> QED BY <1>1, <1>2, <1>5, <1>8

\* News of the resolution is sent.
LEMMA Told ==
  ASSUME Types, NEW m \in News, toHere' = Append(toHere, m), UNCHANGED <<toPeer, held>>
  PROVE  /\ toHere' \in Seq(ToHere) /\ Shrinks
         /\ Elems(toHere') = Elems(toHere) \cup {m}
         /\ \A x, y \in News : Before(toHere, x, y)' => Before(toHere, x, y) \/ x \in Elems(toHere)
<1>1. /\ toHere' \in Seq(ToHere)
      /\ Elems(toHere') = Elems(toHere) \cup {m}
      /\ \A y, z : Before(toHere', y, z) <=> Before(toHere, y, z) \/ (y \in Elems(toHere) /\ z = m)
  <2>1. toHere \in Seq(ToHere) /\ m \in ToHere
    BY DEF Types, ToHere, News
  <2> QED BY <2>1, AppendFacts
<1>2. m # loopback
  <2>1. loopback.type = "loopback" /\ resolved.type = "resolved" /\ broken.type = "broken"
    BY MessageFacts DEF loopback, resolved, broken
  <2> QED BY <2>1 DEF News
<1>3. \A c : CallMessage(c) # m
  BY MessageFacts, Zenon DEF News
<1>4. ASSUME NEW c \in CallNumbers, NEW d \in CallNumbers
      PROVE /\ OnLine(c)' => OnLine(c)
            /\ Ahead(c, d)' => Ahead(c, d)
            /\ MarkAhead(c)' => MarkAhead(c)
  <2>1. OnLine(c)' => OnLine(c)
    BY <1>1, <1>3 DEF OnLine
  <2>2. Ahead(c, d)' => Ahead(c, d)
    BY <1>1, <1>3 DEF Ahead
  <2>3. MarkAhead(c)' => MarkAhead(c)
    BY <1>1, <1>2, <1>3 DEF MarkAhead
  <2> QED BY <2>1, <2>2, <2>3
<1>5. Marked' => Marked
  BY <1>1, <1>2 DEF Marked
<1>6. Shrinks
  BY <1>4, <1>5 DEF Shrinks
<1> QED BY <1>1, <1>6

\* A message is received here: what remains in the line was behind it.
LEMMA Received ==
  ASSUME Types, toHere # <<>>, toHere' = Tail(toHere), UNCHANGED held
  PROVE  /\ toHere' \in Seq(ToHere) /\ Head(toHere) \in ToHere
         /\ SameNews
         /\ Head(toHere) \in Elems(toHere)
         /\ Head(toHere) \in News => \A m \in News : m \in Elems(toHere)' => Before(toHere, Head(toHere), m)
         /\ UNCHANGED toPeer =>
              /\ Shrinks
              /\ \A c \in CallNumbers : Head(toHere) = CallMessage(c) =>
                   OnLine(c) /\ \A d \in CallNumbers : OnLine(d)' => Ahead(c, d)
              /\ Head(toHere) = loopback => Marked /\ \A d \in CallNumbers : OnLine(d)' => MarkAhead(d)
<1> DEFINE h == Head(toHere)
<1>1. /\ h \in ToHere /\ toHere' \in Seq(ToHere)
      /\ Elems(toHere) = Elems(toHere') \cup {h}
      /\ \A y, z : Before(toHere, y, z) <=> Before(toHere', y, z) \/ (y = h /\ z \in Elems(toHere'))
  BY HeadFacts DEF Types
<1> HIDE DEF h
<1>2. SameNews
  BY <1>1 DEF SameNews
<1>3. h \in News => \A m \in News : m \in Elems(toHere)' => Before(toHere, h, m)
  BY <1>1
<1>4. ASSUME UNCHANGED toPeer
      PROVE  /\ Shrinks
             /\ \A c \in CallNumbers : h = CallMessage(c) =>
                  OnLine(c) /\ \A d \in CallNumbers : OnLine(d)' => Ahead(c, d)
             /\ h = loopback => Marked /\ \A d \in CallNumbers : OnLine(d)' => MarkAhead(d)
  <2>1. Shrinks
    BY <1>1, <1>4 DEF Shrinks, OnLine, Ahead, MarkAhead, Marked
  <2>2. ASSUME NEW c \in CallNumbers, h = CallMessage(c)
        PROVE  OnLine(c) /\ \A d \in CallNumbers : OnLine(d)' => Ahead(c, d)
    BY <1>1, <1>4, <2>2 DEF OnLine, Ahead
  <2>3. ASSUME h = loopback
        PROVE  Marked /\ \A d \in CallNumbers : OnLine(d)' => MarkAhead(d)
    BY <1>1, <1>4, <2>3 DEF OnLine, MarkAhead, Marked
  <2> QED BY <2>1, <2>2, <2>3
<1> QED BY <1>1, <1>2, <1>3, <1>4 DEF h

\* The connection ends, or the peer's queue is rejected.
LEMMA Cleared ==
  ASSUME \/ toPeer' = <<>> /\ toHere' = <<>> /\ UNCHANGED held
         \/ held' = <<>> /\ UNCHANGED <<toPeer, toHere>>
  PROVE  Shrinks /\ SameNews
BY EmptyFacts DEF Shrinks, SameNews, OnLine, Ahead, MarkAhead, Marked

-------------------------------------------------------------------------------
(* The parts of the invariant that a step leaves alone.                    *)

\* A step that makes no call and delivers none keeps the order.
LEMMA QuietInv ==
  ASSUME LineInv, GotInv, Shrinks, UNCHANGED <<made, calling, late, got, queued>>, down => down'
  PROVE  LineInv' /\ GotInv'
<1>1. LineInv'
  BY DEF LineInv, Sent, Shrinks
<1>2. GotInv'
  BY DEF GotInv, EOrderButLate, Shrinks
<1> QED BY <1>1, <1>2

\* A step that opens no way around the line keeps what is said of those.
LEMMA QuietPass ==
  ASSUME PassInv, Shrinks, late \subseteq late',
         UNCHANGED <<route, embargo, handler>>, down => down'
  PROVE  PassInv'
BY DEF PassInv, Shrinks

\* A call that was made after all others may be added.
LEMMA OrderAppend ==
  ASSUME NEW L, NEW s \in Seq(CallNumbers), NEW n \in CallNumbers, Ordered(s, L),
         \A c \in Elems(s) : c < n \/ n \in L
  PROVE  Ordered(Append(s, n), L)
<1>1. /\ Len(s) \in Nat /\ DOMAIN s = 1..Len(s) /\ DOMAIN Append(s, n) = 1..(Len(s) + 1)
      /\ \A i \in 1..Len(s) : Append(s, n)[i] = s[i]
      /\ Append(s, n)[Len(s) + 1] = n
  OBVIOUS
<1>2. \A i \in 1..Len(s) : s[i] \in Elems(s)
  BY <1>1 DEF Elems
<1>3. ASSUME NEW i \in 1..(Len(s) + 1), NEW j \in 1..(Len(s) + 1), i < j
      PROVE  Append(s, n)[i] < Append(s, n)[j] \/ Append(s, n)[j] \in L
  <2>1. i \in 1..Len(s) /\ Append(s, n)[i] = s[i] /\ (j \in 1..Len(s) \/ j = Len(s) + 1)
    BY <1>1, <1>3
  <2>2. CASE j \in 1..Len(s)
    BY <1>1, <1>3, <2>1, <2>2 DEF Ordered
  <2>3. CASE j = Len(s) + 1
    BY <1>1, <1>2, <2>1, <2>3
  <2> QED BY <2>1, <2>2, <2>3
<1> QED BY <1>1, <1>3 DEF Ordered

\* The head was made before the rest.
LEMMA OrderTail ==
  ASSUME NEW s \in Seq(CallNumbers), s # <<>>, Ordered(s, {})
  PROVE  /\ Ordered(Tail(s), {})
         /\ \A c \in Elems(Tail(s)) : Head(s) < c
<1>1. /\ Len(s) \in Nat /\ Len(s) >= 1 /\ DOMAIN s = 1..Len(s) /\ DOMAIN Tail(s) = 1..(Len(s) - 1)
      /\ \A i \in 1..(Len(s) - 1) : Tail(s)[i] = s[i + 1]
      /\ Head(s) = s[1]
  OBVIOUS
<1>2. ASSUME NEW i \in 1..(Len(s) - 1), NEW j \in 1..(Len(s) - 1), i < j
      PROVE  Tail(s)[i] < Tail(s)[j]
  <2>1. i + 1 \in DOMAIN s /\ j + 1 \in DOMAIN s /\ i + 1 < j + 1
    BY <1>1, <1>2
  <2>2. s[i + 1] < s[j + 1]
    BY <2>1 DEF Ordered
  <2> QED BY <1>1, <2>2
<1>3. ASSUME NEW c \in Elems(Tail(s)) PROVE Head(s) < c
  <2>1. PICK j \in 1..(Len(s) - 1) : Tail(s)[j] = c
    BY <1>1 DEF Elems
  <2>2. 1 \in DOMAIN s /\ j + 1 \in DOMAIN s /\ 1 < j + 1 /\ s[j + 1] = c
    BY <1>1, <2>1
  <2>3. s[1] < s[j + 1]
    BY <2>2 DEF Ordered
  <2> QED BY <1>1, <2>2, <2>3
<1>4. Ordered(Tail(s), {})
  BY <1>1, <1>2 DEF Ordered
<1> QED BY <1>3, <1>4

-------------------------------------------------------------------------------
(* The application's steps.                                                *)

\* What a step of the application does not touch.
LEMMA CallFacts ==
  ASSUME EmbargoAssumption, IInv, Call
  PROVE  /\ made' \in CallNumbers /\ made' = made + 1 /\ made \in Nat /\ made' \in 0..MaxCalls /\ Sent' = made' /\ calling = "none"
         /\ \A c \in Elems(got) \cup Elems(queued) : c \in CallNumbers /\ c < made'
         /\ \A c \in CallNumbers : OnLine(c) => c < made'
         /\ UNCHANGED <<via, calling, released, late, route, toPeer, toHere, handler, embargo, held, peer, exported, told, down>>
<1>1. made \in 0..MaxCalls /\ got \in Seq(CallNumbers) /\ queued \in Seq(CallNumbers)
  BY DEF IInv, Types, EmbargoTypeOK
<1>2. made' = made + 1 /\ made < MaxCalls /\ calling = "none" /\ Sent = made
  BY DEF Call, Sent
<1>3. UNCHANGED <<via, calling, released, late, route, toPeer, toHere, handler, embargo, held, peer, exported, told, down>>
  BY DEF Call, peerVars
<1>4. \A c \in Elems(got) \cup Elems(queued) : c \in CallNumbers /\ c <= made
  <2>1. \A c \in Elems(got) \cup Elems(queued) : c \in CallNumbers
    BY <1>1 DEF Elems
  <2> QED BY <1>2, <2>1 DEF IInv, LineInv
<1>5. \A c \in CallNumbers : OnLine(c) => c <= made
  BY <1>2 DEF IInv, LineInv
<1>6. MaxCalls \in Nat /\ CallNumbers = 1..MaxCalls
  BY DEF EmbargoAssumption, CallNumbers
<1>7. made' \in CallNumbers /\ made \in Nat /\ made' \in 0..MaxCalls
  BY <1>1, <1>2, <1>6
<1>8. \A c \in Elems(got) \cup Elems(queued) : c < made'
  BY <1>1, <1>2, <1>4, <1>6
<1>9. \A c \in CallNumbers : OnLine(c) => c < made'
  BY <1>1, <1>2, <1>5, <1>6
<1>10. Sent' = made'
  BY <1>2, <1>3 DEF Sent
<1> QED BY <1>2, <1>3, <1>4, <1>7, <1>8, <1>9, <1>10

\* A step that does not advance the resolution keeps what is said of its stage.
LEMMA QuietStage ==
  ASSUME StageInv, SameNews, Marked' => Marked, UNCHANGED <<via, route, handler, embargo, peer, told>>,
         peer \in {"resolved", "broken"} => held' = held, down => down',
         queued' # <<>> => route = "embargo"
  PROVE  StageInv'
BY DEF StageInv, Overtakable, SameNews

\* importClient.Send and question.PipelineSend.
LEMMA CallWireInv ==
  ASSUME EmbargoAssumption, IInv, CallWire
  PROVE  IInv'
<1> DEFINE n == made
<1>1. /\ calling = "started" /\ calling' = "sent"
      /\ UNCHANGED <<via, made, released, route, toHere, handler, embargo, queued, held, peer, exported, told, down, got>>
      /\ toPeer' = IF down THEN toPeer ELSE toPeer \o <<CallMessage(n)>>
      /\ failed' = IF down THEN failed \cup {n} ELSE failed
      /\ late' = IF Overtakable THEN late \cup {n} ELSE late
  BY DEF CallWire, Send, peerVars
<1>2. /\ n \in CallNumbers /\ n \in 0..MaxCalls /\ Sent' = n
      /\ \A c \in Elems(got) \cup Elems(queued) : c \in CallNumbers /\ c < n
      /\ \A c \in CallNumbers : OnLine(c) => c < n
  <2>1. /\ made \in 0..MaxCalls /\ made > 0 /\ MaxCalls \in Nat /\ CallNumbers = 1..MaxCalls
        /\ got \in Seq(CallNumbers) /\ queued \in Seq(CallNumbers)
    BY <1>1 DEF IInv, Types, EmbargoTypeOK, LineInv, EmbargoAssumption, CallNumbers
  <2>2. Sent = made - 1 /\ Sent' = n
    BY <1>1 DEF Sent
  <2>3. \A c \in Elems(got) \cup Elems(queued) : c \in CallNumbers /\ c <= made - 1
    <3>1. \A c \in Elems(got) \cup Elems(queued) : c \in CallNumbers
      BY <2>1 DEF Elems
    <3> QED BY <2>2, <3>1 DEF IInv, LineInv
  <2>4. \A c \in CallNumbers : OnLine(c) => c <= made - 1
    BY <2>2 DEF IInv, LineInv
  <2>5. \A c \in Elems(got) \cup Elems(queued) : c \in CallNumbers /\ c < made
    BY <2>1, <2>3
  <2>6. \A c \in CallNumbers : OnLine(c) => c < made
    BY <2>1, <2>4
  <2> QED BY <2>1, <2>2, <2>5, <2>6
<1> HIDE DEF n
<1>3. late \subseteq late' /\ late' \subseteq CallNumbers /\ failed' \subseteq CallNumbers
  BY <1>1, <1>2 DEF IInv, Types, EmbargoTypeOK
<1>4. /\ toPeer' \in Seq(ToPeer) /\ SameNews /\ (down => toPeer' = toPeer)
      /\ \A c \in CallNumbers : OnLine(c)' => OnLine(c) \/ (c = n /\ ~down)
      /\ \A c, d \in CallNumbers : Ahead(c, d)' => Ahead(c, d) \/ (OnLine(c) /\ d = n)
      /\ \A d \in CallNumbers : MarkAhead(d)' => MarkAhead(d) \/ (Marked /\ ~down /\ d = n)
      /\ Marked' => Marked
  <2>1. CASE down
    <3>1. UNCHANGED <<toHere, held, toPeer>> /\ toPeer \in Seq(ToPeer)
      BY <1>1, <1>2, <2>1 DEF IInv, Types
    <3>2. Shrinks /\ SameNews
      BY <3>1, LineSame
    <3> QED BY <2>1, <3>1, <3>2 DEF Shrinks
  <2>2. CASE ~down
    <3>1. toPeer \in Seq(ToPeer) /\ toPeer' = toPeer \o <<CallMessage(n)>>
      BY <1>1, <2>2 DEF IInv, Types
    <3>2. CallMessage(n) \in ToPeer
      BY <1>2 DEF ToPeer, CallMessages
    <3>3. toPeer' = Append(toPeer, CallMessage(n)) /\ UNCHANGED <<toHere, held>> /\ Types
      BY <1>1, <3>1, <3>2 DEF IInv
    <3> QED BY <1>2, <2>2, <3>3, SentCall
  <2> QED BY <2>1, <2>2
<1>5. Types'
  BY <1>1, <1>2, <1>3, <1>4 DEF IInv, Types, EmbargoTypeOK, n
<1>6. StageInv'
  <2>1. queued' # <<>> => route = "embargo"
    BY <1>1 DEF IInv, StageInv
  <2> QED BY <1>1, <1>4, <2>1, QuietStage DEF IInv
<1>7. ~down /\ (Marked \/ embargo \in {"draining", "lifted"} \/ route = "local" \/ (handler = "fulfill" /\ embargo = "none")) => n \in late'
  BY <1>1 DEF IInv, StageInv, Overtakable
<1>8. LineInv'
  <2>1. \A c \in Elems(got)' \cup Elems(queued)' : c <= n
    BY <1>1, <1>2 DEF CallNumbers, EmbargoAssumption
  <2>2. \A c \in CallNumbers : OnLine(c)' => c <= n
    BY <1>2, <1>4 DEF CallNumbers, EmbargoAssumption
  <2>3. \A c, d \in CallNumbers : Ahead(c, d)' => c < d
    BY <1>2, <1>4 DEF IInv, LineInv
  <2>4. \A c \in CallNumbers : MarkAhead(c)' => c \in late'
    BY <1>3, <1>4, <1>7 DEF IInv, LineInv
  <2> QED BY <1>1, <1>2, <2>1, <2>2, <2>3, <2>4 DEF LineInv
<1>9. GotInv'
  <2>1. EOrderButLate'
    BY <1>1, <1>3 DEF IInv, GotInv, EOrderButLate
  <2>2. ASSUME ~down, NEW c \in Elems(got), NEW d \in CallNumbers, OnLine(d)' PROVE c < d \/ d \in late'
    BY <1>2, <1>3, <1>4, <2>2 DEF IInv, GotInv
  <2>3. queued = <<>>
    BY <1>1 DEF IInv, LineInv
  <2>4. queued' = <<>> /\ queued = <<>> /\ Elems(queued)' = {}
    BY <1>1, <2>3, EmptyFacts
  <2> QED BY <1>1, <1>2, <2>1, <2>2, <2>4 DEF IInv, GotInv
<1>10. PassInv'
  <2>1. ASSUME ~down, embargo \in {"draining", "lifted"} \/ route = "local" \/ (handler = "fulfill" /\ embargo = "none"),
               NEW c \in CallNumbers, OnLine(c)'
        PROVE  c \in late'
    BY <1>2, <1>3, <1>4, <1>7, <2>1 DEF IInv, PassInv
  <2> QED BY <1>1, <2>1 DEF PassInv
<1> QED BY <1>5, <1>6, <1>8, <1>9, <1>10 DEF IInv

\* embargo.Send on a lifted embargo, and a call on the capability itself.
LEMMA CallPassedInv ==
  ASSUME EmbargoAssumption, IInv, Call,
         (route = "embargo" /\ embargo = "lifted") \/ route = "local",
         got' = Append(got, made'), UNCHANGED <<queued, failed>>
  PROVE  IInv'
<1> DEFINE n == made'
<1>1. /\ n \in CallNumbers /\ n = made + 1 /\ made \in Nat /\ n \in 0..MaxCalls /\ Sent' = n /\ calling = "none"
      /\ \A c \in Elems(got) \cup Elems(queued) : c \in CallNumbers /\ c < n
      /\ \A c \in CallNumbers : OnLine(c) => c < n
      /\ UNCHANGED <<via, calling, released, late, route, toPeer, toHere, handler, embargo, held, peer, exported, told, down>>
  BY CallFacts
<1>2. got \in Seq(CallNumbers) /\ queued = <<>>
  BY DEF IInv, Types, EmbargoTypeOK, StageInv
<1>3. got' \in Seq(CallNumbers) /\ Elems(got') = Elems(got) \cup {n}
  BY <1>1, <1>2, AppendFacts
<1> HIDE DEF n
<1>4. Shrinks /\ SameNews
  BY <1>1, LineSame
<1>5. Types'
  BY <1>1, <1>2, <1>3 DEF IInv, Types, EmbargoTypeOK, n
<1>6. StageInv'
  BY <1>1, <1>2, <1>4, QuietStage DEF IInv, Shrinks
<1>7. PassInv'
  BY <1>1, <1>4, QuietPass DEF IInv
<1>8. LineInv'
  <2>1. \A c \in Elems(got)' \cup Elems(queued)' : c <= n
    BY <1>1, <1>3 DEF CallNumbers, EmbargoAssumption
  <2>2. \A c \in CallNumbers : OnLine(c)' => c <= n
    BY <1>1, <1>4 DEF CallNumbers, EmbargoAssumption, Shrinks
  <2> QED BY <1>1, <1>4, <2>1, <2>2 DEF IInv, LineInv, Shrinks
<1>9. GotInv'
  <2>1. EOrderButLate'
    <3>1. Ordered(got, late) /\ \A c \in Elems(got) : c < n
      BY <1>1 DEF IInv, GotInv, EOrderButLate, Ordered
    <3>2. Ordered(Append(got, n), late)
      BY <1>1, <1>2, <3>1, OrderAppend
    <3> QED BY <1>1, <3>2 DEF EOrderButLate, Ordered, n
  <2>2. ASSUME ~down, NEW c \in Elems(got'), NEW d \in CallNumbers, OnLine(d)' PROVE c < d \/ d \in late'
    BY <1>1, <1>4, <2>2 DEF IInv, PassInv, Shrinks
  <2>3. queued' = <<>> /\ Elems(queued)' = {} /\ Ordered(queued, {})'
    BY <1>2, EmptyFacts DEF Ordered
  <2> QED BY <1>1, <2>1, <2>2, <2>3 DEF GotInv
<1> QED BY <1>5, <1>6, <1>7, <1>8, <1>9 DEF IInv

\* embargo.Send while the embargo is up.
LEMMA CallQueuedInv ==
  ASSUME EmbargoAssumption, IInv, Call, route = "embargo", embargo = "up",
         queued' = Append(queued, made'), UNCHANGED <<got, failed>>
  PROVE  IInv'
<1> DEFINE n == made'
<1>1. /\ n \in CallNumbers /\ n = made + 1 /\ made \in Nat /\ n \in 0..MaxCalls /\ Sent' = n /\ calling = "none"
      /\ \A c \in Elems(got) \cup Elems(queued) : c \in CallNumbers /\ c < n
      /\ \A c \in CallNumbers : OnLine(c) => c < n
      /\ UNCHANGED <<via, calling, released, late, route, toPeer, toHere, handler, embargo, held, peer, exported, told, down>>
  BY CallFacts
<1>2. queued \in Seq(CallNumbers)
  BY DEF IInv, Types, EmbargoTypeOK
<1>3. queued' \in Seq(CallNumbers) /\ Elems(queued') = Elems(queued) \cup {n}
  BY <1>1, <1>2, AppendFacts
<1> HIDE DEF n
<1>4. Shrinks /\ SameNews
  BY <1>1, LineSame
<1>5. Types'
  BY <1>1, <1>2, <1>3 DEF IInv, Types, EmbargoTypeOK, n
<1>6. StageInv'
  BY <1>1, <1>4, QuietStage DEF IInv, Shrinks
<1>7. PassInv'
  BY <1>1, <1>4, QuietPass DEF IInv
<1>8. LineInv'
  <2>1. \A c \in Elems(got)' \cup Elems(queued)' : c <= n
    BY <1>1, <1>3 DEF CallNumbers, EmbargoAssumption
  <2>2. \A c \in CallNumbers : OnLine(c)' => c <= n
    BY <1>1, <1>4 DEF CallNumbers, EmbargoAssumption, Shrinks
  <2> QED BY <1>1, <1>4, <2>1, <2>2 DEF IInv, LineInv, Shrinks
<1>9. GotInv'
  <2>1. EOrderButLate'
    BY <1>1 DEF IInv, GotInv, EOrderButLate
  <2>2. ~down => \A c \in Elems(got)', d \in CallNumbers : OnLine(d)' => c < d \/ d \in late'
    BY <1>1, <1>4 DEF IInv, GotInv, Shrinks
  <2>3. \A c \in Elems(got)', d \in Elems(queued)' : c < d
    BY <1>1, <1>3 DEF IInv, GotInv
  <2>4. Ordered(queued', {})
    <3>1. Ordered(Append(queued, n), {})
      BY <1>1, <1>2, OrderAppend DEF IInv, GotInv
    <3> QED BY <3>1 DEF n
  <2>5. ~down => \A c \in CallNumbers, d \in Elems(queued)' : OnLine(c)' => c < d
    BY <1>1, <1>3, <1>4 DEF IInv, GotInv, Shrinks
  <2> QED BY <1>1, <2>1, <2>2, <2>3, <2>4, <2>5 DEF GotInv
<1> QED BY <1>5, <1>6, <1>7, <1>8, <1>9 DEF IInv

\* A call on the broken promise.
LEMMA CallBrokenInv ==
  ASSUME EmbargoAssumption, IInv, Call, CallBroken(made')
  PROVE  IInv'
<1> DEFINE n == made'
<1>1. /\ n \in CallNumbers /\ n = made + 1 /\ made \in Nat /\ n \in 0..MaxCalls /\ Sent' = n /\ calling = "none"
      /\ \A c \in Elems(got) \cup Elems(queued) : c \in CallNumbers /\ c < n
      /\ \A c \in CallNumbers : OnLine(c) => c < n
      /\ UNCHANGED <<via, calling, released, late, route, toPeer, toHere, handler, embargo, held, peer, exported, told, down>>
  BY CallFacts
<1>2. failed' = failed \cup {n} /\ UNCHANGED <<queued, got>>
  BY DEF CallBroken
<1> HIDE DEF n
<1>3. Shrinks /\ SameNews
  BY <1>1, <1>2, LineSame
<1>4. Types'
  BY <1>1, <1>2 DEF IInv, Types, EmbargoTypeOK, n
<1>5. StageInv'
  <2>1. queued' # <<>> => route = "embargo"
    BY <1>2 DEF IInv, StageInv
  <2> QED BY <1>1, <1>3, <2>1, QuietStage DEF IInv, Shrinks
<1>6. PassInv'
  BY <1>1, <1>2, <1>3, QuietPass DEF IInv
<1>7. LineInv'
  <2>1. \A c \in Elems(got)' \cup Elems(queued)' : c <= n
    BY <1>1, <1>2 DEF CallNumbers, EmbargoAssumption
  <2>2. \A c \in CallNumbers : OnLine(c)' => c <= n
    BY <1>1, <1>3 DEF CallNumbers, EmbargoAssumption, Shrinks
  <2> QED BY <1>1, <1>2, <1>3, <2>1, <2>2 DEF IInv, LineInv, Shrinks
<1>8. GotInv'
  BY <1>1, <1>2, <1>3 DEF IInv, GotInv, EOrderButLate, Shrinks
<1> QED BY <1>4, <1>5, <1>6, <1>7, <1>8 DEF IInv

\* The application makes a call.
LEMMA CallInv ==
  ASSUME EmbargoAssumption, IInv, Call
  PROVE  IInv'
<1>2. CASE CallEmbargo(made')
  <2>1. CASE embargo = "up" /\ queued' = Append(queued, made') /\ UNCHANGED got
    BY <1>2, <2>1, CallQueuedInv DEF CallEmbargo
  <2>2. CASE embargo = "lifted" /\ got' = Append(got, made') /\ UNCHANGED queued
    BY <1>2, <2>2, CallPassedInv DEF CallEmbargo
  <2> QED BY <1>2, <2>1, <2>2 DEF CallEmbargo
<1>3. CASE CallLocal(made')
  BY <1>3, CallPassedInv DEF CallLocal
<1>4. CASE CallBroken(made')
  BY <1>4, CallBrokenInv
<1> QED BY <1>2, <1>3, <1>4 DEF Call

-------------------------------------------------------------------------------
(* Messages on the line.                                                   *)

\* A step that only moves messages along.
LEMMA QuietStep ==
  ASSUME IInv, Types', Shrinks, SameNews,
         UNCHANGED <<made, calling, late, got, queued, via, route, handler, embargo, peer, told, down>>,
         peer \in {"resolved", "broken"} => held' = held
  PROVE  IInv'
<1>1. LineInv' /\ GotInv'
  BY QuietInv DEF IInv
<1>2. PassInv'
  BY QuietPass DEF IInv
<1>3. queued' # <<>> => route = "embargo"
  BY DEF IInv, StageInv
<1>4. StageInv'
  BY <1>3, QuietStage DEF IInv, Shrinks
<1> QED BY <1>1, <1>2, <1>4 DEF IInv

\* A Release that is sent, unless the connection is closed.
LEMMA SentRelease ==
  ASSUME Types, Send(<<Message("release")>>) \/ UNCHANGED toPeer, UNCHANGED <<toHere, held, down>>
  PROVE  toPeer' \in Seq(ToPeer) /\ (down => toPeer' = <<>>) /\ Shrinks /\ SameNews
<1>1. CASE UNCHANGED toPeer
  BY <1>1, LineSame DEF Types
<1>2. CASE ~down /\ Send(<<Message("release")>>)
  <2>1. Message("release") \in Others /\ Message("release") # disembargo
    <3>1. Message("release").type = "release" /\ disembargo.type = "disembargo"
      BY MessageFacts DEF disembargo
    <3> QED BY <3>1 DEF Others
  <2>2. toPeer \in Seq(ToPeer) /\ Message("release") \in ToPeer
    BY <2>1 DEF Types, ToPeer
  <2>3. toPeer' = Append(toPeer, Message("release"))
    BY <1>2, <2>2 DEF Send
  <2>4. /\ toPeer' \in Seq(ToPeer) /\ SameNews
        /\ \A c, d \in CallNumbers : /\ OnLine(c)' => OnLine(c)
                                     /\ Ahead(c, d)' => Ahead(c, d)
                                     /\ MarkAhead(c)' => MarkAhead(c)
        /\ Marked' => Marked \/ Message("release") = disembargo
    BY <2>1, <2>3, SentOther
  <2> QED BY <1>2, <2>1, <2>4 DEF Shrinks
<1>3. CASE down /\ Send(<<Message("release")>>)
  BY <1>1, <1>3 DEF Send
<1> QED BY <1>1, <1>2, <1>3 DEF Types

\* Client.startCall and Answer.PipelineSend.
LEMMA CallStartInv ==
  ASSUME EmbargoAssumption, IInv, CallStart
  PROVE  IInv'
<1>1. /\ made < MaxCalls /\ made' = made + 1 /\ calling = "none" /\ calling' = "started"
      /\ UNCHANGED <<via, released, late, route, toPeer, toHere, handler, embargo, queued, held, peer, exported, told, down, got, failed>>
  BY DEF CallStart, peerVars
<1>2. made \in 0..MaxCalls /\ MaxCalls \in Nat
  BY DEF IInv, Types, EmbargoTypeOK, EmbargoAssumption
<1>3. made' \in 0..MaxCalls /\ made' > 0 /\ Sent' = Sent
  BY <1>1, <1>2 DEF Sent
<1>4. Shrinks /\ SameNews
  BY <1>1, LineSame
<1>5. Types'
  BY <1>1, <1>3 DEF IInv, Types, EmbargoTypeOK
<1>6. StageInv'
  <2>1. queued' # <<>> => route = "embargo"
    BY <1>1 DEF IInv, StageInv
  <2> QED BY <1>1, <1>4, <2>1, QuietStage DEF IInv, Shrinks
<1>7. LineInv'
  <2>1. queued = <<>>
    BY DEF CallStart, IInv, StageInv
  <2> QED BY <1>1, <1>3, <1>4, <2>1 DEF IInv, LineInv, Shrinks
<1>8. GotInv'
  BY <1>1, <1>4 DEF IInv, GotInv, EOrderButLate, Shrinks
<1>9. PassInv'
  BY <1>1, <1>4, QuietPass DEF IInv
<1> QED BY <1>5, <1>6, <1>7, <1>8, <1>9 DEF IInv

\* SendCall returns.
LEMMA CallReturnsInv ==
  ASSUME EmbargoAssumption, IInv, CallReturns
  PROVE  IInv'
<1>1. /\ calling = "sent" /\ calling' = "none"
      /\ UNCHANGED <<via, made, released, late, route, toHere, handler, embargo, queued, held, peer, exported, told, down, got, failed>>
  BY DEF CallReturns, peerVars
<1>2. toPeer' \in Seq(ToPeer) /\ (down => toPeer' = <<>>) /\ Shrinks /\ SameNews
  BY <1>1, SentRelease DEF CallReturns, IInv
<1>3. Sent' = Sent
  BY <1>1 DEF Sent
<1>4. Types'
  BY <1>1, <1>2 DEF IInv, Types, EmbargoTypeOK
<1>5. StageInv'
  <2>1. queued' # <<>> => route = "embargo"
    BY <1>1 DEF IInv, StageInv
  <2> QED BY <1>1, <1>2, <2>1, QuietStage DEF IInv, Shrinks
<1>6. LineInv'
  BY <1>1, <1>2, <1>3 DEF IInv, LineInv, Shrinks
<1>7. GotInv'
  BY <1>1, <1>2 DEF IInv, GotInv, EOrderButLate, Shrinks
<1>8. PassInv'
  BY <1>1, <1>2, QuietPass DEF IInv
<1> QED BY <1>4, <1>5, <1>6, <1>7, <1>8 DEF IInv

\* importClient.Shutdown.
LEMMA ReleaseInv ==
  ASSUME IInv, Release
  PROVE  IInv'
<1>1. /\ released' = TRUE
      /\ UNCHANGED <<via, made, calling, late, route, toHere, handler, embargo, queued, held, peer, exported, told, down, got, failed>>
  BY DEF Release, peerVars
<1>2. toPeer' \in Seq(ToPeer) /\ (down => toPeer' = <<>>) /\ Shrinks /\ SameNews
  BY <1>1, SentRelease DEF Release, IInv
<1>3. Types'
  BY <1>1, <1>2 DEF IInv, Types, EmbargoTypeOK
<1> QED BY <1>1, <1>2, <1>3, QuietStep

\* What arrives at the peer.
LEMMA PeerHead ==
  ASSUME Types, toPeer # <<>>
  PROVE  /\ Head(toPeer) \in ToPeer /\ Head(toPeer) \in Elems(toPeer) /\ down = FALSE
         /\ Head(toPeer).type = "call" => Head(toPeer).call \in CallNumbers /\ Head(toPeer) = CallMessage(Head(toPeer).call)
         /\ Head(toPeer).type = "disembargo" => Head(toPeer) = disembargo
<1>1. Head(toPeer) \in ToPeer /\ Head(toPeer) \in Elems(toPeer)
  BY HeadFacts DEF Types
<1>2. Head(toPeer).type = "call" => Head(toPeer).call \in CallNumbers /\ Head(toPeer) = CallMessage(Head(toPeer).call)
  BY <1>1, MessageFacts
<1>3. Head(toPeer).type = "disembargo" => Head(toPeer) = disembargo
  <2>1. \A c : CallMessage(c).type = "call"
    BY MessageFacts, Zenon
  <2>2. Message("release").type = "release"
    BY MessageFacts
  <2> QED BY <1>1, <2>1, <2>2 DEF ToPeer, CallMessages, Others
<1>4. down = FALSE
  BY DEF Types
<1> QED BY <1>1, <1>2, <1>3, <1>4

\* handleCall at the peer.
LEMMA PeerCallInv ==
  ASSUME IInv, PeerCall
  PROVE  IInv'
<1> DEFINE n == Head(toPeer).call
<1>1. /\ toPeer # <<>> /\ toPeer' = Tail(toPeer) /\ Head(toPeer).type = "call"
      /\ UNCHANGED <<via, made, calling, released, late, route, handler, embargo, queued, peer, exported, told, down, got>>
  BY ZenonT(60) DEF PeerCall, appVars
<1>2. /\ n \in CallNumbers /\ Head(toPeer) = CallMessage(n) /\ down = FALSE /\ Types
      /\ Head(toPeer) \in Elems(toPeer)
  BY ZenonT(60), <1>1, PeerHead DEF IInv
<1> HIDE DEF n
<1>3. CASE peer = "promise" /\ held' = Append(held, n) /\ UNCHANGED <<toHere, failed>>
  <2>1. toPeer' \in Seq(ToPeer) /\ held' \in Seq(CallNumbers) /\ Shrinks /\ SameNews
    BY <1>1, <1>2, <1>3, Queued
  <2>2. Types'
    BY <1>1, <1>2, <1>3, <2>1 DEF Types, EmbargoTypeOK
  <2> QED BY <1>1, <1>3, <2>1, <2>2, QuietStep
<1>4. CASE peer = "resolved" /\ toHere' = Append(toHere, Head(toPeer)) /\ UNCHANGED <<held, failed>>
  <2>1. held = <<>>
    BY <1>4 DEF IInv, StageInv
  <2>2. toPeer' \in Seq(ToPeer) /\ toHere' \in Seq(ToHere) /\ Shrinks /\ SameNews
    BY <1>1, <1>2, <1>4, <2>1, Forwarded
  <2>3. Types'
    BY <1>1, <1>2, <1>4, <2>2 DEF Types, EmbargoTypeOK
  <2> QED BY <1>1, <1>4, <2>2, <2>3, QuietStep
<1>5. CASE peer = "broken" /\ failed' = failed \cup {n} /\ UNCHANGED <<held, toHere>>
  <2>1. toPeer' \in Seq(ToPeer) /\ Shrinks /\ SameNews
    BY <1>1, <1>2, <1>5, Taken
  <2>2. Types'
    BY <1>1, <1>2, <1>5, <2>1 DEF Types, EmbargoTypeOK
  <2> QED BY <1>1, <1>5, <2>1, <2>2, QuietStep
<1> QED BY <1>3, <1>4, <1>5 DEF PeerCall, n

\* handleDisembargo at the peer, senderLoopback.
LEMMA PeerDisembargoInv ==
  ASSUME IInv, PeerDisembargo
  PROVE  IInv'
<1>1. /\ toPeer # <<>> /\ toPeer' = Tail(toPeer) /\ Head(toPeer).type = "disembargo"
      /\ toHere' = Append(toHere, loopback)
      /\ UNCHANGED <<via, made, calling, released, late, route, handler, embargo, queued, held, peer, exported, told, down, got, failed>>
  BY DEF PeerDisembargo, appVars, peerVars, loopback
<1>2. Head(toPeer) = disembargo /\ down = FALSE /\ Types /\ disembargo \in Elems(toPeer)
  BY <1>1, PeerHead DEF IInv
<1>3. held = <<>>
  BY <1>2 DEF IInv, StageInv, Marked
<1>4. toPeer' \in Seq(ToPeer) /\ toHere' \in Seq(ToHere) /\ Shrinks /\ SameNews
  BY <1>1, <1>2, <1>3, Echoed
<1>5. Types'
  BY <1>1, <1>2, <1>4 DEF Types, EmbargoTypeOK
<1> QED BY <1>1, <1>4, <1>5, QuietStep

\* handleRelease and handleFinish at the peer.
LEMMA PeerReleaseInv ==
  ASSUME IInv, PeerRelease
  PROVE  IInv'
<1>1. /\ toPeer # <<>> /\ toPeer' = Tail(toPeer) /\ exported' = FALSE
      /\ UNCHANGED <<via, made, calling, released, late, route, toHere, handler, embargo, queued, held, peer, told, down, got, failed>>
  BY DEF PeerRelease, appVars
<1>2. Types /\ down = FALSE
  BY <1>1, PeerHead DEF IInv
<1>3. toPeer' \in Seq(ToPeer) /\ Shrinks /\ SameNews
  BY <1>1, <1>2, Taken
<1>4. Types'
  <2>1. EmbargoTypeOK'
    BY <1>1, <1>2 DEF Types, EmbargoTypeOK
  <2> QED BY ZenonT(60), <1>1, <1>2, <1>3, <2>1 DEF Types
<1> QED BY <1>1, <1>3, <1>4, QuietStep

-------------------------------------------------------------------------------
(* The resolution at the peer.                                             *)

\* Before the peer resolves its promise, nothing has happened here.
LEMMA Unresolved ==
  ASSUME IInv, peer \in {"promise", "draining"}
  PROVE  /\ told = FALSE /\ handler = "idle" /\ embargo = "none" /\ ~Marked /\ route = "wire"
         /\ \A m \in News : m \notin Elems(toHere)
BY DEF IInv, StageInv, Types

\* A step of the promise's queue keeps the invariant.
LEMMA UnresolvedStep ==
  ASSUME IInv, Types', Shrinks, SameNews, peer \in {"promise", "draining"},
         peer' \in {"resolved", "broken"} => held' = <<>>,
         UNCHANGED <<made, calling, late, got, queued, via, route, handler, embargo, told, down>>
  PROVE  IInv'
<1>1. LineInv' /\ GotInv'
  BY QuietInv DEF IInv
<1>2. PassInv'
  BY QuietPass DEF IInv
<1>3. /\ told = FALSE /\ handler = "idle" /\ embargo = "none" /\ ~Marked /\ route = "wire"
      /\ \A m \in News : m \notin Elems(toHere)
  BY ZenonT(60), Unresolved
<1>4. ~Marked' /\ \A m \in News : m \notin Elems(toHere)'
  BY <1>3 DEF Shrinks, SameNews
<1>5. \A m, n \in News : ~Before(toHere, m, n)'
  BY DEF SameNews, IInv, StageInv
<1>6. queued' = <<>>
  BY <1>3 DEF IInv, StageInv
<1>7. StageInv'
  BY <1>3, <1>4, <1>5, <1>6 DEF StageInv
<1> QED BY <1>1, <1>2, <1>7 DEF IInv

\* localPromise.Fulfill at the peer.
LEMMA PeerFulfillInv ==
  ASSUME IInv, PeerFulfill
  PROVE  IInv'
<1>1. /\ peer = "promise" /\ peer' = "draining"
      /\ UNCHANGED <<via, made, calling, released, late, route, toPeer, toHere, handler, embargo, queued, held, exported, told, down, got, failed>>
  BY DEF PeerFulfill, appVars
<1>2. Shrinks /\ SameNews
  BY <1>1, LineSame
<1>3. Types'
  BY <1>1 DEF IInv, Types, EmbargoTypeOK
<1> QED BY <1>1, <1>2, <1>3, UnresolvedStep

\* The peer's queue is forwarded, call by call.
LEMMA PeerDrainInv ==
  ASSUME IInv, PeerDrain
  PROVE  IInv'
<1>1. /\ peer = "draining" /\ down = FALSE
      /\ UNCHANGED <<via, made, calling, released, late, route, toPeer, handler, embargo, queued, exported, told, down, got, failed>>
  BY DEF PeerDrain, appVars, IInv, Types
<1>2. CASE held = <<>> /\ peer' = "resolved" /\ UNCHANGED <<held, toHere>>
  <2>1. Shrinks /\ SameNews
    BY <1>1, <1>2, LineSame
  <2>2. Types'
    BY <1>1, <1>2 DEF IInv, Types, EmbargoTypeOK
  <2> QED BY <1>1, <1>2, <2>1, <2>2, UnresolvedStep
<1>3. CASE held # <<>> /\ held' = Tail(held) /\ toHere' = Append(toHere, CallMessage(Head(held))) /\ UNCHANGED peer
  <2>1. held' \in Seq(CallNumbers) /\ toHere' \in Seq(ToHere) /\ Shrinks /\ SameNews
    BY <1>1, <1>3, Drained DEF IInv
  <2>2. Types'
    BY <1>1, <1>3, <2>1 DEF IInv, Types, EmbargoTypeOK
  <2> QED BY <1>1, <1>3, <2>1, <2>2, UnresolvedStep
<1> QED BY <1>2, <1>3 DEF PeerDrain

\* localPromise.Reject at the peer.
LEMMA PeerRejectInv ==
  ASSUME IInv, PeerReject
  PROVE  IInv'
<1>1. /\ peer = "promise" /\ peer' = "broken" /\ failed' = failed \cup Elems(held) /\ held' = <<>>
      /\ UNCHANGED <<via, made, calling, released, late, route, toPeer, toHere, handler, embargo, queued, exported, told, down, got>>
  BY DEF PeerReject, appVars
<1>2. Shrinks /\ SameNews
  BY <1>1, Cleared
<1>3. Elems(held) \subseteq CallNumbers
  BY DEF IInv, Types, EmbargoTypeOK, Elems
<1>4. Types'
  BY <1>1, <1>3 DEF IInv, Types, EmbargoTypeOK
<1> QED BY <1>1, <1>2, <1>4, UnresolvedStep

\* sendSenderPromise and ansReturner.Return at the peer.
LEMMA PeerTellInv ==
  ASSUME IInv, PeerTell
  PROVE  IInv'
<1>1. /\ peer \in {"resolved", "broken"} /\ told = FALSE /\ down = FALSE /\ told' = TRUE
      /\ toHere' = IF via = "return" \/ exported THEN Append(toHere, Message(peer)) ELSE toHere
      /\ UNCHANGED <<via, made, calling, released, late, route, toPeer, handler, embargo, queued, held, peer, exported, down, got, failed>>
  BY DEF PeerTell, appVars, IInv, Types
<1>2. handler = "idle" /\ \A m \in News : m \notin Elems(toHere)
  BY <1>1 DEF IInv, StageInv
<1>3. Message(peer) \in News /\ Message(peer).type = peer
  BY <1>1, MessageFacts DEF News, resolved, broken
<1>4. /\ toHere' \in Seq(ToHere) /\ Shrinks
      /\ \A m \in News : m \in Elems(toHere)' => m.type = peer
      /\ \A m, n \in News : ~Before(toHere, m, n)'
  <2>1. CASE UNCHANGED toHere
    <3>1. Shrinks /\ SameNews
      BY <1>1, <2>1, LineSame
    <3> QED BY <1>2, <2>1, <3>1 DEF IInv, StageInv, Types
  <2>2. CASE toHere' = Append(toHere, Message(peer))
    <3>1. /\ toHere' \in Seq(ToHere) /\ Shrinks
          /\ Elems(toHere') = Elems(toHere) \cup {Message(peer)}
          /\ \A x, y \in News : Before(toHere, x, y)' => Before(toHere, x, y) \/ x \in Elems(toHere)
      BY <1>1, <1>3, <2>2, Told DEF IInv
    <3>2. \A m, n \in News : ~Before(toHere, m, n)'
      BY <1>2, <3>1 DEF IInv, StageInv
    <3> QED BY <1>2, <1>3, <3>1, <3>2
  <2> QED BY <1>1, <2>1, <2>2
<1>5. LineInv' /\ GotInv'
  BY <1>1, <1>4, QuietInv DEF IInv
<1>6. PassInv'
  BY <1>1, <1>4, QuietPass DEF IInv
<1>7. Types'
  BY <1>1, <1>4 DEF IInv, Types, EmbargoTypeOK
<1>8. StageInv'
  BY <1>1, <1>2, <1>4 DEF IInv, StageInv, Shrinks
<1> QED BY <1>5, <1>6, <1>7, <1>8 DEF IInv

-------------------------------------------------------------------------------
(* Messages received here.                                                 *)

\* What a receiver starts from.
LEMMA HereHead ==
  ASSUME Types, toHere # <<>>
  PROVE  /\ Head(toHere) \in ToHere /\ down = FALSE
         /\ Head(toHere).type = "call" => Head(toHere).call \in CallNumbers /\ Head(toHere) = CallMessage(Head(toHere).call)
         /\ Head(toHere).type = "loopback" => Head(toHere) = loopback
         /\ Head(toHere).type = "resolved" => Head(toHere) = resolved
         /\ Head(toHere).type = "broken" => Head(toHere) = broken
<1>1. Head(toHere) \in ToHere
  BY HeadFacts DEF Types
<1>2. Head(toHere).type = "call" => Head(toHere).call \in CallNumbers /\ Head(toHere) = CallMessage(Head(toHere).call)
  BY <1>1, MessageFacts
<1>3. (\A c : CallMessage(c).type = "call") /\ loopback.type = "loopback" /\ resolved.type = "resolved" /\ broken.type = "broken"
  BY MessageFacts DEF loopback, resolved, broken
<1>4. /\ Head(toHere).type = "loopback" => Head(toHere) = loopback
      /\ Head(toHere).type = "resolved" => Head(toHere) = resolved
      /\ Head(toHere).type = "broken" => Head(toHere) = broken
  BY <1>1, <1>3 DEF ToHere, CallMessages
<1>5. down = FALSE
  BY DEF Types, EmbargoTypeOK
<1> QED BY <1>1, <1>2, <1>4, <1>5

\* handleCall.
LEMMA RecvCallInv ==
  ASSUME IInv, RecvCall
  PROVE  IInv'
<1> DEFINE n == Head(toHere).call
<1>1. /\ toHere # <<>> /\ Head(toHere).type = "call" /\ toHere' = Tail(toHere) /\ got' = Append(got, n)
      /\ UNCHANGED <<via, made, calling, released, late, route, toPeer, handler, embargo, queued, held, peer, exported, told, down, failed>>
  BY DEF RecvCall, Receiving, Arrived, appVars, peerVars
<1>2. n \in CallNumbers /\ Head(toHere) = CallMessage(n) /\ down = FALSE
  BY <1>1, HereHead DEF IInv
<1>3. got \in Seq(CallNumbers) /\ queued \in Seq(CallNumbers)
  BY DEF IInv, Types, EmbargoTypeOK
<1>4. got' \in Seq(CallNumbers) /\ Elems(got') = Elems(got) \cup {n}
  BY <1>1, <1>2, <1>3, AppendFacts
<1>5. /\ toHere' \in Seq(ToHere) /\ SameNews /\ Shrinks
      /\ OnLine(n) /\ \A d \in CallNumbers : OnLine(d)' => Ahead(n, d)
  BY <1>1, <1>2, Received DEF IInv
<1> HIDE DEF n
<1>6. Types'
  BY <1>1, <1>2, <1>4, <1>5 DEF IInv, Types, EmbargoTypeOK
<1>7. StageInv'
  <2>1. queued' # <<>> => route = "embargo"
    BY <1>1 DEF IInv, StageInv
  <2> QED BY <1>1, <1>5, <2>1, QuietStage DEF IInv, Shrinks
<1>8. PassInv'
  BY <1>1, <1>5, QuietPass DEF IInv
<1>9. LineInv'
  BY <1>1, <1>2, <1>4, <1>5 DEF IInv, LineInv, Sent, Shrinks
<1>10. GotInv'
  <2>1. EOrderButLate'
    <3>1. Ordered(got, late) /\ \A c \in Elems(got) : c < n \/ n \in late
      BY <1>2, <1>5 DEF IInv, GotInv, EOrderButLate, Ordered
    <3>2. Ordered(Append(got, n), late)
      BY <1>2, <1>3, <3>1, OrderAppend
    <3> QED BY <1>1, <3>2 DEF EOrderButLate, Ordered
  <2>2. \A c \in Elems(got'), d \in CallNumbers : OnLine(d)' => c < d \/ d \in late'
    <3>1. \A d \in CallNumbers : OnLine(d)' => n < d
      BY <1>2, <1>5 DEF IInv, LineInv
    <3>2. \A c \in Elems(got), d \in CallNumbers : OnLine(d)' => c < d \/ d \in late'
      BY <1>1, <1>2, <1>5 DEF IInv, GotInv, Shrinks
    <3> QED BY <1>4, <3>1, <3>2
  <2>3. \A c \in Elems(got'), d \in Elems(queued) : c < d
    BY <1>2, <1>4, <1>5 DEF IInv, GotInv
  <2>4. \A c \in CallNumbers, d \in Elems(queued) : OnLine(c)' => c < d
    BY <1>2, <1>5 DEF IInv, GotInv, Shrinks
  <2>5. Ordered(queued, {})'
    BY <1>1 DEF IInv, GotInv
  <2> QED BY <1>1, <2>1, <2>2, <2>3, <2>4, <2>5 DEF GotInv
<1> QED BY <1>6, <1>7, <1>8, <1>9, <1>10 DEF IInv

\* The connection is shut down: nothing is on the wire any more.
LEMMA ShutdownInv ==
  ASSUME EmbargoAssumption, IInv, ConnShutdown, UNCHANGED <<via, appVars, route, handler, queued, peerVars, got>>
  PROVE  IInv'
<1>1. /\ down' = TRUE /\ toPeer' = <<>> /\ toHere' = <<>>
      /\ embargo' = IF embargo = "up" THEN "draining" ELSE embargo
      /\ failed' = failed \cup Unanswered
      /\ UNCHANGED <<via, made, calling, released, late, route, handler, queued, held, peer, exported, told, got>>
  BY DEF ConnShutdown, appVars, peerVars
<1>2. Shrinks /\ SameNews
  BY <1>1, Cleared
<1>3. Unanswered \subseteq CallNumbers
  BY DEF Unanswered, Sent, CallNumbers, EmbargoAssumption, IInv, Types, EmbargoTypeOK
<1>4. Types'
  BY <1>1, <1>3 DEF IInv, Types, EmbargoTypeOK
<1>5. LineInv' /\ GotInv'
  BY <1>1, <1>2, QuietInv DEF IInv
<1>6. PassInv'
  BY <1>1 DEF PassInv
<1>7. StageInv'
  BY <1>1, <1>2 DEF IInv, StageInv, Shrinks, SameNews
<1> QED BY <1>4, <1>5, <1>6, <1>7 DEF IInv

\* The news of the resolution is received once, before anything else happened here.
LEMMA NewsFacts ==
  ASSUME IInv, NEW T \in {"resolved", "broken"}, Receiving(T), UNCHANGED held
  PROVE  /\ toHere # <<>> /\ toHere' = Tail(toHere) /\ toHere' \in Seq(ToHere) /\ down = FALSE
         /\ Head(toHere) \in News
         /\ told = TRUE /\ handler = "idle" /\ peer = T /\ embargo = "none" /\ ~Marked /\ route = "wire" /\ queued = <<>>
         /\ \A m \in News : m \notin Elems(toHere)'
         /\ SameNews
<1>1. toHere # <<>> /\ Head(toHere).type = T /\ toHere' = Tail(toHere)
  BY DEF Receiving, Arrived
<1>2. /\ down = FALSE
      /\ (T = "resolved" => Head(toHere) = resolved) /\ (T = "broken" => Head(toHere) = broken)
  BY <1>1, HereHead DEF IInv
<1>3. Head(toHere) \in News
  BY <1>2 DEF News
<1>4. /\ toHere' \in Seq(ToHere) /\ SameNews /\ Head(toHere) \in Elems(toHere)
      /\ \A m \in News : m \in Elems(toHere)' => Before(toHere, Head(toHere), m)
  BY <1>1, <1>2, <1>3, Received DEF IInv
<1>5. told = TRUE /\ handler = "idle" /\ peer = T
  BY <1>1, <1>2, <1>3, <1>4 DEF IInv, StageInv, Types
<1>6. embargo = "none" /\ ~Marked /\ route = "wire" /\ queued = <<>>
  BY <1>5 DEF IInv, StageInv
<1>7. \A m \in News : m \notin Elems(toHere)'
  BY <1>3, <1>4 DEF IInv, StageInv
<1> QED BY <1>1, <1>2, <1>3, <1>4, <1>5, <1>6, <1>7

\* handleResolve: the Disembargo goes behind every call that was sent.
LEMMA RecvResolveInv ==
  ASSUME IInv, RecvResolve
  PROVE  IInv'
<1>1. /\ via = "resolve" /\ Receiving("resolved") /\ embargo' = "up" /\ handler' = "fulfill"
      /\ Send(<<disembargo>>)
      /\ UNCHANGED <<via, made, calling, released, late, route, queued, held, peer, exported, told, down, got, failed>>
  BY DEF RecvResolve, appVars, peerVars, disembargo
<1>2. /\ toHere # <<>> /\ toHere' = Tail(toHere) /\ toHere' \in Seq(ToHere) /\ down = FALSE
      /\ Head(toHere) \in News
      /\ told = TRUE /\ handler = "idle" /\ peer = "resolved" /\ embargo = "none" /\ ~Marked /\ route = "wire" /\ queued = <<>>
      /\ \A m \in News : m \notin Elems(toHere)'
      /\ SameNews
  BY <1>1, NewsFacts
<1>3. toPeer \in Seq(ToPeer) /\ disembargo \in ToPeer /\ toHere \in Seq(ToHere)
  BY DEF IInv, Types, ToPeer, Others
<1>4. toPeer' = Append(toPeer, disembargo)
  BY <1>1, <1>2, <1>3 DEF Send
<1>5. /\ toPeer' \in Seq(ToPeer)
      /\ Elems(toPeer') = Elems(toPeer) \cup {disembargo}
      /\ \A y, z : Before(toPeer', y, z) <=> Before(toPeer, y, z) \/ (y \in Elems(toPeer) /\ z = disembargo)
  BY <1>3, <1>4, AppendFacts
<1>6. /\ Elems(toHere) = Elems(toHere') \cup {Head(toHere)}
      /\ \A y, z : Before(toHere, y, z) <=> Before(toHere', y, z) \/ (y = Head(toHere) /\ z \in Elems(toHere'))
  BY <1>2, <1>3, HeadFacts
<1>7. \A c : CallMessage(c) # disembargo
  BY MessageFacts, Zenon
<1>8. ASSUME NEW c \in CallNumbers, NEW d \in CallNumbers
      PROVE  (OnLine(c)' => OnLine(c)) /\ (Ahead(c, d)' => Ahead(c, d)) /\ ~MarkAhead(c)'
  <2>1. OnLine(c)' => OnLine(c)
    BY SMTT(60), <1>1, <1>5, <1>6, <1>7 DEF OnLine
  <2>2. Ahead(c, d)' => Ahead(c, d)
    BY <1>1, <1>5, <1>6, <1>7 DEF Ahead
  <2>3. loopback \notin Elems(toHere') /\ disembargo \notin Elems(toPeer)
    BY <1>2, <1>6 DEF Marked
  <2>4. ~Before(toHere', loopback, CallMessage(c)) /\ ~Before(toPeer, disembargo, CallMessage(c))
    BY <2>3 DEF Before, Elems
  <2>5. ~MarkAhead(c)'
    BY SMTT(60), <1>5, <1>7, <2>3, <2>4 DEF MarkAhead
  <2> QED BY <2>1, <2>2, <2>5
<1>9. Types'
  BY SMTT(60), <1>1, <1>2, <1>5 DEF IInv, Types, EmbargoTypeOK
<1>10. StageInv'
  <2>1. \A m, n \in News : ~Before(toHere, m, n)'
    BY <1>2 DEF IInv, StageInv, SameNews
  <2> QED BY <1>1, <1>2, <2>1 DEF IInv, StageInv, Overtakable
<1>11. LineInv'
  BY <1>1, <1>8 DEF IInv, LineInv, Sent
<1>12. GotInv'
  BY <1>1, <1>8 DEF IInv, GotInv, EOrderButLate
<1>13. PassInv'
  BY <1>1, <1>2 DEF PassInv
<1> QED BY <1>9, <1>10, <1>11, <1>12, <1>13 DEF IInv

\* handleReturn: without calls on the line there is no embargo.
LEMMA RecvReturnInv ==
  ASSUME EmbargoAssumption, IInv, RecvReturn
  PROVE  IInv'
<1>1. /\ via = "return" /\ Receiving("resolved") /\ handler' = "fulfill"
      /\ embargo' = IF Sent > 0 THEN "up" ELSE "none"
      /\ UNCHANGED <<via, made, calling, released, late, route, toPeer, queued, held, peer, exported, told, down, got, failed>>
  BY DEF RecvReturn, appVars, peerVars
<1>2. /\ toHere # <<>> /\ toHere' = Tail(toHere) /\ toHere' \in Seq(ToHere) /\ down = FALSE
      /\ Head(toHere) \in News
      /\ told = TRUE /\ handler = "idle" /\ peer = "resolved" /\ embargo = "none" /\ ~Marked /\ route = "wire" /\ queued = <<>>
      /\ \A m \in News : m \notin Elems(toHere)'
      /\ SameNews
  BY <1>1, NewsFacts
<1>3. Shrinks
  BY <1>1, <1>2, Received DEF IInv
<1>4. Types'
  BY <1>1, <1>2 DEF IInv, Types, EmbargoTypeOK
<1>5. LineInv' /\ GotInv'
  BY ZenonT(30), <1>1, <1>3, QuietInv DEF IInv
<1>6. StageInv'
  <2>1. ~Marked' /\ \A m, n \in News : ~Before(toHere, m, n)'
    BY <1>2, <1>3 DEF IInv, StageInv, SameNews, Shrinks
  <2> QED BY <1>1, <1>2, <2>1 DEF IInv, StageInv, Overtakable
<1>7. PassInv'
  <2>1. ASSUME embargo' = "none", NEW c \in CallNumbers PROVE ~OnLine(c)'
    <3>1. Sent \in Nat
      BY DEF Sent, IInv, Types, EmbargoTypeOK, LineInv, EmbargoAssumption
    <3>2. Sent = 0
      BY <1>1, <2>1, <3>1
    <3>3. OnLine(c)' => c <= 0
      BY <1>3, <3>2 DEF IInv, LineInv, Shrinks
    <3> QED BY <3>3 DEF CallNumbers, EmbargoAssumption
  <2> QED BY <1>1, <1>2, <2>1 DEF PassInv
<1> QED BY <1>4, <1>5, <1>6, <1>7 DEF IInv

\* handleResolve and handleReturn with an exception.
LEMMA RecvBrokenInv ==
  ASSUME IInv, RecvBroken
  PROVE  IInv'
<1>1. /\ Receiving("broken") /\ handler' = "reject"
      /\ UNCHANGED <<via, made, calling, released, late, route, toPeer, embargo, queued, held, peer, exported, told, down, got, failed>>
  BY DEF RecvBroken, appVars, peerVars
<1>2. /\ toHere # <<>> /\ toHere' = Tail(toHere) /\ toHere' \in Seq(ToHere) /\ down = FALSE
      /\ Head(toHere) \in News
      /\ told = TRUE /\ handler = "idle" /\ peer = "broken" /\ embargo = "none" /\ ~Marked /\ route = "wire" /\ queued = <<>>
      /\ \A m \in News : m \notin Elems(toHere)'
      /\ SameNews
  BY <1>1, NewsFacts
<1>3. Shrinks
  BY <1>1, <1>2, Received DEF IInv
<1>4. Types'
  BY <1>1, <1>2 DEF IInv, Types, EmbargoTypeOK
<1>5. LineInv' /\ GotInv'
  BY ZenonT(30), <1>1, <1>3, QuietInv DEF IInv
<1>6. StageInv'
  <2>1. ~Marked' /\ \A m, n \in News : ~Before(toHere, m, n)'
    BY <1>2, <1>3 DEF IInv, StageInv, SameNews, Shrinks
  <2> QED BY <1>1, <1>2, <2>1 DEF IInv, StageInv, Overtakable
<1>7. PassInv'
  BY <1>1, <1>2 DEF PassInv
<1> QED BY <1>4, <1>5, <1>6, <1>7 DEF IInv

\* handleDisembargo, receiverLoopback: what is left on the line is late.
LEMMA RecvLoopbackInv ==
  ASSUME IInv, RecvLoopback
  PROVE  IInv'
<1>1. /\ toHere # <<>> /\ Head(toHere).type = "loopback" /\ toHere' = Tail(toHere) /\ embargo' = "draining"
      /\ UNCHANGED <<via, made, calling, released, late, route, toPeer, handler, queued, held, peer, exported, told, down, got, failed>>
  BY DEF RecvLoopback, Receiving, Arrived, appVars, peerVars
<1>2. Head(toHere) = loopback /\ down = FALSE
  BY <1>1, HereHead DEF IInv
<1>3. /\ toHere' \in Seq(ToHere) /\ SameNews /\ Shrinks
      /\ Marked /\ \A d \in CallNumbers : OnLine(d)' => MarkAhead(d)
  BY <1>1, <1>2, Received DEF IInv
<1>4. Types'
  BY <1>1, <1>2, <1>3 DEF IInv, Types, EmbargoTypeOK
<1>5. LineInv' /\ GotInv'
  BY ZenonT(30), <1>1, <1>3, QuietInv DEF IInv
<1>6. StageInv'
  BY <1>1, <1>2, <1>3 DEF IInv, StageInv, Overtakable, SameNews, Shrinks
<1>7. PassInv'
  BY <1>1, <1>3 DEF IInv, LineInv, PassInv
<1> QED BY <1>4, <1>5, <1>6, <1>7 DEF IInv

-------------------------------------------------------------------------------
(* The resolution here, and the embargo.                                   *)

\* resolver.Fulfill and q.p.Resolve: without an embargo only late calls are on the line.
LEMMA FulfillInv ==
  ASSUME IInv, ResolverFulfill
  PROVE  IInv'
<1>1. /\ handler = "fulfill" /\ handler' = IF via = "return" THEN "disembargo" ELSE "done"
      /\ route' = IF embargo = "none" THEN "local" ELSE "embargo"
      /\ UNCHANGED <<via, made, calling, released, late, toHere, embargo, queued, held, peer, exported, told, down, got, failed>>
  BY DEF ResolverFulfill, appVars, peerVars
<1>2. toPeer' \in Seq(ToPeer) /\ (down => toPeer' = <<>>) /\ Shrinks /\ SameNews
  BY <1>1, SentRelease DEF ResolverFulfill, ImportReleased, IInv
<1>3. Types'
  BY ZenonT(60), <1>1, <1>2 DEF IInv, Types, EmbargoTypeOK
<1>4. LineInv' /\ GotInv'
  BY ZenonT(30), <1>1, <1>2, QuietInv DEF IInv
<1>5. StageInv'
  <2>1. queued = <<>>
    BY <1>1 DEF IInv, StageInv
  <2> QED BY <1>1, <1>2, <2>1 DEF IInv, StageInv, Overtakable, SameNews, Shrinks
<1>6. PassInv'
  BY <1>1, <1>2 DEF IInv, PassInv, Shrinks
<1> QED BY <1>3, <1>4, <1>5, <1>6 DEF IInv

\* The promise is rejected.
LEMMA RejectInv ==
  ASSUME IInv, Reject
  PROVE  IInv'
<1>1. /\ handler = "reject" /\ handler' = (IF via = "return" THEN "disembargo" ELSE "done") /\ route' = "error"
      /\ UNCHANGED <<via, made, calling, released, late, toHere, embargo, queued, held, peer, exported, told, down, got, failed>>
  BY DEF Reject, appVars, peerVars
<1>2. toPeer' \in Seq(ToPeer) /\ (down => toPeer' = <<>>) /\ Shrinks /\ SameNews
  BY <1>1, SentRelease DEF Reject, ImportReleased, IInv
<1>3. Types'
  BY <1>1, <1>2 DEF IInv, Types, EmbargoTypeOK
<1>4. LineInv' /\ GotInv'
  BY ZenonT(30), <1>1, <1>2, QuietInv DEF IInv
<1>5. StageInv'
  <2>1. queued = <<>> /\ embargo = "none" /\ ~Marked
    BY <1>1 DEF IInv, StageInv
  <2> QED BY <1>1, <1>2, <2>1 DEF IInv, StageInv, Overtakable, SameNews, Shrinks
<1>6. PassInv'
  BY <1>1, <1>2 DEF IInv, PassInv, Shrinks
<1> QED BY <1>3, <1>4, <1>5, <1>6 DEF IInv

\* The Disembargo of handleReturn, behind every call that was pipelined.
LEMMA SendDisembargoInv ==
  ASSUME IInv, SendDisembargo
  PROVE  IInv'
<1>1. /\ handler = "disembargo" /\ handler' = "done"
      /\ Send((IF embargo = "none" THEN <<>> ELSE <<disembargo>>) \o <<Message("release")>>)
      /\ UNCHANGED <<via, made, calling, released, late, route, toHere, embargo, queued, held, peer, exported, told, down, got, failed>>
  BY DEF SendDisembargo, appVars, peerVars, disembargo
<1>2. /\ Message("release") \in ToPeer /\ disembargo \in ToPeer
      /\ \A c : CallMessage(c) # Message("release") /\ CallMessage(c) # disembargo
      /\ Message("release") # disembargo
  <2>1. Message("release") \in ToPeer /\ disembargo \in ToPeer
    BY DEF ToPeer, Others
  <2>2. Message("release").type = "release" /\ disembargo.type = "disembargo"
    BY SMTT(60), MessageFacts DEF disembargo
  <2> QED BY <2>1, <2>2, MessageFacts, Zenon
<1>3. /\ toPeer' \in Seq(ToPeer) /\ (down => toPeer' = toPeer)
      /\ Elems(toPeer) \subseteq Elems(toPeer')
      /\ \A m \in Elems(toPeer') : m \in Elems(toPeer) \/ m = Message("release") \/ (m = disembargo /\ embargo # "none")
      /\ \A y : \A c : Before(toPeer', y, CallMessage(c)) => Before(toPeer, y, CallMessage(c))
  <2>1. toPeer \in Seq(ToPeer)
    BY DEF IInv, Types
  <2>2. CASE down
    BY <1>1, <2>1, <2>2 DEF Send
  <2>3. CASE ~down /\ embargo = "none"
    <3>1. toPeer' = Append(toPeer, Message("release"))
      BY <1>1, <1>2, <2>1, <2>3 DEF Send
    <3>2. /\ toPeer' \in Seq(ToPeer) /\ Elems(toPeer') = Elems(toPeer) \cup {Message("release")}
          /\ \A y, z : Before(toPeer', y, z) <=> Before(toPeer, y, z) \/ (y \in Elems(toPeer) /\ z = Message("release"))
      BY SMTT(60), <1>2, <2>1, <3>1, AppendFacts
    <3> QED BY <1>2, <2>3, <3>2
  <2>4. CASE ~down /\ embargo # "none"
    <3> DEFINE t == Append(toPeer, disembargo)
    <3>1. toPeer' = Append(t, Message("release"))
      BY <1>1, <1>2, <2>1, <2>4 DEF Send
    <3>2. /\ t \in Seq(ToPeer) /\ Elems(t) = Elems(toPeer) \cup {disembargo}
          /\ \A y, z : Before(t, y, z) <=> Before(toPeer, y, z) \/ (y \in Elems(toPeer) /\ z = disembargo)
      BY SMTT(60), <1>2, <2>1, AppendFacts
    <3> HIDE DEF t
    <3>3. /\ toPeer' \in Seq(ToPeer) /\ Elems(toPeer') = Elems(t) \cup {Message("release")}
          /\ \A y, z : Before(toPeer', y, z) <=> Before(t, y, z) \/ (y \in Elems(t) /\ z = Message("release"))
      BY <1>2, <3>1, <3>2, AppendFacts
    <3> QED BY <1>2, <2>4, <3>2, <3>3
  <2> QED BY <2>2, <2>3, <2>4
<1>4. ASSUME NEW c \in CallNumbers, NEW d \in CallNumbers
      PROVE /\ OnLine(c)' => OnLine(c)
            /\ Ahead(c, d)' => Ahead(c, d)
            /\ MarkAhead(c)' => MarkAhead(c)
  <2>1. OnLine(c)' => OnLine(c)
    BY ZenonT(60), <1>1, <1>2, <1>3 DEF OnLine
  <2>2. Ahead(c, d)' => Ahead(c, d)
    BY <1>1, <1>2, <1>3 DEF Ahead
  <2>3. MarkAhead(c)' => MarkAhead(c)
    BY <1>1, <1>2, <1>3 DEF MarkAhead
  <2> QED BY SMTT(60), <2>1, <2>2, <2>3
<1>5. Marked' => Marked \/ embargo # "none"
  BY <1>1, <1>2, <1>3 DEF Marked
<1>6. SameNews
  BY <1>1 DEF SameNews
<1>7. Types'
  BY <1>1, <1>3 DEF IInv, Types, EmbargoTypeOK
<1>8. LineInv'
  BY <1>1, <1>4 DEF IInv, LineInv, Sent
<1>9. GotInv'
  BY <1>1, <1>4 DEF IInv, GotInv, EOrderButLate
<1>10. StageInv'
  BY <1>1, <1>5, <1>6 DEF IInv, StageInv, Overtakable, SameNews
<1>11. PassInv'
  BY <1>1, <1>4 DEF IInv, PassInv
<1> QED BY <1>7, <1>8, <1>9, <1>10, <1>11 DEF IInv

\* embargo.lift.
LEMMA LiftInv ==
  ASSUME IInv, Lift
  PROVE  IInv'
<1>1. /\ embargo = "draining"
      /\ UNCHANGED <<via, made, calling, released, late, route, toPeer, toHere, handler, held, peer, exported, told, down>>
  BY DEF Lift, appVars, peerVars
<1>2. Shrinks /\ SameNews
  BY SMTT(60), <1>1, LineSame
<1>3. got \in Seq(CallNumbers) /\ queued \in Seq(CallNumbers)
  BY DEF IInv, Types, EmbargoTypeOK
<1>4. CASE queued = <<>> /\ embargo' = "lifted" /\ UNCHANGED <<queued, got, failed>>
  <2>1. Types'
    BY <1>1, <1>4 DEF IInv, Types, EmbargoTypeOK
  <2>2. LineInv' /\ GotInv'
    BY ZenonT(30), <1>1, <1>2, <1>4, QuietInv DEF IInv
  <2>3. StageInv'
    BY <1>1, <1>2, <1>4 DEF IInv, StageInv, Overtakable, SameNews, Shrinks
  <2>4. PassInv'
    BY <1>1, <1>2, <1>4 DEF IInv, PassInv, Shrinks
  <2> QED BY <2>1, <2>2, <2>3, <2>4 DEF IInv
<1>5. CASE queued # <<>> /\ queued' = Tail(queued) /\ UNCHANGED embargo
           /\ \/ got' = Append(got, Head(queued)) /\ UNCHANGED failed
              \/ got' = got /\ failed' = failed \cup {Head(queued)}
  <2> DEFINE h == Head(queued)
  <2>1. h \in CallNumbers /\ queued' \in Seq(CallNumbers) /\ Elems(queued) = Elems(queued') \cup {h}
    BY <1>3, <1>5, HeadFacts
  <2>2. Ordered(queued', {}) /\ \A c \in Elems(queued') : h < c
    BY <1>3, <1>5, OrderTail DEF IInv, GotInv
  <2>3. got' \in Seq(CallNumbers) /\ (Elems(got') = Elems(got) \/ Elems(got') = Elems(got) \cup {h})
    <3>1. Append(got, h) \in Seq(CallNumbers) /\ Elems(Append(got, h)) = Elems(got) \cup {h}
      BY <1>3, <2>1, AppendFacts
    <3> QED BY ZenonT(60), <1>3, <1>5, <3>1
  <2>4. Ordered(got', late)
    <3>1. Ordered(got, late) /\ \A c \in Elems(got) : c < h
      BY <2>1 DEF IInv, GotInv, EOrderButLate, Ordered
    <3> QED BY ZenonT(60), <1>3, <1>5, <2>1, <3>1, OrderAppend
  <2>5. failed' \subseteq CallNumbers
    BY <1>5, <2>1 DEF IInv, Types, EmbargoTypeOK
  <2> HIDE DEF h
  <2>6. Types'
    BY <1>1, <1>5, <2>1, <2>3, <2>5 DEF IInv, Types, EmbargoTypeOK
  <2>7. StageInv'
    <3>1. queued' # <<>> => route = "embargo"
      BY <1>5 DEF IInv, StageInv
    <3> QED BY <1>1, <1>2, <1>5, <3>1, QuietStage DEF IInv, Shrinks
  <2>8. PassInv'
    BY <1>1, <1>2, <1>5, QuietPass DEF IInv
  <2>9. LineInv'
    <3>1. calling # "started"
      BY <1>5 DEF IInv, LineInv
    <3> QED BY <1>1, <1>2, <2>1, <2>3, <3>1 DEF IInv, LineInv, Sent, Shrinks
  <2>10. GotInv'
    <3>1. EOrderButLate'
      BY <1>1, <2>4 DEF EOrderButLate, Ordered
    <3>2. ~down => \A c \in Elems(got'), d \in CallNumbers : OnLine(d)' => c < d \/ d \in late'
      BY <1>1, <1>2 DEF IInv, PassInv, Shrinks
    <3>3. \A c \in Elems(got'), d \in Elems(queued') : c < d
      BY <2>1, <2>2, <2>3 DEF IInv, GotInv
    <3>4. ~down => \A c \in CallNumbers, d \in Elems(queued') : OnLine(c)' => c < d
      BY <1>2, <2>1 DEF IInv, GotInv, Shrinks
    <3> QED BY <1>1, <2>2, <3>1, <3>2, <3>3, <3>4 DEF GotInv
  <2> QED BY <2>6, <2>7, <2>8, <2>9, <2>10 DEF IInv
<1> QED BY <1>4, <1>5 DEF Lift

-------------------------------------------------------------------------------
(* The theorems.                                                           *)

\* At first nothing was called and nothing sent.
LEMMA InitInv ==
  ASSUME EmbargoAssumption, EmbargoInit
  PROVE  IInv
<1>1. Types
  <2>1. \A S : <<>> \in Seq(S)
    OBVIOUS
  <2>2. 0 \in 0..MaxCalls
    BY DEF EmbargoAssumption
  <2> QED BY ZenonT(60), <2>1, <2>2 DEF EmbargoInit, Types, EmbargoTypeOK
<1>2. Elems(<<>>) = {} /\ \A y, z : ~Before(<<>>, y, z)
  BY EmptyFacts
<1>3. (\A c \in CallNumbers : ~OnLine(c) /\ ~MarkAhead(c)) /\ ~Marked /\ (\A c, d \in CallNumbers : ~Ahead(c, d))
  BY <1>2 DEF EmbargoInit, OnLine, Ahead, MarkAhead, Marked
<1>4. StageInv
  BY <1>2, <1>3 DEF EmbargoInit, StageInv
<1>5. LineInv
  BY <1>2, <1>3 DEF EmbargoInit, LineInv, Sent
<1>6. GotInv
  BY <1>2, <1>3 DEF EmbargoInit, GotInv, EOrderButLate, Ordered
<1>7. PassInv
  BY <1>3 DEF PassInv
<1> QED BY <1>1, <1>4, <1>5, <1>6, <1>7 DEF IInv

\* Every step keeps the invariant.
LEMMA NextInv ==
  ASSUME EmbargoAssumption, IInv, [EmbargoNext]_embargoVars
  PROVE  IInv'
<1>1. CASE Call \/ CallStart \/ CallWire \/ CallReturns
  BY <1>1, CallInv, CallStartInv, CallWireInv, CallReturnsInv
<1>2. CASE Release \/ PeerCall \/ PeerDisembargo \/ PeerRelease
  BY <1>2, ReleaseInv, PeerCallInv, PeerDisembargoInv, PeerReleaseInv
<1>3. CASE PeerFulfill \/ PeerDrain \/ PeerReject \/ PeerTell
  BY <1>3, PeerFulfillInv, PeerDrainInv, PeerRejectInv, PeerTellInv
<1>4. CASE RecvCall \/ RecvResolve \/ RecvReturn \/ RecvBroken \/ RecvLoopback
  BY <1>4, RecvCallInv, RecvResolveInv, RecvReturnInv, RecvBrokenInv, RecvLoopbackInv
<1>5. CASE RecvResolveUnknown
  BY <1>5, ShutdownInv DEF RecvResolveUnknown
<1>6. CASE Close \/ PeerCallFinished
  BY <1>6, ShutdownInv DEF Close, PeerCallFinished
<1>7. CASE ResolverFulfill \/ Reject \/ SendDisembargo \/ Lift
  BY <1>7, FulfillInv, RejectInv, SendDisembargoInv, LiftInv
<1>8. CASE UNCHANGED embargoVars
  <2>1. UNCHANGED <<toHere, held, toPeer>> /\ UNCHANGED <<made, calling, late, got, queued, via, route, handler, embargo, peer, told, down>>
    BY <1>8 DEF embargoVars
  <2>2. Shrinks /\ SameNews
    BY ZenonT(30), <2>1, LineSame
  <2>3. Types'
    BY <1>8 DEF embargoVars, IInv, Types, EmbargoTypeOK
  <2> QED BY <2>1, <2>2, <2>3, QuietStep
<1> QED BY <1>1, <1>2, <1>3, <1>4, <1>5, <1>6, <1>7, <1>8 DEF EmbargoNext

\* The invariant of the line and the embargo holds at every step, for any
\* number of calls.
THEOREM EmbargoInvariant == ASSUME EmbargoAssumption PROVE EmbargoSpec => []IInv
<1>1. EmbargoInit => IInv
  BY InitInv
<1>2. IInv /\ [EmbargoNext]_embargoVars => IInv'
  BY NextInv
<1> QED BY <1>1, <1>2, PTL DEF EmbargoSpec

\* The capability receives the calls in the order in which they were made,
\* before, during and after the resolution of the promise and across a
\* shutdown, but for those that were on their way to the peer when the
\* resolution was handled and reach the wire behind the Disembargo, or with
\* none sent.
THEOREM CallsInOrder == ASSUME EmbargoAssumption PROVE EmbargoSpec => []EOrderButLate
<1>1. IInv => EOrderButLate
  BY DEF IInv, GotInv
<1> QED BY <1>1, EmbargoInvariant, PTL
================================================================================
