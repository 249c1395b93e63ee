------------------------------- MODULE BbrFilter -------------------------------
(***************************************************************************)
(* The estimates of the BBR limiter (flowcontrol/bbr/filter.go) and the    *)
(* ring buffer they keep their samples in (queue.go).  The filters are the *)
(* code's; history is the samples they were given.                         *)
(***************************************************************************)
EXTENDS Naturals, Integers, Sequences, SequencesExt

CONSTANTS
  Values,           \* the rates and round-trip times sampled
  btlBwFilterSize,  \* the samples the bandwidth filter keeps (6)
  Window,           \* the time over which round-trip samples are merged (1 s)
  Keep,             \* how long they are kept (30 s)
  MaxSamples,       \* bound on the samples of the bandwidth filter
  MaxTime           \* bound on the time in the round-trip filter

VARIABLES
  filter,      \* which filter runs: "btlBw" or "rtProp"
  q,           \* its queue
  nextSample,  \* rtPropFilter.nextSample
  Estimate,
  now,
  history      \* the samples that matter, each with its time

vars == <<filter, q, nextSample, Estimate, now, history>>

-------------------------------------------------------------------------------
(***************************************************************************)
(* queue[T]: buf is a function from 0, as the slice is.                    *)
(***************************************************************************)
Cap(r) == Cardinality(DOMAIN r.buf)
newQueue(sizeHint) == [buf |-> [i \in 0..(sizeHint - 1) |-> 0], start |-> 0, length |-> 0]

Items(r) == [i \in 1..r.length |-> r.buf[(r.start + i - 1) % Cap(r)]]

\* Variant: the items are not moved to the start of the new slice.
growInPlace(r) ==
  [buf |-> [i \in 0..(2 * Cap(r)) |-> IF i < r.length THEN r.buf[i] ELSE 0], start |-> 0, length |-> r.length]

grow(r) ==
  [buf |-> [i \in 0..(2 * Cap(r)) |-> IF i < r.length THEN Items(r)[i + 1] ELSE 0],
   start |-> 0, length |-> r.length]

Peek(r) == r.buf[r.start]
Pop(r) == [r EXCEPT !.start = (@ + 1) % Cap(r), !.length = @ - 1]

Push(r, v) ==
  LET g == IF r.length = Cap(r) THEN grow(r) ELSE r
  IN  [g EXCEPT !.buf[(g.start + g.length) % Cap(g)] = v, !.length = @ + 1]

-------------------------------------------------------------------------------
Init ==
  /\ filter \in {"btlBw", "rtProp"}
  /\ q = newQueue(IF filter = "btlBw" THEN btlBwFilterSize ELSE 0)
  /\ nextSample = [now |-> -(Keep + Window + 1), rtt |-> Max(Values) + 1]
  /\ Estimate = 0
  /\ now = 0
  /\ history = <<>>

\* Round-trip samples older than Keep matter to no property.
Record(v) ==
  history' = Append(SelectSeq(history, LAMBDA s : now - s.now <= Keep), [now |-> now, rtt |-> v])

\* btlBwFilter.AddSample
AddRate(v) ==
  /\ filter = "btlBw"
  /\ Len(history) < MaxSamples
  /\ q' = Push(IF q.length = btlBwFilterSize THEN Pop(q) ELSE q, v)
  /\ Estimate' = Max({0} \cup ToSet(Items(q')))
  /\ Record(v)
  /\ UNCHANGED <<filter, nextSample, now>>

\* The queue after the samples older than Keep were popped from its head.
Dropped(r) ==
  LET n == Max({k \in 0..r.length : \A i \in 1..k : now - Items(r)[i].now > Keep})
  IN  IF n = 0 THEN r ELSE [r EXCEPT !.start = (@ + n) % Cap(r), !.length = @ - n]

\* rtPropFilter.AddSample
AddRtt(v) ==
  /\ filter = "rtProp"
  /\ \/ /\ now - nextSample.now > Window
        /\ q' = Dropped(Push(q, nextSample))
        /\ nextSample' = [now |-> now, rtt |-> v]
     \/ /\ now - nextSample.now <= Window
        /\ q' = Dropped(q)
        /\ nextSample' = [nextSample EXCEPT !.rtt = Min({@, v})]
  /\ Estimate' = Min({nextSample'.rtt} \cup {s.rtt : s \in ToSet(Items(q'))})
  /\ Record(v)
  /\ UNCHANGED <<filter, now>>

Tick ==
  /\ filter = "rtProp"
  /\ now < MaxTime
  /\ now' = now + 1
  /\ UNCHANGED <<filter, q, nextSample, Estimate, history>>

\* One sample at each time is enough: two are the smaller one.
Fresh == \A s \in ToSet(history) : s.now < now

Next ==
  \/ \E v \in Values : AddRate(v)
  \/ \E v \in Values : Fresh /\ AddRtt(v)
  \/ Tick

Spec == Init /\ [][Next]_vars

-------------------------------------------------------------------------------
Recent(n) == {history[i].rtt : i \in {j \in DOMAIN history : j > Len(history) - n}}
Within(age) == {s.rtt : s \in {h \in ToSet(history) : now - h.now <= age}}
Sampled == history # <<>> /\ history[Len(history)].now = now

\* The bandwidth estimate is the largest of the last btlBwFilterSize samples,
\* however often the ring buffer has wrapped around.
BandwidthIsRecentMax ==
  (filter = "btlBw" /\ history # <<>>) => Estimate = Max(Recent(btlBwFilterSize))

\* The round-trip estimate is a sample no older than Keep, and none of the
\* samples younger than Keep - Window was smaller: merging the samples of a
\* window loses less than one window, and the queue that grows from nothing
\* loses none.
RttIsRecentMin ==
  (filter = "rtProp" /\ Sampled) =>
    /\ Estimate \in Within(Keep)
    /\ \A r \in Within(Keep - Window) : Estimate <= r

\* The estimates are the extremes of the recent samples, in either filter.
EstimateIsRecent == BandwidthIsRecentMax /\ RttIsRecentMin

===============================================================================
