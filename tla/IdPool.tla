-------------------------------- MODULE IdPool --------------------------------
(***************************************************************************)
(* What rpc/idgen.go promises: next returns the least ID that is not in    *)
(* use, and fails only when there is none.                                 *)
(***************************************************************************)
EXTENDS Naturals

CONSTANT MaxUint   \* IDs are below it

VARIABLES inUse, exhausted

vars == <<inUse, exhausted>>

Init == inUse = {} /\ exhausted = FALSE

Allocate(n) ==
  /\ n \notin inUse
  /\ \A m \in 0..(n - 1) : m \in inUse
  /\ inUse' = inUse \cup {n}
  /\ UNCHANGED exhausted

Exhaust ==
  /\ \A m \in 0..(MaxUint - 1) : m \in inUse
  /\ exhausted' = TRUE
  /\ UNCHANGED inUse

Free(n) == n \in inUse /\ inUse' = inUse \ {n} /\ UNCHANGED exhausted

Next == \/ Exhaust
        \/ \E n \in 0..(MaxUint - 1) : Allocate(n) \/ Free(n)

Spec == Init /\ [][Next]_vars
===============================================================================
