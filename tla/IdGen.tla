-------------------------------- MODULE IdGen --------------------------------
(***************************************************************************)
(* rpc/idgen.go: the generator of question, export and embargo IDs, and    *)
(* the bit set that holds the IDs given back.                              *)
(*                                                                         *)
(* A word of the bit set is the set of the positions of its one bits.      *)
(***************************************************************************)
EXTENDS Naturals, Sequences

CONSTANTS WordBits,  \* bits in a word of a uintSet (64)
          MaxUint    \* the value at which next panics (2^32 - 1)

IdAssumption == WordBits \in Nat \ {0} /\ MaxUint \in Nat

VARIABLES i,       \* idgen.i: IDs below it have been handed out at least once
          free,    \* idgen.free
          inUse,   \* the IDs the connection holds: handed out and not removed
          panicked \* next has panicked: "overflow ID"

idgenVars == <<i, free, inUse, panicked>>

Bit == 0..(WordBits - 1)

-----------------------------------------------------------------------------
(* uintSet                                                                 *)

has(s, n) == n \div WordBits < Len(s) /\ n % WordBits \in s[n \div WordBits + 1]

\* add grows the slice to hold the word of n.
Grown(s, n) == [k \in 1..(IF n \div WordBits >= Len(s) THEN n \div WordBits + 1 ELSE Len(s)) |->
                  IF k <= Len(s) THEN s[k] ELSE {}]

add(s, n) == [Grown(s, n) EXCEPT ![n \div WordBits + 1] = @ \cup {n % WordBits}]

\* remove never shrinks it.
remove(s, n) ==
  IF n \div WordBits < Len(s) THEN [s EXCEPT ![n \div WordBits + 1] = @ \ {n % WordBits}] ELSE s

\* min: the first bit of the first word that is not zero.
NonZero(s) == {k \in 1..Len(s) : s[k] # {}}
FirstWord(s) == CHOOSE k \in NonZero(s) : \A l \in NonZero(s) : k <= l

\* Variant: the last word that is not zero.
minLast(s) == LET k == CHOOSE k \in NonZero(s) : \A l \in NonZero(s) : k >= l
              IN (k - 1) * WordBits + (CHOOSE b \in s[k] : \A c \in s[k] : b <= c)

min(s) == LET k == FirstWord(s)
          IN (k - 1) * WordBits + (CHOOSE b \in s[k] : \A c \in s[k] : b <= c)

-----------------------------------------------------------------------------
(* idgen                                                                   *)

IdGenInit == i = 0 /\ free = <<>> /\ inUse = {} /\ panicked = FALSE

nextFree ==
  /\ NonZero(free) # {}
  /\ free' = remove(free, min(free))
  /\ inUse' = inUse \cup {min(free)}
  /\ UNCHANGED <<i, panicked>>

nextNew ==
  /\ NonZero(free) = {}
  /\ IF i = MaxUint
       THEN panicked' = TRUE /\ UNCHANGED <<i, inUse>>
       ELSE i' = i + 1 /\ inUse' = inUse \cup {i} /\ UNCHANGED panicked
  /\ free' = free

\* The connection gives back an ID it holds.
removeID ==
  \E n \in inUse :
     /\ free' = add(free, n)
     /\ inUse' = inUse \ {n}
     /\ UNCHANGED <<i, panicked>>

IdGenNext == ~panicked /\ (nextFree \/ nextNew \/ removeID)

IdGenSpec == IdGenInit /\ [][IdGenNext]_idgenVars

-----------------------------------------------------------------------------
(* Properties.                                                             *)

\* Type invariant.
IdGenTypeOK ==
  /\ i \in 0..MaxUint
  /\ free \in Seq(SUBSET Bit)
  /\ inUse \subseteq 0..MaxUint
  /\ panicked \in BOOLEAN

Pool == INSTANCE IdPool WITH exhausted <- panicked

\* What callers of next and remove rely on: next returns the least ID that nobody
\* holds, whatever was given back in which order, and panics only when all are held.
PoolSpec == Pool!Spec
===============================================================================
