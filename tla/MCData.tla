------------------------------- MODULE MCData ---------------------------------
(***************************************************************************)
(* The components that store data and read it back, checked in one run:    *)
(* messages (MessageBuild), equality and the canonical form (Canonical),   *)
(* the generated accessors (Accessors, on the types of the layout modules) *)
(* and the filters of the BBR limiter (BbrFilter).  Init chooses the       *)
(* component that runs.  MessageBuild and Canonical have their own         *)
(* variables; the others, of which one runs at most, share v1 to v6.       *)
(***************************************************************************)
EXTENDS MessageBuild, Canonical

CONSTANTS Written, Readers, Objects

VARIABLES comp, v1, v2, v3, v4, v5, v6

v1to6 == <<v1, v2, v3, v4, v5, v6>>
mcVars == <<comp, buildVars, pairVars, v1to6>>

A == INSTANCE Accessors WITH
       MaxCalls <- 2,
       name <- v1, data <- v2, ptrs <- v3, want <- v4, calls <- v5

F == INSTANCE BbrFilter WITH
       Values <- {1, 2}, btlBwFilterSize <- 2, Window <- 1, Keep <- 6, MaxSamples <- 6, MaxTime <- 10,
       filter <- v1, q <- v2, nextSample <- v3, Estimate <- v4, now <- v5, history <- v6

-------------------------------------------------------------------------------
(* The sizes of the structs built, the values compared and the types.      *)

Sizes == {ObjectSize(8, 1)}
ElementSizes == {ObjectSize(16, 2)}

Structs == {S(<<>>, <<>>), S(<<0>>, <<>>), S(<<1>>, <<>>), S(<<1, 0>>, <<>>), S(<<0, 1>>, <<Leaf>>)}
Items == {S(<<0>>, <<Leaf>>), S(<<1>>, <<Leaf>>), S(<<0>>, <<S(<<1>>, <<>>)>>)}
Lists == {L(size, <<a, b>>) : size \in {ObjectSize(8, 1), ObjectSize(16, 2)}, a, b \in Items}
         \cup {P(<<a>>) : a \in Structs \cup {Leaf}} \cup {W(<<1>>), W(<<1, 0>>), W(<<>>)}
         \cup {B(<<1>>), B(<<1, 0>>), B(<<0, 1>>), Bools(<<1, 0, 0>>), Bools(<<0, 0, 1>>), Bools(<<1, 0>>), Voids(2)}
MCTrees ==
  Structs \cup {S(<<>>, <<t>>) : t \in Structs \cup Lists \cup {Leaf}}
          \cup {S(<<1>>, <<Leaf, t>>) : t \in Structs}

Rpc == INSTANCE RpcLayout
Std == INSTANCE SchemaLayout
Internal == INSTANCE InternalSchemaLayout
Json == INSTANCE JsonLayout
TwoParty == INSTANCE TwoPartyLayout
Persistent == INSTANCE PersistentLayout

Named(package, types) == [n \in {<<package, t>> : t \in DOMAIN types} |-> types[n[2]]]
MCWritten == Named("rpc", Rpc!Types) @@ Named("schema", Std!Types) @@ Named("json", Json!Types)
             @@ Named("rpctwoparty", TwoParty!Types) @@ Named("persistent", Persistent!Types)

\* What std/capnp/schema writes, internal/schema reads as well.
MCReaders == [n \in DOMAIN MCWritten |->
                {MCWritten[n]} \cup IF n[1] = "schema" THEN {Internal!Types[n[2]]} ELSE {}]

-------------------------------------------------------------------------------
Off1to5 == v1 = "off" /\ v2 = "off" /\ v3 = "off" /\ v4 = "off" /\ v5 = "off"
NoPair == left = Leaf /\ right = Leaf

MCInit ==
  /\ Init
  /\ \/ comp = "message" /\ NoPair /\ Off1to5 /\ v6 = "off"
     \/ comp = "canonical" /\ PairInit /\ Off1to5 /\ v6 = "off"
     \/ comp = "accessors" /\ NoPair /\ A!Init /\ v6 = "off"
     \/ comp = "filter" /\ NoPair /\ F!Init

MCNext ==
  /\ comp' = comp
  /\ \/ comp = "message" /\ Next /\ UNCHANGED <<pairVars, v1to6>>
     \/ comp = "canonical" /\ PairNext /\ UNCHANGED <<buildVars, v1to6>>
     \/ comp = "accessors" /\ A!Next /\ UNCHANGED <<buildVars, pairVars, v6>>
     \/ comp = "filter" /\ F!Next /\ UNCHANGED <<buildVars, pairVars>>

MCSpec == MCInit /\ [][MCNext]_mcVars

-------------------------------------------------------------------------------
\* Equal says that two structs have the same value if they do, and (unless there
\* are bit lists in them) only then (Canonical).
MCEqualIsSameValue == comp = "canonical" => EqualIsSameValue

\* Two structs have the same canonical form exactly when they have the same
\* value and their lists are of the same kinds, for lists of pointers, words,
\* bytes, bits, voids and of structs with pointers (Canonical; MCCanonical has
\* lists of structs without pointers and lists of different kinds).
MCCanonicalIsSameValue == comp = "canonical" => CanonicalIsSameValue

\* The canonical form of a struct is a message whose root has its value, bit for
\* bit, with lists of the same kinds (Canonical).
MCCanonicalReadsBack == comp = "canonical" => CanonicalReadsBack

\* After any calls of a type's setters every field has the value last given to
\* it, but for those of other members of a union, which cannot be read when they
\* have a tag, for every copy of the type and for pipelined calls (Accessors).
ReadsWhatWasSet == comp = "accessors" => A!ReadsWhatWasSet

\* The estimates of the filters are the extremes of the recent samples
\* (BbrFilter).
EstimateIsRecent == comp = "filter" => F!EstimateIsRecent
===============================================================================
