----------------------------- MODULE MCResources ------------------------------
(***************************************************************************)
(* The components that count what they hand out and must get it back,      *)
(* checked in one run: the references to exports and imports               *)
(* (ImportExport), to clients and hooks (Client), the reservations of a    *)
(* flow limiter (Calls), the IDs of a connection (IdGen), the calls in a   *)
(* promise's queue (Promise) and the packets of the BBR limiter (Bbr).     *)
(* Init chooses the component that runs; the others stay in an initial     *)
(* state, and the variables of Client, which is instantiated, are "off".   *)
(***************************************************************************)
EXTENDS ImportExport, Calls, IdGen, Promise, Bbr, TLC

CONSTANTS Refs, Snapshots

VARIABLES comp, hooks, cursors, handles, snaps, pending, filling

clientVars == <<hooks, cursors, handles, snaps, pending, filling>>
mcVars == <<comp, vars, callsVars, idgenVars, promiseVars, bbrVars, clientVars>>

ASSUME MCFlow == FlowAssumption
ASSUME MCIds == IdAssumption
ASSUME MCBbr == BbrAssumption

\* The sizes of the messages: some fit together, some only alone, some not at all,
\* and one is zero.
MCSizes == {<<1, 2, 1>>, <<1, 3, 3>>, <<2, 1, 0>>}

MCMessageSize == <<1, 2, 1, 1>>

K == INSTANCE Client WITH
       Promises <- {1, 2}, Plain <- {3}, Clients <- Refs, Callers <- {1},
       clients <- handles, calls <- pending

ClientOff ==
  /\ hooks = "off" /\ cursors = "off" /\ handles = "off"
  /\ snaps = "off" /\ pending = "off" /\ filling = "off"

MCInit ==
  /\ Init /\ CallsInit /\ IdGenInit /\ PromiseInit /\ BbrInit
  /\ \/ comp \in {"tables", "calls", "idgen", "promise", "bbr"} /\ ClientOff
     \/ comp = "client" /\ K!Init
  /\ comp = "calls" \/ Size = <<1, 2, 1>>
  /\ comp = "promise" \/ ~fails

MCNext ==
  /\ comp' = comp
  /\ \/ comp = "tables" /\ Next /\ UNCHANGED <<callsVars, idgenVars, promiseVars, bbrVars, clientVars>>
     \/ comp = "calls" /\ CallsNext /\ UNCHANGED <<vars, idgenVars, promiseVars, bbrVars, clientVars>>
     \/ comp = "idgen" /\ IdGenNext /\ UNCHANGED <<vars, callsVars, promiseVars, bbrVars, clientVars>>
     \/ comp = "promise" /\ PromiseNext /\ UNCHANGED <<vars, callsVars, idgenVars, bbrVars, clientVars>>
     \/ comp = "bbr" /\ BbrNext /\ UNCHANGED <<vars, callsVars, idgenVars, promiseVars, clientVars>>
     \/ comp = "client" /\ K!Next /\ UNCHANGED <<vars, callsVars, idgenVars, promiseVars, bbrVars>>

MCSpec == MCInit /\ [][MCNext]_mcVars

\* The names of capabilities, of importClients and of references to clients can
\* be exchanged.  No component uses both capabilities and references, so that two
\* references and the two capabilities are exchanged at once: each component has
\* all of its permutations, and the group is half as large.
Swaps(S) == {p \in Permutations(S) : Cardinality({x \in S : p[x] # x}) = 2}
Symmetry == Permutations(Clients) \cup {r @@ c : r \in Swaps(Refs), c \in Swaps(Caps)}

-------------------------------------------------------------------------------
\* A hook's count is the number of references to it, and it is shut down once,
\* when there are none left (Client).
ShutDownWhenUnreferenced == comp = "client" => K!ShutDownWhenUnreferenced

\* After Fulfill returns, calls go to what the promise was fulfilled with
\* (Client).
CallsGoToTarget == comp = "client" => K!CallsGoToTarget
===============================================================================
