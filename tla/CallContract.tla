----------------------------- MODULE CallContract -----------------------------
(***************************************************************************)
(* What the rpc package promises the application about one connection: a   *)
(* call that is posed is served at most once, and its promise is settled   *)
(* at most once: with results only if the server returned results.         *)
(***************************************************************************)
CONSTANT Calls

VARIABLES promise,  \* the caller's view of each call
          service   \* the callee's view of it

vars == <<promise, service>>

Init ==
  /\ promise = [c \in Calls |-> "none"]
  /\ service = [c \in Calls |-> "none"]

Pose(c) ==
  /\ promise[c] = "none"
  /\ promise' = [promise EXCEPT ![c] = "pending"]
  /\ service' = service

\* The call reaches the callee, perhaps after the caller has given up on it; it
\* may be answered there and then.
Accept(c, how) ==
  /\ promise[c] # "none"
  /\ service[c] = "none"
  /\ service' = [service EXCEPT ![c] = how]
  /\ promise' = promise

Return(c, how) ==
  /\ service[c] = "running"
  /\ service' = [service EXCEPT ![c] = how]
  /\ promise' = promise

Resolve(c) ==
  /\ promise[c] = "pending"
  /\ service[c] = "results"
  /\ promise' = [promise EXCEPT ![c] = "resolved"]
  /\ service' = service

\* An exception, a cancelled Context or a message that could not be sent.
Reject(c) ==
  /\ promise[c] = "pending"
  /\ promise' = [promise EXCEPT ![c] = "rejected"]
  /\ service' = service

Next ==
  \E c \in Calls :
     \/ Pose(c) \/ Resolve(c) \/ Reject(c)
     \/ \E how \in {"running", "results", "exception"} : Accept(c, how)
     \/ \E how \in {"results", "exception"} : Return(c, how)

Spec == Init /\ [][Next]_vars
===============================================================================
