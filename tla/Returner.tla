------------------------------- MODULE Returner --------------------------------
(***************************************************************************)
(* A StructReturner (answerqueue.go), which a method fills with its        *)
(* results in one goroutine while another takes the answer from it and     *)
(* releases it.  The results live in a message that somebody must release, *)
(* once, and not while the caller may read it.                             *)
(***************************************************************************)
EXTENDS Naturals

VARIABLES
  alloced,
  released,
  msg,       \* whether StructReturner.msg is set
  returned,
  result,    \* whether StructReturner.result is in the message
  err,       \* whether StructReturner.err is set
  p,         \* the promise: "nil", "pending", "fulfilled" or "rejected"
  live,      \* whether the message was allocated
  freed,     \* how often it was released
  method,    \* where the method's goroutine is
  caller,    \* where the caller's is
  answer     \* what Answer gave it: "none", "promise", "immediate" or "error"

vars == <<alloced, released, msg, returned, result, err, p, live, freed, method, caller, answer>>

returner == <<alloced, released, msg, returned, result, err>>

Init ==
  /\ alloced = FALSE /\ released = FALSE /\ msg = FALSE
  /\ returned = FALSE /\ result = FALSE /\ err = FALSE
  /\ p = "nil"
  /\ live = FALSE /\ freed = 0
  /\ method = "running" /\ caller = "start" /\ answer = "none"

-------------------------------------------------------------------------------
(***************************************************************************)
(* The method's goroutine, as returnAnswer and the server run it.          *)
(***************************************************************************)
AllocResults ==
  /\ method = "running" /\ ~alloced
  /\ alloced' = TRUE
  /\ \/ result' = TRUE /\ msg' = TRUE /\ live' = TRUE
     \/ UNCHANGED <<result, msg, live>>
  /\ UNCHANGED <<released, returned, err, p, freed, method, caller, answer>>

PrepareReturn ==
  /\ method = "running"
  /\ err' \in BOOLEAN
  /\ method' = "prepared"
  /\ UNCHANGED <<alloced, released, msg, returned, result, p, live, freed, caller, answer>>

\* The part of Return under the mutex.
Return ==
  /\ method = "prepared"
  /\ returned' = TRUE
  /\ result' = (result /\ ~err)
  /\ method' = "returned"
  /\ UNCHANGED <<alloced, released, msg, err, p, live, freed, caller, answer>>

\* Variant: a method that fails leaves the promise as it is.
ResolveNoError ==
  /\ method = "returned"
  /\ p' = IF p = "nil" \/ err THEN p ELSE "fulfilled"
  /\ method' = "resolved"
  /\ UNCHANGED <<returner, live, freed, caller, answer>>

\* The rest of it, which reads p without the mutex.
Resolve ==
  /\ method = "returned"
  /\ p' = IF p = "nil" THEN p ELSE IF err THEN "rejected" ELSE "fulfilled"
  /\ method' = "resolved"
  /\ UNCHANGED <<returner, live, freed, caller, answer>>

\* Variant: the message is released though the caller has the results.
ReleaseResultsAlways ==
  /\ method = "resolved"
  /\ released' = TRUE
  /\ msg' = FALSE
  /\ freed' = IF alloced /\ msg THEN freed + 1 ELSE freed
  /\ method' = "done"
  /\ UNCHANGED <<alloced, returned, result, err, p, live, caller, answer>>

ReleaseResults ==
  /\ method = "resolved"
  /\ released' = TRUE
  /\ msg' = FALSE
  /\ freed' = IF alloced /\ err /\ msg THEN freed + 1 ELSE freed
  /\ method' = "done"
  /\ UNCHANGED <<alloced, returned, result, err, p, live, caller, answer>>

-------------------------------------------------------------------------------
(***************************************************************************)
(* The caller's goroutine.                                                 *)
(***************************************************************************)
Answer ==
  /\ caller = "start"
  /\ \/ returned /\ err /\ answer' = "error" /\ UNCHANGED p
     \/ returned /\ ~err /\ answer' = "immediate" /\ UNCHANGED p
     \/ ~returned /\ answer' = "promise" /\ p' = "pending"
  /\ caller' = "waiting"
  /\ UNCHANGED <<returner, live, freed, method>>

\* The answer is there, and the caller reads it.
Read ==
  /\ caller = "waiting"
  /\ answer # "promise" \/ p # "pending"
  /\ caller' = "reading"
  /\ UNCHANGED <<returner, p, live, freed, method, answer>>

\* The release function, which the caller may call without having read.
Release ==
  /\ \/ caller = "reading"
     \/ caller = "waiting" /\ (answer # "promise" \/ p # "pending")
  /\ freed' = IF answer # "error" /\ result THEN freed + 1 ELSE freed
  /\ result' = IF answer = "error" THEN result ELSE FALSE
  /\ caller' = "done"
  /\ UNCHANGED <<alloced, released, msg, returned, err, p, live, method, answer>>

Next ==
  \/ AllocResults
  \/ PrepareReturn
  \/ Return
  \/ Resolve
  \/ ReleaseResults
  \/ Answer
  \/ Read
  \/ Release

\* The method returns, and the caller takes and releases its answer.
Method == PrepareReturn \/ Return \/ Resolve \/ ReleaseResults
Caller == Answer \/ Read \/ Release

Spec == Init /\ [][Next]_vars /\ WF_vars(Method) /\ WF_vars(Caller)

-------------------------------------------------------------------------------
\* However Return, ReleaseResults, Answer and the release function interleave,
\* the results' message is released once, by whichever of ReleaseResults and
\* the release function has to, and not before the caller has finished with it.
ReleasedOnce ==
  /\ freed <= (IF live THEN 1 ELSE 0)
  /\ (caller \in {"waiting", "reading"} /\ live /\ ~err) => freed = 0
  /\ (caller = "done" /\ method = "done" /\ live) => freed = 1

\* The answer Answer gave is resolved and can be released: Return finds the
\* promise, or Answer finds that Return was called.
Finished == caller = "done"
CallerFinishes == <>Finished

===============================================================================
