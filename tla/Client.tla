-------------------------------- MODULE Client --------------------------------
(***************************************************************************)
(* Clients and the hooks they refer to (capability.go, util/rc/ref.go).    *)
(* A client refers to a cursor, a cursor to a hook; a hook that is a       *)
(* promise resolves to another hook or to null, and cursors move along     *)
(* such links.  Cursors and hooks are counted, and a hook is shut down     *)
(* when its count falls to zero.                                           *)
(*                                                                         *)
(* An operation is one step where the code holds the client's and the      *)
(* cursor's mutexes for all of it.  A call keeps its hook from startCall   *)
(* to the return of Send or Recv, and Fulfill is several steps.            *)
(***************************************************************************)
EXTENDS Integers, FiniteSets, FiniteSetsExt

CONSTANTS
  Promises,      \* the hooks passed to NewPromisedClient
  Plain,         \* the hooks passed to NewClient
  Clients,       \* the client values that may be made
  Snapshots,     \* the snapshot values that may be made
  Callers        \* the goroutines that make calls

Hooks == Promises \cup Plain
Nil == 0               \* no hook
Unresolved == -1       \* the resolution of a promise that has none yet

VARIABLES
  hooks,         \* hook -> its count, resolution, and how often it was shut down
  cursors,       \* cursor -> its count and hook; a cursor is named after the client it was made for
  clients,       \* client -> its cursor and whether it was released
  snaps,         \* snapshot -> its hook
  calls,         \* caller -> the hook its call is made on
  filling        \* promise -> where Fulfill of its client is

vars == <<hooks, cursors, clients, snaps, calls, filling>>

Unmade == [made |-> FALSE]
NewHook == [made |-> TRUE, refs |-> 1, res |-> Unresolved, shut |-> 0]
NewCursor(h) == [made |-> TRUE, refs |-> 1, hook |-> h]
Live(c) == clients[c].made /\ ~clients[c].released
CursorOf(c) == clients[c].cursor

Init ==
  /\ hooks = [h \in Hooks |-> Unmade]
  /\ cursors = [c \in Clients |-> Unmade]
  /\ clients = [c \in Clients |-> Unmade]
  /\ snaps = [s \in Snapshots |-> Nil]
  /\ calls = [g \in Callers |-> Nil]
  /\ filling = [p \in Promises |-> [at |-> "idle"]]

(***************************************************************************)
(* Reference counting: AddRef and Release on Refs of hooks and cursors.    *)
(***************************************************************************)
RECURSIVE DropHook(_, _), Compressed(_, _), Fulfilled(_)

AddHook(hs, h) == IF h = Nil THEN hs ELSE [hs EXCEPT ![h].refs = @ + 1]

\* clientHook.Release shuts the hook down and releases what it resolved to.
DropHook(hs, h) ==
  IF h = Nil THEN hs
  ELSE LET less == [hs EXCEPT ![h].refs = @ - 1]
           shut == [less EXCEPT ![h].shut = @ + 1]
       IN  IF less[h].refs > 0 THEN less
           ELSE IF h \in Promises /\ hs[h].res # Unresolved THEN DropHook(shut, hs[h].res)
           ELSE shut

\* clientCursor.Release runs when the last reference to the cursor goes.
DropCursor(st, k) ==
  LET less == [st.cursors EXCEPT ![k].refs = @ - 1]
  IN  [cursors |-> less, hooks |-> IF less[k].refs = 0 THEN DropHook(st.hooks, st.cursors[k].hook) ELSE st.hooks]

\* Variant: the cursor stays where it is.
CompressedNot(hs, h) == [hooks |-> hs, hook |-> h]

\* clientCursor.compress: as far along the resolutions as possible.
Compressed(hs, h) ==
  IF h = Nil THEN [hooks |-> hs, hook |-> Nil]
  ELSE IF h \notin Promises \/ hs[h].res = Unresolved THEN [hooks |-> hs, hook |-> h]
  ELSE Compressed(DropHook(AddHook(hs, hs[h].res), h), hs[h].res)

\* Client.startCall on a client that is not released: the cursor is compressed
\* and its hook referenced.
StartCall(c) ==
  LET k == CursorOf(c)
      r == Compressed(hooks, cursors[k].hook)
  IN  [cursors |-> [cursors EXCEPT ![k].hook = r.hook], hooks |-> AddHook(r.hooks, r.hook), hook |-> r.hook]

-------------------------------------------------------------------------------
NewClient(c, h) ==
  /\ ~clients[c].made /\ ~hooks[h].made /\ ~cursors[c].made
  /\ hooks' = [hooks EXCEPT ![h] = NewHook]
  /\ cursors' = [cursors EXCEPT ![c] = NewCursor(h)]
  /\ clients' = [clients EXCEPT ![c] = [made |-> TRUE, cursor |-> c, released |-> FALSE]]
  /\ filling' = IF h \in Promises THEN [filling EXCEPT ![h] = [at |-> "waiting", weak |-> c]] ELSE filling
  /\ UNCHANGED <<snaps, calls>>

\* Client.AddRef compresses the cursor, which the new client shares.  The code does
\* it in three critical sections, startCall, the cursor's AddRef and the release of
\* the hook.  Here they are one: the caller holds the client and does not release it
\* meanwhile, and a Fulfill in between moves the cursor that both clients share.
AddRef(c, d) ==
  /\ Live(c) /\ ~clients[d].made
  /\ LET s == StartCall(c)
         k == CursorOf(c)
     IN  /\ hooks' = DropHook(s.hooks, s.hook)
         /\ cursors' = [s.cursors EXCEPT ![k].refs = @ + 1]
         /\ clients' = [clients EXCEPT ![d] = [made |-> TRUE, cursor |-> k, released |-> FALSE]]
  /\ UNCHANGED <<snaps, calls, filling>>

Release(c) ==
  /\ Live(c)
  /\ clients' = [clients EXCEPT ![c].released = TRUE]
  /\ LET st == DropCursor([cursors |-> cursors, hooks |-> hooks], CursorOf(c))
     IN  cursors' = st.cursors /\ hooks' = st.hooks
  /\ UNCHANGED <<snaps, calls, filling>>

\* SendCall and RecvCall: the hook is held until Send or Recv returns.  A call
\* on a null client is answered with an error.
Call(g, c) ==
  /\ calls[g] = Nil /\ Live(c)
  /\ LET s == StartCall(c)
     IN  /\ hooks' = s.hooks
         /\ cursors' = s.cursors
         /\ calls' = [calls EXCEPT ![g] = s.hook]
  /\ UNCHANGED <<clients, snaps, filling>>

CallReturns(g) ==
  /\ calls[g] # Nil
  /\ hooks' = DropHook(hooks, calls[g])
  /\ calls' = [calls EXCEPT ![g] = Nil]
  /\ UNCHANGED <<cursors, clients, snaps, filling>>

Snapshot(c, s) ==
  /\ Live(c) /\ snaps[s] = Nil
  /\ LET r == StartCall(c)
     IN  /\ hooks' = r.hooks
         /\ cursors' = r.cursors
         /\ snaps' = [snaps EXCEPT ![s] = r.hook]
  /\ UNCHANGED <<clients, calls, filling>>

ReleaseSnapshot(s) ==
  /\ snaps[s] # Nil
  /\ hooks' = DropHook(hooks, snaps[s])
  /\ snaps' = [snaps EXCEPT ![s] = Nil]
  /\ UNCHANGED <<cursors, clients, calls, filling>>

\* Variant: the snapshot's hook is released before the next one is referenced.
Resolve1ReleaseFirst(s) ==
  LET h == snaps[s]
  IN  /\ h \in Promises
      /\ hooks[h].res # Unresolved
      /\ hooks' = AddHook(DropHook(hooks, h), hooks[h].res)
      /\ snaps' = [snaps EXCEPT ![s] = hooks[h].res]
      /\ UNCHANGED <<cursors, clients, calls, filling>>

\* ClientSnapshot.Resolve1 when the resolution is there: the next hook is
\* referenced before this one is released.
Resolve1(s) ==
  LET h == snaps[s]
  IN  /\ h \in Promises
      /\ hooks[h].res # Unresolved
      /\ hooks' = DropHook(AddHook(hooks, hooks[h].res), h)
      /\ snaps' = [snaps EXCEPT ![s] = hooks[h].res]
      /\ UNCHANGED <<cursors, clients, calls, filling>>

\* ClientSnapshot.Client: a new cursor on the hook, compressed.
SnapshotClient(s, c) ==
  /\ snaps[s] # Nil /\ ~clients[c].made /\ ~cursors[c].made
  /\ LET r == Compressed(AddHook(hooks, snaps[s]), snaps[s])
     IN  /\ hooks' = r.hooks
         /\ cursors' = [cursors EXCEPT ![c] = NewCursor(r.hook)]
  /\ clients' = [clients EXCEPT ![c] = [made |-> TRUE, cursor |-> c, released |-> FALSE]]
  /\ UNCHANGED <<snaps, calls, filling>>

\* WeakClient.AddRef on a weak reference to a client's cursor (WeakRef): it
\* succeeds as long as the cursor has references.
WeakAddRef(c, d) ==
  /\ clients[c].made /\ ~clients[d].made
  /\ cursors[CursorOf(c)].refs > 0
  /\ cursors' = [cursors EXCEPT ![CursorOf(c)].refs = @ + 1]
  /\ clients' = [clients EXCEPT ![d] = [made |-> TRUE, cursor |-> CursorOf(c), released |-> FALSE]]
  /\ UNCHANGED <<hooks, snaps, calls, filling>>

-------------------------------------------------------------------------------
(***************************************************************************)
(* clientPromise.Fulfill of promise p with client c, or with null.  When   *)
(* the promise's cursor has no references left, it returns at once.        *)
(***************************************************************************)
At(p, where) == filling[p].at = where

FulfillStart(p) ==
  /\ At(p, "waiting")
  /\ LET k == filling[p].weak
     IN  \/ /\ cursors[k].refs = 0
            /\ filling' = [filling EXCEPT ![p].at = "done"]
            /\ UNCHANGED cursors
         \/ /\ cursors[k].refs > 0
            /\ cursors' = [cursors EXCEPT ![k].refs = @ + 1]
            /\ filling' = [filling EXCEPT ![p].at = "target"]
  /\ UNCHANGED <<hooks, clients, snaps, calls>>

\* startCall on the client given, which must not be released.  Hooks are
\* numbered: a promise is only fulfilled with a client of a plain hook or of a
\* higher promise, so that no chain of resolutions leads back to its start
\* (compress would not return).
FulfillTarget(p, c) ==
  /\ At(p, "target")
  /\ Live(c)
  /\ LET s == StartCall(c)
     IN  /\ s.hook \in Promises => s.hook > p
         /\ hooks' = s.hooks
         /\ cursors' = s.cursors
         /\ filling' = [filling EXCEPT ![p] = [at |-> "mark", weak |-> @.weak, target |-> s.hook]]
  /\ UNCHANGED <<clients, snaps, calls>>

FulfillNull(p) ==
  /\ At(p, "target")
  /\ filling' = [filling EXCEPT ![p] = [at |-> "mark", weak |-> @.weak, target |-> Nil]]
  /\ UNCHANGED <<hooks, cursors, clients, snaps, calls>>

FulfillMark(p) ==
  /\ At(p, "mark")
  /\ hooks' = [hooks EXCEPT ![p].res = filling[p].target]
  /\ filling' = [filling EXCEPT ![p].at = "compress"]
  /\ UNCHANGED <<cursors, clients, snaps, calls>>

FulfillCompress(p) ==
  /\ At(p, "compress")
  /\ LET k == filling[p].weak
         r == Compressed(hooks, cursors[k].hook)
     IN  /\ hooks' = r.hooks
         /\ cursors' = [cursors EXCEPT ![k].hook = r.hook]
  /\ filling' = [filling EXCEPT ![p].at = "release"]
  /\ UNCHANGED <<clients, snaps, calls>>

FulfillReturn(p) ==
  /\ At(p, "release")
  /\ LET st == DropCursor([cursors |-> cursors, hooks |-> hooks], filling[p].weak)
     IN  cursors' = st.cursors /\ hooks' = st.hooks
  /\ filling' = [filling EXCEPT ![p].at = "done"]
  /\ UNCHANGED <<clients, snaps, calls>>

Next ==
  \/ \E c \in Clients, h \in Hooks : NewClient(c, h)
  \/ \E c, d \in Clients : AddRef(c, d)
  \/ \E c \in Clients : Release(c)
  \/ \E g \in Callers, c \in Clients : Call(g, c)
  \/ \E g \in Callers : CallReturns(g)
  \/ \E c \in Clients, s \in Snapshots : Snapshot(c, s)
  \/ \E s \in Snapshots : ReleaseSnapshot(s)
  \/ \E s \in Snapshots : Resolve1(s)
  \/ \E s \in Snapshots, c \in Clients : SnapshotClient(s, c)
  \/ \E c, d \in Clients : WeakAddRef(c, d)
  \/ \E p \in Promises : FulfillStart(p)
  \/ \E p \in Promises, c \in Clients : FulfillTarget(p, c)
  \/ \E p \in Promises : FulfillNull(p)
  \/ \E p \in Promises : FulfillMark(p)
  \/ \E p \in Promises : FulfillCompress(p)
  \/ \E p \in Promises : FulfillReturn(p)

Spec == Init /\ [][Next]_vars

-------------------------------------------------------------------------------
\* Who holds a reference to a hook: the cursors that are alive, the snapshots,
\* the calls under way, the promises resolved to it that are alive, and a
\* Fulfill that has taken it but not stored it yet.
Holders(h) ==
  Cardinality({k \in Clients : cursors[k].made /\ cursors[k].refs > 0 /\ cursors[k].hook = h})
  + Cardinality({s \in Snapshots : snaps[s] = h})
  + Cardinality({g \in Callers : calls[g] = h})
  + Cardinality({p \in Promises : hooks[p].made /\ hooks[p].refs > 0 /\ hooks[p].res = h})
  + Cardinality({p \in Promises : At(p, "mark") /\ filling[p].target = h})

\* A hook's count is the number of references to it, and it is shut down
\* exactly when there are none left: no call, snapshot or client can reach a
\* hook that was shut down, none is shut down twice, and none leaks.
ShutDownWhenUnreferenced ==
  \A h \in Hooks : hooks[h].made =>
    /\ hooks[h].refs = Holders(h)
    /\ hooks[h].shut = IF Holders(h) = 0 THEN 1 ELSE 0

\* The hook at the end of what a hook, and what that, was fulfilled with: read off
\* the Fulfills that have marked their hook, not off the hooks.  A Fulfill that found
\* the promise's own clients gone fulfils nothing.
Fulfilled(h) ==
  IF h \in Promises /\ filling[h].at \in {"compress", "release", "done"} /\ "target" \in DOMAIN filling[h]
    THEN Fulfilled(filling[h].target)
    ELSE h

\* After Fulfill returns, a call on a client that NewPromisedClient made, or on a
\* reference added to it, goes to what the promise was fulfilled with, or, where that
\* is a promise fulfilled in its turn, to what that was fulfilled with ("After Fulfill
\* returns, then all future calls to the client created by NewPromisedClient will be
\* sent to c", capability.go:860-862).
CallsGoToTarget ==
  \A c \in Clients, p \in Promises :
    (Live(c) /\ At(p, "done") /\ CursorOf(c) = filling[p].weak) =>
      StartCall(c).hook = Fulfilled(filling[p].target)

===============================================================================
