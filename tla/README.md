# A TLA+ model of go-capnp

This directory models the Cap'n Proto implementation in `src/`: the RPC system
(what happens to a call, to a capability reference and to an ID while two vats,
their send goroutines, cancelled Contexts and local servers interleave), the
objects it is built from (promises, clients, queues, flow limiters), and the
encoding of messages. TLC checks the modules on small instances. TLAPS proves
safety properties and refinements of eight components for every value of their
constants.

`PROJECT.json` lists the components, runs, mutants, the map from definitions to
source lines, the findings, the hazards and the theorems.

## 1. The system

| part | source | module |
| --- | --- | --- |
| questions and answers | `rpc/question.go`, `rpc/answer.go`, handlers of `rpc/rpc.go` | `RpcQuestion`, `RpcQuestionLive`, `CallContract` |
| imports and exports | `rpc/import.go`, `rpc/export.go` | `ImportExport` |
| embargoes, Resolve, Disembargo | `rpc/export.go`, `rpc/rpc.go`, `rpc/question.go` | `Embargo` |
| ID generator | `rpc/idgen.go` | `IdGen`, `IdPool` |
| send queues | `exp/spsc`, `exp/mpsc` | `Mpsc`, `Fifo` |
| local servers | `server/server.go` | `Server` |
| promises, answer queues | `answer.go`, `answerqueue.go` | `Promise` |
| returners | `answerqueue.go` | `Returner` |
| clients | `capability.go`, `util/rc` | `Client` |
| calls, streaming, fixed flow limiter | `capability.go`, `flowcontrol/fixed.go` | `Calls` |
| BBR flow limiter | `flowcontrol/bbr` | `Bbr`, `BbrFilter` |
| messages, segments, arenas, pointers | `message.go`, `segment.go`, `arena.go`, `address.go`, `rawpointer.go`, `pointer.go`, `struct.go`, `list.go` | `Wire`, `MessageOps`, `MessageBuild` |
| equality, canonical form | `pointer.go`, `canonical.go` | `Canonical` |
| generated accessors | `std/capnp/**`, `internal/schema` | `Layout`, `Accessors`, six `*Layout` modules |

How they interact. `Conn` owns the four tables and one mutex, `Conn.lk`. The
receive goroutine runs one handler at a time. Handlers and application calls
append to a send queue (an `spsc`, under that lock), whose consumer, the send goroutine,
hands each message to the transport and then runs its `onSent` callback, which
takes `Conn.lk` again. An incoming Call is given to a local server, which queues
it and later drives the call's `Returner`. Outgoing calls are settled through a
`Promise`; calls on a promise wait in its `AnswerQueue`, and calls on a promise
of the peer that has come home wait behind an embargo. `Client.SendCall` reserves
room with a flow limiter. IDs of questions, exports and embargoes come from an
`idgen`.

What is hard in this code is that nearly every object has two ways of ending that
race (Return and cancellation, Release and a new descriptor, Finish and Return,
Close and the last message), that state is looked up again by ID after the lock
was given up, and that IDs are reused.

## 2. The modules

An action is one critical section of the mutex that guards the state, or one step
of a goroutine between two waits; everything a handler does in it is part of the
action. A `fault` or `panicked` variable records an error by which the code ends
the connection, or a panic. Definitions whose comment begins with "Variant" are
plausible errors in the definition that follows them; the mutants of
`PROJECT.json` use them, and no specification does.

### RpcQuestion: the life of a question

Two vats and one connection, in one direction: the caller's question table and
the callee's answer table. The other direction is a second copy with tables of
its own.

| code | model |
| --- | --- |
| `lk.questions`, `lk.questionID` | `questions`, `questionID` (ID -> the question that has it) |
| `question.id`, `.p`, `.flags`, `.finishMsgSend` | `qid`, `promise`, `finished`, `finishSent`, `finishMsgSend` |
| goroutines of a question | `canceler` (handleCancel), `returnTask` (the goroutines handleReturn forks) |
| send queue and send goroutine | `sendTx`, `sender` (which callback comes next) |
| `lk.answers`, `ansent` | `answers`, `answer` |
| the goroutine that serves a call | `server` |
| wire | `toCallee`, `toCaller` |

A message names the question it belongs to, and the receiver looks up
`questions[qid]` or `answers[qid]`, so a stale ID finds whatever is in the table
now. A send may fail (`SendMayFail`), at the transport or because the Context of
the call is done; the allocation of a Return may fail (`AllocMayFail`): a Call
then leaves the placeholder of `errorAnswer`, a Bootstrap ends the connection. The
identities in `Calls` are never reused, IDs
are. A queued pipelined call waits for its target (`Ready`), which stands for the
target's `AnswerQueue`.

`CallContract` is the view of the application: a call is served at most once,
settled at most once, and resolved only with results that were returned for it.
`Service` and `promise` are the refinement mapping. `RpcQuestionLive` adds the
fairness, what must eventually happen, and the kinds of calls of the run.

### ImportExport: references to capabilities

One direction again: the exporter's table with its wire reference counts, and the
importer's table with weak clients and generations. A descriptor (`senderHosted`)
counts a reference when it is built. `discarded` descriptors are results of a
question that was cancelled: the importer drops the message, and the exporter's
`destroy` gives the reference back (`held`). `lost` counts references whose
messages were built and then not sent. An importClient is live, released with a
call under way, or closing (waiting for `Conn.lk` in Shutdown). The capability of a
descriptor is settled: the Resolve of a promise is Embargo's subject.

A generation is kept in the entry of an import, and a new entry begins at 0 again.
`outlived` is a history variable for what this leads to. An importClient is
outlived when the Shutdown of another one of its ID has deleted the entry before
it was shut down itself; it may later find an entry of its own generation that is
not its own, or none. The invariants hold of every behaviour, such Shutdowns
included, and say what they say of importClients that are not outlived; a message
that an outlived one sends still finds an export. `import_overtaken` shows that a
live client can be affected.

### Promise, Client, Calls, Returner

`Promise` is a promise with its lock, its pipelined client and its AnswerQueue,
while goroutines call, ask for the client, pipeline on queued calls, and one
resolves it. `Client` has clients, cursors and hooks with their counts; `Fulfill`
is several steps, between which calls and releases happen. `Calls` has SendCall,
which sends first and reserves afterwards, the waiters of the semaphore
(`golang.org/x/sync/semaphore`, external, modelled from how `fixed.go` uses it; a
waiter is granted its room, and finds out later, when its Context may be done),
messages of any size, 0 included (a call without `PlaceArgs`), and the group and
error of streaming calls. `Returner` is a StructReturner between the goroutine of
a method and that of its caller.

### Embargo

One promise of the peer, imported or the answer of a question, that resolves to a
capability of this vat, is broken or is released: Resolve or Return, the embargo,
the Disembargo and its loopback, Release and Finish, and the end of the
connection. A call that goes to the peer reads the hook or the PipelineCaller
(`CallStart`), is queued under `Conn.lk` (`CallWire`) and then lets go of the hook
(`CallReturns`); the promise may be resolved between these steps. `late` are the
calls that were queued behind the Disembargo, or when none was to follow: from the
locked part of the handler on, until the last call that read the hook before the
fulfilment has been queued.

### Server, Mpsc and Fifo, IdGen and IdPool, Bbr and BbrFilter

`Server`: `pulling` counts goroutines in `callQueue.Recv`, `waiting` those in
`wg.Wait`; `Call.Go` adds a goroutine and retires its own. Every server is taken
to have a `Shutdowner`. `Mpsc` models the channel operations of `spsc` one by one
under the lock of `mpsc`; `Fifo` is the abstract queue. `Server` and `RpcQuestion`
use sequences where the code uses an mpsc and an spsc, which `IsFifo` justifies. `IdGen` keeps
the words of the bit set and their growth; `IdPool` is the pool that hands out the
least free ID. `Bbr` is the limiter's goroutine with its counters and states;
times and rates are real-valued, and a test on one of them is a nondeterministic
choice. `BbrFilter` has the filters over the ring buffer.

### Messages

`Wire` is address arithmetic and the bit fields of encoded pointers, with every
width derived from `AddressBits` (32 in the code, 8 in the runs). `MessageOps`
reads, allocates and writes in segments; `MessageBuild` is an application that
builds two messages, with far and double-far pointers and deep copies.
`Canonical` compares `Equal` and `Canonicalize` with the value of an object, a
tree of structs and of lists of structs, pointers, words, bytes, bits and voids;
capabilities are left out of both functions. `Layout` is the vocabulary of
generated accessors, a `*Layout` module the numbers in one generated file, and
`Accessors` a struct under any calls of them. A field has the tag that its own
accessors check and set (`tags`) and the tags of the groups it is under (`under`),
which only the setter of the group sets and nobody checks. The layouts are most of
the lines of source that `map` names: they are tables, and the checks about them
are those of `Accessors`.

## 3. The runs

Four runs pass. Components that have nothing to do with one another share a run.
`MCResources` extends ImportExport, Calls, IdGen, Promise and Bbr, `MCConcurrency`
Server and Embargo, so that what is proved of them and what TLC checks are the
same definitions. The other components are instantiated: Client in `MCResources`
over variables of its own, those of `MCConcurrency` and `MCData` over shared
variables `v1`, `v2`, .... `comp`, chosen in the initial state, says which
component runs. One that is extended and does not run stays in an initial state,
and a variable of an instantiated one that does not run is "off". A property of an
instantiated component is guarded by `comp`. Nothing is composed in such a run:
the components take steps in none of each other's states.

| run | checks |
| --- | --- |
| `question` | the vats agree about IDs, promises are settled once and by their own Return, a method finds its own answer, result capabilities have one owner; RpcQuestion implements CallContract; every call ends and both tables forget it |
| `resources` | ImportExport: references balance although messages are dropped, a live import is usable, a message reaches the export it was meant for. Client: a hook's count is the number of references to it, it is shut down once; calls go to what a promise was fulfilled with. Calls: reservations are given back, nobody waits for room that is there, WaitStreaming sees failures. Promise: calls are delivered in order and once. Bbr: the counters are the messages in flight. IdGen implements IdPool |
| `concurrency` | Server: one receiver, delivery order, Shutdowner once and last, queued calls begin, the Shutdowner is called. Mpsc implements Fifo; Send, TryRecv and Recv return. Promise: every call is answered. Embargo: order is kept but for `late` calls, every call arrives. Returner: the results are released once, the caller finishes. Bbr: nobody waits for ever in StartMessage |
| `data` | MessageBuild: what was written is read back, every pointer is readable. Canonical: Equal agrees with the value, but for the bits of bit lists; two values with the same kinds of lists have the same canonical form exactly when they are equal, and it reads back as the value, but for lists of structs without pointers. Accessors: every field has the value last set, and members of a union that are not selected cannot be read. BbrFilter: estimates are the extremes of the recent samples |

Eight runs end in a violation, each a disagreement between the code and what a
comment or the protocol says (`findings` in `PROJECT.json` quotes both):

* `question_target`: `Answer.PipelineSend` reads the PipelineCaller and unlocks;
  `Promise.Resolve` does not wait for it, so the Call can follow the Finish, or
  name an ID that was given to another question or to the call itself.
* `question_placeholder`: finishing a placeholder answer uses its nil
  `msgReleaser`.
* `import_overtaken`: an `importClient.Shutdown` that waited for the lock while its
  entry was deleted and made again finds its own generation, 0, and deletes the
  entry of a client in use. With no new entry it panics.
* `mpsc_recv_after_eof`: a Recv after io.EOF blocks.
* `embargo_order`: a call that read the hook or the PipelineCaller before the
  promise was resolved, and is queued behind the Disembargo, is overtaken by one
  made after it.
* `promise_nested`: a call pipelined on a queued call is given the base of the
  call before it.
* `promise_client`: Future.Client for a path that has a client keeps the lock.
* `canonical_lists`: structs that Equal takes for equal have different canonical
  forms. A list of structs without pointers is copied without its tag and with the
  element size it was built with, a list of words stays one, and Equal compares no
  bit of a bit list.

The passing runs keep these behaviours where the property at stake survives them:
a run that meets such a fault stops there, and the properties hold of every state
up to it. `data` canonicalizes no list of structs without pointers,
`MCEqualIsSameValue` says of bit lists only that equal ones compare equal,
`LiveImportUsable` and the second half of `UseReachesExport` except outlived
importClients, and `EOrderButLate` the `late` calls.

**Bounds.** RpcQuestion has two calls and two IDs (`MaxID = 1`): enough for reuse
of an ID by a later question, for pipelining on the other call and for every race
between the goroutines of one question. Of the two, one may be pipelined and the
other bootstrapped (`EachItsKinds`); no action prefers a call, so this covers the
runs with the roles exchanged. ImportExport has two capabilities, two IDs, two
importClients, two references and two messages in flight each way: enough for a
Release to cross a descriptor, for an ID to be reused by the other capability and
for two generations. Its capabilities and clients, and the references to clients
in Client, are symmetric: no action orders them. Client has two promises and a
plain hook, so that a promise may be fulfilled with a promise. Calls has three
calls whose sizes fit, fill and exceed a limit of 2, or are 0. IdGen has words of 3 bits and
7 IDs: two word boundaries and a partly used last word. Mpsc has nodes of 2 items,
two producers and four messages: several changes of node. Server has three calls:
one that has called Go, one running, one queued. Promise has two goroutines and
three calls (two where liveness is checked), Embargo three calls: one before, one
during and one after the resolution. Bbr has four messages. Messages have up to
three objects in 12 words of segments whose first buffer is 4 words, so that every
kind of far pointer occurs. `MaxSends`, `MaxRefs`, `MaxQueue`, `MaxCalls`,
`MaxClient`, `MaxObjs`, `MaxWords`, `MaxSets`, `MaxSamples` and `MaxTime` are the
named bounds in guards.

**Deadlock** is not checked where a system may rightly stop: all calls posed and
settled, no client left, a connection ended by a fault.

**Fairness.** Weak fairness of the goroutines inside the library: the runtime
schedules them, and no step of theirs waits for the application. In RpcQuestion
one condition suffices, that not all the goroutines that can take a step are left
waiting for ever: a call takes finitely many steps. The callee also receives, and
its methods return, which the application has to provide; but any Return may be
lost, and a call whose Context is done must then be settled all the same. Liveness
there is stated up to a fault that ends the connection (`~Running`), since what
happens then belongs to the shutdown. In Mpsc, taking the mutex is strongly fair
(Go's mutex has a starvation mode). In Server a method that has called Go may
block for ever; `ShutdownHappens` says what holds if none does. In Promise the
promise is resolved at some time, in Embargo the peer resolves its promise and
messages arrive, in Bbr every message sent is answered.

## 4. The proofs

Each proof is about the component's own specification, for every value of its
constants under a named assumption: `QuestionAssumption`, `TableAssumption`,
`CallsAssumption` (types, and that `nil` is none of the values beside it),
`FlowAssumption` (finitely many calls, sizes and a limit that are numbers),
`BbrAssumption` (finitely many messages, each with a size), `IdAssumption` (words
of at least one bit) and `EmbargoAssumption` (the bound is a number). Promise needs
none. TLC evaluates all of them in the passing runs; the last four are operators,
which `MCResources` and `MCConcurrency` assume and the theorems have as hypotheses.

**RpcQuestion** (`RpcQuestionProofs`). The invariant is

    IInv == TypeOK /\ Safety /\ (fault = "none" => Live)

`Safety` is the conjunction of the invariants of `question`. None of them is
inductive: that a Return finds its question depends on where that question's
Call, Return and Finish are. `Live` follows each call through its life: which of
`sendTx`, `sender`, `toCallee`, `answers`, `toCaller` hold something of the call,
in which order, and that a slot or an ID that names the call is held until the
last of them is gone. The key consequence is that an ID is given back only when
nothing of its old question is left anywhere but the late onSent callback, so two
calls with the same ID never have messages in flight at once. The module has the
invariant, facts about queues, frame lemmas, the steps of the caller, those of the
callee, the induction and the theorems `TypeCorrect`, `ProtocolRespected`,
`SettledOnce`, `OwnResult`, `ReturnerSafe` and `CapsReleasedOnce`.

`ContractImplemented` is the refinement: every step of RpcQuestion is a step of
CallContract or leaves promises and services alone. A step that resolves a promise
must find results that were returned for the call, which `IInv` does not say, as it
knows no data; `ReturnInv` adds it (a Return with results, on the wire or taken by
handleReturn, is that of an answer without an exception).

**ImportExport** (`ImportExportSteps`, `ImportExportProofs`). `ReferenceInvariant`,
and from it `ReferencesBalance`, `MessagesReachExport` and `LiveClientUsable`, for
any capabilities, clients, IDs and bounds, with messages that may be dropped and
Shutdowns that may be delayed at will. The sum of `RefsBalance` is inductive only
together with what the references are for: a descriptor to be imported names the
export that is in the table (`DescriptorInv`); a message that uses an import is
followed, in the entry, in a later Release on the same wire or in a lost message,
by a reference that keeps the export (`UseInv`, `Covered`); and a client's entry
is there, is its own while the client lives, and is its own or of a later
generation while the client dies, unless the client is outlived (`ClientInv`).

**Calls** (`FlowProofs`). `FlowInvariant`, and from it `ReservationsReturned`,
`WaitsAreNeeded` and `StreamFailureSeen`. The invariant adds that whoever owes a
reservation has a signal at its promise or has yet to look at its answer
(`OwedInv`), that the queue holds the waiting calls once each (`QueueInv`), and
that a streaming call is counted in until its error is recorded (`StreamInv`). The
lemma `NotifyProperties` says what the semaphore grants: the longest prefix of the
queue that fits, so that the first call left does not. A call that gives up lets
the others have their chance only when the semaphore is not full, so that a call of
size 0 can be left at the head of the queue of a full one; the invariant says that
the head does not fit or that all of the limit is reserved.

**Bbr** (`FlowProofs`). `CountersExact`, for any messages, sizes and parameters of
the algorithm: whatever the estimates make the states do, `sent - delivered` and
`packetsInflight` are the bytes and the number of the messages in flight. The
property is inductive with the types; the two steps that matter are the grant and
the ack, which add and take away one term of a sum.

**Promise** (`LocalProofs`). `PromiseInvariant`, and from it `PipelinedInOrder`, for
any callers and any number of calls, with nested pipelining, `Future.Client`,
cancelled calls and a promise that is fulfilled or rejected. `StageInv` ties how far
Resolve is to the queue: once the bases of a fulfilled promise are ready, the state
is resolved or the clients are fulfilled, the queue is empty for good. `PlaceInv` says that a call is
at one place, with the goroutine that makes it, in the queue or answered;
`BeforeInv` that a call made before another one is answered, or ahead of it in the
queue. A call that does not wait in the queue is thus delivered when everything
before it has been.

**IdGen** (`LocalProofs`). `PoolImplemented`: IdGen implements IdPool for any word
size. The invariant is that the bit set holds exactly the numbers below the
counter that nobody holds; the lemmas say what `add`, `remove` and `min` do to the
set of numbers in terms of words and bits.

**Embargo** (`EmbargoProofs`). `EmbargoInvariant`, and from it `CallsInOrder`, for
any number of calls. What is sent to the peer and comes back is on one line: the
wire to this vat, the queue of the peer's promise and the wire to the peer, one
behind the other. `LineInv` says that no call on the line passes another and that
only `late` calls are behind the Disembargo or its echo; `GotInv` that what was
received was made before what is still on the line, late calls apart, and before
what the embargo holds, and the line before the embargo's queue; `PassInv` that
only late calls are on the line, or still to be queued, once calls can reach the
capability without it.
`StageInv` ties the stages of the promise, of the embargo and of the peer to each
other and to the messages there can be.

**Server** (`ServerProofs`). `TypeCorrect`, `SingleReceiver`, `DeliveryOrder` and
`ShutdownAfterCalls` for every finite set of calls. The invariant says that `wg`
is the number of calls counted and not done; that the goroutines in Recv and in
Wait, the Shutdowner's run and the one call that runs without having called Go add
up to at most one; and that `order` is the calls begun followed by the queue.

**Sums and induction** (`SumTheorems`). The sums of `Functions.tla` over a finite
set: adding, removing, changing and renaming an index. The induction they need is
stated for a set of numbers, or of finite sets, instead of a predicate, and follows
from the existence of minimal elements in well-founded sets.

**Only model-checked.**

* Liveness, since the prover does not handle fairness and ENABLED: `EveryCallEnds`,
  `QueuedCallBegins`, `ShutdownHappens`, `OperationsReturn`, `EveryCallAnswered`,
  `EveryCallArrives`, `CallerFinishes`, `SenderServed`.
* What is built on recursive operators, which the prover does not handle: Client
  (`ShutDownWhenUnreferenced`, `CallsGoToTarget`), and the message layer
  (`Readable`, `ReadBack`, Equal, Canonicalize).
* `ReadsWhatWasSet` is about the numbers in the layouts, which TLC enumerates.
* `IsFifo` (the queue is the concatenation of a sequence of sequences) and
  `EstimateIsRecent` (the extremes of a window that slides with every sample): not
  proved yet. `Returner` has no constants, so TLC covers it completely.

## 5. Not modelled

* The start and shutdown of a connection: tasks, the drained send queue and the
  release of every table. Embargo has the effect of a shutdown on one promise.
* Transports, codecs, networks and serving: a transport is a FIFO channel that may
  refuse a message; framing is input and output of whole messages.
* Of the RPC messages: Unimplemented echoes, results other than a payload or an
  exception, receiverAnswer descriptors, third-party handoff.
* Of messages: the traversal limit, the reference counts of the capability table,
  the release of arenas; capabilities in canonical forms.
* Packing, POGS, text marshalling, the schema registry: sequential walks over bytes
  or schema nodes. The code generator prints Go source from templates.
* Exceptions and small utilities. `internal/aircraftlib`, `rpc/internal/testcapnp`
  and the like are generated code for tests.
