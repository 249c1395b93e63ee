----------------------------- MODULE ImportExport -----------------------------
(***************************************************************************)
(* Reference counting of a capability across a connection: the export      *)
(* table of the vat that hosts it (rpc/export.go) and the import table of  *)
(* the vat that uses it (rpc/import.go), with the messages between them.   *)
(*                                                                         *)
(* Only one direction is modelled: capabilities hosted by the exporter.    *)
(* The other direction is an independent copy of the same tables.  Every   *)
(* action is one critical section of a Conn.lk, or an application step     *)
(* between two of them.                                                    *)
(***************************************************************************)
EXTENDS Naturals, Sequences, Functions

CONSTANTS Caps,         \* capabilities the exporter hosts (clientHooks, by identity)
          Clients,      \* identities for the importer's importClients
          MaxID,        \* largest export ID
          MaxRefs,      \* bound on the wire references of one export
          MaxQueue,     \* bound on the messages in flight in each direction
          nil,
          SendMayFail   \* a queued message may be dropped: send error or done Context

\* impent
Import == [wireRefs : Nat \ {0}, wc : Clients, generation : Nat]

ASSUME TableAssumption == /\ MaxID \in Nat /\ MaxRefs \in Nat \ {0} /\ MaxQueue \in Nat \ {0}
                          /\ nil \notin Caps /\ nil \notin Clients /\ nil \notin Nat /\ nil \notin Import
                          /\ SendMayFail \in BOOLEAN

VARIABLES
  exports,     \* lk.exports: ID -> the hosted capability or nil
  wireRefs,    \* expent.wireRefs
  metadata,    \* the export ID kept in each capability's Metadata, or nil
  held,        \* references in the exportRefs of answers that destroy will release
  toImporter,  \* descriptors (senderHosted) queued or on the wire
  imports,     \* lk.imports: ID -> impent or nil
  client,      \* the importClients, the Clients on them and their calls; outlived is history:
               \* the entry was deleted while this importClient was still to be shut down
  toExporter,  \* Release, Call and receiverHosted messages
  lost,        \* references that went out with dropped messages
  fault        \* the error that ends the connection, or a panic

exporterVars == <<exports, wireRefs, metadata, held>>
importerVars == <<imports, client>>
vars == <<exporterVars, importerVars, toImporter, toExporter, lost, fault>>

ID == 0..MaxID
NoClient == [state |-> "none", busy |-> FALSE, id |-> 0, generation |-> 0, cap |-> nil,
             outlived |-> FALSE]
newImportClient(id, generation, c) ==
  [state |-> "live", busy |-> FALSE, id |-> id, generation |-> generation, cap |-> c,
   outlived |-> FALSE]

Init ==
  /\ exports = [i \in ID |-> nil]
  /\ wireRefs = [i \in ID |-> 0]
  /\ metadata = [c \in Caps |-> nil]
  /\ held = [i \in ID |-> 0]
  /\ toImporter = <<>>
  /\ imports = [i \in ID |-> nil]
  /\ client = [h \in Clients |-> NoClient]
  /\ toExporter = <<>>
  /\ lost = [i \in ID |-> 0]
  /\ fault = "none"

Abort(why) == fault' = why

-----------------------------------------------------------------------------
(* The exporter.                                                           *)

\* sendCap's default case, inside fillPayloadCapTable: count one more reference
\* to the capability's export, or enter it under the lowest free ID.  The
\* capability is settled: the Resolve that follows a promise, and the reference
\* taken for it, are not modelled.
sendCap(c, id) ==
  IF metadata[c] # nil
    THEN /\ id = metadata[c]
         /\ wireRefs' = [wireRefs EXCEPT ![id] = @ + 1]
         /\ UNCHANGED <<exports, metadata>>
    ELSE /\ exports[id] = nil
         /\ \A j \in ID : exports[j] = nil => id <= j
         /\ exports' = [exports EXCEPT ![id] = c]
         /\ wireRefs' = [wireRefs EXCEPT ![id] = 1]
         /\ metadata' = [metadata EXCEPT ![c] = id]

\* A capability goes out in the parameters of a Call or in the results of an
\* answer.  If the caller has cancelled the question, its handleReturn discards
\* the message and the Finish makes destroy release the references.
SendDescriptor(c, discarded) ==
  \E id \in ID :
     /\ wireRefs[id] < MaxRefs /\ Len(toImporter) < MaxQueue
     /\ sendCap(c, id)
     /\ toImporter' = Append(toImporter, [id |-> id, cap |-> c, discarded |-> discarded])
     /\ held' = IF discarded THEN [held EXCEPT ![id] = @ + 1] ELSE held
     /\ UNCHANGED <<importerVars, toExporter, lost, fault>>

\* releaseExport, on a table whose entry for id exists.
releaseExport(id, count) ==
  IF count = wireRefs[id]
    THEN /\ exports' = [exports EXCEPT ![id] = nil]
         /\ wireRefs' = [wireRefs EXCEPT ![id] = 0]
         /\ metadata' = [metadata EXCEPT ![exports[id]] = nil]
    ELSE /\ wireRefs' = [wireRefs EXCEPT ![id] = @ - count]
         /\ UNCHANGED <<exports, metadata>>

\* destroy of an answer whose Finish had releaseResultCaps (releaseExportRefs).
ReleaseResultCaps(id) ==
  /\ held[id] > 0
  /\ held' = [held EXCEPT ![id] = @ - 1]
  /\ \/ /\ exports[id] = nil \/ wireRefs[id] < 1
        /\ Abort("badRelease") /\ UNCHANGED <<exports, wireRefs, metadata>>
     \/ /\ exports[id] # nil /\ wireRefs[id] >= 1
        /\ releaseExport(id, 1) /\ fault' = fault
  /\ UNCHANGED <<importerVars, toImporter, toExporter, lost>>

\* handleRelease: an unknown export or too many references end the connection.
handleRelease(m) ==
  /\ m.type = "release"
  /\ \/ /\ exports[m.id] = nil \/ m.count > wireRefs[m.id]
        /\ Abort("badRelease") /\ UNCHANGED <<exports, wireRefs, metadata>>
     \/ /\ exports[m.id] # nil /\ m.count <= wireRefs[m.id]
        /\ releaseExport(m.id, m.count) /\ fault' = fault

\* handleCall on an importedCap, and recvCap of a receiverHosted descriptor.
handleUse(m) ==
  /\ m.type = "use"
  /\ fault' = IF exports[m.id] = nil THEN "unknownExport" ELSE fault
  /\ UNCHANGED <<exports, wireRefs, metadata>>

ExporterReceive ==
  /\ toExporter # <<>>
  /\ toExporter' = Tail(toExporter)
  /\ handleRelease(Head(toExporter)) \/ handleUse(Head(toExporter))
  /\ UNCHANGED <<held, importerVars, toImporter, lost>>

-----------------------------------------------------------------------------
(* The importer.                                                           *)

Live(h) == client[h].state = "live"

\* WeakClient.AddRef of an entry's client succeeds.
Strong(id, ent) == Live(ent.wc) /\ client[ent.wc].id = id /\ client[ent.wc].generation = ent.generation

\* Variant: the reference that comes with a new generation is not counted.
addImportUncounted(id, c) ==
  \E h \in Clients :
     /\ client[h] = NoClient
     /\ LET g == IF imports[id] = nil THEN 0 ELSE imports[id].generation + 1
        IN /\ imports' = [imports EXCEPT ![id] = [wireRefs |-> IF @ = nil THEN 1 ELSE @.wireRefs, wc |-> h,
                                                  generation |-> g]]
           /\ client' = [client EXCEPT ![h] = newImportClient(id, g, c)]

\* addImport: one more wire reference.  A weak reference whose client is gone is
\* replaced by an importClient of the next generation.
addImport(id, c) ==
  LET ent == imports[id]
  IN \/ /\ ent # nil
        /\ Strong(id, ent)
        /\ imports' = [imports EXCEPT ![id].wireRefs = @ + 1]
        /\ client' = client
     \/ /\ ent # nil
        /\ ~Strong(id, ent)
        /\ \E h \in Clients :
              /\ client[h] = NoClient
              /\ imports' = [imports EXCEPT ![id] = [wireRefs |-> ent.wireRefs + 1, wc |-> h,
                                                     generation |-> ent.generation + 1]]
              /\ client' = [client EXCEPT ![h] = newImportClient(id, ent.generation + 1, c)]
     \/ /\ ent = nil
        /\ \E h \in Clients :
              /\ client[h] = NoClient
              /\ imports' = [imports EXCEPT ![id] = [wireRefs |-> 1, wc |-> h, generation |-> 0]]
              /\ client' = [client EXCEPT ![h] = newImportClient(id, 0, c)]

\* recvPayload, or handleReturn for a cancelled question.
ImporterReceive ==
  /\ toImporter # <<>>
  /\ toImporter' = Tail(toImporter)
  /\ LET d == Head(toImporter)
     IN IF d.discarded THEN UNCHANGED importerVars ELSE addImport(d.id, d.cap)
  /\ UNCHANGED <<exporterVars, toExporter, lost, fault>>

\* Whether the table's entry is the one the importClient h was made for.
Current(h) == imports[client[h].id] # nil /\ imports[client[h].id].generation = client[h].generation

\* Client.startCall and Client.Snapshot hold on to the hook.
startCall(h) ==
  /\ Live(h) /\ ~client[h].busy
  /\ client' = [client EXCEPT ![h].busy = TRUE]
  /\ UNCHANGED <<exporterVars, imports, toImporter, toExporter, lost, fault>>

\* importClient.Send, or sendCap of the import itself: the message names the
\* import while the entry is h's own; otherwise nothing is sent.  The hook is
\* then released, which shuts it down if the last client has gone meanwhile.
Send(h) ==
  /\ client[h].busy
  /\ Len(toExporter) < MaxQueue
  /\ toExporter' = IF Current(h)
                     THEN Append(toExporter, [type |-> "use", id |-> client[h].id, cap |-> client[h].cap,
                                              stale |-> client[h].outlived])
                     ELSE toExporter
  /\ client' = [client EXCEPT ![h].busy = FALSE,
                              ![h].state = IF @ = "live" THEN "live" ELSE "closing"]
  /\ UNCHANGED <<exporterVars, imports, toImporter, lost, fault>>

\* The application releases its last Client on h: the weak reference is dead from
\* here on, and Shutdown is called unless a call still holds the hook.
Release(h) ==
  /\ Live(h)
  /\ client' = [client EXCEPT ![h].state = IF client[h].busy THEN "released" ELSE "closing"]
  /\ UNCHANGED <<exporterVars, imports, toImporter, toExporter, lost, fault>>

\* The importClients after h's Shutdown has deleted the entry.  One of the same ID
\* that is still to be shut down is outlived by its import: an entry that it finds
\* later, even one of its generation, is not its own.  If h itself was outlived, the
\* entry was another importClient's, which may be in use.
Outlived(g, h) ==
  /\ client[g].state # "none" /\ client[g].id = client[h].id
  /\ Live(g) => client[h].outlived
Deleted(h) ==
  [g \in Clients |-> IF g = h THEN NoClient
                     ELSE IF Outlived(g, h) THEN [client[g] EXCEPT !.outlived = TRUE]
                     ELSE client[g]]

\* Variants of Shutdown: one ignores the generation, one lets the Release
\* overtake queued messages.
ShutdownAnyGeneration(h) ==
  LET id == client[h].id
  IN /\ client[h].state = "closing"
     /\ Len(toExporter) < MaxQueue
     /\ client' = Deleted(h)
     /\ imports[id] # nil
     /\ imports' = [imports EXCEPT ![id] = nil]
     /\ toExporter' = Append(toExporter, [type |-> "release", id |-> id, count |-> imports[id].wireRefs])
     /\ UNCHANGED <<exporterVars, toImporter, lost, fault>>
ShutdownFirst(h) ==
  LET id == client[h].id
  IN /\ client[h].state = "closing"
     /\ Len(toExporter) < MaxQueue
     /\ Current(h)
     /\ client' = Deleted(h)
     /\ imports' = [imports EXCEPT ![id] = nil]
     /\ toExporter' = <<[type |-> "release", id |-> id, count |-> imports[id].wireRefs]>> \o toExporter
     /\ UNCHANGED <<exporterVars, toImporter, lost, fault>>

\* importClient.Shutdown, once it has the lock.
Shutdown(h) ==
  LET id == client[h].id
  IN /\ client[h].state = "closing"
     /\ Len(toExporter) < MaxQueue
     /\ \/ /\ imports[id] = nil
           /\ client' = [client EXCEPT ![h] = NoClient]
           /\ Abort("nilEntry") /\ UNCHANGED <<imports, toExporter>>
        \/ /\ imports[id] # nil /\ ~Current(h)
           /\ client' = [client EXCEPT ![h] = NoClient]
           /\ UNCHANGED <<imports, toExporter, fault>>
        \/ /\ imports[id] # nil /\ Current(h)
           /\ client' = Deleted(h)
           /\ imports' = [imports EXCEPT ![id] = nil]
           /\ toExporter' = Append(toExporter, [type |-> "release", id |-> id, count |-> imports[id].wireRefs])
           /\ fault' = fault
     /\ UNCHANGED <<exporterVars, toImporter, lost>>

-----------------------------------------------------------------------------
(* Messages that are built and counted but never delivered.                *)

Without(s, i) == SubSeq(s, 1, i - 1) \o SubSeq(s, i + 1, Len(s))

LoseDescriptor ==
  /\ SendMayFail
  /\ \E i \in 1..Len(toImporter) :
        /\ toImporter' = Without(toImporter, i)
        /\ lost' = IF toImporter[i].discarded THEN lost
                   ELSE [lost EXCEPT ![toImporter[i].id] = @ + 1]
  /\ UNCHANGED <<exporterVars, importerVars, toExporter, fault>>

LoseMessage ==
  /\ SendMayFail
  /\ \E i \in 1..Len(toExporter) :
        /\ toExporter' = Without(toExporter, i)
        /\ lost' = IF toExporter[i].type = "release"
                     THEN [lost EXCEPT ![toExporter[i].id] = @ + toExporter[i].count] ELSE lost
  /\ UNCHANGED <<exporterVars, importerVars, toImporter, fault>>

-----------------------------------------------------------------------------
Next ==
  /\ fault = "none"
  /\ \/ \E c \in Caps, discarded \in BOOLEAN : SendDescriptor(c, discarded)
     \/ \E id \in ID : ReleaseResultCaps(id)
     \/ ExporterReceive
     \/ ImporterReceive
     \/ \E h \in Clients : startCall(h) \/ Send(h) \/ Release(h) \/ Shutdown(h)
     \/ LoseDescriptor \/ LoseMessage

Spec == Init /\ [][Next]_vars

-----------------------------------------------------------------------------
(* Properties.                                                             *)

Descriptor == [id : ID, cap : Caps, discarded : BOOLEAN]
ToExporter == [type : {"release"}, id : ID, count : Nat \ {0}]
                \cup [type : {"use"}, id : ID, cap : Caps, stale : BOOLEAN]
ImportClient == [state : {"none", "live", "released", "closing"}, busy : BOOLEAN, id : ID,
                 generation : Nat, cap : Caps \cup {nil}, outlived : BOOLEAN]

\* Type invariant.
TypeOK ==
  /\ exports \in [ID -> Caps \cup {nil}] /\ wireRefs \in [ID -> Nat]
  /\ metadata \in [Caps -> ID \cup {nil}] /\ held \in [ID -> Nat]
  /\ toImporter \in Seq(Descriptor) /\ toExporter \in Seq(ToExporter)
  /\ imports \in [ID -> Import \cup {nil}] /\ client \in [Clients -> ImportClient]
  /\ lost \in [ID -> Nat]
  /\ fault \in {"none", "badRelease", "unknownExport", "nilEntry"}

\* The references of an export that are on their way to the importer, and back.
Arrives(d, id) == IF d.id = id /\ ~d.discarded THEN 1 ELSE 0
Returns(m, id) == IF m.type = "release" /\ m.id = id THEN m.count ELSE 0
Arriving(id) == SumFunction([i \in 1..Len(toImporter) |-> Arrives(toImporter[i], id)])
Returning(id) == SumFunction([i \in 1..Len(toExporter) |-> Returns(toExporter[i], id)])
Imported(id) == IF imports[id] = nil THEN 0 ELSE imports[id].wireRefs

\* Every wire reference that sendCap counted is in exactly one place: on its way,
\* in the importer's table, on its way back, in an answer that destroy will
\* release, or lost with its message.  An export lives exactly as long as it has
\* references, under one ID.
RefsBalance ==
  /\ \A id \in ID : wireRefs[id] = Arriving(id) + Imported(id) + Returning(id) + held[id] + lost[id]
  /\ \A id \in ID : exports[id] # nil <=> wireRefs[id] > 0
  /\ \A c \in Caps, id \in ID : metadata[c] = id <=> exports[id] = c

\* A Call or a receiverHosted descriptor finds an export, and the one it was
\* imported from, although IDs are reused and Releases travel on the same wire; no
\* Release, from handleRelease or from destroy, names more than there is.  Only an
\* importClient that its import has outlived can reach another capability: the
\* generations begin at 0 again with a new entry, and it may match.
UseReachesExport ==
  /\ fault \notin {"unknownExport", "badRelease"}
  /\ \A i \in 1..Len(toExporter) :
        toExporter[i].type = "use" =>
           /\ exports[toExporter[i].id] # nil
           /\ toExporter[i].stale \/ exports[toExporter[i].id] = toExporter[i].cap

\* A Client that the application still holds can be called: the entry is there,
\* it is of the client's generation and stands for the same capability; and the
\* Shutdown of one that is given up finds an entry.  The exception is a history that
\* begins with a Shutdown delayed past the life of a later importClient of its ID:
\* that Shutdown finds no entry, or that of a new import, which it takes away.
LiveImportUsable ==
  \A h \in Clients :
     ~client[h].outlived =>
        /\ Live(h) => Current(h) /\ exports[client[h].id] = client[h].cap
        /\ client[h].state = "closing" => imports[client[h].id] # nil

\* What impent.generation is for: a late Shutdown leaves the entry of a client
\* that was created meanwhile alone.
LiveKeepsEntry == \A h \in Clients : Live(h) => Current(h)
===============================================================================
