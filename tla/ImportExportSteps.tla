--------------------------- MODULE ImportExportSteps ---------------------------
(***************************************************************************)
(* The inductive invariant of ImportExport, the facts about its queues and *)
(* tables that the proofs share, and the proof that the steps of the       *)
(* exporting side keep the invariant.  The invariant says why a message    *)
(* that names an import finds its export: what keeps the export alive is   *)
(* behind it in the queue.                                                 *)
(***************************************************************************)
EXTENDS ImportExport, SumTheorems

\* The state of an importClient that is not, or no longer, used by the application.
Dying(h) == client[h].state \in {"released", "closing"}

\* A descriptor that will be imported stands for the export it names.
DescriptorInv ==
  \A i \in 1..Len(toImporter) :
     ~toImporter[i].discarded => exports[toImporter[i].id] = toImporter[i].cap

\* A message that names an import is followed by what keeps the export: the
\* entry is still there, or the Release that took it away comes later, or is lost.
Covered(i, id) ==
  \/ imports[id] # nil
  \/ lost[id] > 0
  \/ \E j \in 1..Len(toExporter) : j > i /\ toExporter[j].type = "release" /\ toExporter[j].id = id
UseInv ==
  \A i \in 1..Len(toExporter) :
     toExporter[i].type = "use" =>
        /\ toExporter[i].stale \/ exports[toExporter[i].id] = toExporter[i].cap
        /\ Covered(i, toExporter[i].id)

\* An importClient that its import has not outlived: the entry is there and is its
\* own or that of a later generation.  A live one is the one the entry refers to,
\* and a dying one whose generation is the entry's, too; nothing is said of the
\* others.
Own(h) == (Live(h) \/ Dying(h)) /\ ~client[h].outlived
ClientOK(h) ==
  /\ client[h].busy => client[h].state \in {"live", "released"}
  /\ Live(h) \/ Dying(h) => client[h].cap \in Caps
  /\ Own(h) => imports[client[h].id] # nil /\ client[h].generation <= imports[client[h].id].generation
  /\ Own(h) /\ Live(h) => Current(h)
  /\ Own(h) /\ Current(h) => imports[client[h].id].wc = h /\ exports[client[h].id] = client[h].cap
ClientInv == \A h \in Clients : ClientOK(h)

IInv == /\ TypeOK /\ fault \in {"none", "nilEntry"}
        /\ RefsBalance /\ DescriptorInv /\ UseInv /\ ClientInv

-------------------------------------------------------------------------------
(* The queues.                                                             *)

ArrivingIn(q, id) == SumFunction([i \in 1..Len(q) |-> Arrives(q[i], id)])
ReturningIn(q, id) == SumFunction([i \in 1..Len(q) |-> Returns(q[i], id)])

\* A descriptor brings one reference or none.
LEMMA ArrivingType ==
  ASSUME NEW q \in Seq(Descriptor), NEW id \in ID
  PROVE  /\ ArrivingIn(q, id) \in Nat
         /\ \A i \in 1..Len(q) : Arrives(q[i], id) <= ArrivingIn(q, id)
<1> DEFINE f == [i \in 1..Len(q) |-> Arrives(q[i], id)]
<1>1. Len(q) \in Nat /\ f \in [1..Len(q) -> Nat]
  BY LenProperties DEF Arrives
<1>2. SumFunction(f) \in Nat /\ \A i \in 1..Len(q) : f[i] <= SumFunction(f)
  <2> HIDE DEF f
  <2> QED BY <1>1, SumQueueType
<1> QED BY <1>2 DEF ArrivingIn

\* sendCap's descriptor brings its reference when it is queued ...
LEMMA ArrivingAppend ==
  ASSUME NEW q \in Seq(Descriptor), NEW d \in Descriptor, NEW id \in ID
  PROVE  ArrivingIn(Append(q, d), id) = ArrivingIn(q, id) + Arrives(d, id)
<1> DEFINE n == Len(q)
           f == [i \in 1..n |-> Arrives(q[i], id)]
           g == [i \in 1..(n + 1) |-> Arrives(Append(q, d)[i], id)]
<1>1. n \in Nat /\ Len(Append(q, d)) = n + 1
  BY LenProperties, AppendProperties
<1>2. f \in [1..n -> Nat] /\ g \in [1..(n + 1) -> Nat]
  BY <1>1 DEF Arrives
<1>3. \A i \in 1..n : g[i] = f[i]
  BY <1>1, AppendProperties
<1>4. g[n + 1] = Arrives(d, id)
  BY <1>1, AppendProperties
<1>5. ArrivingIn(q, id) = SumFunction(f) /\ ArrivingIn(Append(q, d), id) = SumFunction(g)
  BY <1>1 DEF ArrivingIn
<1> HIDE DEF f, g, n
<1>6. SumFunction(g) = SumFunction(f) + g[n + 1]
  BY SMTT(60), <1>1, <1>2, <1>3, SumAppended
<1> QED BY <1>4, <1>5, <1>6

\* ... and takes it along when it is received or lost.
LEMMA ArrivingDrop ==
  ASSUME NEW q \in Seq(Descriptor), NEW r \in Seq(Descriptor), NEW k \in 1..Len(q),
         Len(q) = Len(r) + 1, \A i \in 1..Len(r) : r[i] = IF i < k THEN q[i] ELSE q[i + 1],
         NEW id \in ID
  PROVE  ArrivingIn(q, id) = Arrives(q[k], id) + ArrivingIn(r, id)
<1> DEFINE n == Len(r)
           f == [i \in 1..(n + 1) |-> Arrives(q[i], id)]
           g == [i \in 1..n |-> Arrives(r[i], id)]
<1>1. n \in Nat /\ k \in 1..(n + 1)
  BY LenProperties
<1>2. f \in [1..(n + 1) -> Nat] /\ g \in [1..n -> Nat]
  BY <1>1 DEF Arrives
<1>3. \A i \in 1..n : g[i] = IF i < k THEN f[i] ELSE f[i + 1]
  BY <1>1
<1>4. f[k] = Arrives(q[k], id)
  BY <1>1
<1>5. ArrivingIn(q, id) = SumFunction(f) /\ ArrivingIn(r, id) = SumFunction(g)
  BY <1>1 DEF ArrivingIn
<1> HIDE DEF f, g, n
<1>6. SumFunction(f) = f[k] + SumFunction(g)
  BY ZenonT(60), <1>1, <1>2, <1>3, SumDropped
<1> QED BY <1>4, <1>5, <1>6
\* A Release brings references back, other messages bring none.
LEMMA ReturningType ==
  ASSUME NEW q \in Seq(ToExporter), NEW id \in ID
  PROVE  /\ ReturningIn(q, id) \in Nat
         /\ \A i \in 1..Len(q) : Returns(q[i], id) <= ReturningIn(q, id)
<1> DEFINE f == [i \in 1..Len(q) |-> Returns(q[i], id)]
<1>1. Len(q) \in Nat /\ f \in [1..Len(q) -> Nat]
  BY LenProperties DEF Returns, ToExporter
<1>2. SumFunction(f) \in Nat /\ \A i \in 1..Len(q) : f[i] <= SumFunction(f)
  <2> HIDE DEF f
  <2> QED BY <1>1, SumQueueType
<1> QED BY <1>2 DEF ReturningIn

\* Shutdown's Release has its references with it when it is queued ...
LEMMA ReturningAppend ==
  ASSUME NEW q \in Seq(ToExporter), NEW m \in ToExporter, NEW id \in ID
  PROVE  ReturningIn(Append(q, m), id) = ReturningIn(q, id) + Returns(m, id)
<1> DEFINE n == Len(q)
           f == [i \in 1..n |-> Returns(q[i], id)]
           g == [i \in 1..(n + 1) |-> Returns(Append(q, m)[i], id)]
<1>1. n \in Nat /\ Len(Append(q, m)) = n + 1
  BY LenProperties, AppendProperties
<1>2. f \in [1..n -> Nat] /\ g \in [1..(n + 1) -> Nat]
  BY SMTT(60), <1>1 DEF Returns, ToExporter
<1>3. \A i \in 1..n : g[i] = f[i]
  BY <1>1, AppendProperties
<1>4. g[n + 1] = Returns(m, id)
  BY <1>1, AppendProperties
<1>5. ReturningIn(q, id) = SumFunction(f) /\ ReturningIn(Append(q, m), id) = SumFunction(g)
  BY <1>1 DEF ReturningIn
<1> HIDE DEF f, g, n
<1>6. SumFunction(g) = SumFunction(f) + g[n + 1]
  BY <1>1, <1>2, <1>3, SumAppended
<1> QED BY <1>4, <1>5, <1>6

\* ... and takes them along when it is received or lost.
LEMMA ReturningDrop ==
  ASSUME NEW q \in Seq(ToExporter), NEW r \in Seq(ToExporter), NEW k \in 1..Len(q),
         Len(q) = Len(r) + 1, \A i \in 1..Len(r) : r[i] = IF i < k THEN q[i] ELSE q[i + 1],
         NEW id \in ID
  PROVE  ReturningIn(q, id) = Returns(q[k], id) + ReturningIn(r, id)
<1> DEFINE n == Len(r)
           f == [i \in 1..(n + 1) |-> Returns(q[i], id)]
           g == [i \in 1..n |-> Returns(r[i], id)]
<1>1. n \in Nat /\ k \in 1..(n + 1)
  BY LenProperties
<1>2. f \in [1..(n + 1) -> Nat] /\ g \in [1..n -> Nat]
  BY SMTT(60), <1>1 DEF Returns, ToExporter
<1>3. \A i \in 1..n : g[i] = IF i < k THEN f[i] ELSE f[i + 1]
  BY <1>1
<1>4. f[k] = Returns(q[k], id)
  BY <1>1
<1>5. ReturningIn(q, id) = SumFunction(f) /\ ReturningIn(r, id) = SumFunction(g)
  BY <1>1 DEF ReturningIn
<1> HIDE DEF f, g, n
<1>6. SumFunction(f) = f[k] + SumFunction(g)
  BY ZenonT(60), <1>1, <1>2, <1>3, SumDropped
<1> QED BY <1>4, <1>5, <1>6

-------------------------------------------------------------------------------
(* The tables.                                                             *)

\* The places where the references of an export are.
LEMMA RefTypes ==
  ASSUME TypeOK, NEW id \in ID
  PROVE  /\ Arriving(id) \in Nat /\ Imported(id) \in Nat /\ Returning(id) \in Nat
         /\ held[id] \in Nat /\ lost[id] \in Nat /\ wireRefs[id] \in Nat
         /\ \A i \in 1..Len(toImporter) : Arrives(toImporter[i], id) <= Arriving(id)
         /\ \A i \in 1..Len(toExporter) : Returns(toExporter[i], id) <= Returning(id)
         /\ imports[id] # nil => Imported(id) > 0
<1>1. Arriving(id) = ArrivingIn(toImporter, id) /\ Returning(id) = ReturningIn(toExporter, id)
  BY DEF Arriving, ArrivingIn, Returning, ReturningIn
<1>2. toImporter \in Seq(Descriptor) /\ toExporter \in Seq(ToExporter)
  BY DEF TypeOK
<1>3. /\ Arriving(id) \in Nat
      /\ \A i \in 1..Len(toImporter) : Arrives(toImporter[i], id) <= Arriving(id)
  BY <1>1, <1>2, ArrivingType
<1>4. /\ Returning(id) \in Nat
      /\ \A i \in 1..Len(toExporter) : Returns(toExporter[i], id) <= Returning(id)
  BY <1>1, <1>2, ReturningType
<1>5. Imported(id) \in Nat /\ (imports[id] # nil => Imported(id) > 0)
  BY DEF TypeOK, Imported, Import
<1>6. held[id] \in Nat /\ lost[id] \in Nat /\ wireRefs[id] \in Nat
  BY DEF TypeOK
<1> QED BY <1>3, <1>4, <1>5, <1>6

\* An ID is exported exactly while it has references, and known to its capability.
TableInv ==
  /\ \A id \in ID : exports[id] # nil <=> wireRefs[id] > 0
  /\ \A c \in Caps, id \in ID : metadata[c] = id <=> exports[id] = c

ExportType == /\ exports \in [ID -> Caps \cup {nil}] /\ wireRefs \in [ID -> Nat]
              /\ metadata \in [Caps -> ID \cup {nil}]

\* sendCap counts one reference more; only an export that had none is new.
LEMMA SendCapStep ==
  ASSUME TypeOK, TableInv, NEW c \in Caps, NEW id \in ID, sendCap(c, id)
  PROVE  /\ ExportType' /\ TableInv'
         /\ wireRefs' = [wireRefs EXCEPT ![id] = @ + 1]
         /\ exports'[id] = c
         /\ \A j \in ID : exports'[j] = exports[j] \/ (j = id /\ wireRefs[j] = 0)
<1>1. ExportType
  BY DEF ExportType, TypeOK
<1>2. nil \notin Caps /\ nil \notin ID
  BY TableAssumption DEF ID
<1>3. CASE metadata[c] # nil
  <2>1. /\ id = metadata[c] /\ wireRefs' = [wireRefs EXCEPT ![id] = @ + 1]
        /\ exports' = exports /\ metadata' = metadata
    BY <1>3 DEF sendCap
  <2>2. exports[id] = c /\ wireRefs[id] > 0
    BY <1>1, <1>2, <2>1 DEF TableInv, ExportType
  <2>3. ExportType'
    BY <1>1, <2>1 DEF ExportType
  <2>4. TableInv'
    BY <1>1, <2>1, <2>2 DEF TableInv, ExportType
  <2> QED BY <2>1, <2>2, <2>3, <2>4
<1>4. CASE metadata[c] = nil
  <2>1. /\ exports[id] = nil /\ exports' = [exports EXCEPT ![id] = c]
        /\ wireRefs' = [wireRefs EXCEPT ![id] = 1] /\ metadata' = [metadata EXCEPT ![c] = id]
    BY <1>4 DEF sendCap
  <2>2. wireRefs[id] = 0
    BY <1>1, <2>1 DEF TableInv, ExportType
  <2>3. ExportType'
    BY <1>1, <2>1 DEF ExportType
  <2>4. \A i \in ID : exports'[i] # nil <=> wireRefs'[i] > 0
    BY <1>1, <1>2, <2>1 DEF TableInv, ExportType
  <2>5. \A d \in Caps, i \in ID : metadata'[d] = i <=> exports'[i] = d
    BY <1>1, <1>2, <1>4, <2>1 DEF TableInv, ExportType
  <2> QED BY <1>1, <2>1, <2>2, <2>3, <2>4, <2>5 DEF TableInv, ExportType
<1> QED BY <1>3, <1>4

\* releaseExport takes count references away; only an export that has no other goes.
LEMMA ReleaseExportStep ==
  ASSUME TypeOK, TableInv, NEW id \in ID, NEW count \in Nat \ {0},
         exports[id] # nil, count <= wireRefs[id], releaseExport(id, count)
  PROVE  /\ ExportType' /\ TableInv'
         /\ wireRefs' = [wireRefs EXCEPT ![id] = @ - count]
         /\ \A j \in ID : exports'[j] = exports[j] \/ (j = id /\ wireRefs[j] = count)
<1>1. ExportType
  BY DEF ExportType, TypeOK
<1>2. nil \notin Caps /\ nil \notin ID
  BY TableAssumption DEF ID
<1>3. CASE count = wireRefs[id]
  <2>1. /\ exports' = [exports EXCEPT ![id] = nil] /\ wireRefs' = [wireRefs EXCEPT ![id] = 0]
        /\ metadata' = [metadata EXCEPT ![exports[id]] = nil]
    BY <1>3 DEF releaseExport
  <2>2. exports[id] \in Caps
    BY <1>1 DEF ExportType
  <2>3. ExportType'
    BY <1>1, <2>1, <2>2 DEF ExportType
  <2>4. \A i \in ID : exports'[i] # nil <=> wireRefs'[i] > 0
    BY <1>1, <2>1 DEF TableInv, ExportType
  <2>5. \A d \in Caps, i \in ID : metadata'[d] = i <=> exports'[i] = d
    BY <1>1, <1>2, <2>1, <2>2 DEF TableInv, ExportType
  <2>6. wireRefs' = [wireRefs EXCEPT ![id] = @ - count]
    <3>1. wireRefs[id] \in Nat /\ wireRefs[id] - count = 0
      BY <1>1, <1>3 DEF ExportType
    <3> QED BY ZenonT(60), <2>1, <3>1
  <2>7. \A j \in ID : exports'[j] = exports[j] \/ (j = id /\ wireRefs[j] = count)
    BY <1>1, <1>3, <2>1 DEF ExportType
  <2> QED BY <2>3, <2>4, <2>5, <2>6, <2>7 DEF TableInv
<1>4. CASE count # wireRefs[id]
  <2>1. /\ wireRefs' = [wireRefs EXCEPT ![id] = @ - count]
        /\ exports' = exports /\ metadata' = metadata
    BY <1>4 DEF releaseExport
  <2>2. wireRefs[id] - count \in Nat \ {0}
    BY <1>1, <1>4 DEF ExportType
  <2>3. ExportType'
    BY <1>1, <2>1, <2>2 DEF ExportType
  <2>4. TableInv'
    BY <1>1, <2>1, <2>2 DEF TableInv, ExportType
  <2> QED BY <2>1, <2>3, <2>4
<1> QED BY <1>3, <1>4

Balanced(id) == wireRefs[id] = Arriving(id) + Imported(id) + Returning(id) + held[id] + lost[id]

\* The invariant's parts.
LEMMA Parts ==
  RefsBalance <=> TableInv /\ \A id \in ID : Balanced(id)
BY DEF RefsBalance, TableInv, Balanced

\* The invariant is about the variables alone.
LEMMA Stutter ==
  ASSUME IInv, UNCHANGED vars
  PROVE  IInv'
<1>1. /\ exports' = exports /\ wireRefs' = wireRefs /\ metadata' = metadata /\ held' = held
      /\ imports' = imports /\ client' = client /\ toImporter' = toImporter /\ toExporter' = toExporter
      /\ lost' = lost /\ fault' = fault
  BY DEF vars, exporterVars, importerVars
<1>2. TypeOK' /\ fault' \in {"none", "nilEntry"}
  BY Zenon, <1>1 DEF IInv, TypeOK, ExportType
<1>3. RefsBalance'
  <2>1. \A id \in ID : Arriving(id)' = Arriving(id) /\ Imported(id)' = Imported(id) /\ Returning(id)' = Returning(id)
    BY Zenon, <1>1 DEF Arriving, Imported, Returning
  <2> QED BY ZenonT(60), <1>1, <2>1 DEF IInv, RefsBalance
<1>4. DescriptorInv' /\ UseInv'
  BY Zenon, <1>1 DEF IInv, DescriptorInv, UseInv, Covered
<1>5. ClientInv'
  <2>1. \A h \in Clients : (Live(h)' <=> Live(h)) /\ (Dying(h)' <=> Dying(h)) /\ (Current(h)' <=> Current(h))
    BY Zenon, <1>1 DEF Live, Dying, Current
  <2> QED BY ZenonT(60), <1>1, <2>1 DEF IInv, ClientInv, ClientOK, Own
<1> QED BY <1>2, <1>3, <1>4, <1>5 DEF IInv

\* An export that neither a descriptor nor an entry refers to is nobody's import.
LEMMA Unreferenced ==
  ASSUME IInv, NEW id \in ID, Arriving(id) = 0, Imported(id) = 0
  PROVE  /\ \A i \in 1..Len(toImporter) : toImporter[i].id = id => toImporter[i].discarded
         /\ imports[id] = nil
         /\ \A h \in Clients : Own(h) => client[h].id # id
<1>1. TypeOK
  BY DEF IInv
<1>2. \A i \in 1..Len(toImporter) : Arrives(toImporter[i], id) <= 0
  BY <1>1, RefTypes
<1>3. \A i \in 1..Len(toImporter) : toImporter[i].id = id => toImporter[i].discarded
  BY <1>2 DEF Arrives
<1>4. imports[id] = nil
  BY <1>1, RefTypes
<1>5. \A h \in Clients : Own(h) => client[h].id # id
  BY <1>4 DEF IInv, ClientInv, ClientOK
<1> QED BY <1>3, <1>4, <1>5

\* What covers a message holds a reference.
LEMMA CoveredRefs ==
  ASSUME TypeOK, NEW i \in Nat, NEW id \in ID, Covered(i, id)
  PROVE  Imported(id) + Returning(id) + lost[id] > 0
<1>1. Imported(id) \in Nat /\ Returning(id) \in Nat /\ lost[id] \in Nat
  BY RefTypes
<1>2. CASE imports[id] # nil
  BY <1>1, <1>2, RefTypes
<1>3. CASE lost[id] > 0
  BY <1>1, <1>3
<1>4. CASE \E j \in 1..Len(toExporter) : j > i /\ toExporter[j].type = "release" /\ toExporter[j].id = id
  <2>1. PICK j \in 1..Len(toExporter) : toExporter[j].type = "release" /\ toExporter[j].id = id
    BY <1>4
  <2>2. Returns(toExporter[j], id) <= Returning(id)
    BY RefTypes
  <2>3. toExporter[j] \in ToExporter
    BY LenProperties DEF TypeOK
  <2>4. Returns(toExporter[j], id) \in Nat \ {0}
    BY <2>1, <2>3 DEF Returns, ToExporter
  <2> QED BY <1>1, <2>2, <2>4
<1> QED BY <1>2, <1>3, <1>4 DEF Covered

\* A step of the exporter that takes no export away that is referred to keeps the
\* descriptors on their way and the importClients what they are.
LEMMA ExportsKept ==
  ASSUME IInv, UNCHANGED importerVars,
         \A id \in ID : exports'[id] = exports[id] \/ (Arriving(id) = 0 /\ Imported(id) = 0)
  PROVE  /\ ClientInv'
         /\ \A i \in 1..Len(toImporter) :
               ~toImporter[i].discarded => exports'[toImporter[i].id] = toImporter[i].cap
<1>1. TypeOK /\ DescriptorInv /\ ClientInv
  BY DEF IInv
<1>2. ASSUME NEW i \in 1..Len(toImporter), ~toImporter[i].discarded
      PROVE  exports'[toImporter[i].id] = toImporter[i].cap
  <2>1. toImporter[i].id \in ID
    <3>1. toImporter[i] \in Descriptor
      BY <1>1, LenProperties DEF TypeOK
    <3> QED BY <3>1 DEF Descriptor
  <2>2. exports'[toImporter[i].id] = exports[toImporter[i].id]
    BY <1>2, <2>1, Unreferenced
  <2> QED BY <1>1, <1>2, <2>2 DEF DescriptorInv
<1>3. imports' = imports /\ client' = client
  BY DEF importerVars
<1>4. \A h \in Clients : client[h].id \in ID
  BY <1>1 DEF TypeOK, ImportClient
<1>5. \A h \in Clients : Own(h) => exports'[client[h].id] = exports[client[h].id]
  BY SMTT(60), <1>4, Unreferenced
<1>6. ClientInv'
  <2>1. SUFFICES ASSUME NEW h \in Clients PROVE ClientOK(h)'
    BY DEF ClientInv
  <2>2. /\ Live(h)' <=> Live(h)
        /\ Dying(h)' <=> Dying(h)
        /\ Own(h)' <=> Own(h)
        /\ Current(h)' <=> Current(h)
    BY <1>3 DEF Live, Dying, Own, Current
  <2>3. ClientOK(h)
    BY <1>1 DEF ClientInv
  <2> QED BY <1>3, <1>5, <2>2, <2>3 DEF ClientOK
<1> QED BY <1>2, <1>6

\* Nor does it keep a message that names an import from its export.
LEMMA UsesKept ==
  ASSUME IInv, imports' = imports, toExporter' = toExporter, lost' = lost,
         \A id \in ID : \/ exports'[id] = exports[id]
                        \/ Arriving(id) = 0 /\ Imported(id) = 0 /\ Returning(id) = 0 /\ lost[id] = 0
  PROVE  UseInv'
<1>0. TypeOK /\ UseInv
  BY DEF IInv
<1>1. ASSUME NEW i \in 1..Len(toExporter), toExporter[i].type = "use"
      PROVE  (toExporter[i].stale \/ exports'[toExporter[i].id] = toExporter[i].cap) /\ Covered(i, toExporter[i].id)'
  <2>1. toExporter[i] \in ToExporter /\ i \in Nat
    BY <1>0, LenProperties DEF TypeOK
  <2>2. toExporter[i].id \in ID
    BY <2>1 DEF ToExporter
  <2>3. (toExporter[i].stale \/ exports[toExporter[i].id] = toExporter[i].cap) /\ Covered(i, toExporter[i].id)
    BY <1>0, <1>1 DEF UseInv
  <2>4. exports'[toExporter[i].id] = exports[toExporter[i].id]
    <3>1. Imported(toExporter[i].id) + Returning(toExporter[i].id) + lost[toExporter[i].id] > 0
      BY <1>0, <2>1, <2>2, <2>3, CoveredRefs
    <3> QED BY <2>2, <3>1
  <2>5. Covered(i, toExporter[i].id)'
    BY <2>3 DEF Covered
  <2> QED BY <2>3, <2>4, <2>5
<1> QED BY <1>1 DEF UseInv

\* An export without references is referred to from nowhere.
LEMMA NoRefs ==
  ASSUME IInv, NEW id \in ID, wireRefs[id] = 0
  PROVE  Arriving(id) = 0 /\ Imported(id) = 0 /\ Returning(id) = 0 /\ lost[id] = 0
<1>1. Balanced(id) /\ TypeOK
  BY Parts DEF IInv
<1>2. /\ Arriving(id) \in Nat /\ Imported(id) \in Nat /\ Returning(id) \in Nat
      /\ held[id] \in Nat /\ lost[id] \in Nat /\ wireRefs[id] \in Nat
  BY <1>1, RefTypes
<1>3. PICK a \in Nat, b \in Nat, c \in Nat, d \in Nat, e \in Nat :
        a = Arriving(id) /\ b = Imported(id) /\ c = Returning(id) /\ d = held[id] /\ e = lost[id]
  BY Zenon, <1>2
<1>4. a + b + c + d + e = 0
  BY <1>1, <1>3 DEF Balanced
<1>5. a = 0 /\ b = 0 /\ c = 0 /\ e = 0
  BY <1>4
<1> QED BY <1>3, <1>5

-------------------------------------------------------------------------------
(* The steps.                                                              *)

\* A capability goes out in a message (sendCap).
LEMMA SendDescriptorInv ==
  ASSUME IInv, NEW c \in Caps, NEW discarded \in BOOLEAN, SendDescriptor(c, discarded)
  PROVE  IInv'
<1>0. TypeOK /\ TableInv /\ (\A i \in ID : Balanced(i)) /\ UseInv /\ DescriptorInv /\ fault \in {"none", "nilEntry"}
  BY Parts DEF IInv
<1>1. PICK id \in ID :
        /\ sendCap(c, id)
        /\ toImporter' = Append(toImporter, [id |-> id, cap |-> c, discarded |-> discarded])
        /\ held' = IF discarded THEN [held EXCEPT ![id] = @ + 1] ELSE held
        /\ UNCHANGED <<importerVars, toExporter, lost, fault>>
  BY Zenon DEF SendDescriptor
<1> DEFINE d == [id |-> id, cap |-> c, discarded |-> discarded]
<1>2. /\ ExportType' /\ TableInv'
      /\ wireRefs' = [wireRefs EXCEPT ![id] = @ + 1] /\ exports'[id] = c
      /\ \A j \in ID : exports'[j] = exports[j] \/ (j = id /\ wireRefs[j] = 0)
  BY <1>0, <1>1, SendCapStep
<1>3. /\ d \in Descriptor /\ toImporter \in Seq(Descriptor) /\ toImporter' \in Seq(Descriptor)
      /\ Len(toImporter') = Len(toImporter) + 1 /\ Len(toImporter) \in Nat
      /\ \A i \in 1..Len(toImporter) : toImporter'[i] = toImporter[i]
      /\ toImporter'[Len(toImporter) + 1] = d
  <2>1. d \in Descriptor /\ toImporter \in Seq(Descriptor)
    BY <1>0 DEF Descriptor, TypeOK
  <2> HIDE DEF d
  <2> QED BY <1>1, <2>1, AppendProperties, LenProperties DEF d
<1>4. /\ imports' = imports /\ client' = client /\ toExporter' = toExporter
      /\ lost' = lost /\ fault' = fault
  BY <1>1 DEF importerVars
<1>5. TypeOK'
  <2>1. held' \in [ID -> Nat]
    BY <1>0, <1>1 DEF TypeOK
  <2> QED BY Zenon, <1>0, <1>2, <1>3, <1>4, <2>1 DEF TypeOK, ExportType
<1>6. \A j \in ID : Arriving(j)' = Arriving(j) + Arrives(d, j)
  <2>1. ASSUME NEW j \in ID PROVE ArrivingIn(Append(toImporter, d), j) = ArrivingIn(toImporter, j) + Arrives(d, j)
    <3> HIDE DEF d
    <3> QED BY SMTT(60), <1>3, ArrivingAppend
  <2>2. \A j \in ID : Arriving(j)' = ArrivingIn(Append(toImporter, d), j) /\ Arriving(j) = ArrivingIn(toImporter, j)
    BY <1>1 DEF Arriving, ArrivingIn
  <2> QED BY SMTT(60), <2>1, <2>2
<1>7. \A j \in ID : Imported(j)' = Imported(j) /\ Returning(j)' = Returning(j)
  BY <1>4 DEF Imported, Returning
<1>8. ASSUME NEW j \in ID PROVE Balanced(j)'
  <2>1. /\ Arriving(j) \in Nat /\ Imported(j) \in Nat /\ Returning(j) \in Nat
        /\ held[j] \in Nat /\ lost[j] \in Nat /\ wireRefs[j] \in Nat
    BY <1>0, RefTypes
  <2>2. wireRefs'[j] = wireRefs[j] + (IF j = id THEN 1 ELSE 0)
    BY <1>0, <1>2, <2>1 DEF TypeOK
  <2>3. Arrives(d, j) + held'[j] = held[j] + (IF j = id THEN 1 ELSE 0) /\ Arrives(d, j) \in Nat /\ held'[j] \in Nat
    BY SMTT(60), <1>0, <1>1, <2>1 DEF Arrives, TypeOK
  <2>4. wireRefs[j] = Arriving(j) + Imported(j) + Returning(j) + held[j] + lost[j]
    BY <1>0 DEF Balanced
  <2> HIDE DEF d
  <2> QED BY <1>4, <1>6, <1>7, <2>1, <2>2, <2>3, <2>4 DEF Balanced
<1>9. \A j \in ID : exports'[j] = exports[j] \/ (Arriving(j) = 0 /\ Imported(j) = 0 /\ Returning(j) = 0 /\ lost[j] = 0)
  BY <1>2, NoRefs
<1>10. /\ ClientInv'
       /\ \A i \in 1..Len(toImporter) : ~toImporter[i].discarded => exports'[toImporter[i].id] = toImporter[i].cap
  BY <1>1, <1>9, ExportsKept
<1>11. DescriptorInv'
  <2>1. ASSUME NEW i \in 1..Len(toImporter'), ~toImporter'[i].discarded
        PROVE  exports'[toImporter'[i].id] = toImporter'[i].cap
    <3>1. CASE i \in 1..Len(toImporter)
      BY <1>3, <1>10, <2>1, <3>1
    <3>2. CASE i = Len(toImporter) + 1
      BY <1>2, <1>3, <3>2
    <3> QED BY <1>3, <3>1, <3>2
  <2> QED BY <2>1 DEF DescriptorInv
<1>12. UseInv'
  BY <1>4, <1>9, UsesKept
<1>13. RefsBalance'
  BY <1>2, <1>8 DEF RefsBalance, TableInv, Balanced
<1> QED BY <1>0, <1>4, <1>5, <1>10, <1>11, <1>12, <1>13 DEF IInv

\* An answer is destroyed with its result capabilities (releaseExportRefs).
LEMMA ReleaseResultCapsInv ==
  ASSUME IInv, NEW id \in ID, ReleaseResultCaps(id)
  PROVE  IInv'
<1>0. TypeOK /\ TableInv /\ (\A i \in ID : Balanced(i)) /\ UseInv /\ DescriptorInv /\ fault \in {"none", "nilEntry"}
  BY Parts DEF IInv
<1>1. /\ held[id] > 0 /\ held' = [held EXCEPT ![id] = @ - 1]
      /\ imports' = imports /\ client' = client /\ toImporter' = toImporter
      /\ toExporter' = toExporter /\ lost' = lost
  BY DEF ReleaseResultCaps, importerVars
<1>2. \A j \in ID : /\ Arriving(j) \in Nat /\ Imported(j) \in Nat /\ Returning(j) \in Nat
                    /\ held[j] \in Nat /\ lost[j] \in Nat /\ wireRefs[j] \in Nat
  BY <1>0, RefTypes
<1>3. wireRefs[id] >= 1 /\ exports[id] # nil
  BY <1>0, <1>1, <1>2 DEF Balanced, TableInv
<1>4. releaseExport(id, 1) /\ fault' = fault
  BY <1>2, <1>3 DEF ReleaseResultCaps
<1>5. /\ ExportType' /\ TableInv'
      /\ wireRefs' = [wireRefs EXCEPT ![id] = @ - 1]
      /\ \A j \in ID : exports'[j] = exports[j] \/ (j = id /\ wireRefs[j] = 1)
  BY <1>0, <1>2, <1>3, <1>4, ReleaseExportStep
<1>6. TypeOK'
  <2>1. held' \in [ID -> Nat]
    BY SMTT(60), <1>0, <1>1, <1>2 DEF TypeOK
  <2> QED BY Zenon, <1>0, <1>1, <1>4, <1>5, <2>1 DEF TypeOK, ExportType
<1>7. \A j \in ID : Arriving(j)' = Arriving(j) /\ Imported(j)' = Imported(j) /\ Returning(j)' = Returning(j)
  BY <1>1 DEF Arriving, Imported, Returning
<1>8. ASSUME NEW j \in ID PROVE Balanced(j)'
  <2>1. wireRefs'[j] = wireRefs[j] - (IF j = id THEN 1 ELSE 0) /\ held'[j] = held[j] - (IF j = id THEN 1 ELSE 0)
    BY SMTT(60), <1>0, <1>1, <1>2, <1>5 DEF TypeOK
  <2> QED BY SMTT(60), <1>0, <1>1, <1>2, <1>7, <2>1 DEF Balanced
<1>9. \A j \in ID : exports'[j] = exports[j] \/ (Arriving(j) = 0 /\ Imported(j) = 0 /\ Returning(j) = 0 /\ lost[j] = 0)
  <2>1. SUFFICES ASSUME wireRefs[id] = 1
                 PROVE  Arriving(id) = 0 /\ Imported(id) = 0 /\ Returning(id) = 0 /\ lost[id] = 0
    BY <1>5
  <2>2. wireRefs[id] = Arriving(id) + Imported(id) + Returning(id) + held[id] + lost[id]
    BY <1>0 DEF Balanced
  <2>3. PICK a \in Nat, b \in Nat, c \in Nat, d \in Nat, e \in Nat :
          a = Arriving(id) /\ b = Imported(id) /\ c = Returning(id) /\ d = held[id] /\ e = lost[id]
    BY Zenon, <1>2
  <2>4. a + b + c + d + e = 1 /\ d > 0
    BY <1>1, <2>1, <2>2, <2>3
  <2>5. a = 0 /\ b = 0 /\ c = 0 /\ e = 0
    BY <2>4
  <2> QED BY <2>3, <2>5
<1>10. /\ ClientInv'
       /\ \A i \in 1..Len(toImporter) : ~toImporter[i].discarded => exports'[toImporter[i].id] = toImporter[i].cap
  BY <1>1, <1>9, ExportsKept DEF importerVars
<1>11. DescriptorInv'
  BY <1>1, <1>10 DEF DescriptorInv
<1>12. UseInv'
  BY SMTT(60), <1>1, <1>9, UsesKept
<1>13. RefsBalance'
  BY <1>5, <1>8 DEF RefsBalance, TableInv, Balanced
<1> QED BY <1>0, <1>4, <1>6, <1>10, <1>11, <1>12, <1>13 DEF IInv

\* The exporter receives a Release or a message that names an import
\* (handleRelease, handleCall, recvCap).
LEMMA ExporterReceiveInv ==
  ASSUME IInv, ExporterReceive
  PROVE  IInv'
<1>0. TypeOK /\ TableInv /\ (\A i \in ID : Balanced(i)) /\ UseInv /\ DescriptorInv /\ fault \in {"none", "nilEntry"}
  BY Parts DEF IInv
<1> DEFINE m == Head(toExporter)
<1>1. /\ toExporter # <<>> /\ toExporter' = Tail(toExporter) /\ held' = held
      /\ imports' = imports /\ client' = client /\ toImporter' = toImporter /\ lost' = lost
  BY DEF ExporterReceive, importerVars
<1>2. /\ toExporter \in Seq(ToExporter) /\ toExporter' \in Seq(ToExporter) /\ m \in ToExporter
      /\ Len(toExporter) = Len(toExporter') + 1 /\ Len(toExporter') \in Nat /\ m = toExporter[1]
      /\ \A i \in 1..Len(toExporter') : toExporter'[i] = toExporter[i + 1]
  <2>1. toExporter \in Seq(ToExporter)
    BY <1>0 DEF TypeOK
  <2> QED BY <1>1, <2>1, HeadTailProperties, LenProperties
<1>3. m.id \in ID /\ (m.type = "release" => m.count \in Nat \ {0})
  BY <1>2 DEF ToExporter
<1>4. \A j \in ID : /\ Arriving(j) \in Nat /\ Imported(j) \in Nat /\ Returning(j) \in Nat
                    /\ held[j] \in Nat /\ lost[j] \in Nat /\ wireRefs[j] \in Nat
  BY <1>0, RefTypes
<1>5. \A j \in ID : Returning(j) = Returns(m, j) + Returning(j)' /\ Returning(j)' \in Nat
  <2> TAKE j \in ID
  <2>1. Returning(j) = ReturningIn(toExporter, j) /\ Returning(j)' = ReturningIn(toExporter', j)
    BY DEF Returning, ReturningIn
  <2>2. 1 \in 1..Len(toExporter) /\ \A i \in 1..Len(toExporter') : toExporter'[i] = IF i < 1 THEN toExporter[i] ELSE toExporter[i + 1]
    BY <1>2
  <2>3. ReturningIn(toExporter, j) = Returns(toExporter[1], j) + ReturningIn(toExporter', j)
    <3> HIDE DEF m
    <3> QED BY <1>2, <2>2, ReturningDrop
  <2>4. ReturningIn(toExporter', j) \in Nat
    BY SMTT(60), <1>2, ReturningType
  <2> QED BY <1>2, <2>1, <2>3, <2>4
<1>6. /\ fault' = fault /\ ExportType' /\ TableInv'
      /\ \A j \in ID : wireRefs'[j] = wireRefs[j] - Returns(m, j)
      /\ \A j \in ID : exports'[j] = exports[j] \/ wireRefs[j] = Returns(m, j)
  <2> HIDE DEF m
  <2>1. CASE m.type = "release"
    <3>1. handleRelease(m)
      BY <2>1 DEF ExporterReceive, handleUse, m
    <3>2. m.count <= wireRefs[m.id] /\ exports[m.id] # nil
      <4>1. PICK id \in ID : id = m.id
        BY <1>3
      <4>2. Returns(m, id) = m.count
        BY <2>1, <4>1 DEF Returns
      <4>3. Returning(id) = m.count + Returning(id)' /\ Returning(id)' \in Nat
        BY <1>5, <4>2
      <4>4. wireRefs[id] = Arriving(id) + Imported(id) + Returning(id) + held[id] + lost[id]
        BY <1>0 DEF Balanced
      <4>5. m.count <= wireRefs[id]
        BY SMTT(60), <1>3, <1>4, <2>1, <4>3, <4>4
      <4> QED BY <1>0, <1>3, <1>4, <2>1, <4>1, <4>5 DEF TableInv
    <3>3. releaseExport(m.id, m.count) /\ fault' = fault
      BY SMTT(60), <1>3, <1>4, <2>1, <3>1, <3>2 DEF handleRelease
    <3>4. /\ ExportType' /\ TableInv'
          /\ wireRefs' = [wireRefs EXCEPT ![m.id] = @ - m.count]
          /\ \A j \in ID : exports'[j] = exports[j] \/ (j = m.id /\ wireRefs[j] = m.count)
      BY SMTT(60), <1>0, <1>3, <2>1, <3>2, <3>3, ReleaseExportStep
    <3> QED BY SMTT(30), <1>0, <1>4, <2>1, <3>3, <3>4 DEF Returns, TypeOK
  <2>2. CASE m.type = "use"
    <3>1. handleUse(m)
      BY <2>2 DEF ExporterReceive, handleRelease, m
    <3>2. exports[m.id] # nil
      <4>1. Covered(1, m.id)
        BY <1>0, <1>2, <2>2 DEF UseInv
      <4>2. Imported(m.id) + Returning(m.id) + lost[m.id] > 0
        BY <1>0, <1>3, <4>1, CoveredRefs
      <4> QED BY SMTT(60), <1>0, <1>3, <1>4, <4>2 DEF Balanced, TableInv
    <3>3. fault' = fault /\ exports' = exports /\ wireRefs' = wireRefs /\ metadata' = metadata
      BY <3>1, <3>2 DEF handleUse
    <3>4. ExportType' /\ TableInv'
      BY <1>0, <3>3 DEF TypeOK, ExportType, TableInv
    <3> QED BY SMTT(60), <1>4, <2>2, <3>3, <3>4 DEF Returns
  <2> QED BY SMTT(60), <1>2, <2>1, <2>2 DEF ToExporter
<1> HIDE DEF m
<1>7. TypeOK'
  BY Zenon, <1>0, <1>1, <1>2, <1>6 DEF TypeOK, ExportType
<1>8. \A j \in ID : Arriving(j)' = Arriving(j) /\ Imported(j)' = Imported(j)
  BY <1>1 DEF Arriving, Imported
<1>9. ASSUME NEW j \in ID PROVE Balanced(j)'
  <2>1. Returns(m, j) \in Nat
    BY <1>3 DEF Returns
  <2>2. wireRefs[j] = Arriving(j) + Imported(j) + Returning(j) + held[j] + lost[j]
    BY <1>0 DEF Balanced
  <2>3. Returning(j) = Returns(m, j) + Returning(j)' /\ Returning(j)' \in Nat
    BY SMTT(60), <1>5
  <2>4. wireRefs'[j] = wireRefs[j] - Returns(m, j) /\ Arriving(j)' = Arriving(j) /\ Imported(j)' = Imported(j)
    BY SMTT(60), <1>6, <1>8
  <2>5. wireRefs'[j] = Arriving(j)' + Imported(j)' + Returning(j)' + held'[j] + lost'[j]
    <3>1. held'[j] = held[j] /\ lost'[j] = lost[j]
      BY <1>1
    <3>2. Arriving(j) \in Nat /\ Imported(j) \in Nat /\ held[j] \in Nat /\ lost[j] \in Nat
      BY <1>4
    <3> QED BY SMTT(60), <2>1, <2>2, <2>3, <2>4, <3>1, <3>2
  <2> QED BY <2>5 DEF Balanced
<1>10. ASSUME NEW j \in ID, exports'[j] # exports[j]
       PROVE  Arriving(j) = 0 /\ Imported(j) = 0 /\ Returning(j)' = 0 /\ lost[j] = 0
  <2>1. Returns(m, j) \in Nat
    BY <1>3 DEF Returns
  <2>2. wireRefs[j] = Arriving(j) + Imported(j) + Returning(j) + held[j] + lost[j]
    BY <1>0 DEF Balanced
  <2>3. Returning(j) = Returns(m, j) + Returning(j)' /\ Returning(j)' \in Nat
    BY <1>5
  <2>4. wireRefs[j] = Returns(m, j)
    BY <1>6, <1>10
  <2> QED BY SMTT(60), <1>4, <2>1, <2>2, <2>3, <2>4
<1>11. /\ ClientInv'
       /\ \A i \in 1..Len(toImporter) : ~toImporter[i].discarded => exports'[toImporter[i].id] = toImporter[i].cap
  BY <1>1, <1>10, ExportsKept DEF importerVars
<1>12. DescriptorInv'
  BY <1>1, <1>11 DEF DescriptorInv
<1>13. UseInv'
  <2>1. ASSUME NEW i \in 1..Len(toExporter'), toExporter'[i].type = "use"
        PROVE
           /\ toExporter'[i].stale \/ exports'[toExporter'[i].id] = toExporter'[i].cap
           /\ \/ imports'[toExporter'[i].id] # nil
              \/ lost'[toExporter'[i].id] > 0
              \/ \E k \in 1..Len(toExporter') :
                    k > i /\ toExporter'[k].type = "release" /\ toExporter'[k].id = toExporter'[i].id
    <3>1. toExporter'[i] = toExporter[i + 1] /\ i + 1 \in 1..Len(toExporter)
      BY <1>2
    <3>2. toExporter'[i] \in ToExporter /\ i \in Nat
      BY <1>2, LenProperties
    <3>3. PICK id \in ID : id = toExporter'[i].id
      BY <3>2 DEF ToExporter
    <3>4. (toExporter'[i].stale \/ exports[id] = toExporter'[i].cap) /\ Covered(i + 1, id)
      BY SMTT(60), <1>0, <2>1, <3>1, <3>3 DEF UseInv
    <3>5. Covered(i, id)'
      <4>1. CASE imports[id] # nil \/ lost[id] > 0
        BY <1>1, <4>1 DEF Covered
      <4>2. CASE \E k \in 1..Len(toExporter) : k > i + 1 /\ toExporter[k].type = "release" /\ toExporter[k].id = id
        <5>1. PICK k \in 1..Len(toExporter) : k > i + 1 /\ toExporter[k].type = "release" /\ toExporter[k].id = id
          BY <4>2
        <5>2. k - 1 \in 1..Len(toExporter') /\ k - 1 > i /\ toExporter'[k - 1] = toExporter[k]
          BY <1>2, <3>2, <5>1
        <5> QED BY <5>1, <5>2 DEF Covered
      <4> QED BY <3>4, <4>1, <4>2 DEF Covered
    <3>6. exports'[id] = exports[id]
      <4>1. SUFFICES ASSUME exports'[id] # exports[id] PROVE FALSE
        OBVIOUS
      <4>2. Imported(id) = 0 /\ Returning(id)' = 0 /\ lost[id] = 0
        BY <1>10, <4>1
      <4>3. imports[id] = nil
        BY <1>0, <4>2, RefTypes
      <4>4. PICK k \in 1..Len(toExporter') : toExporter'[k].type = "release" /\ toExporter'[k].id = id
        <5>1. imports'[id] = nil /\ ~(lost'[id] > 0)
          BY <1>1, <4>2, <4>3
        <5> QED BY <3>5, <5>1 DEF Covered
      <4>5. toExporter'[k] \in ToExporter
        BY <1>2, LenProperties
      <4>6. toExporter'[k].count \in Nat \ {0}
        BY <4>4, <4>5 DEF ToExporter
      <4>7. Returns(toExporter'[k], id) <= ReturningIn(toExporter', id)
        BY <1>2, ReturningType
      <4>8. Returning(id)' = ReturningIn(toExporter', id)
        BY DEF Returning, ReturningIn
      <4> QED BY <4>2, <4>4, <4>6, <4>7, <4>8 DEF Returns
    <3> QED BY <3>3, <3>4, <3>5, <3>6 DEF Covered
  <2>2. \A i \in 1..Len(toExporter') : toExporter'[i].type = "use" =>
           /\ toExporter'[i].stale \/ exports'[toExporter'[i].id] = toExporter'[i].cap
           /\ \/ imports'[toExporter'[i].id] # nil
              \/ lost'[toExporter'[i].id] > 0
              \/ \E k \in 1..Len(toExporter') :
                    k > i /\ toExporter'[k].type = "release" /\ toExporter'[k].id = toExporter'[i].id
    BY <2>1
  <2> QED BY SMTT(60), <2>2 DEF UseInv, Covered
<1>14. RefsBalance'
  BY <1>6, <1>9 DEF RefsBalance, TableInv, Balanced
<1> QED BY SMTT(60), <1>0, <1>6, <1>7, <1>11, <1>12, <1>13, <1>14 DEF IInv
================================================================================
