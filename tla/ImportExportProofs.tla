-------------------------- MODULE ImportExportProofs ---------------------------
(***************************************************************************)
(* Reference counts across a connection are right for any number of        *)
(* capabilities, IDs, clients and messages in flight, provided that no     *)
(* Shutdown is overtaken by the life of a later importClient.              *)
(***************************************************************************)
EXTENDS ImportExportSteps

-------------------------------------------------------------------------------
(* The steps of the importing side, and the queues losing messages.        *)

\* A descriptor that arrives is counted, and its client is the one the entry knows
\* (addImport, in its three cases).
LEMMA AddImportStep ==
  ASSUME TypeOK, ClientInv, NEW id \in ID, NEW c \in Caps, exports[id] = c, exports' = exports,
         addImport(id, c)
  PROVE  /\ imports' \in [ID -> Import \cup {nil}] /\ client' \in [Clients -> ImportClient]
         /\ \A j \in ID : /\ imports[j] # nil => imports'[j] # nil
                          /\ Imported(j)' = Imported(j) + (IF j = id THEN 1 ELSE 0)
         /\ ClientInv'
<1>0. /\ imports \in [ID -> Import \cup {nil}] /\ client \in [Clients -> ImportClient]
      /\ nil \notin Import /\ \A h \in Clients : client[h].id \in ID
  <2>1. imports \in [ID -> Import \cup {nil}] /\ client \in [Clients -> ImportClient]
    BY DEF TypeOK
  <2>2. \A h \in Clients : client[h].id \in ID
    BY <2>1 DEF ImportClient
  <2>3. nil \notin Import
    BY TableAssumption DEF Import
  <2> QED BY <2>1, <2>2, <2>3
<1>1. CASE imports[id] # nil /\ Strong(id, imports[id])
  <2>1. imports' = [imports EXCEPT ![id].wireRefs = @ + 1] /\ client' = client
    BY <1>1 DEF addImport
  <2>2. imports[id] \in Import
    BY <1>0, <1>1
  <2>3. /\ imports'[id] \in Import /\ imports'[id].wireRefs = imports[id].wireRefs + 1
        /\ imports'[id].wc = imports[id].wc /\ imports'[id].generation = imports[id].generation
        /\ imports[id].wireRefs \in Nat
    BY <1>0, <2>1, <2>2 DEF Import
  <2>4. \A j \in ID : j # id => imports'[j] = imports[j]
    BY <1>0, <2>1
  <2>5. imports' \in [ID -> Import \cup {nil}]
    BY <1>0, <2>1, <2>3, <2>4
  <2>6. \A j \in ID : imports[j] # nil => imports'[j] # nil
    BY <1>0, <2>3, <2>4
  <2>7. \A j \in ID : Imported(j)' = Imported(j) + (IF j = id THEN 1 ELSE 0)
    <3>1. \A j \in ID : Imported(j) \in Nat
      BY <1>0 DEF Imported, Import
    <3>2. Imported(id)' = Imported(id) + 1
      BY <1>0, <1>1, <2>3 DEF Imported
    <3>3. \A j \in ID : j # id => Imported(j)' = Imported(j)
      BY <2>4 DEF Imported
    <3> QED BY <3>1, <3>2, <3>3
  <2>8. ClientInv'
    <3>1. SUFFICES ASSUME NEW h \in Clients PROVE ClientOK(h)'
      BY DEF ClientInv
    <3>2. client'[h] = client[h] /\ client[h].id \in ID
      BY <1>0, <2>1
    <3>3. /\ imports[client[h].id] = nil <=> imports'[client[h].id] = nil
          /\ imports[client[h].id] # nil =>
                /\ imports'[client[h].id].wc = imports[client[h].id].wc
                /\ imports'[client[h].id].generation = imports[client[h].id].generation
      <4>1. CASE client[h].id = id
        BY <1>0, <1>1, <2>3, <4>1
      <4>2. CASE client[h].id # id
        BY <2>4, <3>2, <4>2
      <4> QED BY <4>1, <4>2
    <3>4. /\ Live(h)' <=> Live(h)
          /\ Dying(h)' <=> Dying(h)
          /\ Own(h)' <=> Own(h)
      BY <3>2 DEF Live, Dying, Own
    <3>5. Current(h)' <=> Current(h)
      BY <3>2, <3>3 DEF Current
    <3>6. ClientOK(h)
      BY DEF ClientInv
    <3> QED BY <3>2, <3>3, <3>4, <3>5, <3>6 DEF ClientOK
  <2> QED BY <1>0, <2>1, <2>5, <2>6, <2>7, <2>8
<1>2. CASE imports[id] = nil \/ ~Strong(id, imports[id])
  <2> DEFINE New(h, g, n) ==
               /\ client[h] = NoClient
               /\ imports[id] # nil => g = imports[id].generation + 1 /\ ~Strong(id, imports[id])
               /\ n = Imported(id) + 1
               /\ imports' = [imports EXCEPT ![id] = [wireRefs |-> n, wc |-> h, generation |-> g]]
               /\ client' = [client EXCEPT ![h] = newImportClient(id, g, c)]
  <2>A. \E h \in Clients, g \in Nat, n \in Nat : New(h, g, n)
    <3>1. CASE imports[id] = nil
      <4>1. PICK h \in Clients :
              /\ client[h] = NoClient
              /\ imports' = [imports EXCEPT ![id] = [wireRefs |-> 1, wc |-> h, generation |-> 0]]
              /\ client' = [client EXCEPT ![h] = newImportClient(id, 0, c)]
        BY <3>1 DEF addImport
      <4>2. Imported(id) + 1 = 1
        BY <3>1 DEF Imported
      <4>3. New(h, 0, 1)
        BY <3>1, <4>1, <4>2
      <4> HIDE DEF New
      <4> QED BY <4>3
    <3>2. CASE imports[id] # nil
      <4>1. PICK h \in Clients :
              /\ client[h] = NoClient
              /\ imports' = [imports EXCEPT ![id] = [wireRefs |-> imports[id].wireRefs + 1, wc |-> h,
                                                     generation |-> imports[id].generation + 1]]
              /\ client' = [client EXCEPT ![h] = newImportClient(id, imports[id].generation + 1, c)]
        BY <1>2, <3>2 DEF addImport
      <4>2. Imported(id) = imports[id].wireRefs
        BY <3>2 DEF Imported
      <4>4. imports[id].generation + 1 \in Nat
        BY <1>0, <3>2 DEF Import
      <4>5. New(h, imports[id].generation + 1, imports[id].wireRefs + 1)
        BY <1>2, <3>2, <4>1, <4>2
      <4>6. imports[id].wireRefs + 1 \in Nat
        BY <1>0, <3>2 DEF Import
      <4> HIDE DEF New
      <4> QED BY <4>4, <4>5, <4>6
    <3> QED BY <3>1, <3>2
  <2> HIDE DEF New
  <2>B. PICK h \in Clients, g \in Nat, n \in Nat : New(h, g, n)
    BY <2>A
  <2>1. /\ client[h] = NoClient
        /\ imports[id] # nil => g = imports[id].generation + 1 /\ ~Strong(id, imports[id])
        /\ n = Imported(id) + 1
        /\ imports' = [imports EXCEPT ![id] = [wireRefs |-> n, wc |-> h, generation |-> g]]
        /\ client' = [client EXCEPT ![h] = newImportClient(id, g, c)]
    BY <2>B DEF New
  <2>2. Imported(id) \in Nat /\ \A j \in ID : Imported(j) \in Nat
    BY <1>0 DEF Imported, Import
  <2>3. /\ imports'[id] = [wireRefs |-> n, wc |-> h, generation |-> g]
        /\ imports'[id] \in Import /\ imports'[id] # nil
        /\ \A j \in ID : j # id => imports'[j] = imports[j]
    <3>1. imports'[id] = [wireRefs |-> n, wc |-> h, generation |-> g]
      BY <1>0, <2>1
    <3>2. n \in Nat \ {0}
      BY <2>1, <2>2
    <3>3. imports'[id] \in Import
      BY <3>1, <3>2 DEF Import
    <3> QED BY <1>0, <2>1, <3>1, <3>3
  <2>4. imports' \in [ID -> Import \cup {nil}]
    BY <1>0, <2>1, <2>3
  <2>5. /\ client'[h] = [state |-> "live", busy |-> FALSE, id |-> id, generation |-> g, cap |-> c,
                    outlived |-> FALSE]
        /\ \A k \in Clients : k # h => client'[k] = client[k]
    BY <1>0, <2>1 DEF newImportClient
  <2>6. client' \in [Clients -> ImportClient]
    <3>1. client'[h] \in ImportClient
      <4>1. client'[h] = [state |-> "live", busy |-> FALSE, id |-> id, generation |-> g, cap |-> c,
                    outlived |-> FALSE] /\ g \in Nat
        BY <2>1, <2>5
      <4> QED BY <4>1 DEF ImportClient
    <3> QED BY <1>0, <2>1, <2>5, <3>1
  <2>7. \A j \in ID : /\ imports[j] # nil => imports'[j] # nil
                      /\ Imported(j)' = Imported(j) + (IF j = id THEN 1 ELSE 0)
    <3>1. Imported(id)' = Imported(id) + 1
      BY <2>1, <2>3 DEF Imported
    <3>2. \A j \in ID : j # id => Imported(j)' = Imported(j)
      BY <2>3 DEF Imported
    <3> QED BY <2>2, <2>3, <3>1, <3>2
  <2>8. \A k \in Clients : client[k].id = id /\ Own(k) => ~Live(k) /\ client[k].generation < g
    <3>1. SUFFICES ASSUME NEW k \in Clients, client[k].id = id, Own(k)
                   PROVE  ~Live(k) /\ client[k].generation < g
      OBVIOUS
    <3>2. ClientOK(k)
      BY DEF ClientInv
    <3>3. imports[id] # nil /\ client[k].generation <= imports[id].generation
      BY <3>1, <3>2 DEF ClientOK
    <3>4. ~Live(k)
      BY <2>1, <3>1, <3>2, <3>3 DEF ClientOK, Strong, Current
    <3>5. g = imports[id].generation + 1
      BY <2>1, <3>3
    <3>6. imports[id].generation \in Nat /\ client[k].generation \in Nat
      BY <1>0, <3>3 DEF Import, ImportClient
    <3> QED BY <3>3, <3>4, <3>5, <3>6
  <2>9. ASSUME NEW k \in Clients PROVE ClientOK(k)'
    <3>1. ClientOK(k)
      BY DEF ClientInv
    <3>2. CASE k = h
      <4>1. Live(k)' /\ ~Dying(k)' /\ Own(k)'
        BY <2>5, <3>2 DEF Live, Dying, Own
      <4>2. /\ client'[k].id = id /\ client'[k].generation = g /\ client'[k].cap = c /\ ~client'[k].busy
        BY <2>5, <3>2
      <4>3. /\ imports'[client'[k].id] # nil /\ imports'[client'[k].id].wc = k
            /\ imports'[client'[k].id].generation = g
        BY <2>3, <3>2, <4>2
      <4>4. Current(k)'
        BY <4>2, <4>3 DEF Current
      <4> QED BY <4>1, <4>2, <4>3, <4>4 DEF ClientOK
    <3>3. CASE k # h
      <4>1. client'[k] = client[k] /\ client[k].id \in ID
        BY <1>0, <2>5, <3>3
      <4>2. /\ Live(k)' <=> Live(k)
            /\ Dying(k)' <=> Dying(k)
            /\ Own(k)' <=> Own(k)
        BY <4>1 DEF Live, Dying, Own
      <4>3. CASE client[k].id # id
        <5>1. imports'[client[k].id] = imports[client[k].id]
          BY <2>3, <4>1, <4>3
        <5>2. Current(k)' <=> Current(k)
          BY <4>1, <5>1 DEF Current
        <5> QED BY <3>1, <4>1, <4>2, <5>1, <5>2 DEF ClientOK
      <4>4. CASE client[k].id = id
        <5>1. imports'[client'[k].id] # nil /\ imports'[client'[k].id].generation = g
          BY <2>3, <4>1, <4>4
        <5>2. Own(k)' => ~Live(k)' /\ client'[k].generation < g
          BY <2>8, <4>1, <4>2, <4>4
        <5>3. client'[k].generation \in Nat
          BY <1>0, <4>1 DEF ImportClient
        <5>4. Own(k)' => ~Current(k)' /\ client'[k].generation <= imports'[client'[k].id].generation
          BY <5>1, <5>2, <5>3 DEF Current
        <5> QED BY <3>1, <4>1, <4>2, <5>1, <5>2, <5>4 DEF ClientOK
      <4> QED BY <4>3, <4>4
    <3> QED BY <3>2, <3>3
  <2>10. ClientInv'
    BY <2>9 DEF ClientInv
  <2> QED BY <2>4, <2>6, <2>7, <2>10
<1> QED BY <1>1, <1>2

\* The importer receives a descriptor (recvPayload, handleReturn).
LEMMA ImporterReceiveInv ==
  ASSUME IInv, ImporterReceive
  PROVE  IInv'
<1>0. TypeOK /\ TableInv /\ (\A i \in ID : Balanced(i)) /\ UseInv /\ DescriptorInv /\ ClientInv /\ fault \in {"none", "nilEntry"}
  BY Parts DEF IInv
<1> DEFINE d == Head(toImporter)
<1>1. /\ toImporter # <<>> /\ toImporter' = Tail(toImporter)
      /\ exports' = exports /\ wireRefs' = wireRefs /\ metadata' = metadata /\ held' = held
      /\ toExporter' = toExporter /\ lost' = lost /\ fault' = fault
      /\ IF d.discarded THEN imports' = imports /\ client' = client ELSE addImport(d.id, d.cap)
  BY DEF ImporterReceive, importerVars, exporterVars
<1>2. /\ toImporter \in Seq(Descriptor) /\ toImporter' \in Seq(Descriptor) /\ d \in Descriptor
      /\ Len(toImporter) = Len(toImporter') + 1 /\ Len(toImporter') \in Nat /\ d = toImporter[1]
      /\ \A i \in 1..Len(toImporter') : toImporter'[i] = toImporter[i + 1]
  <2>1. toImporter \in Seq(Descriptor)
    BY <1>0 DEF TypeOK
  <2> QED BY <1>1, <2>1, HeadTailProperties, LenProperties
<1> HIDE DEF d
<1>3. d.id \in ID /\ d.cap \in Caps /\ d.discarded \in BOOLEAN
  BY <1>2 DEF Descriptor
<1>4. \A j \in ID : /\ Arriving(j) \in Nat /\ Imported(j) \in Nat /\ Returning(j) \in Nat
                    /\ held[j] \in Nat /\ lost[j] \in Nat
  BY <1>0, RefTypes
<1>5. \A j \in ID : Arriving(j) = Arrives(d, j) + Arriving(j)' /\ Arriving(j)' \in Nat
  <2> TAKE j \in ID
  <2>1. Arriving(j) = ArrivingIn(toImporter, j) /\ Arriving(j)' = ArrivingIn(toImporter', j)
    BY DEF Arriving, ArrivingIn
  <2>2. 1 \in 1..Len(toImporter) /\ \A i \in 1..Len(toImporter') : toImporter'[i] = IF i < 1 THEN toImporter[i] ELSE toImporter[i + 1]
    BY <1>2
  <2>3. ArrivingIn(toImporter, j) = Arrives(toImporter[1], j) + ArrivingIn(toImporter', j)
    BY <1>2, <2>2, ArrivingDrop
  <2>4. ArrivingIn(toImporter', j) \in Nat
    BY <1>2, ArrivingType
  <2> QED BY <1>2, <2>1, <2>3, <2>4
<1>6. /\ imports' \in [ID -> Import \cup {nil}] /\ client' \in [Clients -> ImportClient]
      /\ \A j \in ID : /\ imports[j] # nil => imports'[j] # nil
                       /\ Imported(j)' = Imported(j) + Arrives(d, j)
      /\ ClientInv'
  <2>1. CASE d.discarded
    <3>1. imports' = imports /\ client' = client
      BY <1>1, <2>1
    <3>2. \A j \in ID : Imported(j)' = Imported(j) + Arrives(d, j)
      BY SMTT(60), <1>4, <2>1, <3>1 DEF Imported, Arrives
    <3>3. ClientInv'
      BY ZenonT(60), <1>0, <1>1, <3>1 DEF ClientInv, ClientOK, Own, Live, Dying, Current
    <3> QED BY <1>0, <3>1, <3>2, <3>3 DEF TypeOK
  <2>2. CASE ~d.discarded
    <3>1. addImport(d.id, d.cap)
      BY <1>1, <2>2
    <3>2. exports[d.id] = d.cap
      BY <1>0, <1>2, <2>2 DEF DescriptorInv
    <3>3. PICK id \in ID, c \in Caps : id = d.id /\ c = d.cap
      BY <1>3
    <3>4. /\ imports' \in [ID -> Import \cup {nil}] /\ client' \in [Clients -> ImportClient]
          /\ \A j \in ID : /\ imports[j] # nil => imports'[j] # nil
                           /\ Imported(j)' = Imported(j) + (IF j = id THEN 1 ELSE 0)
          /\ ClientInv'
      BY <1>0, <1>1, <3>1, <3>2, <3>3, AddImportStep
    <3>5. \A j \in ID : Arrives(d, j) = IF j = id THEN 1 ELSE 0
      BY <2>2, <3>3 DEF Arrives
    <3> QED BY <3>4, <3>5
  <2> QED BY <2>1, <2>2
<1>7. TypeOK'
  BY Zenon, <1>0, <1>1, <1>2, <1>6 DEF TypeOK
<1>8. ASSUME NEW j \in ID PROVE Balanced(j)'
  <2>1. Arrives(d, j) \in Nat
    BY DEF Arrives
  <2>2. wireRefs[j] = Arriving(j) + Imported(j) + Returning(j) + held[j] + lost[j]
    BY <1>0 DEF Balanced
  <2>3. Arriving(j) = Arrives(d, j) + Arriving(j)' /\ Arriving(j)' \in Nat
    BY <1>5
  <2>4. Imported(j)' = Imported(j) + Arrives(d, j) /\ Returning(j)' = Returning(j)
    BY <1>1, <1>6 DEF Returning
  <2>5. wireRefs'[j] = wireRefs[j] /\ held'[j] = held[j] /\ lost'[j] = lost[j]
    BY <1>1
  <2>6. Imported(j) \in Nat /\ Returning(j) \in Nat /\ held[j] \in Nat /\ lost[j] \in Nat
    BY <1>4
  <2>7. wireRefs'[j] = Arriving(j)' + Imported(j)' + Returning(j)' + held'[j] + lost'[j]
    BY <2>1, <2>2, <2>3, <2>4, <2>5, <2>6
  <2> QED BY <2>7 DEF Balanced
<1>9. RefsBalance'
  <2>1. TableInv'
    BY <1>0, <1>1 DEF TableInv
  <2> QED BY <1>8, <2>1 DEF RefsBalance, TableInv, Balanced
<1>10. DescriptorInv'
  <2>1. ASSUME NEW i \in 1..Len(toImporter'), ~toImporter'[i].discarded
        PROVE  exports'[toImporter'[i].id] = toImporter'[i].cap
    <3>1. toImporter'[i] = toImporter[i + 1] /\ i + 1 \in 1..Len(toImporter)
      BY <1>2
    <3> QED BY <1>0, <1>1, <2>1, <3>1 DEF DescriptorInv
  <2> QED BY <2>1 DEF DescriptorInv
<1>11. UseInv'
  <2>1. ASSUME NEW i \in 1..Len(toExporter), toExporter[i].type = "use"
        PROVE  (toExporter[i].stale \/ exports'[toExporter[i].id] = toExporter[i].cap) /\ Covered(i, toExporter[i].id)'
    <3>1. toExporter[i] \in ToExporter
      BY <1>0, LenProperties DEF TypeOK
    <3>2. toExporter[i].id \in ID
      BY <3>1 DEF ToExporter
    <3>3. (toExporter[i].stale \/ exports[toExporter[i].id] = toExporter[i].cap) /\ Covered(i, toExporter[i].id)
      BY SMTT(60), <1>0, <2>1 DEF UseInv
    <3>4. Covered(i, toExporter[i].id)'
      BY <1>1, <1>6, <3>2, <3>3 DEF Covered
    <3> QED BY <1>1, <3>3, <3>4
  <2> QED BY <1>1, <2>1 DEF UseInv
<1> QED BY <1>0, <1>1, <1>6, <1>7, <1>9, <1>10, <1>11 DEF IInv

\* One importClient changes its state (startCall, Send, Release).
LEMMA ClientStep ==
  ASSUME TypeOK, ClientInv, NEW h \in Clients, Live(h) \/ Dying(h),
         \A k \in Clients : k # h => client'[k] = client[k],
         client'[h].id = client[h].id, client'[h].generation = client[h].generation,
         client'[h].cap = client[h].cap, client'[h].outlived = client[h].outlived,
         client'[h].state \in {"live", "released", "closing"},
         client'[h].busy => client'[h].state \in {"live", "released"},
         client'[h].state = "live" => Live(h),
         imports' = imports, exports' = exports
  PROVE  ClientInv'
<1>1. SUFFICES ASSUME NEW k \in Clients PROVE ClientOK(k)'
  BY DEF ClientInv
<1>2. ClientOK(k)
  BY SMTT(60) DEF ClientInv
<1>3. CASE k # h
  <2>1. client'[k] = client[k]
    BY <1>3
  <2>2. /\ Live(k)' <=> Live(k)
        /\ Dying(k)' <=> Dying(k)
        /\ Own(k)' <=> Own(k)
        /\ Current(k)' <=> Current(k)
    BY SMTT(60), <2>1 DEF Live, Dying, Own, Current
  <2> QED BY <1>2, <2>1, <2>2 DEF ClientOK
<1>4. CASE k = h
  <2>1. /\ Live(k)' => Live(k)
        /\ Live(k) \/ Dying(k)
        /\ Own(k)' => Own(k)
    BY <1>4 DEF Live, Dying, Own
  <2>2. /\ client'[k].id = client[k].id /\ client'[k].generation = client[k].generation
        /\ client'[k].cap = client[k].cap
    BY <1>4
  <2>3. Current(k)' <=> Current(k)
    BY <2>2 DEF Current
  <2>4. client'[k].busy => client'[k].state \in {"live", "released"}
    BY <1>4
  <2> QED BY SMTT(60), <1>2, <2>1, <2>2, <2>3, <2>4 DEF ClientOK
<1> QED BY <1>3, <1>4

\* A message is queued behind the others: a Release covers those that name its
\* import (Send, Shutdown).
LEMMA UsesAppended ==
  ASSUME IInv, NEW m \in ToExporter, toExporter' = Append(toExporter, m), exports' = exports, lost' = lost,
         \A j \in ID : imports[j] # nil => imports'[j] # nil \/ (m.type = "release" /\ m.id = j),
         m.type = "use" => (m.stale \/ exports[m.id] = m.cap) /\ imports'[m.id] # nil
  PROVE  UseInv'
<1>0. TypeOK /\ UseInv
  BY DEF IInv
<1> DEFINE n == Len(toExporter)
<1>1. /\ n \in Nat /\ Len(toExporter') = n + 1 /\ toExporter'[n + 1] = m
      /\ \A i \in 1..n : toExporter'[i] = toExporter[i] /\ toExporter[i] \in ToExporter
  <2>1. toExporter \in Seq(ToExporter)
    BY SMTT(60), <1>0 DEF TypeOK
  <2> QED BY <2>1, LenProperties, AppendProperties
<1> HIDE DEF n
<1>2. ASSUME NEW i \in 1..(n + 1), toExporter'[i].type = "use"
      PROVE  /\ toExporter'[i].stale \/ exports'[toExporter'[i].id] = toExporter'[i].cap
             /\ \/ imports'[toExporter'[i].id] # nil
                \/ lost'[toExporter'[i].id] > 0
                \/ \E k \in 1..(n + 1) :
                      k > i /\ toExporter'[k].type = "release" /\ toExporter'[k].id = toExporter'[i].id
  <2>1. CASE i = n + 1
    BY SMTT(60), <1>1, <1>2, <2>1
  <2>2. CASE i \in 1..n
    <3>1. toExporter'[i] = toExporter[i] /\ toExporter[i] \in ToExporter
      BY <1>1, <2>2
    <3>2. PICK id \in ID : id = toExporter[i].id
      BY <3>1 DEF ToExporter
    <3>3. (toExporter[i].stale \/ exports[id] = toExporter[i].cap) /\ Covered(i, id)
      BY SMTT(60), <1>0, <1>2, <2>2, <3>1, <3>2 DEF UseInv, n
    <3>4. CASE imports[id] # nil
      <4>1. CASE imports'[id] # nil
        BY SMTT(60), <3>1, <3>2, <3>3, <4>1
      <4>2. CASE m.type = "release" /\ m.id = id
        <5>1. n + 1 \in 1..(n + 1) /\ n + 1 > i
          BY SMTT(60), <1>1, <2>2
        <5> QED BY SMTT(60), <1>1, <3>1, <3>2, <3>3, <4>2, <5>1
      <4> QED BY ZenonT(60), <3>2, <3>4, <4>1, <4>2
    <3>5. CASE lost[id] > 0
      BY SMTT(60), <3>1, <3>2, <3>3, <3>5
    <3>6. CASE \E k \in 1..n : k > i /\ toExporter[k].type = "release" /\ toExporter[k].id = id
      <4>1. PICK k \in 1..n : k > i /\ toExporter[k].type = "release" /\ toExporter[k].id = id
        BY <3>6
      <4>2. k \in 1..(n + 1) /\ toExporter'[k] = toExporter[k]
        BY <1>1, <4>1
      <4>3. \E l \in 1..(n + 1) : l > i /\ toExporter'[l].type = "release" /\ toExporter'[l].id = id
        BY ZenonT(60), <4>1, <4>2
      <4> QED BY ZenonT(60), <3>1, <3>2, <3>3, <4>3
    <3> QED BY <3>3, <3>4, <3>5, <3>6 DEF Covered, n
  <2> QED BY SMTT(60), <1>1, <1>2, <2>1, <2>2
<1>3. \A i \in 1..Len(toExporter') : toExporter'[i].type = "use" =>
         /\ toExporter'[i].stale \/ exports'[toExporter'[i].id] = toExporter'[i].cap
         /\ \/ imports'[toExporter'[i].id] # nil
            \/ lost'[toExporter'[i].id] > 0
            \/ \E k \in 1..Len(toExporter') :
                  k > i /\ toExporter'[k].type = "release" /\ toExporter'[k].id = toExporter'[i].id
  BY <1>1, <1>2
<1> QED BY <1>3 DEF UseInv, Covered

\* A step of an importClient that sends nothing.
LEMMA OnlyClients ==
  ASSUME IInv, client' \in [Clients -> ImportClient], ClientInv',
         UNCHANGED <<exporterVars, imports, toImporter, toExporter, lost>>,
         fault' \in {fault, "nilEntry"}
  PROVE  IInv'
<1>0. TypeOK /\ RefsBalance /\ DescriptorInv /\ UseInv /\ fault \in {"none", "nilEntry"}
  BY DEF IInv
<1>1. /\ exports' = exports /\ wireRefs' = wireRefs /\ metadata' = metadata /\ held' = held
      /\ imports' = imports /\ toImporter' = toImporter /\ toExporter' = toExporter
      /\ lost' = lost
  BY DEF exporterVars
<1>2. TypeOK' /\ fault' \in {"none", "nilEntry"}
  BY ZenonT(60), <1>0, <1>1 DEF TypeOK
<1>3. RefsBalance'
  <2>1. \A id \in ID : Arriving(id)' = Arriving(id) /\ Imported(id)' = Imported(id) /\ Returning(id)' = Returning(id)
    BY Zenon, <1>1 DEF Arriving, Imported, Returning
  <2> QED BY ZenonT(30), <1>0, <1>1, <2>1 DEF RefsBalance
<1>4. DescriptorInv' /\ UseInv'
  <2>1. \A i, id : Covered(i, id)' <=> Covered(i, id)
    BY Zenon, <1>1 DEF Covered
  <2>2. DescriptorInv'
    BY Zenon, <1>0, <1>1 DEF DescriptorInv
  <2> QED BY Zenon, <1>0, <1>1, <2>1, <2>2 DEF UseInv
<1> QED BY <1>0, <1>1, <1>2, <1>3, <1>4 DEF IInv

\* A call or a Snapshot holds on to the hook.
LEMMA StartCallInv ==
  ASSUME IInv, NEW h \in Clients, startCall(h)
  PROVE  IInv'
<1>0. TypeOK /\ ClientInv /\ client \in [Clients -> ImportClient]
  BY DEF IInv, TypeOK
<1>1. /\ client[h].state = "live" /\ client' = [client EXCEPT ![h].busy = TRUE]
      /\ UNCHANGED <<exporterVars, imports, toImporter, toExporter, lost, fault>>
  BY DEF startCall, Live
<1>2. client[h] \in ImportClient
  BY <1>0
<1>3. client'[h] = [client[h] EXCEPT !.busy = TRUE] /\ \A k \in Clients : k # h => client'[k] = client[k]
  BY <1>0, <1>1
<1>4. /\ client'[h] \in ImportClient /\ client'[h].id = client[h].id /\ client'[h].cap = client[h].cap
      /\ client'[h].generation = client[h].generation /\ client'[h].state = "live"
      /\ client'[h].outlived = client[h].outlived
  <2>1. client'[h] \in ImportClient
    BY ZenonT(60), <1>2, <1>3 DEF ImportClient
  <2>2. client'[h].state = client[h].state
    BY <1>2, <1>3 DEF ImportClient
  <2>3. /\ client'[h].id = client[h].id /\ client'[h].cap = client[h].cap
        /\ client'[h].generation = client[h].generation /\ client'[h].outlived = client[h].outlived
    BY <1>2, <1>3 DEF ImportClient
  <2> QED BY <1>1, <2>1, <2>2, <2>3
<1>5. client' \in [Clients -> ImportClient]
  BY <1>0, <1>1, <1>3, <1>4
<1>6. ClientInv'
  <2>1. Live(h) /\ exports' = exports /\ imports' = imports
    BY <1>1 DEF Live, exporterVars
  <2> QED BY ZenonT(60), <1>0, <1>3, <1>4, <2>1, ClientStep
<1> QED BY SMTT(60), <1>1, <1>5, <1>6, OnlyClients

\* The application's last reference goes.
LEMMA ReleaseInv ==
  ASSUME IInv, NEW h \in Clients, Release(h)
  PROVE  IInv'
<1>0. TypeOK /\ ClientInv /\ client \in [Clients -> ImportClient]
  BY DEF IInv, TypeOK
<1> DEFINE s == IF client[h].busy THEN "released" ELSE "closing"
<1>1. /\ client[h].state = "live" /\ client' = [client EXCEPT ![h].state = s]
      /\ UNCHANGED <<exporterVars, imports, toImporter, toExporter, lost, fault>>
  BY DEF Release, Live
<1>2. client[h] \in ImportClient /\ s \in {"released", "closing"} /\ (client[h].busy => s = "released")
  BY <1>0
<1> HIDE DEF s
<1>3. client'[h] = [client[h] EXCEPT !.state = s] /\ \A k \in Clients : k # h => client'[k] = client[k]
  BY <1>0, <1>1
<1>4. /\ client'[h] \in ImportClient /\ client'[h].id = client[h].id /\ client'[h].cap = client[h].cap
      /\ client'[h].generation = client[h].generation /\ client'[h].state = s
      /\ client'[h].busy = client[h].busy /\ client'[h].outlived = client[h].outlived
  BY <1>1, <1>2, <1>3 DEF ImportClient
<1>5. client' \in [Clients -> ImportClient]
  BY <1>0, <1>1, <1>3, <1>4
<1>6. ClientInv'
  <2>1. Live(h) /\ exports' = exports /\ imports' = imports
    BY <1>1 DEF Live, exporterVars
  <2>2. /\ client'[h].state \in {"live", "released", "closing"} /\ client'[h].state # "live"
        /\ client'[h].busy => client'[h].state \in {"live", "released"}
    BY <1>2, <1>4
  <2> QED BY ZenonT(60), <1>0, <1>3, <1>4, <2>1, <2>2, ClientStep
<1> QED BY <1>1, <1>5, <1>6, OnlyClients

\* A message is queued to the exporter: what stays true of the tables.
LEMMA MessageAppended ==
  ASSUME IInv, NEW m \in ToExporter, toExporter' = Append(toExporter, m),
         imports' \in [ID -> Import \cup {nil}], client' \in [Clients -> ImportClient], ClientInv',
         \A j \in ID : Imported(j) = Imported(j)' + Returns(m, j) /\ Imported(j)' \in Nat,
         \A j \in ID : imports[j] # nil => imports'[j] # nil \/ (m.type = "release" /\ m.id = j),
         m.type = "use" => (m.stale \/ exports[m.id] = m.cap) /\ imports'[m.id] # nil,
         UNCHANGED <<exporterVars, toImporter, lost, fault>>
  PROVE  IInv'
<1>0. TypeOK /\ TableInv /\ (\A i \in ID : Balanced(i)) /\ DescriptorInv /\ fault \in {"none", "nilEntry"}
  BY Parts DEF IInv
<1>1. /\ exports' = exports /\ wireRefs' = wireRefs /\ metadata' = metadata /\ held' = held
      /\ toImporter' = toImporter /\ lost' = lost /\ fault' = fault
  BY SMTT(60) DEF exporterVars
<1>2. toExporter \in Seq(ToExporter) /\ toExporter' \in Seq(ToExporter)
  <2>1. toExporter \in Seq(ToExporter)
    BY <1>0 DEF TypeOK
  <2> QED BY <2>1, AppendProperties
<1>3. TypeOK'
  BY Zenon, <1>0, <1>1, <1>2 DEF TypeOK
<1>4. ASSUME NEW j \in ID PROVE Balanced(j)'
  <2>1. Returns(m, j) \in Nat
    BY DEF Returns, ToExporter
  <2>2. Returning(j)' = Returning(j) + Returns(m, j)
    <3>1. Returning(j) = ReturningIn(toExporter, j) /\ Returning(j)' = ReturningIn(toExporter', j)
      BY DEF Returning, ReturningIn
    <3> QED BY <1>2, <3>1, ReturningAppend
  <2>3. wireRefs[j] = Arriving(j) + Imported(j) + Returning(j) + held[j] + lost[j]
    BY <1>0 DEF Balanced
  <2>4. Arriving(j)' = Arriving(j)
    BY SMTT(60), <1>1 DEF Arriving
  <2>5. wireRefs'[j] = wireRefs[j] /\ held'[j] = held[j] /\ lost'[j] = lost[j]
    BY <1>1
  <2>6. Arriving(j) \in Nat /\ Returning(j) \in Nat /\ held[j] \in Nat /\ lost[j] \in Nat
    BY SMTT(60), <1>0, RefTypes
  <2>7. wireRefs'[j] = Arriving(j)' + Imported(j)' + Returning(j)' + held'[j] + lost'[j]
    BY SMTT(60), <2>1, <2>2, <2>3, <2>4, <2>5, <2>6
  <2> QED BY <2>7 DEF Balanced
<1>5. RefsBalance'
  <2>1. TableInv'
    BY <1>0, <1>1 DEF TableInv
  <2> QED BY ZenonT(60), <1>4, <2>1 DEF RefsBalance, TableInv, Balanced
<1>6. DescriptorInv'
  BY <1>0, <1>1 DEF DescriptorInv
<1>7. UseInv'
  BY <1>1, UsesAppended
<1> QED BY ZenonT(60), <1>0, <1>1, <1>3, <1>5, <1>6, <1>7 DEF IInv

\* A call or a receiverHosted descriptor is sent, unless the entry has changed hands.
LEMMA SendInv ==
  ASSUME IInv, NEW h \in Clients, Send(h)
  PROVE  IInv'
<1>0. TypeOK /\ ClientInv /\ client \in [Clients -> ImportClient]
  BY DEF IInv, TypeOK
<1> DEFINE s == IF client[h].state = "live" THEN "live" ELSE "closing"
           m == [type |-> "use", id |-> client[h].id, cap |-> client[h].cap, stale |-> client[h].outlived]
<1>1. /\ client[h].busy /\ client' = [client EXCEPT ![h].busy = FALSE, ![h].state = s]
      /\ toExporter' = IF Current(h) THEN Append(toExporter, m) ELSE toExporter
      /\ UNCHANGED <<exporterVars, imports, toImporter, lost, fault>>
  <2>1. client[h] \in ImportClient
    BY <1>0
  <2> QED BY <1>0, <2>1 DEF Send, ImportClient
<1>2. client[h] \in ImportClient /\ s \in {"live", "closing"} /\ (s = "live" => client[h].state = "live")
  BY <1>0
<1>3. Live(h) \/ Dying(h)
  BY <1>0, <1>1 DEF ClientInv, ClientOK, Live, Dying
<1>4. Live(h) => s = "live"
  BY DEF Live
<1> HIDE DEF s, m
<1>5. /\ client'[h] = [client[h] EXCEPT !.busy = FALSE, !.state = s]
      /\ \A k \in Clients : k # h => client'[k] = client[k]
  BY <1>0, <1>1
<1>6. client'[h] \in ImportClient
  BY ZenonT(60), <1>2, <1>5 DEF ImportClient
<1>7. /\ client'[h].id = client[h].id /\ client'[h].cap = client[h].cap
      /\ client'[h].generation = client[h].generation /\ client'[h].state = s /\ client'[h].busy = FALSE
      /\ client'[h].outlived = client[h].outlived
  BY <1>2, <1>5 DEF ImportClient
<1>8. client' \in [Clients -> ImportClient]
  BY <1>0, <1>1, <1>5, <1>6
<1>9. ClientInv'
  <2>1. exports' = exports /\ imports' = imports
    BY <1>1 DEF exporterVars
  <2>2. /\ client'[h].state \in {"live", "released", "closing"} /\ (client'[h].state = "live" => Live(h))
        /\ client'[h].busy => client'[h].state \in {"live", "released"}
    BY <1>2, <1>4, <1>7 DEF Live
  <2> QED BY ZenonT(60), <1>0, <1>3, <1>5, <1>7, <2>1, <2>2, ClientStep
<1>10. CASE ~Current(h)
  BY <1>1, <1>8, <1>9, <1>10, OnlyClients
<1>11. CASE Current(h)
  <2>1. client[h].id \in ID /\ imports[client[h].id] # nil
    BY <1>2, <1>11 DEF ImportClient, Current
  <2>2. client[h].cap \in Caps /\ client[h].outlived \in BOOLEAN
    BY <1>0, <1>2, <1>3 DEF ClientInv, ClientOK, ImportClient
  <2>3. /\ m \in ToExporter /\ m.type = "use" /\ m.id = client[h].id
        /\ m.stale \/ exports[m.id] = m.cap
    <3>1. /\ m \in ToExporter /\ m.type = "use" /\ m.id = client[h].id /\ m.cap = client[h].cap
          /\ m.stale = client[h].outlived
      BY <2>1, <2>2 DEF m, ToExporter
    <3>2. client[h].outlived \/ exports[client[h].id] = client[h].cap
      BY <1>0, <1>3, <1>11 DEF ClientInv, ClientOK, Own
    <3> QED BY <3>1, <3>2
  <2>4. toExporter' = Append(toExporter, m) /\ imports' = imports
    BY <1>1, <1>11
  <2>5. \A j \in ID : Imported(j) = Imported(j)' + Returns(m, j) /\ Imported(j)' \in Nat
    <3> TAKE j \in ID
    <3>1. Imported(j)' = Imported(j) /\ Returns(m, j) = 0
      BY SMTT(60), <2>3, <2>4 DEF Imported, Returns
    <3>2. Imported(j) \in Nat
      BY <1>0, RefTypes
    <3> QED BY <3>1, <3>2
  <2>6. imports' \in [ID -> Import \cup {nil}]
    BY <1>0, <2>4 DEF TypeOK
  <2>7. /\ \A j \in ID : imports[j] # nil => imports'[j] # nil \/ (m.type = "release" /\ m.id = j)
        /\ m.type = "use" => (m.stale \/ exports[m.id] = m.cap) /\ imports'[m.id] # nil
    BY <2>1, <2>3, <2>4
  <2> QED BY ZenonT(60), <1>1, <1>8, <1>9, <2>3, <2>4, <2>5, <2>6, <2>7, MessageAppended
<1> QED BY <1>10, <1>11

\* Shutdown sends the import's references back, unless a later importClient has them.
LEMMA ShutdownInv ==
  ASSUME IInv, NEW h \in Clients, Shutdown(h)
  PROVE  IInv'
<1>0. /\ TypeOK /\ ClientInv /\ client \in [Clients -> ImportClient]
      /\ imports \in [ID -> Import \cup {nil}]
  BY DEF IInv, TypeOK
<1>1. client[h].state = "closing" /\ UNCHANGED <<exporterVars, toImporter, lost>>
  BY DEF Shutdown
<1>2. PICK id \in ID : id = client[h].id
  BY SMTT(60), <1>0 DEF ImportClient
<1>3. NoClient \in ImportClient /\ NoClient.state = "none" /\ ~NoClient.busy
  <2>1. 0 \in ID
    BY TableAssumption DEF ID
  <2> QED BY <2>1 DEF NoClient, ImportClient
<1>4. ClientOK(h)
  BY <1>0 DEF ClientInv
<1>5. ASSUME client'[h] = NoClient PROVE ClientOK(h)'
  <2>1. ~Live(h)' /\ ~Dying(h)' /\ ~Own(h)' /\ ~client'[h].busy
    BY <1>3, <1>5 DEF Live, Dying, Own
  <2> QED BY <2>1 DEF ClientOK
<1>6. exports' = exports
  BY <1>1 DEF exporterVars
<1>7. CASE ~Current(h)
  <2>1. client' = [client EXCEPT ![h] = NoClient] /\ imports' = imports /\ toExporter' = toExporter
    BY SMTT(60), <1>2, <1>7 DEF Shutdown, Current
  <2>2. fault' \in {fault, "nilEntry"}
    BY <1>2, <1>7 DEF Shutdown, Current, Abort
  <2>3. /\ client'[h] = NoClient /\ \A k \in Clients : k # h => client'[k] = client[k]
        /\ client' \in [Clients -> ImportClient]
    BY ZenonT(60), <1>0, <1>3, <2>1
  <2>4. ASSUME NEW k \in Clients, k # h PROVE ClientOK(k)'
    <3>1. client'[k] = client[k]
      BY SMTT(60), <2>3, <2>4
    <3>2. /\ Live(k)' <=> Live(k)
          /\ Dying(k)' <=> Dying(k)
          /\ Own(k)' <=> Own(k)
          /\ Current(k)' <=> Current(k)
      BY <2>1, <3>1 DEF Live, Dying, Own, Current
    <3>3. ClientOK(k)
      BY <1>0 DEF ClientInv
    <3> QED BY ZenonT(60), <1>6, <2>1, <3>1, <3>2, <3>3 DEF ClientOK
  <2>5. ClientInv'
    BY <1>5, <2>3, <2>4 DEF ClientInv
  <2> QED BY SMTT(60), <1>1, <2>1, <2>2, <2>3, <2>5, OnlyClients
<1>8. CASE Current(h)
  <2> DEFINE m == [type |-> "release", id |-> id, count |-> imports[id].wireRefs]
  <2>0. imports[id] # nil
    BY SMTT(60), <1>2, <1>8 DEF Current
  <2>1. imports' = [imports EXCEPT ![id] = nil] /\ toExporter' = Append(toExporter, m) /\ fault' = fault
    BY <1>2, <1>8, <2>0 DEF Shutdown
  <2>2. imports[id].wireRefs \in Nat \ {0}
    BY SMTT(60), <1>0, <2>0 DEF Import
  <2>3. /\ m \in ToExporter /\ m.type = "release" /\ m.id = id /\ m.count = imports[id].wireRefs
    BY <2>2 DEF ToExporter
  <2> HIDE DEF m
  <2>4. /\ imports'[id] = nil /\ imports' \in [ID -> Import \cup {nil}]
        /\ \A j \in ID : j # id => imports'[j] = imports[j]
    BY <1>0, <2>1
  <2>5. \A j \in ID : Imported(j) = Imported(j)' + Returns(m, j) /\ Imported(j)' \in Nat
    <3> TAKE j \in ID
    <3>1. CASE j = id
      <4>1. Imported(j)' = 0 /\ Imported(j) = imports[id].wireRefs /\ Returns(m, j) = imports[id].wireRefs
        BY SMTT(60), <2>0, <2>3, <2>4, <3>1 DEF Imported, Returns
      <4> QED BY SMTT(60), <2>2, <4>1
    <3>2. CASE j # id
      <4>1. Imported(j)' = Imported(j) /\ Returns(m, j) = 0
        BY ZenonT(60), <2>3, <2>4, <3>2 DEF Imported, Returns
      <4>2. Imported(j) \in Nat
        BY SMTT(60), <1>0, RefTypes
      <4> QED BY SMTT(60), <4>1, <4>2
    <3> QED BY <3>1, <3>2
  <2>6. client' = Deleted(h)
    BY <1>2, <1>8, <2>0 DEF Shutdown
  <2>7. /\ client'[h] = NoClient
        /\ \A k \in Clients : k # h =>
              client'[k] = IF Outlived(k, h) THEN [client[k] EXCEPT !.outlived = TRUE] ELSE client[k]
    BY ZenonT(60), <2>6 DEF Deleted
  <2>8. ASSUME NEW k \in Clients, k # h
        PROVE  /\ client'[k] \in ImportClient
               /\ client'[k].state = client[k].state /\ client'[k].busy = client[k].busy
               /\ client'[k].id = client[k].id /\ client'[k].generation = client[k].generation
               /\ client'[k].cap = client[k].cap
               /\ client'[k].outlived = (client[k].outlived \/ Outlived(k, h))
    <3>1. client[k] \in ImportClient
      BY SMTT(60), <1>0
    <3>2. CASE Outlived(k, h)
      <4>1. client'[k] = [client[k] EXCEPT !.outlived = TRUE]
        BY <2>7, <2>8, <3>2
      <4>2. client'[k] \in ImportClient
        BY ZenonT(60), <3>1, <4>1 DEF ImportClient
      <4>3. /\ client'[k].state = client[k].state /\ client'[k].busy = client[k].busy
            /\ client'[k].id = client[k].id /\ client'[k].generation = client[k].generation
            /\ client'[k].cap = client[k].cap /\ client'[k].outlived = TRUE
        BY <3>1, <4>1 DEF ImportClient
      <4> QED BY ZenonT(60), <3>2, <4>2, <4>3
    <3>3. CASE ~Outlived(k, h)
      <4>1. client'[k] = client[k]
        BY ZenonT(60), <2>7, <2>8, <3>3
      <4>2. client[k].outlived \in BOOLEAN
        BY <3>1 DEF ImportClient
      <4> QED BY <3>1, <3>3, <4>1, <4>2
    <3> QED BY <3>2, <3>3
  <2>9. client' \in [Clients -> ImportClient]
    <3>1. \A k \in Clients : client'[k] \in ImportClient
      BY <1>3, <2>7, <2>8
    <3> QED BY <2>6, <3>1 DEF Deleted
  <2>10. ASSUME NEW k \in Clients, k # h PROVE ClientOK(k)'
    <3>1. ClientOK(k)
      BY <1>0 DEF ClientInv
    <3>2. /\ Live(k)' <=> Live(k)
          /\ Dying(k)' <=> Dying(k)
          /\ Own(k)' => Own(k) /\ ~Outlived(k, h)
      BY ZenonT(60), <2>8, <2>10 DEF Live, Dying, Own
    <3>3. Own(k)' => client[k].id # id
      <4>1. SUFFICES ASSUME Own(k), ~Outlived(k, h), client[k].id = id PROVE FALSE
        BY <3>2
      <4>2. Live(k) /\ ~client[h].outlived
        BY <1>2, <4>1 DEF Outlived, Own, Live, Dying
      <4>3. imports[id].wc = k
        BY SMTT(60), <3>1, <4>1, <4>2 DEF ClientOK
      <4>4. imports[id].wc = h
        BY SMTT(60), <1>1, <1>2, <1>4, <1>8, <4>2 DEF ClientOK, Own, Dying
      <4> QED BY <2>10, <4>3, <4>4
    <3>4. ASSUME Own(k)' PROVE imports'[client'[k].id] = imports[client[k].id]
      <4>1. client[k].id \in ID
        BY SMTT(60), <1>0 DEF ImportClient
      <4> QED BY <2>4, <2>8, <2>10, <3>3, <3>4, <4>1
    <3>5. ASSUME Own(k)' PROVE Current(k)' <=> Current(k)
      BY <2>8, <2>10, <3>4, <3>5 DEF Current
    <3> QED BY ZenonT(60), <1>6, <2>8, <2>10, <3>1, <3>2, <3>4, <3>5 DEF ClientOK
  <2>11. ClientInv'
    BY <1>5, <2>7, <2>10 DEF ClientInv
  <2>12. \A j \in ID : imports[j] # nil => imports'[j] # nil \/ (m.type = "release" /\ m.id = j)
    BY <2>3, <2>4
  <2> QED BY ZenonT(30), <1>1, <2>1, <2>3, <2>4, <2>5, <2>9, <2>11, <2>12, MessageAppended
<1> QED BY <1>7, <1>8

\* A descriptor is lost with its message.
LEMMA LoseDescriptorInv ==
  ASSUME IInv, LoseDescriptor
  PROVE  IInv'
<1>0. /\ TypeOK /\ TableInv /\ (\A i \in ID : Balanced(i)) /\ DescriptorInv /\ UseInv /\ ClientInv
      /\ fault \in {"none", "nilEntry"} /\ toImporter \in Seq(Descriptor) /\ lost \in [ID -> Nat]
  BY Parts DEF IInv, TypeOK
<1>1. /\ exports' = exports /\ wireRefs' = wireRefs /\ metadata' = metadata /\ held' = held
      /\ imports' = imports /\ client' = client /\ toExporter' = toExporter /\ fault' = fault
  BY DEF LoseDescriptor, exporterVars, importerVars
<1>2. PICK k \in 1..Len(toImporter) :
        /\ toImporter' = Without(toImporter, k)
        /\ lost' = IF toImporter[k].discarded THEN lost ELSE [lost EXCEPT ![toImporter[k].id] = @ + 1]
  BY Zenon DEF LoseDescriptor
<1> DEFINE q == toImporter
           r == Without(toImporter, k)
<1>3. /\ r \in Seq(Descriptor) /\ Len(q) = Len(r) + 1 /\ Len(r) \in Nat /\ toImporter[k] \in Descriptor
      /\ \A i \in 1..Len(r) : r[i] = IF i < k THEN q[i] ELSE q[i + 1]
  <2>1. Len(q) \in Nat /\ toImporter[k] \in Descriptor
    BY <1>0, LenProperties
  <2>2. /\ r \in Seq(Descriptor) /\ Len(r) = Len(q) - 1
        /\ \A i \in 1..(Len(q) - 1) : r[i] = IF i < k THEN q[i] ELSE q[i + 1]
    BY ZenonT(60), <1>0, WithoutProperties DEF Without
  <2> HIDE DEF r
  <2> QED BY <2>1, <2>2
<1> HIDE DEF r
<1>4. toImporter[k].id \in ID /\ toImporter[k].discarded \in BOOLEAN
  BY <1>3 DEF Descriptor
<1>5. toImporter' = r
  BY <1>2 DEF r
<1>6. lost' \in [ID -> Nat] /\ \A j \in ID : lost'[j] = lost[j] + Arrives(toImporter[k], j)
  <2>1. CASE toImporter[k].discarded
    BY <1>0, <1>2, <2>1 DEF Arrives
  <2>2. CASE ~toImporter[k].discarded
    BY <1>0, <1>2, <1>4, <2>2 DEF Arrives
  <2> QED BY <2>1, <2>2
<1>7. TypeOK'
  BY Zenon, <1>0, <1>1, <1>3, <1>5, <1>6 DEF TypeOK
<1>8. ASSUME NEW j \in ID PROVE Balanced(j)'
  <2>1. Arrives(toImporter[k], j) \in Nat
    BY DEF Arrives
  <2>2. Arriving(j) = Arrives(toImporter[k], j) + Arriving(j)' /\ Arriving(j)' \in Nat
    <3>1. Arriving(j) = ArrivingIn(q, j) /\ Arriving(j)' = ArrivingIn(r, j)
      BY <1>5 DEF Arriving, ArrivingIn
    <3>2. ArrivingIn(q, j) = Arrives(q[k], j) + ArrivingIn(r, j)
      BY SMTT(60), <1>0, <1>3, ArrivingDrop
    <3>3. ArrivingIn(r, j) \in Nat
      BY <1>3, ArrivingType
    <3> QED BY <3>1, <3>2, <3>3
  <2>3. wireRefs[j] = Arriving(j) + Imported(j) + Returning(j) + held[j] + lost[j]
    BY <1>0 DEF Balanced
  <2>4. Imported(j)' = Imported(j) /\ Returning(j)' = Returning(j)
    BY <1>1 DEF Imported, Returning
  <2>5. wireRefs'[j] = wireRefs[j] /\ held'[j] = held[j] /\ lost'[j] = lost[j] + Arrives(toImporter[k], j)
    BY SMTT(60), <1>1, <1>6
  <2>6. Imported(j) \in Nat /\ Returning(j) \in Nat /\ held[j] \in Nat /\ lost[j] \in Nat
    BY SMTT(60), <1>0, RefTypes
  <2>7. wireRefs'[j] = Arriving(j)' + Imported(j)' + Returning(j)' + held'[j] + lost'[j]
    BY SMTT(60), <2>1, <2>2, <2>3, <2>4, <2>5, <2>6
  <2> QED BY <2>7 DEF Balanced
<1>9. RefsBalance'
  <2>1. TableInv'
    BY ZenonT(60), <1>0, <1>1 DEF TableInv
  <2> QED BY ZenonT(60), <1>8, <2>1 DEF RefsBalance, TableInv, Balanced
<1>10. DescriptorInv'
  <2>1. ASSUME NEW i \in 1..Len(r), ~r[i].discarded PROVE exports[r[i].id] = r[i].cap
    <3>1. CASE i < k
      BY SMTT(60), <1>0, <1>3, <2>1, <3>1 DEF DescriptorInv
    <3>2. CASE ~(i < k)
      BY SMTT(60), <1>0, <1>3, <2>1, <3>2 DEF DescriptorInv
    <3> QED BY SMTT(60), <3>1, <3>2
  <2> QED BY ZenonT(60), <1>1, <1>5, <2>1 DEF DescriptorInv
<1>11. UseInv'
  <2>1. \A j \in ID : lost[j] > 0 => lost'[j] > 0
    <3> TAKE j \in ID
    <3>1. lost'[j] = lost[j] + Arrives(toImporter[k], j) /\ Arrives(toImporter[k], j) \in Nat /\ lost[j] \in Nat
      BY SMTT(60), <1>0, <1>6 DEF Arrives
    <3> QED BY <3>1
  <2>2. ASSUME NEW i \in 1..Len(toExporter), toExporter[i].type = "use"
        PROVE  (toExporter[i].stale \/ exports'[toExporter[i].id] = toExporter[i].cap) /\ Covered(i, toExporter[i].id)'
    <3>1. toExporter[i] \in ToExporter
      BY <1>0, LenProperties DEF TypeOK
    <3>2. toExporter[i].id \in ID
      BY SMTT(60), <3>1 DEF ToExporter
    <3>3. (toExporter[i].stale \/ exports[toExporter[i].id] = toExporter[i].cap) /\ Covered(i, toExporter[i].id)
      BY ZenonT(60), <1>0, <2>2 DEF UseInv
    <3>4. Covered(i, toExporter[i].id)'
      BY SMTT(60), <1>1, <2>1, <3>2, <3>3 DEF Covered
    <3> QED BY SMTT(60), <1>1, <3>3, <3>4
  <2> QED BY SMTT(60), <1>1, <2>2 DEF UseInv
<1>12. ClientInv'
  BY ZenonT(60), <1>0, <1>1 DEF ClientInv, ClientOK, Own, Live, Dying, Current
<1> QED BY SMTT(60), <1>0, <1>1, <1>7, <1>9, <1>10, <1>11, <1>12 DEF IInv

\* A message to the exporter is lost; what a lost Release named stays exported.
LEMMA LoseMessageInv ==
  ASSUME IInv, LoseMessage
  PROVE  IInv'
<1>0. /\ TypeOK /\ TableInv /\ (\A i \in ID : Balanced(i)) /\ DescriptorInv /\ UseInv /\ ClientInv
      /\ fault \in {"none", "nilEntry"} /\ toExporter \in Seq(ToExporter) /\ lost \in [ID -> Nat]
  BY Parts DEF IInv, TypeOK
<1>1. /\ exports' = exports /\ wireRefs' = wireRefs /\ metadata' = metadata /\ held' = held
      /\ imports' = imports /\ client' = client /\ toImporter' = toImporter /\ fault' = fault
  BY DEF LoseMessage, exporterVars, importerVars
<1>2. PICK k \in 1..Len(toExporter) :
        /\ toExporter' = Without(toExporter, k)
        /\ lost' = IF toExporter[k].type = "release"
                     THEN [lost EXCEPT ![toExporter[k].id] = @ + toExporter[k].count] ELSE lost
  BY Zenon DEF LoseMessage
<1> DEFINE q == toExporter
           r == Without(toExporter, k)
<1>3. /\ r \in Seq(ToExporter) /\ Len(q) = Len(r) + 1 /\ Len(r) \in Nat /\ toExporter[k] \in ToExporter
      /\ \A i \in 1..Len(r) : r[i] = IF i < k THEN q[i] ELSE q[i + 1]
  <2>1. Len(q) \in Nat /\ toExporter[k] \in ToExporter
    BY <1>0, LenProperties
  <2>2. /\ r \in Seq(ToExporter) /\ Len(r) = Len(q) - 1
        /\ \A i \in 1..(Len(q) - 1) : r[i] = IF i < k THEN q[i] ELSE q[i + 1]
    BY ZenonT(60), <1>0, WithoutProperties DEF Without
  <2> HIDE DEF r
  <2> QED BY <2>1, <2>2
<1> HIDE DEF r
<1>4. toExporter[k].id \in ID /\ (toExporter[k].type = "release" => toExporter[k].count \in Nat \ {0})
  BY <1>3 DEF ToExporter
<1>5. toExporter' = r
  BY <1>2 DEF r
<1>6. lost' \in [ID -> Nat] /\ \A j \in ID : lost'[j] = lost[j] + Returns(toExporter[k], j)
  <2>1. CASE toExporter[k].type = "release"
    BY SMTT(60), <1>0, <1>2, <1>4, <2>1 DEF Returns
  <2>2. CASE toExporter[k].type # "release"
    BY <1>0, <1>2, <1>4, <2>2 DEF Returns
  <2> QED BY SMTT(60), <2>1, <2>2
<1>7. TypeOK'
  BY Zenon, <1>0, <1>1, <1>3, <1>5, <1>6 DEF TypeOK
<1>8. ASSUME NEW j \in ID PROVE Balanced(j)' /\ Returns(toExporter[k], j) \in Nat
  <2>1. Returns(toExporter[k], j) \in Nat
    BY SMTT(60), <1>4 DEF Returns
  <2>2. Returning(j) = Returns(toExporter[k], j) + Returning(j)' /\ Returning(j)' \in Nat
    <3>1. Returning(j) = ReturningIn(q, j) /\ Returning(j)' = ReturningIn(r, j)
      BY <1>5 DEF Returning, ReturningIn
    <3>2. ReturningIn(q, j) = Returns(q[k], j) + ReturningIn(r, j)
      BY <1>0, <1>3, ReturningDrop
    <3>3. ReturningIn(r, j) \in Nat
      BY <1>3, ReturningType
    <3> QED BY <3>1, <3>2, <3>3
  <2>3. wireRefs[j] = Arriving(j) + Imported(j) + Returning(j) + held[j] + lost[j]
    BY <1>0 DEF Balanced
  <2>4. Imported(j)' = Imported(j) /\ Arriving(j)' = Arriving(j)
    BY <1>1 DEF Imported, Arriving
  <2>5. wireRefs'[j] = wireRefs[j] /\ held'[j] = held[j] /\ lost'[j] = lost[j] + Returns(toExporter[k], j)
    BY <1>1, <1>6
  <2>6. Imported(j) \in Nat /\ Arriving(j) \in Nat /\ held[j] \in Nat /\ lost[j] \in Nat
    BY SMTT(60), <1>0, RefTypes
  <2>7. wireRefs'[j] = Arriving(j)' + Imported(j)' + Returning(j)' + held'[j] + lost'[j]
    BY SMTT(60), <2>1, <2>2, <2>3, <2>4, <2>5, <2>6
  <2> QED BY <2>1, <2>7 DEF Balanced
<1>9. RefsBalance'
  <2>1. TableInv'
    BY <1>0, <1>1 DEF TableInv
  <2> QED BY ZenonT(30), <1>8, <2>1 DEF RefsBalance, TableInv, Balanced
<1>10. DescriptorInv' /\ ClientInv'
  BY ZenonT(30), <1>0, <1>1 DEF DescriptorInv, ClientInv, ClientOK, Own, Live, Dying, Current
<1>11. UseInv'
  <2>1. \A j \in ID : lost[j] > 0 => lost'[j] > 0
    <3> TAKE j \in ID
    <3>1. lost'[j] = lost[j] + Returns(toExporter[k], j) /\ Returns(toExporter[k], j) \in Nat /\ lost[j] \in Nat
      BY ZenonT(30), <1>0, <1>6, <1>8
    <3> QED BY <3>1
  <2>2. ASSUME NEW i \in 1..Len(r), r[i].type = "use"
        PROVE  /\ r[i].stale \/ exports[r[i].id] = r[i].cap
               /\ \/ imports[r[i].id] # nil
                  \/ lost'[r[i].id] > 0
                  \/ \E l \in 1..Len(r) : l > i /\ r[l].type = "release" /\ r[l].id = r[i].id
    <3>1. PICK o \in 1..Len(q) : r[i] = q[o] /\ o = IF i < k THEN i ELSE i + 1
      <4>1. CASE i < k
        BY <1>3, <4>1
      <4>2. CASE ~(i < k)
        BY <1>3, <4>2
      <4> QED BY <4>1, <4>2
    <3>2. r[i] \in ToExporter
      BY <1>3, LenProperties
    <3>3. PICK id \in ID : id = r[i].id
      BY ZenonT(30), <3>2 DEF ToExporter
    <3>4. (r[i].stale \/ exports[id] = r[i].cap) /\ Covered(o, id)
      BY <1>0, <2>2, <3>1, <3>3 DEF UseInv
    <3>5. CASE imports[id] # nil \/ lost[id] > 0
      BY ZenonT(30), <2>1, <3>3, <3>4, <3>5
    <3>6. CASE \E l \in 1..Len(q) : l > o /\ q[l].type = "release" /\ q[l].id = id
      <4>1. PICK l \in 1..Len(q) : l > o /\ q[l].type = "release" /\ q[l].id = id
        BY ZenonT(30), <3>6
      <4>2. CASE l = k
        <5>1. Returns(toExporter[k], id) > 0 /\ Returns(toExporter[k], id) \in Nat
          BY SMTT(60), <1>4, <4>1, <4>2 DEF Returns
        <5>2. lost'[id] = lost[id] + Returns(toExporter[k], id) /\ lost[id] \in Nat
          BY SMTT(60), <1>0, <1>6
        <5>3. lost'[id] > 0
          BY SMTT(60), <5>1, <5>2
        <5> QED BY SMTT(60), <3>3, <3>4, <5>3
      <4>3. CASE l # k
        <5> DEFINE n == IF l < k THEN l ELSE l - 1
        <5>1. n \in 1..Len(r) /\ n > i /\ r[n] = q[l]
          <6>1. CASE l < k
            BY SMTT(60), <1>3, <3>1, <4>1, <6>1
          <6>2. CASE l > k
            BY SMTT(60), <1>3, <3>1, <4>1, <6>2
          <6> QED BY SMTT(60), <4>3, <6>1, <6>2
        <5> HIDE DEF n
        <5>2. \E l1 \in 1..Len(r) : l1 > i /\ r[l1].type = "release" /\ r[l1].id = id
          BY <4>1, <5>1
        <5> QED BY SMTT(60), <3>3, <3>4, <5>2
      <4> QED BY <4>2, <4>3
    <3> QED BY SMTT(60), <3>4, <3>5, <3>6 DEF Covered
  <2> QED BY ZenonT(60), <1>1, <1>5, <2>2 DEF UseInv, Covered
<1> QED BY ZenonT(60), <1>0, <1>1, <1>7, <1>9, <1>10, <1>11 DEF IInv

-------------------------------------------------------------------------------
(* The theorems.                                                           *)

\* The tables begin empty.
LEMMA InitInv ==
  Init => IInv
<1> SUFFICES ASSUME Init PROVE IInv
  OBVIOUS
<1>1. /\ exports = [i \in ID |-> nil] /\ wireRefs = [i \in ID |-> 0] /\ metadata = [c \in Caps |-> nil]
      /\ held = [i \in ID |-> 0] /\ toImporter = <<>> /\ imports = [i \in ID |-> nil]
      /\ client = [h \in Clients |-> NoClient] /\ toExporter = <<>> /\ lost = [i \in ID |-> 0]
      /\ fault \in {"none", "nilEntry"}
  BY DEF Init
<1>2. nil \notin Caps /\ nil \notin ID /\ 0 \in ID
  BY SMTT(60), TableAssumption DEF ID
<1>3. NoClient \in ImportClient
  BY <1>2 DEF NoClient, ImportClient
<1>4. toImporter \in Seq(Descriptor) /\ toExporter \in Seq(ToExporter) /\ Len(toImporter) = 0 /\ Len(toExporter) = 0
  BY <1>1, EmptySeq
<1>5. TypeOK
  <2>1. /\ exports \in [ID -> Caps \cup {nil}] /\ wireRefs \in [ID -> Nat] /\ metadata \in [Caps -> ID \cup {nil}]
        /\ held \in [ID -> Nat] /\ imports \in [ID -> Import \cup {nil}] /\ lost \in [ID -> Nat]
    BY <1>1
  <2>2. client \in [Clients -> ImportClient]
    BY <1>1, <1>3
  <2> QED BY <1>1, <1>4, <2>1, <2>2 DEF TypeOK
<1>6. RefsBalance
  <2>1. ASSUME NEW id \in ID
        PROVE  wireRefs[id] = Arriving(id) + Imported(id) + Returning(id) + held[id] + lost[id]
    <3>1. Arriving(id) = 0 /\ Returning(id) = 0
      <4> DEFINE f == [i \in 1..0 |-> Arrives(toImporter[i], id)]
                 g == [i \in 1..0 |-> Returns(toExporter[i], id)]
      <4>1. f \in [1..0 -> Nat] /\ g \in [1..0 -> Nat] /\ DOMAIN f = {} /\ DOMAIN g = {}
        OBVIOUS
      <4>2. Arriving(id) = SumFunction(f) /\ Returning(id) = SumFunction(g)
        BY <1>4 DEF Arriving, Returning
      <4> HIDE DEF f, g
      <4>3. SumFunction(f) = 0 /\ SumFunction(g) = 0
        BY <4>1, SumEmpty DEF SumFunction
      <4> QED BY <4>2, <4>3
    <3>2. Imported(id) = 0
      BY <1>1 DEF Imported
    <3> QED BY <1>1, <3>1, <3>2
  <2> QED BY <1>1, <1>2, <2>1 DEF RefsBalance
<1>7. DescriptorInv /\ UseInv
  BY SMTT(60), <1>4 DEF DescriptorInv, UseInv
<1>8. ClientInv
  BY <1>1 DEF ClientInv, ClientOK, NoClient, Own, Live, Dying
<1> QED BY <1>1, <1>5, <1>6, <1>7, <1>8 DEF IInv

\* Every step of either vat, and every loss, preserves the invariant.
LEMMA NextInv ==
  ASSUME IInv, [Next]_vars
  PROVE  IInv'
<1>1. ASSUME NEW c \in Caps, NEW discarded \in BOOLEAN, SendDescriptor(c, discarded) PROVE IInv'
  BY <1>1, SendDescriptorInv
<1>2. ASSUME NEW id \in ID, ReleaseResultCaps(id) PROVE IInv'
  BY <1>2, ReleaseResultCapsInv
<1>3. CASE ExporterReceive
  BY <1>3, ExporterReceiveInv
<1>4. CASE ImporterReceive
  BY <1>4, ImporterReceiveInv
<1>5. ASSUME NEW h \in Clients, startCall(h) \/ Send(h) \/ Release(h) \/ Shutdown(h) PROVE IInv'
  BY <1>5, StartCallInv, SendInv, ReleaseInv, ShutdownInv
<1>6. CASE LoseDescriptor \/ LoseMessage
  BY <1>6, LoseDescriptorInv, LoseMessageInv
<1>7. CASE UNCHANGED vars
  BY <1>7, Stutter
<1> QED BY SMTT(60), <1>1, <1>2, <1>3, <1>4, <1>5, <1>6, <1>7 DEF Next

\* The inductive invariant.
THEOREM ReferenceInvariant ==
  Spec => []IInv
<1>1. Init => IInv
  BY InitInv
<1>2. IInv /\ [Next]_vars => IInv'
  BY NextInv
<1> QED BY <1>1, <1>2, PTL DEF Spec

\* No reference is lost, counted twice or released twice, whatever the order in
\* which descriptors, Releases and Finishes cross (sendCap, addImport, Shutdown,
\* handleRelease, destroy), and an export lives exactly as long as it has references.
THEOREM ReferencesBalance ==
  Spec => []RefsBalance
<1>1. IInv => RefsBalance
  BY DEF IInv
<1> QED BY <1>1, ReferenceInvariant, PTL

\* A message that names an import finds an export, the one it was imported from
\* unless the importClient that sent it was outlived by its import, and no Release
\* names more references than there are.
THEOREM MessagesReachExport ==
  Spec => []UseReachesExport
<1>1. IInv => UseReachesExport
  <2>1. SUFFICES ASSUME IInv PROVE UseReachesExport
    OBVIOUS
  <2>2. ASSUME NEW i \in 1..Len(toExporter), toExporter[i].type = "use"
        PROVE  exports[toExporter[i].id] # nil
    <3>1. toExporter[i] \in ToExporter /\ i \in Nat
      BY <2>1, LenProperties DEF IInv, TypeOK
    <3>2. PICK id \in ID : id = toExporter[i].id
      BY <3>1 DEF ToExporter
    <3>3. Imported(id) + Returning(id) + lost[id] > 0
      BY SMTT(60), <2>1, <2>2, <3>1, <3>2, CoveredRefs DEF IInv, UseInv
    <3>4. /\ Arriving(id) \in Nat /\ Imported(id) \in Nat /\ Returning(id) \in Nat
          /\ held[id] \in Nat /\ lost[id] \in Nat
      BY SMTT(60), <2>1, RefTypes DEF IInv
    <3>5. wireRefs[id] > 0
      <4>1. wireRefs[id] = Arriving(id) + Imported(id) + Returning(id) + held[id] + lost[id]
        BY ZenonT(60), <2>1 DEF IInv, RefsBalance
      <4> QED BY SMTT(60), <3>3, <3>4, <4>1
    <3> QED BY <2>1, <3>2, <3>5 DEF IInv, RefsBalance
  <2> QED BY <2>1, <2>2 DEF IInv, UseReachesExport, UseInv
<1> QED BY <1>1, ReferenceInvariant, PTL

\* A Client that the application holds is usable and stands for the capability it
\* was made for, and the Shutdown of one that is given up finds an entry, unless the
\* import has outlived the importClient.
THEOREM LiveClientUsable ==
  Spec => []LiveImportUsable
<1>1. IInv => LiveImportUsable
  <2>1. SUFFICES ASSUME IInv, NEW h \in Clients, ~client[h].outlived
                 PROVE  /\ Live(h) => Current(h) /\ exports[client[h].id] = client[h].cap
                        /\ client[h].state = "closing" => imports[client[h].id] # nil
    BY DEF LiveImportUsable
  <2>2. ClientOK(h)
    BY <2>1 DEF IInv, ClientInv
  <2> QED BY SMTT(60), <2>1, <2>2 DEF ClientOK, Own, Dying
<1> QED BY <1>1, ReferenceInvariant, PTL
================================================================================
