----------------------------- MODULE MessageBuild -----------------------------
(***************************************************************************)
(* An application that builds two messages, one in a single-segment arena  *)
(* and one in a multi-segment arena: it allocates structs and lists, sets  *)
(* data, and links objects by near, far and double-far pointers, within a  *)
(* message and (by deep copy) across the two.                              *)
(***************************************************************************)
EXTENDS MessageOps

CONSTANTS
  StructSizes,   \* the sizes of the structs built
  ListSizes,     \* the sizes of the elements of the lists of structs built
  ListLen,       \* the length of the lists built
  MaxObjs,       \* bound on the objects the application holds
  MaxWords,      \* bound on the words of a message
  MaxSets        \* bound on the pointers it sets

VARIABLES
  heap,   \* the two messages
  objs,   \* the objects the application holds
  set,    \* the last pointer set: the slot and what was put there
  sets    \* how many it has set

buildVars == <<heap, objs, set, sets>>

Messages == {"single", "multi"}

NoSet == [k |-> "none"]

Init ==
  /\ heap = [m \in Messages |-> EmptyMessage(m)]
  /\ objs = <<>>
  /\ set = NoSet
  /\ sets = 0

Small(h) ==
  \A m \in Messages : FoldSeq(LAMBDA seg, sum : sum + Len(seg.words), 0, h[m].segs) <= MaxWords

\* A New* call returned object r.p.
Hold(r) ==
  /\ Len(objs) < MaxObjs
  /\ r.ok
  /\ Small(r.h)
  /\ heap' = r.h
  /\ objs' = Append(objs, r.p)
  /\ set' = NoSet
  /\ UNCHANGED sets

BuildStruct ==
  \E m \in Messages, sz \in StructSizes : \E i \in DOMAIN heap[m].segs : Hold(NewStruct(heap, m, i - 1, sz))

BuildCompositeList ==
  \E m \in Messages, sz \in ListSizes : \E i \in DOMAIN heap[m].segs :
    Hold(NewCompositeList(heap, m, i - 1, sz, ListLen))

BuildPointerList ==
  \E m \in Messages : \E i \in DOMAIN heap[m].segs : Hold(NewPointerList(heap, m, i - 1, ListLen))

BuildBitList ==
  \E m \in Messages : Hold(NewBitList(heap, m, 0, ListLen))

\* List.Struct: a struct inside a list.
Element ==
  \E i \in DOMAIN objs :
    /\ objs[i].k = "list" /\ objs[i].kind = "composite"
    /\ \E j \in 0..(objs[i].len - 1) : Hold([ok |-> TRUE, h |-> heap, p |-> ListStruct(objs[i], j)])

\* Struct.SetUint64 of the first data word.
SetUint64 ==
  \E i \in DOMAIN objs :
    /\ objs[i].k = "struct" /\ objs[i].size.data > 0
    /\ DataWord(heap, objs[i], 0) = 0
    /\ heap' = writeRawPointer(heap, objs[i].m, objs[i].s, objs[i].off, i)
    /\ set' = NoSet
    /\ UNCHANGED <<objs, sets>>

\* Struct.SetPtr, PointerList.Set and Message.SetRoot.  The application links
\* an object only to ones it got later, so what it builds has no cycle.
Wrote(w, how) ==
  /\ sets < MaxSets
  /\ w.ok
  /\ Small(w.h)
  /\ heap' = w.h
  /\ set' = how
  /\ sets' = sets + 1
  /\ UNCHANGED objs

WriteAt(m, s, addr, src) ==
  Wrote(writePtr(heap, m, s, addr, src, FALSE), [k |-> "set", m |-> m, s |-> s, addr |-> addr, src |-> src])

Later(i) == {Null} \cup {objs[k] : k \in {j \in DOMAIN objs : j > i}}

SetPtr ==
  \E i \in DOMAIN objs :
    /\ objs[i].k = "struct"
    /\ \E j \in 0..(objs[i].size.ptrs - 1) : \E src \in Later(i) :
         WriteAt(objs[i].m, objs[i].s, pointerAddress(objs[i], j), src)

SetElement ==
  \E i \in DOMAIN objs :
    /\ objs[i].k = "list" /\ objs[i].kind = "plain" /\ objs[i].size.ptrs = 1
    /\ \E j \in 0..(objs[i].len - 1) : \E src \in Later(i) :
         WriteAt(objs[i].m, objs[i].s, element(objs[i].off, j, wordSize), src)

SetRoot == \E m \in Messages : \E src \in Later(0) : WriteAt(m, 0, 0, src)

\* List.SetStruct: the element is overwritten by a deep copy.
SetStruct ==
  \E i, k \in DOMAIN objs :
    /\ i < k
    /\ objs[i].k = "list" /\ objs[i].kind = "composite" /\ objs[i].len > 0
    /\ objs[k].k = "struct"
    /\ Wrote(copyStruct(heap, ListStruct(objs[i], 0), objs[k]),
             [k |-> "copy", dst |-> ListStruct(objs[i], 0), src |-> objs[k]])

Next ==
  \/ BuildStruct \/ BuildCompositeList \/ BuildPointerList \/ BuildBitList
  \/ Element \/ SetUint64 \/ SetPtr \/ SetElement \/ SetRoot \/ SetStruct

Spec == Init /\ [][Next]_buildVars

-------------------------------------------------------------------------------
RECURSIVE Value(_, _, _)

\* What an application sees of an object, to depth d: its data and what its
\* pointers lead to.
Value(h, p, d) ==
  IF p.k \in {"null", "error", "iface"} \/ d = 0 THEN <<p.k>>
  ELSE IF p.k = "struct"
  THEN <<"struct",
         [i \in 0..(dataWordCount(p.size) - 1) |-> DataWord(h, p, i)],
         [i \in 0..(p.size.ptrs - 1) |-> Value(h, Field(h, p, i), d - 1)]>>
  ELSE IF p.kind = "bit" THEN <<"bits", p.len>>
  ELSE IF p.kind = "plain"
  THEN <<"list", p.len, [i \in 0..(p.len - 1) |-> Value(h, readPtr(h, p.m, p.s, element(p.off, i, wordSize), p.depth), d - 1)]>>
  ELSE <<"structs", [i \in 0..(p.len - 1) |-> Value(h, ListStruct(p, i), d - 1)]>>

SameObject(p, q) == p.k = q.k /\ (p.k # "null" => [p EXCEPT !.depth = 0] = [q EXCEPT !.depth = 0])

Copied(src, m) == src.k # "null" /\ (src.m # m \/ (src.k = "struct" /\ src.member))

\* The bytes of an object, a composite list's tag included.
ByteSize(p) == IF p.k = "list" THEN allocSize(p) ELSE totalSize(p.size)
Extent(p) == Start(p)..(Start(p) + ByteSize(p) - 1)

\* What the pointers of an object lead to.
Targets(h, p) ==
  CASE p.k = "struct" -> {Field(h, p, i) : i \in 0..(p.size.ptrs - 1)}
    [] p.k = "list" /\ p.kind = "composite" ->
         {Field(h, ListStruct(p, j), i) : j \in 0..(p.len - 1), i \in 0..(p.size.ptrs - 1)}
    [] p.k = "list" /\ p.kind = "plain" ->
         {readPtr(h, p.m, p.s, element(p.off, j, wordSize), p.depth) : j \in 0..(p.len - 1)}
    [] OTHER -> {}

\* A struct overwritten by a copy of another: their common part is equal, and
\* what the source lacks is zero or null.
IsCopy(h, dst, g, src) ==
  /\ \A i \in 0..(dataWordCount(dst.size) - 1) :
       DataWord(h, dst, i) = IF i < dataWordCount(src.size) THEN DataWord(g, src, i) ELSE 0
  /\ \A i \in 0..(dst.size.ptrs - 1) : Value(h, Field(h, dst, i), 4) = Value(g, Field(g, src, i), 4)

\* Setting a pointer changes one word of what was there: landing pads and
\* copies go to fresh words.
OneWord ==
  \A m \in Messages : \A s \in DOMAIN heap[m].segs : \A i \in DOMAIN heap[m].segs[s].words :
    \/ heap'[m].segs[s].words[i] = heap[m].segs[s].words[i]
    \/ m = set'.m /\ s = set'.s + 1 /\ i = set'.addr \div wordSize + 1

\* A pointer set is read back: the object that was put there, or, when it
\* lives in another message or inside a list, a fresh copy with the same
\* value (segment.go writePtr against readPtr: near, far and double-far).  No
\* other word of the two messages changes.  An element set reads as the struct
\* it was set to (struct.go copyStruct).
ReadBack ==
  [][/\ set'.k = "set" => OneWord
     /\ set'.k = "set" =>
          LET r == readPtr(heap', set'.m, set'.s, set'.addr, MaxDepth)
          IN  IF Copied(set'.src, set'.m)
              THEN /\ r.k = set'.src.k
                   /\ Value(heap', r, 4) = Value(heap, set'.src, 4)
                   /\ isZero(set'.src.size) \/ \A i \in DOMAIN objs :
                        (objs[i].m = r.m /\ objs[i].s = r.s) => Extent(objs[i]) \cap Extent(r) = {}
              ELSE SameObject(r, set'.src)
     /\ set'.k = "copy" => IsCopy(heap', set'.dst, heap, set'.src)]_buildVars

\* Every object that was built lies inside its segment, and so does what its
\* pointers lead to: nothing the application does makes a pointer unreadable
\* (the sizes of struct.go and list.go against the bounds of segment.go).
Readable ==
  \A k \in DOMAIN objs :
    /\ regionInBounds(Seg(heap, objs[k].m, objs[k].s), Start(objs[k]), ByteSize(objs[k]))
    /\ \A p \in Targets(heap, objs[k]) : p.k # "error"

===============================================================================
