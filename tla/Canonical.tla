------------------------------- MODULE Canonical -------------------------------
(***************************************************************************)
(* Equal (pointer.go) and Canonicalize (canonical.go) against the values   *)
(* of the objects they are given.  A value is a tree: a struct has data    *)
(* words and pointers, a list of structs has an element size and elements, *)
(* a list of pointers has elements, a list of words, bytes, bits or voids  *)
(* has values.  There are no capabilities.  The trees are built into       *)
(* messages with the operations of MessageOps.                             *)
(***************************************************************************)
EXTENDS MessageOps

CONSTANT Trees     \* the struct values compared

VARIABLES left, right   \* the two values compared
pairVars == <<left, right>>

RECURSIVE Build(_, _, _, _), Equal(_, _, _, _), SameTree(_, _, _), HasBits(_), ValueOf(_, _),
          canonicalPtr(_, _), fillCanonicalStruct(_, _, _)

Leaf == [k |-> "null"]
S(data, ptrs) == [k |-> "struct", data |-> data, ptrs |-> ptrs]
L(size, elems) == [k |-> "structs", size |-> size, elems |-> elems]
P(elems) == [k |-> "ptrs", elems |-> elems]
W(words) == [k |-> "words", vals |-> words]
B(bytes) == [k |-> "bytes", vals |-> bytes]
Bools(bits) == [k |-> "bits", vals |-> bits]
Voids(n) == [k |-> "voids", vals |-> [i \in 1..n |-> 0]]

(***************************************************************************)
(* Building a value in message m: the object, and the heap with it.        *)
(***************************************************************************)
LinkAt(m, s, addr, b) == writePtr(b.h, m, s, addr, b.p, FALSE).h

FillStruct(h, p, t) ==
  LET Data(g, i) == writeRawPointer(g, p.m, p.s, p.off + wordSize * (i - 1), t.data[i])
  IN  FoldLeft(LAMBDA g, i : LinkAt(p.m, p.s, pointerAddress(p, i - 1), Build(g, p.m, p.s, t.ptrs[i])),
               FoldLeft(Data, h, [i \in DOMAIN t.data |-> i]), [i \in DOMAIN t.ptrs |-> i])

NewObject(h, m, s, t) ==
  CASE t.k = "struct" -> NewStruct(h, m, s, ObjectSize(wordSize * Len(t.data), Len(t.ptrs)))
    [] t.k = "structs" -> NewCompositeList(h, m, s, t.size, Len(t.elems))
    [] t.k = "ptrs" -> NewPointerList(h, m, s, Len(t.elems))
    [] t.k = "words" -> newPrimitiveList(h, m, s, wordSize, Len(t.vals))
    [] t.k = "bytes" -> newPrimitiveList(h, m, s, 1, Len(t.vals))
    [] t.k = "bits" -> NewBitList(h, m, s, Len(t.vals))
    [] t.k = "voids" -> NewVoidList(h, m, s, Len(t.vals))

\* The Set of a list of words, bytes, bits or voids.
SetValue(h, p, i, t) ==
  CASE t.k = "words" -> writeRawPointer(h, p.m, p.s, p.off + wordSize * (i - 1), t.vals[i])
    [] t.k = "bytes" -> writeUint8(h, p.m, p.s, p.off + i - 1, t.vals[i])
    [] t.k = "bits" -> SetBitAt(h, p, i - 1, t.vals[i])
    [] t.k = "voids" -> h

Fill(h, p, t) ==
  CASE t.k = "struct" -> FillStruct(h, p, t)
    [] t.k = "structs" ->
         FoldLeft(LAMBDA g, i : FillStruct(g, ListStruct(p, i - 1), t.elems[i]), h, [i \in DOMAIN t.elems |-> i])
    [] t.k = "ptrs" ->
         FoldLeft(LAMBDA g, i : LinkAt(p.m, p.s, element(p.off, i - 1, wordSize), Build(g, p.m, p.s, t.elems[i])),
                  h, [i \in DOMAIN t.elems |-> i])
    [] OTHER -> FoldLeft(LAMBDA g, i : SetValue(g, p, i, t), h, [i \in DOMAIN t.vals |-> i])

FillNew(n, t) == [p |-> n.p, h |-> Fill(n.h, n.p, t)]

Build(h, m, s, t) == IF t.k = "null" THEN [h |-> h, p |-> Null] ELSE FillNew(NewObject(h, m, s, t), t)

Empty == [m \in {"single", "multi"} |-> EmptyMessage(m)]

(***************************************************************************)
(* When two values are the same: what is beyond the end of a struct is     *)
(* zero or null, and lists are compared element by element.  A list of     *)
(* pointers, words, bytes or voids is the same as a list of structs with   *)
(* one such field, unless the kinds of list must be the same.              *)
(***************************************************************************)
At(seq, i, default) == IF i \in DOMAIN seq THEN seq[i] ELSE default

SameStruct(s, t, kinds) ==
  /\ \A i \in DOMAIN s.data \cup DOMAIN t.data : At(s.data, i, 0) = At(t.data, i, 0)
  /\ \A i \in DOMAIN s.ptrs \cup DOMAIN t.ptrs : SameTree(At(s.ptrs, i, Leaf), At(t.ptrs, i, Leaf), kinds)

Elems(t) == CASE t.k = "structs" -> t.elems
              [] t.k = "ptrs" -> [i \in DOMAIN t.elems |-> S(<<>>, <<t.elems[i]>>)]
              [] OTHER -> [i \in DOMAIN t.vals |-> S(<<t.vals[i]>>, <<>>)]

SameTree(s, t, kinds) ==
  CASE s.k = "null" \/ t.k = "null" -> s = t
    [] s.k = "struct" /\ t.k = "struct" -> SameStruct(s, t, kinds)
    [] s.k \notin {"null", "struct"} /\ t.k \notin {"null", "struct"} ->
         /\ s.k = t.k \/ (~kinds /\ "structs" \in {s.k, t.k})
         /\ Len(Elems(s)) = Len(Elems(t))
         /\ \A i \in DOMAIN Elems(s) : SameStruct(Elems(s)[i], Elems(t)[i], kinds)
    [] OTHER -> FALSE

\* The value of object p, read with Ptr, Uint64 and the At of its kind of list.
BitAt(h, l, i) == (readUint8(h, l.m, l.s, l.off + i \div ByteBits) \div 2 ^ (i % ByteBits)) % 2

ValueOf(h, p) ==
  LET Each(At1(_)) == [i \in 1..p.len |-> At1(i - 1)]
  IN  CASE p.k = "null" -> Leaf
        [] p.k = "struct" -> S([i \in 1..dataWordCount(p.size) |-> DataWord(h, p, i - 1)],
                               [i \in 1..p.size.ptrs |-> ValueOf(h, Field(h, p, i - 1))])
        [] p.k = "list" /\ p.kind = "composite" -> L(p.size, Each(LAMBDA i : ValueOf(h, ListStruct(p, i))))
        [] p.k = "list" /\ p.kind = "bit" -> Bools(Each(LAMBDA i : BitAt(h, p, i)))
        [] p.k = "list" /\ p.kind = "plain" ->
             CASE p.size = ZeroSize -> Voids(p.len)
               [] p.size = ObjectSize(1, 0) -> B(Each(LAMBDA i : readUint8(h, p.m, p.s, p.off + i)))
               [] p.size = ObjectSize(wordSize, 0) -> W(Each(LAMBDA i : DataWord(h, p, i)))
               [] p.size = ObjectSize(0, 1) ->
                    P(Each(LAMBDA i : ValueOf(h, readPtr(h, p.m, p.s, element(p.off, i, wordSize), p.depth))))

ReadValue(r) == ValueOf(r.h, r.p)

HasBits(t) ==
  CASE t.k = "struct" -> \E i \in DOMAIN t.ptrs : HasBits(t.ptrs[i])
    [] t.k \in {"structs", "ptrs"} -> \E i \in DOMAIN t.elems : HasBits(t.elems[i])
    [] OTHER -> t.k = "bits"

(***************************************************************************)
(* pointer.go Equal.                                                       *)
(***************************************************************************)
\* Byte i of the data section, 0 past its end.
DataByte(h, o, i) == IF i < o.size.data THEN readUint8(h, o.m, o.s, o.off + i) ELSE 0

\* Variant: the bytes only one of the structs has are not compared.
EqualStructCommon(g, p, h, q) ==
  /\ \A i \in 0..(Min({p.size.data, q.size.data}) - 1) : DataByte(g, p, i) = DataByte(h, q, i)
  /\ \A i \in 0..(Min({p.size.ptrs, q.size.ptrs}) - 1) : Equal(g, Field(g, p, i), h, Field(h, q, i))

EqualStruct(g, p, h, q) ==
  LET n == Min({p.size.ptrs, q.size.ptrs})
      HasPtr(k, o, i) == readRawPointer(k, o.m, o.s, pointerAddress(o, i)) # 0
  IN  /\ \A i \in 0..(Max({p.size.data, q.size.data}) - 1) : DataByte(g, p, i) = DataByte(h, q, i)
      /\ \A i \in 0..(n - 1) : Equal(g, Field(g, p, i), h, Field(h, q, i))
      /\ \A i \in n..(p.size.ptrs - 1) : ~HasPtr(g, p, i)
      /\ \A i \in n..(q.size.ptrs - 1) : ~HasPtr(h, q, i)

\* Lists of elements of one size without pointers are compared as their bytes;
\* the size of a bit list's element is zero.
Equal(g, p, h, q) ==
  CASE p.k = "null" \/ q.k = "null" -> p.k = q.k
    [] p.k # "null" /\ q.k # "null" /\ p.k # q.k -> FALSE
    [] p.k = "struct" /\ q.k = "struct" -> EqualStruct(g, p, h, q)
    [] p.k = "list" /\ q.k = "list" ->
         IF p.len # q.len \/ (p.kind # "composite" /\ q.kind # "composite" /\ p.size # q.size) THEN FALSE
         ELSE IF p.size.ptrs = 0 /\ q.size.ptrs = 0 /\ p.size.data = q.size.data
         THEN \A i \in 0..(p.len * totalSize(p.size) - 1) :
                readUint8(g, p.m, p.s, p.off + i) = readUint8(h, q.m, q.s, q.off + i)
         ELSE \A i \in 0..(p.len - 1) : Equal(g, ListStruct(p, i), h, ListStruct(q, i))

(***************************************************************************)
(* canonical.go.  The canonical form is the single segment of a message    *)
(* into which a struct is copied in preorder, its trailing zero words and  *)
(* null pointers left out.                                                 *)
(***************************************************************************)
Dst == "single"

\* Variant: the sections keep their size.
canonicalStructSizeKept(h, s) == s.size

\* The last nonzero word or pointer of each section ends it.
canonicalStructSize(h, s) ==
  LET words == {i \in 1..dataWordCount(s.size) : DataWord(h, s, i - 1) # 0}
      ptrs == {i \in 1..s.size.ptrs : readRawPointer(h, s.m, s.s, pointerAddress(s, i - 1)) # 0}
  IN  ObjectSize(wordSize * Max(words \cup {0}), Max(ptrs \cup {0}))

PutCanonical(m, s, addr, c) == Then(c, LAMBDA r : writePtr(r.h, m, s, addr, r.p, FALSE))

FillCanonicalPtr(h, dst, s, i) == PutCanonical(dst.m, dst.s, pointerAddress(dst, i), canonicalPtr(h, Field(h, s, i)))

fillCanonicalStruct(h, dst, s) ==
  FoldLeft(LAMBDA acc, i : Then(acc, LAMBDA r : FillCanonicalPtr(r.h, dst, s, i)),
           [ok |-> TRUE, h |-> CopyBytes(h, dst.m, dst.s, dst.off, s, s.off, Min({dst.size.data, s.size.data}))],
           [i \in 1..dst.size.ptrs |-> i - 1])

\* A list without pointers is copied as it is.  sz counts a composite list's
\* tag, l.off is past it: the copy has no tag and reads a word too many, which
\* panics at the end of the segment.
CanonicalDataList(h, l) ==
  LET sz == allocSize(l)
      over == l.off + sz > Bytes(Seg(h, l.m, l.s))
      In(a) == [ok |-> TRUE, p |-> ListAt(Dst, 0, a.addr, l.len, l.size, MaxDepth, l.kind),
                h |-> CopyBytes(a.h, Dst, 0, a.addr, l, l.off, IF over THEN sz - wordSize ELSE sz)]
  IN  IF l.off + sz > wordSize * Seg(h, l.m, l.s).cap THEN Failed ELSE Then(alloc(h, Dst, 0, sz), In)

\* The new object n, with the heap its filling leaves.
Filled(n, r) == Then(r, LAMBDA f : [ok |-> TRUE, p |-> n.p, h |-> f.h])

FillPointer(h, cl, l, i) ==
  PutCanonical(Dst, 0, element(cl.off, i, wordSize),
               canonicalPtr(h, readPtr(h, l.m, l.s, element(l.off, i, wordSize), l.depth)))

FillPointerList(n, l) ==
  Filled(n, FoldLeft(LAMBDA acc, i : Then(acc, LAMBDA r : FillPointer(r.h, n.p, l, i)),
                     [ok |-> TRUE, h |-> n.h], [i \in 1..l.len |-> i - 1]))

CanonicalPointerList(h, l) == Then(NewPointerList(h, Dst, 0, l.len), LAMBDA n : FillPointerList(n, l))

FillStructList(n, l) ==
  Filled(n, FoldLeft(LAMBDA acc, i : Then(acc, LAMBDA r : fillCanonicalStruct(r.h, ListStruct(n.p, i), ListStruct(l, i))),
                     [ok |-> TRUE, h |-> n.h], [i \in 1..l.len |-> i - 1]))

\* Variant: the list has the size of its first element.
CanonicalStructListFirst(h, l) ==
  Then(NewCompositeList(h, Dst, 0, canonicalStructSize(h, ListStruct(l, 0)), l.len), LAMBDA n : FillStructList(n, l))

CanonicalStructList(h, l) ==
  LET sizes == {canonicalStructSize(h, ListStruct(l, i)) : i \in 0..(l.len - 1)} \cup {ZeroSize}
      size == ObjectSize(Max({sz.data : sz \in sizes}), Max({sz.ptrs : sz \in sizes}))
  IN  Then(NewCompositeList(h, Dst, 0, size, l.len), LAMBDA n : FillStructList(n, l))

canonicalPtr(h, p) ==
  CASE p.k = "null" -> [ok |-> TRUE, h |-> h, p |-> Null]
    [] p.k = "struct" ->
         Then(NewStruct(h, Dst, 0, canonicalStructSize(h, p)), LAMBDA n : Filled(n, fillCanonicalStruct(n.h, n.p, p)))
    [] p.k = "list" /\ p.size.ptrs = 0 -> CanonicalDataList(h, p)
    [] p.k = "list" /\ p.size.ptrs > 0 /\ p.kind # "composite" -> CanonicalPointerList(h, p)
    [] p.k = "list" /\ p.size.ptrs > 0 /\ p.kind = "composite" -> CanonicalStructList(h, p)

\* The canonical words of a struct, <<>> where Canonicalize fails.
CanonicalRoot(n, s) ==
  Then(writePtr(n.h, Dst, 0, 0, n.p, FALSE), LAMBDA r : fillCanonicalStruct(r.h, n.p, s))

FirstSegment(r) == IF r.ok THEN Seg(r.h, Dst, 0).words ELSE <<>>

Canonicalize(h, s) ==
  FirstSegment(Then(NewStruct(h, Dst, 0, canonicalStructSize(h, s)), LAMBDA n : CanonicalRoot(n, s)))

-------------------------------------------------------------------------------
PairInit == left \in Trees /\ right = left

PickLeft == left' \in Trees /\ UNCHANGED right
PickRight == right' \in Trees /\ UNCHANGED left

PairNext == PickLeft \/ PickRight
PairSpec == PairInit /\ [][PairNext]_pairVars

Built(t) == Build(Empty, "multi", 0, t)
CanonicalOf(b) == Canonicalize(b.h, b.p)
Words(t) == CanonicalOf(Built(t))

\* Objects with their heaps: two compared, and the root of a segment's words.
BuiltEqual(l, r) == Equal(l.h, l.p, r.h, r.p)
Received(h) == [h |-> h, p |-> readPtr(h, "multi", 0, 0, MaxDepth)]
Reads(words) == Received([Empty EXCEPT !["multi"].segs = <<[words |-> words, cap |-> Len(words)]>>])

\* Equal says that two structs have the same value if they do, whatever the
\* sizes their sections were built with, and (unless there are bit lists in
\* them) only then; a list of words or bytes has the value of a list of structs
\* with that field (pointer.go:269-279).
EqualIsSameValue ==
  /\ SameTree(left, right, TRUE) => BuiltEqual(Built(left), Built(right))
  /\ HasBits(left) \/ HasBits(right) \/ BuiltEqual(Built(left), Built(right)) = SameTree(left, right, FALSE)

\* Two structs have the same canonical form exactly when they have the same
\* value and their lists are of the same kinds, whatever the sizes their
\* sections and the elements of their lists were built with: "even as the
\* schema evolves" (canonical.go:9-10).
CanonicalIsSameValue == (Words(left) = Words(right)) = SameTree(left, right, TRUE)

\* Structs that are Equal have the same canonical form: "The result will be
\* identical for equivalent structs, even as the schema evolves"
\* (canonical.go:9-10).
EqualCanonicalizeAlike == BuiltEqual(Built(left), Built(right)) => Words(left) = Words(right)

\* The canonical form of a struct is a message whose root has its value, bit for
\* bit, with lists of the same kinds.
CanonicalReadsBack ==
  LET words == Words(left)
  IN  words # <<>> /\ SameTree(left, ReadValue(Reads(words)), TRUE)
===============================================================================
