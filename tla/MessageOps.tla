------------------------------ MODULE MessageOps ------------------------------
(***************************************************************************)
(* A message as its segments: what is read through an encoded pointer,     *)
(* where an object is allocated, and how a pointer to an object is written *)
(* (segment.go, message.go, arena.go, struct.go, list.go, pointer.go).     *)
(*                                                                         *)
(* A heap maps a message to its arena and segments.  A segment holds its   *)
(* words, and the capacity (in words) of the buffer under them; addresses  *)
(* and sizes are in bytes, as in the code.  Allocation is word aligned, so *)
(* a word is one encoded pointer or eight bytes of data.  An operator that *)
(* changes the heap returns the new heap in a record, with ok = FALSE      *)
(* where the code returns an error or panics.                              *)
(***************************************************************************)
EXTENDS Wire, Sequences, SequencesExt

CONSTANTS
  FirstAlloc,     \* bytes below which nextAlloc fills up to one first buffer: 1024 in the code
  MaxDepth        \* the largest uint, the depth limit of an object just built: 2^64 - 1 in the code

ASSUME AllocAssumption == FirstAlloc % 8 = 0 /\ FirstAlloc > 0 /\ MaxDepth \in Nat \ {0}

Bytes(seg) == wordSize * Len(seg.words)
NewSegment(capWords) == [words |-> <<>>, cap |-> capWords]

Null == [k |-> "null"]
Error == [k |-> "error"]

\* An operation that needs the result of the one before it, and is not reached
\* when that failed.
Failed == [ok |-> FALSE]
Then(r, Do(_)) == IF r.ok THEN Do(r) ELSE Failed

StructAt(m, s, off, sz, depth, member) ==
  [k |-> "struct", m |-> m, s |-> s, off |-> off, size |-> sz, depth |-> depth, member |-> member]

ListAt(m, s, off, n, sz, depth, kind) ==
  [k |-> "list", m |-> m, s |-> s, off |-> off, len |-> n, size |-> sz, depth |-> depth, kind |-> kind]

\* depthLimit - 1 on a uint.
Deeper(depth) == (depth - 1) % (MaxDepth + 1)

(***************************************************************************)
(* Reading (segment.go).                                                   *)
(***************************************************************************)
Seg(h, m, s) == h[m].segs[s + 1]
HasSegment(h, m, s) == s < Len(h[m].segs)

regionInBounds(seg, base, sz) ==
  LET end == addSize(base, sz) IN end # Invalid /\ end <= Bytes(seg)

readRawPointer(h, m, s, addr) == Seg(h, m, s).words[addr \div wordSize + 1]

writeRawPointer(h, m, s, addr, val) == [h EXCEPT ![m].segs[s + 1].words[addr \div wordSize + 1] = val]

\* A byte of a word, the lowest bits first.
BytePlace(addr) == 2 ^ (ByteBits * (addr % wordSize))

readUint8(h, m, s, addr) == (readRawPointer(h, m, s, addr) \div BytePlace(addr)) % 2 ^ ByteBits

writeUint8(h, m, s, addr, val) ==
  writeRawPointer(h, m, s, addr, readRawPointer(h, m, s, addr) + (val - readUint8(h, m, s, addr)) * BytePlace(addr))

\* Where a pointer leads after its landing pads: the segment, the base its
\* offset counts from, and the pointer found there.
Resolved(seg, base, raw) == [ok |-> base # Invalid, s |-> seg, base |-> base, val |-> raw]

ResolveDoubleFar(h, m, far, tag) ==
  IF \/ pointerType(far) # farPointer
     \/ pointerType(tag) \notin {structPointer, listPointer}
     \/ offset(tag) # 0
     \/ ~HasSegment(h, m, farSegment(far))
  THEN Failed
  ELSE Resolved(farSegment(far), 0, landingPadNearPointer(far, tag))

FollowPointer(h, m, s, paddr, val) ==
  LET pad == farSegment(val)
      addr == farAddress(val)
      InBounds(sz) == HasSegment(h, m, pad) /\ regionInBounds(Seg(h, m, pad), addr, sz)
  IN  CASE pointerType(val) = doubleFarPointer ->
             IF ~InBounds(2 * wordSize) THEN Failed
             ELSE ResolveDoubleFar(h, m, readRawPointer(h, m, pad, addr), readRawPointer(h, m, pad, addr + wordSize))
        [] pointerType(val) = farPointer ->
             IF ~InBounds(wordSize) THEN Failed
             ELSE Resolved(pad, addSize(addr, wordSize), readRawPointer(h, m, pad, addr))
        [] OTHER -> Resolved(s, addSize(paddr, wordSize), val)

resolveFarPointer(h, m, s, paddr) == FollowPointer(h, m, s, paddr, readRawPointer(h, m, s, paddr))

readStructPtr(h, m, s, base, val) ==
  LET addr == resolve(offset(val), base)
      sz == structSize(val)
  IN  IF addr = Invalid \/ ~regionInBounds(Seg(h, m, s), addr, totalSize(sz)) THEN Error
      ELSE StructAt(m, s, addr, sz, 0, FALSE)

ReadCompositeList(h, m, s, first, hdr) ==
  LET In(n, sz, tsize) ==
        IF first = Invalid \/ pointerType(hdr) # structPointer \/ tsize = Invalid THEN Error
        ELSE IF ~regionInBounds(Seg(h, m, s), first, tsize) THEN Error
        ELSE ListAt(m, s, first, n, sz, 0, "composite")
  IN  In(offset(hdr), structSize(hdr), times(totalSize(structSize(hdr)), offset(hdr)))

ReadList(h, m, s, val, addr, lsize) ==
  IF addr = Invalid \/ lsize = Invalid THEN Error
  ELSE IF ~regionInBounds(Seg(h, m, s), addr, lsize) THEN Error
  ELSE IF listType(val) = compositeList
  THEN ReadCompositeList(h, m, s, addSize(addr, wordSize), readRawPointer(h, m, s, addr))
  ELSE IF listType(val) = bit1List THEN ListAt(m, s, addr, numListElements(val), ZeroSize, 0, "bit")
  ELSE ListAt(m, s, addr, numListElements(val), elementSize(val), 0, "plain")

readListPtr(h, m, s, base, val) == ReadList(h, m, s, val, resolve(offset(val), base), totalListSize(val))

WithDepth(obj, depth) == IF obj = Error THEN Error ELSE [obj EXCEPT !.depth = Deeper(depth)]

ReadObject(h, m, r, depth) ==
  IF ~r.ok THEN Error
  ELSE IF r.val = 0 THEN Null
  ELSE IF depth = 0 THEN Error
  ELSE CASE pointerType(r.val) = structPointer -> WithDepth(readStructPtr(h, m, r.s, r.base, r.val), depth)
         [] pointerType(r.val) = listPointer -> WithDepth(readListPtr(h, m, r.s, r.base, r.val), depth)
         [] pointerType(r.val) = otherPointer ->
              IF otherPointerType(r.val) # 0 THEN Error
              ELSE [k |-> "iface", m |-> m, s |-> r.s, cap |-> capabilityIndex(r.val)]
         [] OTHER -> Error

\* The traversal limit (canRead) is left out.
readPtr(h, m, s, paddr, depth) == ReadObject(h, m, resolveFarPointer(h, m, s, paddr), depth)

\* Struct.pointerAddress and List.Struct.
pointerAddress(p, i) == element(addSize(p.off, p.size.data), i, wordSize)

Field(h, p, i) ==
  IF i >= p.size.ptrs THEN Null ELSE readPtr(h, p.m, p.s, pointerAddress(p, i), p.depth)

ListStruct(l, i) ==
  IF l.kind = "bit" THEN Null
  ELSE StructAt(l.m, l.s, element(l.off, i, totalSize(l.size)), l.size, Deeper(l.depth), TRUE)

\* The word of data, or the part of it inside the data section (Struct.Uint64
\* reads 0 past its end).
DataWord(h, p, i) == readRawPointer(h, p.m, p.s, p.off + i * wordSize)

(***************************************************************************)
(* Allocation (arena.go, message.go).                                      *)
(***************************************************************************)
hasCapacity(seg, sz) == sz <= wordSize * (seg.cap - Len(seg.words))

Grown(new, want) ==
  LET g[x \in 1..(2 * maxSegmentSize)] == IF x >= want THEN x ELSE g[x + x \div 4]
  IN  g[new]

\* How many more bytes to allocate, Invalid on overflow.
nextAlloc(curr, max, req) ==
  LET padreq == padToWord(req)
      want == curr + padreq
      Up8(x) == ((x + 7) \div 8) * 8
      next == Up8(FirstAlloc - curr)
      delta == Grown(curr, want) - curr
  IN  IF req = 0 THEN 0
      ELSE IF req > maxAllocSize \/ want <= curr \/ want > max THEN Invalid
      ELSE CASE want < FirstAlloc -> IF next < curr THEN Up8(curr) ELSE next
             [] want >= FirstAlloc /\ want > 2 * curr -> padreq
             [] OTHER -> IF delta > maxAllocSize THEN maxAllocSize ELSE Up8(delta)

\* bufferpool.Get on a pool whose buffers it made itself: the next power of two.
PoolCap(size) == Min({c \in {2 ^ i : i \in 3..(AddressBits + 1)} : c >= size})

\* Arena.Allocate for the two arenas, and Message.setSegment.
allocSegment(h, m, sz) ==
  LET segs == h[m].segs
      fits == {i \in DOMAIN segs : hasCapacity(segs[i], sz)}
      total == FoldSeq(LAMBDA seg, sum : sum + wordSize * seg.cap, 0, segs)
      single == h[m].arena = "single"
      Grow(inc) ==
        CASE inc = Invalid -> Failed
          [] inc # Invalid /\ single ->
               [ok |-> TRUE, s |-> 0,
                h |-> [h EXCEPT ![m].segs[1].cap = PoolCap(wordSize * segs[1].cap + inc) \div wordSize]]
          [] inc # Invalid /\ ~single ->
               [ok |-> TRUE, s |-> Len(segs),
                h |-> [h EXCEPT ![m].segs = Append(@, NewSegment(PoolCap(inc) \div wordSize))]]
  IN  IF fits # {} THEN [ok |-> TRUE, h |-> h, s |-> Min(fits) - 1]
      ELSE Grow(nextAlloc(IF single THEN Bytes(segs[1]) ELSE total, IF single THEN maxAllocSize ELSE 4 * Low, sz))

alloc(h, m, s, size) ==
  LET sz == padToWord(size)
      zeros == [i \in 1..(sz \div wordSize) |-> 0]
      Extend(a, addr) ==
        IF addSize(addr, sz) = Invalid THEN Failed
        ELSE [ok |-> TRUE, s |-> a.s, addr |-> addr, h |-> [a.h EXCEPT ![m].segs[a.s + 1].words = @ \o zeros]]
      In(a) == Extend(a, Bytes(Seg(a.h, m, a.s)))
  IN  IF size > maxAllocSize THEN Failed
      ELSE IF hasCapacity(Seg(h, m, s), sz) THEN In([h |-> h, s |-> s])
      ELSE Then(allocSegment(h, m, sz), In)

\* Message.Reset on an empty arena: the first segment and the root word.
EmptyMessage(arena) ==
  LET h == [m \in {arena} |-> [arena |-> arena, caps |-> <<>>,
                              segs |-> <<NewSegment(IF arena = "single" THEN 0 ELSE PoolCap(FirstAlloc) \div wordSize)>>]]
  IN  alloc(h, arena, 0, wordSize).h[arena]

NewStruct(h, m, s, sz) ==
  LET size == ObjectSize(padToWord(sz.data), sz.ptrs)
      In(a) == [ok |-> TRUE, h |-> a.h, p |-> StructAt(m, a.s, a.addr, size, MaxDepth, FALSE)]
  IN  IF ~isValid(sz) THEN Failed ELSE Then(alloc(h, m, s, totalSize(size)), In)

newPrimitiveList(h, m, s, sz, n) ==
  LET In(a) == [ok |-> TRUE, h |-> a.h, p |-> ListAt(m, a.s, a.addr, n, ObjectSize(sz, 0), MaxDepth, "plain")]
  IN  IF n \notin 0..(Elements - 1) THEN Failed ELSE Then(alloc(h, m, s, timesUnchecked(sz, n)), In)

NewPointerList(h, m, s, n) ==
  LET total == times(wordSize, n)
      In(a) == [ok |-> TRUE, h |-> a.h, p |-> ListAt(m, a.s, a.addr, n, ObjectSize(0, 1), MaxDepth, "plain")]
  IN  IF total = Invalid THEN Failed ELSE Then(alloc(h, m, s, total), In)

\* A list of Void takes no room: its address is the start of the segment.
NewVoidList(h, m, s, n) == [ok |-> TRUE, h |-> h, p |-> ListAt(m, s, 0, n, ZeroSize, MaxDepth, "plain")]

\* Variant: the last bits that do not fill a byte get no room.
NewBitListShort(h, m, s, n) ==
  LET In(a) == [ok |-> TRUE, h |-> a.h, p |-> ListAt(m, a.s, a.addr, n, ZeroSize, MaxDepth, "bit")]
  IN  IF n \notin 0..(Elements - 1) THEN Failed ELSE Then(alloc(h, m, s, n \div ByteBits), In)

NewBitList(h, m, s, n) ==
  LET In(a) == [ok |-> TRUE, h |-> a.h, p |-> ListAt(m, a.s, a.addr, n, ZeroSize, MaxDepth, "bit")]
  IN  IF n \notin 0..(Elements - 1) THEN Failed ELSE Then(alloc(h, m, s, bitListSize(n)), In)

\* BitList.Set of a bit that is clear.
SetBitAt(h, l, i, v) ==
  LET addr == l.off + i \div ByteBits
  IN  writeUint8(h, l.m, l.s, addr, readUint8(h, l.m, l.s, addr) + v * 2 ^ (i % ByteBits))

NewCompositeList(h, m, s, sz, n) ==
  LET size == ObjectSize(padToWord(sz.data), sz.ptrs)
      total == times(totalSize(size), n)
      In(a) == [ok |-> TRUE, h |-> writeRawPointer(a.h, m, a.s, a.addr, rawStructPointer(n, size)),
                p |-> ListAt(m, a.s, a.addr + wordSize, n, size, MaxDepth, "composite")]
  IN  IF \/ ~isValid(sz) \/ n \notin 0..(Elements - 1)
         \/ total = Invalid \/ total > maxSegmentSize - wordSize
      THEN Failed
      ELSE Then(alloc(h, m, s, wordSize + total), In)

(***************************************************************************)
(* Writing (segment.go writePtr, struct.go copyStruct).                    *)
(***************************************************************************)
RECURSIVE writePtr(_, _, _, _, _, _), copyStruct(_, _, _)

\* copy of n bytes between word-aligned addresses.
CopyBytes(h, m, s, dst, src, from, n) ==
  LET words == Seg(h, src.m, src.s).words
      Part(j) == words[from \div wordSize + j + 1] % 2 ^ (ByteBits * Min({wordSize, n - wordSize * j}))
      first == dst \div wordSize
  IN  [h EXCEPT ![m].segs[s + 1].words =
        [i \in DOMAIN @ |-> IF i - 1 - first >= 0 /\ wordSize * (i - 1 - first) < n THEN Part(i - 1 - first) ELSE @[i]]]

\* List.allocSize and List.raw.
allocSize(l) ==
  CASE l.kind = "bit" -> bitListSize(l.len)
    [] l.kind = "composite" -> times(totalSize(l.size), l.len) + wordSize
    [] OTHER -> times(totalSize(l.size), l.len)

rawList(l) ==
  CASE l.kind = "composite" -> rawListPointer(0, compositeList, l.len * totalWordCount(l.size))
    [] l.kind = "bit" -> rawListPointer(0, bit1List, l.len)
    [] l.kind = "plain" /\ l.size = ObjectSize(0, 1) -> rawListPointer(0, pointerList, l.len)
    [] OTHER -> rawListPointer(0, (CHOOSE t \in {<<0, voidList>>, <<1, byte1List>>, <<2, byte2List>>,
                                                 <<4, byte4List>>, <<8, byte8List>>} : t[1] = l.size.data)[2], l.len)

\* The word an encoded pointer to an object leads to: a composite list's tag.
Start(p) == IF p.k = "list" /\ p.kind = "composite" THEN p.off - wordSize ELSE p.off
Raw(p) == IF p.k = "struct" THEN rawStructPointer(0, p.size) ELSE rawList(p)

\* A copy of a struct or list in message m, preferring segment s.
CopyStructInto(h, dst, st) == Then(copyStruct(h, dst, st), LAMBDA c : [ok |-> TRUE, h |-> c.h, p |-> dst])

CopyStructTo(h, m, s, st) ==
  Then(alloc(h, m, s, totalSize(st.size)),
       LAMBDA a : CopyStructInto(a.h, StructAt(m, a.s, a.addr, st.size, MaxDepth, FALSE), st))

TagSize(l) == IF l.kind = "composite" THEN wordSize ELSE 0

CopyElements(h, dst, l) ==
  FoldLeft(LAMBDA acc, i : Then(acc, LAMBDA r : copyStruct(r.h, ListStruct(dst, i), ListStruct(l, i))),
           [ok |-> TRUE, h |-> h], [i \in 1..l.len |-> i - 1])

CopyListInto(h, dst, l) ==
  IF l.kind = "bit" \/ l.size.ptrs = 0
  THEN [ok |-> TRUE, p |-> dst, h |-> CopyBytes(h, dst.m, dst.s, dst.off, l, l.off, allocSize(l) - TagSize(l))]
  ELSE Then(CopyElements(h, dst, l), LAMBDA r : [ok |-> TRUE, h |-> r.h, p |-> dst])

CopyTag(a, m, l) ==
  IF l.kind = "composite"
  THEN writeRawPointer(a.h, m, a.s, a.addr, readRawPointer(a.h, l.m, l.s, l.off - wordSize))
  ELSE a.h

CopyListTo(h, m, s, l) ==
  Then(alloc(h, m, s, allocSize(l)),
       LAMBDA a : CopyListInto(CopyTag(a, m, l), ListAt(m, a.s, a.addr + TagSize(l), l.len, l.size, MaxDepth, l.kind), l))

\* The pointer to an object already in message m: near, far or double far.
PlacePtr(h, m, s, off, p) ==
  LET From(addr) == withOffset(Raw(p), nearPointerOffset(addr, Start(p)))
      Far(pad) ==
        LET padded == writeRawPointer(pad.h, m, p.s, pad.addr, From(pad.addr))
        IN  [ok |-> TRUE, h |-> writeRawPointer(padded, m, s, off, rawFarPointer(p.s, pad.addr))]
      DoubleFar(pads) ==
        LET far == writeRawPointer(pads.h, m, pads.s, pads.addr, rawFarPointer(p.s, Start(p)))
            tag == writeRawPointer(far, m, pads.s, pads.addr + wordSize, Raw(p))
        IN  [ok |-> TRUE, h |-> writeRawPointer(tag, m, s, off, rawDoubleFarPointer(pads.s, pads.addr))]
  IN  CASE p.s = s -> [ok |-> TRUE, h |-> writeRawPointer(h, m, s, off, From(off))]
        [] p.s # s /\ hasCapacity(Seg(h, m, p.s), wordSize) -> Then(alloc(h, m, p.s, wordSize), Far)
        [] OTHER -> Then(alloc(h, m, s, 2 * wordSize), DoubleFar)

writePtr(h, m, s, off, src, forceCopy) ==
  LET copies == forceCopy \/ src.m # m \/ (src.k = "struct" /\ src.member)
  IN  CASE src.k = "null" -> [ok |-> TRUE, h |-> writeRawPointer(h, m, s, off, 0)]
        [] src.k = "struct" /\ isZero(src.size) ->
             [ok |-> TRUE, h |-> writeRawPointer(h, m, s, off, rawStructPointer(-1, ZeroSize))]
        [] src.k = "iface" ->
             IF src.m = m THEN [ok |-> TRUE, h |-> writeRawPointer(h, m, s, off, rawInterfacePointer(src.cap))]
             ELSE [ok |-> TRUE, h |-> writeRawPointer([h EXCEPT ![m].caps = Append(@, h[src.m].caps[src.cap + 1])],
                                                      m, s, off, rawInterfacePointer(Len(h[m].caps)))]
        [] OTHER ->
             Then(IF ~copies THEN [ok |-> TRUE, h |-> h, p |-> src]
                  ELSE IF src.k = "struct" THEN CopyStructTo(h, m, s, src) ELSE CopyListTo(h, m, s, src),
                  LAMBDA r : PlacePtr(r.h, m, s, off, r.p))

\* Variant: the data is copied, the pointers are left as they are.
copyStructData(h, dst, src) ==
  [ok |-> TRUE, h |-> CopyBytes(h, dst.m, dst.s, dst.off, src, src.off, Min({dst.size.data, src.size.data}))]

WriteCopy(h, dst, j, p) ==
  IF p = Error THEN Failed ELSE writePtr(h, dst.m, dst.s, pointerAddress(dst, j), p, TRUE)

CopyPtr(h, dst, src, j) ==
  WriteCopy(h, dst, j, readPtr(h, src.m, src.s, pointerAddress(src, j), src.depth))

CopyData(h, dst, src) ==
  LET n == Min({dst.size.data, src.size.data})
      Clear(g, i) == IF i * wordSize < n THEN g ELSE writeRawPointer(g, dst.m, dst.s, dst.off + i * wordSize, 0)
  IN  FoldLeft(Clear, CopyBytes(h, dst.m, dst.s, dst.off, src, src.off, n),
               [i \in 1..dataWordCount(dst.size) |-> i - 1])

\* A deep copy into dst: what src lacks reads as zero and null afterwards, and
\* what dst has no room for is dropped.
copyStruct(h, dst, src) ==
  LET Clear(g, j) == IF j < src.size.ptrs THEN g ELSE writeRawPointer(g, dst.m, dst.s, pointerAddress(dst, j), 0)
  IN  Then(FoldLeft(LAMBDA acc, j : Then(acc, LAMBDA r : CopyPtr(r.h, dst, src, j)),
                    [ok |-> TRUE, h |-> CopyData(h, dst, src)],
                    [j \in 1..Min({src.size.ptrs, dst.size.ptrs}) |-> j - 1]),
           LAMBDA r : [ok |-> TRUE, h |-> FoldLeft(Clear, r.h, [j \in 1..dst.size.ptrs |-> j - 1])])

===============================================================================
