--------------------------------- MODULE Wire ---------------------------------
(***************************************************************************)
(* The arithmetic of the encoding: addresses and sizes (address.go) and    *)
(* encoded pointers (rawpointer.go).                                       *)
(*                                                                         *)
(* A word has 8 bytes, as in the code.  AddressBits is the width of an     *)
(* address: 32 in the code, where a byte then has 8 bits and an encoded    *)
(* pointer 64.  Every other width follows from it, so a smaller            *)
(* AddressBits is the same encoding with every field narrowed alike, and   *)
(* all its encoded pointers can be enumerated.                             *)
(***************************************************************************)
EXTENDS Integers

CONSTANT AddressBits

ASSUME AddressBitsAssumption == AddressBits \in {8 * k : k \in 1..4}

wordSize == 8
ByteBits == AddressBits \div 4

\* The widths of the fields of an encoded pointer.
Low == 2 ^ AddressBits              \* the low half: type and offset
Half == 2 ^ (AddressBits \div 2)    \* data words, pointer count
Elements == 2 ^ (AddressBits - 3)   \* list length

maxSegmentSize == Low - 8
maxAllocSize == maxSegmentSize

\* What the code returns with ok = false.
Invalid == -1

Checked(x) == IF x > maxSegmentSize \/ x < 0 THEN Invalid ELSE x

(***************************************************************************)
(* address.go                                                              *)
(***************************************************************************)
addSize(a, sz) == IF a + sz > maxSegmentSize THEN Invalid ELSE a + sz

element(a, i, sz) == Checked(a + i * sz)

times(sz, n) == Checked(sz * n)

timesUnchecked(sz, n) == (sz * n) % Low

padToWord(sz) == LET x == (sz + 7) % Low IN x - (x % 8)

\* An ObjectSize: the bytes of the data section and the number of pointers.
ObjectSize(data, ptrs) == [data |-> data, ptrs |-> ptrs]
ZeroSize == ObjectSize(0, 0)

isZero(sz) == sz.data = 0 /\ sz.ptrs = 0
isOneByte(sz) == sz.data = 1 /\ sz.ptrs = 0
isValid(sz) == sz.data <= (Half - 1) * wordSize
totalSize(sz) == sz.data + wordSize * sz.ptrs
dataWordCount(sz) == sz.data \div wordSize
totalWordCount(sz) == dataWordCount(sz) + sz.ptrs

\* addOffset panics on an offset past the largest data section.
OffsetPanics(off) == off >= Half * wordSize

(***************************************************************************)
(* rawpointer.go: an encoded pointer is a natural number below Low * Low.  *)
(***************************************************************************)
structPointer == 0
listPointer == 1
farPointer == 2
otherPointer == 3
doubleFarPointer == 6

voidList == 0
bit1List == 1
byte1List == 2
byte2List == 3
byte4List == 4
byte8List == 5
pointerList == 6
compositeList == 7

\* pointerOffset.resolve: a word offset from a base address.
resolve(off, base) == element(base, off, wordSize)

\* The subtraction wraps in uint32 and the conversion to int32 makes it signed.
nearPointerOffset(paddr, addr) ==
  LET x == (addr \div wordSize - paddr \div wordSize - 1) % Low
  IN  IF x >= Low \div 2 THEN x - Low ELSE x

\* uint32(off) << 2: the two top bits are lost.
OffsetField(off) == (off * 4) % Low

rawStructPointer(off, sz) ==
  structPointer + OffsetField(off) + Low * (dataWordCount(sz) + Half * sz.ptrs)

rawListPointer(off, lt, length) ==
  listPointer + OffsetField(off) + Low * (lt + 8 * length)

rawInterfacePointer(capability) == otherPointer + Low * capability

rawFarPointer(segID, off) == farPointer + (off - (off % 8)) + Low * segID
rawDoubleFarPointer(segID, off) == doubleFarPointer + (off - (off % 8)) + Low * segID

landingPadNearPointer(far, tag) ==
  LET bits == (far % Low) - (far % 4)
  IN  (tag - (tag % Low)) + (tag % 4) + bits \div 2

pointerType(p) == IF p % 4 = farPointer THEN p % 8 ELSE p % 4

structSize(p) ==
  LET high == p \div Low
  IN  ObjectSize(timesUnchecked(wordSize, high % Half), (high \div Half) % Half)

listType(p) == (p \div Low) % 8
numListElements(p) == p \div (8 * Low)

\* Defined for every list type but the composite one, where the code panics.
elementSize(p) ==
  CASE listType(p) \in {voidList, bit1List} -> ZeroSize
    [] listType(p) = byte1List -> ObjectSize(1, 0)
    [] listType(p) = byte2List -> ObjectSize(2, 0)
    [] listType(p) = byte4List -> ObjectSize(4, 0)
    [] listType(p) = byte8List -> ObjectSize(8, 0)
    [] listType(p) = pointerList -> ObjectSize(0, 1)

\* list.go:273
bitListSize(n) == (n + ByteBits - 1) \div ByteBits

totalListSize(p) ==
  LET n == numListElements(p)
  IN  CASE listType(p) = bit1List -> bitListSize(n)
        [] listType(p) = compositeList -> times(wordSize, n + 1)
        [] OTHER -> timesUnchecked(totalSize(elementSize(p)), n)

\* int32(p) >> 2
offset(p) ==
  LET low == p % Low
      signed == IF low >= Low \div 2 THEN low - Low ELSE low
  IN  signed \div 4

withOffset(p, off) == (p - (p % Low)) + (p % 4) + OffsetField(off)

farAddress(p) == (p % Low) - (p % 8)
farSegment(p) == p \div Low
otherPointerType(p) == (p % Low) \div 4
capabilityIndex(p) == p \div Low

===============================================================================
