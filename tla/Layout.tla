-------------------------------- MODULE Layout --------------------------------
(***************************************************************************)
(* The vocabulary of the accessors capnpc-go generates for a struct type   *)
(* (capnpc-go/templates): where each accessor reads and writes, and which  *)
(* union tag it checks and sets.  A layout module names one definition for *)
(* each generated type and gives the numbers its accessors contain.        *)
(***************************************************************************)
EXTENDS Integers, Sequences

\* A field of the data section: SetUintN(off, v ^ default), off in bytes.  The
\* defaults of the generated types are 0 or have every bit set (inverted).
Data(name, off, width, inverted) ==
  [path |-> <<name>>, kind |-> "data", bits |-> (8 * off)..(8 * off + width - 1), inverted |-> inverted,
   tags |-> {}, under |-> {}]
Num(name, off, width) == Data(name, off, width, FALSE)

\* SetBit(off, v), off in bits, and its negation for a field whose default is true.
BitAt(name, off, inverted) ==
  [path |-> <<name>>, kind |-> "data", bits |-> off..off, inverted |-> inverted, tags |-> {}, under |-> {}]
Bit(name, off) == BitAt(name, off, FALSE)

\* A pointer field: Ptr(i), HasPtr(i), SetPtr(i, v), and New, which allocates.
Ptr(name, i) == [path |-> <<name>>, kind |-> "ptr", index |-> i, new |-> FALSE, tags |-> {}, under |-> {}]
NewPtr(name, i) == [path |-> <<name>>, kind |-> "ptr", index |-> i, new |-> TRUE, tags |-> {}, under |-> {}]

\* A field without a value: its setter only sets the tag.
Void(name) == [path |-> <<name>>, kind |-> "void", tags |-> {}, under |-> {}]

\* A member of the union whose tag is the 16 bits at byte disc: its setter sets
\* the tag, its getter checks it.
Case(disc, tag, field) == [field EXCEPT !.tags = @ \cup {<<disc, tag>>}]

\* A group converts the struct to a type of its own, with the same layout.  A
\* group that is a member of a union is selected with a setter of its own; the
\* accessors of the fields under it neither check nor set that tag.
Group(name, fields) == {[f EXCEPT !.path = <<name>> \o @] : f \in fields}
CaseGroup(disc, tag, name, fields) ==
  {Case(disc, tag, Void(name))}
    \cup {[f EXCEPT !.under = @ \cup {<<disc, tag>>}] : f \in Group(name, fields)}

\* What a Future accessor follows: Future.Field(i).
Follow(path, i) == [path |-> path, index |-> i]

\* A struct type: NewStruct with DataSize and PointerCount, its fields, and
\* the pointer fields its Future type follows.
StructType(data, ptrs, fields, future) == [data |-> data, ptrs |-> ptrs, fields |-> fields, future |-> future]
===============================================================================
