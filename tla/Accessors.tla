------------------------------- MODULE Accessors -------------------------------
(***************************************************************************)
(* A struct of a generated type as the calls of its accessors change it.   *)
(* The data section is the set of its bits that are 1.  A numeric field is *)
(* set to one of two values, all of whose bits are equal, so that any two  *)
(* fields that share a bit are told apart.  The accessors are called in    *)
(* any order: nothing makes a program select a group of a union before it  *)
(* sets the fields under it.                                               *)
(***************************************************************************)
EXTENDS Layout, FiniteSets

CONSTANTS
  Written,      \* the types whose structs are built, by name
  Readers,      \* for each of them, the types its structs are read with
  Objects,      \* what a pointer field is set to
  MaxCalls      \* bound on the setters called

VARIABLES
  name,         \* the name of the type of the struct
  data,         \* the bits of its data section that are set
  ptrs,         \* its pointers
  want,         \* what each field must read as
  calls

accessorVars == <<name, data, ptrs, want, calls>>

Nil == "nil"
Unknown == "unknown"   \* what another member of a union left
Value(ones) == IF ones THEN "ones" ELSE "zeros"
typ == Written[name]

\* Struct.SetUint16(disc, tag) on the data section.
Word(disc) == (8 * disc)..(8 * disc + 15)
TagBits(disc, tag) == {i \in Word(disc) : (tag \div 2 ^ (i - 8 * disc)) % 2 = 1}
\* Variant: the old tag is not cleared.
SetTagOver(bits, disc, tag) == bits \cup TagBits(disc, tag)

SetTag(bits, disc, tag) == (bits \ Word(disc)) \cup TagBits(disc, tag)

\* A member of a union has one tag, other fields have none.
Tag(bits, f) == IF f.tags = {} THEN bits ELSE LET t == CHOOSE t \in f.tags : TRUE IN SetTag(bits, t[1], t[2])

Tagged(bits, f) == \A t \in f.tags : bits \cap Word(t[1]) = TagBits(t[1], t[2])

\* The accessors of a struct: reads outside its sections give zero or null,
\* writes outside them panic (struct.go).
Fits(t, f) == f.bits \subseteq 0..(8 * t.data - 1)
HasIndex(t, i) == i < t.ptrs
Pointer(i) == IF i \in DOMAIN ptrs THEN ptrs[i] ELSE Nil

\* The getter of a field; for one without a value, whether Which() names it.
Get(f) ==
  IF ~Tagged(data, f) THEN "panic"
  ELSE CASE f.kind = "void" -> "selected"
         [] f.kind = "ptr" -> Pointer(f.index)
         [] f.kind = "data" /\ f.bits \subseteq data -> Value(~f.inverted)
         [] f.kind = "data" /\ f.bits \cap data = {} -> Value(f.inverted)
         [] OTHER -> "torn"

\* Members of one union, and fields under different members of one.
Apart(s, t) == s[1] = t[1] /\ s[2] # t[2]
Rivals(f, g) == \E s \in f.tags, t \in g.tags : Apart(s, t)
Exclusive(f, g) == \E s \in f.tags \cup f.under, t \in g.tags \cup g.under : Apart(s, t)

\* Where the accessors of a field read and write.
Place(f) == (IF f.kind = "data" THEN f.bits ELSE {}) \cup UNION {Word(t[1]) : t \in f.tags}
Overlap(f, g) == Place(f) \cap Place(g) # {} \/ (f.kind = "ptr" /\ g.kind = "ptr" /\ f.index = g.index)

\* After a setter of f that leaves f with v: the other members of its union
\* cannot be read, and fields it shares its place with, as the members of a
\* union may, read as anything.
After(f, v) ==
  LET Paths(Is(_)) == {g.path : g \in {h \in typ.fields : h # f /\ Is(h)}}
      rivals == Paths(LAMBDA g : Rivals(f, g))
      shared == Paths(LAMBDA g : Exclusive(f, g) /\ Overlap(f, g))
  IN  [path \in DOMAIN want |->
         CASE path = f.path -> v
           [] path \in rivals -> "panic"
           [] path \in shared \ rivals -> Unknown
           [] OTHER -> want[path]]

-------------------------------------------------------------------------------
Fresh(f) == CASE \E t \in f.tags : t[2] # 0 -> "panic"
              [] f.kind = "data" -> Value(f.inverted)
              [] f.kind = "ptr" -> Nil
              [] OTHER -> "selected"

\* NewStruct allocates zeros.
Init ==
  /\ name \in DOMAIN Written
  /\ data = {}
  /\ ptrs = [i \in 0..(typ.ptrs - 1) |-> Nil]
  /\ want = [path \in {f.path : f \in typ.fields} |-> Fresh(CHOOSE f \in typ.fields : f.path = path)]
  /\ calls = 0

Call == calls < MaxCalls /\ calls' = calls + 1 /\ UNCHANGED name

\* SetX(v) of a number, a Boolean or an enum.
SetData(f, ones) ==
  /\ Call
  /\ f.kind = "data"
  /\ Fits(typ, f)
  /\ data' = IF ones # f.inverted THEN Tag(data, f) \cup f.bits ELSE Tag(data, f) \ f.bits
  /\ want' = After(f, Value(ones))
  /\ UNCHANGED ptrs

\* SetX(v) of a pointer.  The pointer is not written when it cannot be placed,
\* but the tag has been set by then: the field reads what was there.
SetPtr(f, v) ==
  /\ Call
  /\ f.kind = "ptr"
  /\ HasIndex(typ, f.index)
  /\ data' = Tag(data, f)
  /\ \/ ptrs' = [ptrs EXCEPT ![f.index] = v] /\ want' = After(f, v)
     \/ UNCHANGED ptrs /\ want' = After(f, Pointer(f.index))

\* NewX() when the allocation fails: the tag has been set already.
NewFails(f) ==
  /\ Call
  /\ f.kind = "ptr"
  /\ f.new
  /\ data' = Tag(data, f)
  /\ want' = After(f, Pointer(f.index))
  /\ UNCHANGED ptrs

\* SetX() of a union member without a value, and of a group in a union.
Select(f) ==
  /\ Call
  /\ f.kind = "void"
  /\ data' = Tag(data, f)
  /\ want' = After(f, "selected")
  /\ UNCHANGED ptrs

Next ==
  \E f \in typ.fields :
    \/ \E ones \in BOOLEAN : SetData(f, ones)
    \/ \E v \in Objects \cup {Nil} : SetPtr(f, v)
    \/ NewFails(f)
    \/ Select(f)

Spec == Init /\ [][Next]_accessorVars

-------------------------------------------------------------------------------
\* After any calls of the setters of a struct, in any order and with failures
\* between them, a field reads as the value last given to it: no setter touches
\* the bits or the pointer of another field, unless they are under different
\* members of a union.  The getter of a member that is not selected panics, also
\* when the setter that selected another failed after it set the tag; that other
\* member then reads the pointer that was there.  It is so for every copy of the
\* type that reads the struct (std/capnp/schema writes, internal/schema reads),
\* and a call pipelined on a field goes to the object its getter returns.  Every
\* field has room in the struct: no setter panics.
ReadsWhatWasSet ==
  /\ \A t \in Readers[name] : \A g \in t.fields :
       g.path \in DOMAIN want => want[g.path] \in {Unknown, Get(g)}
  /\ \A p \in typ.future : \E f \in typ.fields :
       /\ f.path = p.path /\ f.kind = "ptr"
       /\ want[f.path] \in {Unknown, "panic", Pointer(p.index)}
  /\ \A f \in typ.fields : (f.kind = "data" => Fits(typ, f)) /\ (f.kind = "ptr" => HasIndex(typ, f.index))

===============================================================================
