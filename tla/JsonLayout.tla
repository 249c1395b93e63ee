------------------------------ MODULE JsonLayout ------------------------------
(***************************************************************************)
(* JSON values as the accessors of std/capnp/compat/json/json.capnp.go lay *)
(* them out.                                                               *)
(***************************************************************************)
EXTENDS Layout

Value_NullToCall ==
  {Case(0, 0, Void("Null")), Case(0, 1, Bit("Boolean", 16)), Case(0, 2, Num("Number", 8, 64)),
   Case(0, 3, Ptr("String_", 0)), Case(0, 4, NewPtr("Array", 0)), Case(0, 5, NewPtr("Object", 0)),
   Case(0, 6, NewPtr("Call", 0))}

Value_Raw ==
  {Case(0, 7, Ptr("Raw", 0))}

Value_Future ==
  {Follow(<<"Call">>, 0)}

Value ==
  StructType(16, 1,
    Value_NullToCall \cup Value_Raw,
    Value_Future)

Value_Field ==
  StructType(0, 2,
    {Ptr("Name", 0), NewPtr("Value", 1)},
    {Follow(<<"Value">>, 1)})

Value_Call ==
  StructType(0, 2,
    {Ptr("Function", 0), NewPtr("Params", 1)},
    {})

FlattenOptions ==
  StructType(0, 1,
    {Ptr("Prefix", 0)},
    {})

DiscriminatorOptions ==
  StructType(0, 2,
    {Ptr("Name", 0), Ptr("ValueName", 1)},
    {})

\* Every struct type of the file, by name.
Types ==
  [Value |-> Value, Value_Field |-> Value_Field, Value_Call |-> Value_Call,
   FlattenOptions |-> FlattenOptions, DiscriminatorOptions |-> DiscriminatorOptions]
===============================================================================
