--------------------------- MODULE PersistentLayout ---------------------------
(***************************************************************************)
(* The parameters and results of Persistent.save as the accessors of       *)
(* std/capnp/persistent/persistent.capnp.go lay them out.                  *)
(***************************************************************************)
EXTENDS Layout

Persistent_SaveParams ==
  StructType(0, 1,
    {Ptr("SealFor", 0)},
    {Follow(<<"SealFor">>, 0)})

Persistent_SaveResults ==
  StructType(0, 1,
    {Ptr("SturdyRef", 0)},
    {Follow(<<"SturdyRef">>, 0)})

\* Every struct type of the file, by name.
Types ==
  [Persistent_SaveParams |-> Persistent_SaveParams,
   Persistent_SaveResults |-> Persistent_SaveResults]
===============================================================================
