---------------------------- MODULE TwoPartyLayout ----------------------------
(***************************************************************************)
(* The identifiers of a two-party network as the accessors of              *)
(* std/capnp/rpctwoparty/rpc-twoparty.capnp.go lay them out.               *)
(***************************************************************************)
EXTENDS Layout

VatId ==
  StructType(8, 0,
    {Num("Side", 0, 16)},
    {})

ProvisionId ==
  StructType(8, 0,
    {Num("JoinId", 0, 32)},
    {})

RecipientId ==
  StructType(0, 0,
    {},
    {})

ThirdPartyCapId ==
  StructType(0, 0,
    {},
    {})

JoinKeyPart ==
  StructType(8, 0,
    {Num("JoinId", 0, 32), Num("PartCount", 4, 16), Num("PartNum", 6, 16)},
    {})

JoinResult ==
  StructType(8, 1,
    {Num("JoinId", 0, 32), Bit("Succeeded", 32), Ptr("Cap", 0)},
    {Follow(<<"Cap">>, 0)})

\* Every struct type of the file, by name.
Types ==
  [VatId |-> VatId, ProvisionId |-> ProvisionId, RecipientId |-> RecipientId,
   ThirdPartyCapId |-> ThirdPartyCapId, JoinKeyPart |-> JoinKeyPart, JoinResult |-> JoinResult]
===============================================================================
