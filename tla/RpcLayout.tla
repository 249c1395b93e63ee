------------------------------- MODULE RpcLayout -------------------------------
(***************************************************************************)
(* The messages of the RPC protocol as the accessors of                    *)
(* std/capnp/rpc/rpc.capnp.go lay them out.                                *)
(***************************************************************************)
EXTENDS Layout

Message_UnimplementedToCall ==
  {Case(0, 0, NewPtr("Unimplemented", 0)), Case(0, 1, NewPtr("Abort", 0)),
   Case(0, 8, NewPtr("Bootstrap", 0)), Case(0, 2, NewPtr("Call", 0))}

Message_ReturnToRelease ==
  {Case(0, 3, NewPtr("Return", 0)), Case(0, 4, NewPtr("Finish", 0)), Case(0, 5, NewPtr("Resolve", 0)),
   Case(0, 6, NewPtr("Release", 0))}

Message_DisembargoToAccept ==
  {Case(0, 13, NewPtr("Disembargo", 0)), Case(0, 7, Ptr("ObsoleteSave", 0)),
   Case(0, 9, Ptr("ObsoleteDelete", 0)), Case(0, 10, NewPtr("Provide", 0)),
   Case(0, 11, NewPtr("Accept", 0))}

Message_Join ==
  {Case(0, 12, NewPtr("Join", 0))}

Message_Future ==
  {Follow(<<"Unimplemented">>, 0), Follow(<<"Abort">>, 0), Follow(<<"Bootstrap">>, 0),
   Follow(<<"Call">>, 0), Follow(<<"Return">>, 0), Follow(<<"Finish">>, 0), Follow(<<"Resolve">>, 0),
   Follow(<<"Release">>, 0), Follow(<<"Disembargo">>, 0), Follow(<<"ObsoleteSave">>, 0),
   Follow(<<"ObsoleteDelete">>, 0), Follow(<<"Provide">>, 0), Follow(<<"Accept">>, 0),
   Follow(<<"Join">>, 0)}

Message ==
  StructType(8, 1,
    Message_UnimplementedToCall \cup Message_ReturnToRelease \cup Message_DisembargoToAccept
      \cup Message_Join,
    Message_Future)

Bootstrap ==
  StructType(8, 1,
    {Num("QuestionId", 0, 32), Ptr("DeprecatedObjectId", 0)},
    {Follow(<<"DeprecatedObjectId">>, 0)})

Call_sendResultsTo ==
  {Case(6, 0, Void("Caller")), Case(6, 1, Void("Yourself")), Case(6, 2, Ptr("ThirdParty", 2))}

Call_QuestionIdToParams ==
  {Num("QuestionId", 0, 32), NewPtr("Target", 0), Num("InterfaceId", 8, 64), Num("MethodId", 4, 16),
   Bit("AllowThirdPartyTailCall", 128), Bit("NoPromisePipelining", 129), Bit("OnlyPromisePipeline", 130),
   NewPtr("Params", 1)}

Call_Future ==
  {Follow(<<"Target">>, 0), Follow(<<"Params">>, 1), Follow(<<"SendResultsTo", "ThirdParty">>, 2)}

Call ==
  StructType(24, 3,
    Call_QuestionIdToParams \cup Group("SendResultsTo", Call_sendResultsTo),
    Call_Future)

Return_AnswerIdToAcceptFromThirdParty ==
  {Num("AnswerId", 0, 32), BitAt("ReleaseParamCaps", 32, TRUE), Bit("NoFinishNeeded", 33),
   Case(6, 0, NewPtr("Results", 0)), Case(6, 1, NewPtr("Exception", 0)), Case(6, 2, Void("Canceled")),
   Case(6, 3, Void("ResultsSentElsewhere")), Case(6, 4, Num("TakeFromOtherQuestion", 8, 32)),
   Case(6, 5, Ptr("AcceptFromThirdParty", 0))}

Return_Future ==
  {Follow(<<"Results">>, 0), Follow(<<"Exception">>, 0), Follow(<<"AcceptFromThirdParty">>, 0)}

Return ==
  StructType(16, 1,
    Return_AnswerIdToAcceptFromThirdParty,
    Return_Future)

Finish ==
  StructType(8, 0,
    {Num("QuestionId", 0, 32), BitAt("ReleaseResultCaps", 32, TRUE),
     BitAt("RequireEarlyCancellationWorkaround", 33, TRUE)},
    {})

Resolve_Future ==
  {Follow(<<"Cap">>, 0), Follow(<<"Exception">>, 0)}

Resolve ==
  StructType(8, 1,
    {Num("PromiseId", 0, 32), Case(4, 0, NewPtr("Cap", 0)), Case(4, 1, NewPtr("Exception", 0))},
    Resolve_Future)

Release ==
  StructType(8, 0,
    {Num("Id", 0, 32), Num("ReferenceCount", 4, 32)},
    {})

Disembargo_context ==
  {Case(4, 0, Num("SenderLoopback", 0, 32)), Case(4, 1, Num("ReceiverLoopback", 0, 32)),
   Case(4, 2, Void("Accept")), Case(4, 3, Num("Provide", 0, 32))}

Disembargo_Future ==
  {Follow(<<"Target">>, 0)}

Disembargo ==
  StructType(8, 1,
    {NewPtr("Target", 0)} \cup Group("Context", Disembargo_context),
    Disembargo_Future)

Provide ==
  StructType(8, 2,
    {Num("QuestionId", 0, 32), NewPtr("Target", 0), Ptr("Recipient", 1)},
    {Follow(<<"Target">>, 0), Follow(<<"Recipient">>, 1)})

Accept ==
  StructType(8, 1,
    {Num("QuestionId", 0, 32), Ptr("Provision", 0), Bit("Embargo", 32)},
    {Follow(<<"Provision">>, 0)})

Join ==
  StructType(8, 2,
    {Num("QuestionId", 0, 32), NewPtr("Target", 0), Ptr("KeyPart", 1)},
    {Follow(<<"Target">>, 0), Follow(<<"KeyPart">>, 1)})

MessageTarget ==
  StructType(8, 1,
    {Case(4, 0, Num("ImportedCap", 0, 32)), Case(4, 1, NewPtr("PromisedAnswer", 0))},
    {Follow(<<"PromisedAnswer">>, 0)})

Payload ==
  StructType(0, 2,
    {Ptr("Content", 0), NewPtr("CapTable", 1)},
    {Follow(<<"Content">>, 0)})

CapDescriptor_NoneToAttachedFd ==
  {Case(0, 0, Void("None")), Case(0, 1, Num("SenderHosted", 4, 32)),
   Case(0, 2, Num("SenderPromise", 4, 32)), Case(0, 3, Num("ReceiverHosted", 4, 32)),
   Case(0, 4, NewPtr("ReceiverAnswer", 0)), Case(0, 5, NewPtr("ThirdPartyHosted", 0)),
   Data("AttachedFd", 2, 8, TRUE)}

CapDescriptor_Future ==
  {Follow(<<"ReceiverAnswer">>, 0), Follow(<<"ThirdPartyHosted">>, 0)}

CapDescriptor ==
  StructType(8, 1,
    CapDescriptor_NoneToAttachedFd,
    CapDescriptor_Future)

PromisedAnswer ==
  StructType(8, 1,
    {Num("QuestionId", 0, 32), NewPtr("Transform", 0)},
    {})

PromisedAnswer_Op ==
  StructType(8, 0,
    {Case(0, 0, Void("Noop")), Case(0, 1, Num("GetPointerField", 2, 16))},
    {})

ThirdPartyCapDescriptor ==
  StructType(8, 1,
    {Ptr("Id", 0), Num("VineId", 0, 32)},
    {Follow(<<"Id">>, 0)})

Exception ==
  StructType(8, 2,
    {Ptr("Reason", 0), Num("Type", 4, 16), Bit("ObsoleteIsCallersFault", 0),
     Num("ObsoleteDurability", 2, 16), Ptr("Trace", 1)},
    {})

\* Every struct type of the file, by name.
Types ==
  [Message |-> Message, Bootstrap |-> Bootstrap, Call |-> Call, Return |-> Return,
   Finish |-> Finish, Resolve |-> Resolve, Release |-> Release, Disembargo |-> Disembargo,
   Provide |-> Provide, Accept |-> Accept, Join |-> Join, MessageTarget |-> MessageTarget,
   Payload |-> Payload, CapDescriptor |-> CapDescriptor, PromisedAnswer |-> PromisedAnswer,
   PromisedAnswer_Op |-> PromisedAnswer_Op, ThirdPartyCapDescriptor |-> ThirdPartyCapDescriptor,
   Exception |-> Exception]
===============================================================================
