------------------------- MODULE InternalSchemaLayout -------------------------
(***************************************************************************)
(* Schema nodes as the accessors of internal/schema/schema.capnp.go lay    *)
(* them out: what the text encoder, POGS and the code generator read.      *)
(***************************************************************************)
EXTENDS Layout

Node_structNode ==
  {Num("DataWordCount", 14, 16), Num("PointerCount", 24, 16), Num("PreferredListEncoding", 26, 16),
   Bit("IsGroup", 224), Num("DiscriminantCount", 30, 16), Num("DiscriminantOffset", 32, 32),
   NewPtr("Fields", 3)}

Node_enum ==
  {NewPtr("Enumerants", 3)}

Node_interface ==
  {NewPtr("Methods", 3), NewPtr("Superclasses", 4)}

Node_const ==
  {NewPtr("Type", 3), NewPtr("Value", 4)}

Node_annotation ==
  {NewPtr("Type", 3), Bit("TargetsFile", 112), Bit("TargetsConst", 113), Bit("TargetsEnum", 114),
   Bit("TargetsEnumerant", 115), Bit("TargetsStruct", 116), Bit("TargetsField", 117),
   Bit("TargetsUnion", 118), Bit("TargetsGroup", 119), Bit("TargetsInterface", 120),
   Bit("TargetsMethod", 121), Bit("TargetsParam", 122), Bit("TargetsAnnotation", 123)}

Node_IdToFile ==
  {Num("Id", 0, 64), Ptr("DisplayName", 0), Num("DisplayNamePrefixLength", 8, 32), Num("ScopeId", 16, 64),
   NewPtr("Parameters", 5), Bit("IsGeneric", 288), NewPtr("NestedNodes", 1), NewPtr("Annotations", 2),
   Case(12, 0, Void("File"))}

Node ==
  StructType(40, 6,
    Node_IdToFile \cup CaseGroup(12, 1, "StructNode", Node_structNode)
      \cup CaseGroup(12, 2, "Enum", Node_enum) \cup CaseGroup(12, 3, "Interface", Node_interface)
      \cup CaseGroup(12, 4, "Const", Node_const) \cup CaseGroup(12, 5, "Annotation", Node_annotation),
    {})

Node_Parameter ==
  StructType(0, 1,
    {Ptr("Name", 0)},
    {})

Node_NestedNode ==
  StructType(8, 1,
    {Ptr("Name", 0), Num("Id", 0, 64)},
    {})

Node_SourceInfo ==
  StructType(8, 2,
    {Num("Id", 0, 64), Ptr("DocComment", 0), NewPtr("Members", 1)},
    {})

Node_SourceInfo_Member ==
  StructType(0, 1,
    {Ptr("DocComment", 0)},
    {})

Field_slot ==
  {Num("Offset", 4, 32), NewPtr("Type", 2), NewPtr("DefaultValue", 3), Bit("HadExplicitDefault", 128)}

Field_group ==
  {Num("TypeId", 16, 64)}

Field_ordinal ==
  {Case(10, 0, Void("Implicit")), Case(10, 1, Num("Explicit", 12, 16))}

Field_NameToDiscriminantValue ==
  {Ptr("Name", 0), Num("CodeOrder", 0, 16), NewPtr("Annotations", 1),
   Data("DiscriminantValue", 2, 16, TRUE)}

Field ==
  StructType(24, 4,
    Field_NameToDiscriminantValue \cup CaseGroup(8, 0, "Slot", Field_slot)
      \cup CaseGroup(8, 1, "Group", Field_group) \cup Group("Ordinal", Field_ordinal),
    {})

Enumerant ==
  StructType(8, 2,
    {Ptr("Name", 0), Num("CodeOrder", 0, 16), NewPtr("Annotations", 1)},
    {})

Superclass ==
  StructType(8, 1,
    {Num("Id", 0, 64), NewPtr("Brand", 0)},
    {})

Method_NameToAnnotations ==
  {Ptr("Name", 0), Num("CodeOrder", 0, 16), NewPtr("ImplicitParameters", 4), Num("ParamStructType", 8, 64),
   NewPtr("ParamBrand", 2), Num("ResultStructType", 16, 64), NewPtr("ResultBrand", 3),
   NewPtr("Annotations", 1)}

Method ==
  StructType(24, 5,
    Method_NameToAnnotations,
    {})

Type_list ==
  {NewPtr("ElementType", 0)}

Type_enum ==
  {Num("TypeId", 8, 64), NewPtr("Brand", 0)}

Type_structType ==
  {Num("TypeId", 8, 64), NewPtr("Brand", 0)}

Type_interface ==
  {Num("TypeId", 8, 64), NewPtr("Brand", 0)}

Type_anyPointer_unconstrained ==
  {Case(10, 0, Void("AnyKind")), Case(10, 1, Void("Struct")), Case(10, 2, Void("List")),
   Case(10, 3, Void("Capability"))}

Type_anyPointer_parameter ==
  {Num("ScopeId", 16, 64), Num("ParameterIndex", 10, 16)}

Type_anyPointer_implicitMethodParameter ==
  {Num("ParameterIndex", 10, 16)}

Type_anyPointer ==
  CaseGroup(8, 0, "Unconstrained", Type_anyPointer_unconstrained)
    \cup CaseGroup(8, 1, "Parameter", Type_anyPointer_parameter)
    \cup CaseGroup(8, 2, "ImplicitMethodParameter", Type_anyPointer_implicitMethodParameter)

Type_VoidToData ==
  {Case(0, 0, Void("Void")), Case(0, 1, Void("Bool")), Case(0, 2, Void("Int8")), Case(0, 3, Void("Int16")),
   Case(0, 4, Void("Int32")), Case(0, 5, Void("Int64")), Case(0, 6, Void("Uint8")),
   Case(0, 7, Void("Uint16")), Case(0, 8, Void("Uint32")), Case(0, 9, Void("Uint64")),
   Case(0, 10, Void("Float32")), Case(0, 11, Void("Float64")), Case(0, 12, Void("Text")),
   Case(0, 13, Void("Data"))}

Type ==
  StructType(24, 1,
    Type_VoidToData \cup CaseGroup(0, 14, "List", Type_list) \cup CaseGroup(0, 15, "Enum", Type_enum)
      \cup CaseGroup(0, 16, "StructType", Type_structType) \cup CaseGroup(0, 17, "Interface", Type_interface)
      \cup CaseGroup(0, 18, "AnyPointer", Type_anyPointer),
    {})

Brand ==
  StructType(0, 1,
    {NewPtr("Scopes", 0)},
    {})

Brand_Scope ==
  StructType(16, 1,
    {Num("ScopeId", 0, 64), Case(8, 0, NewPtr("Bind", 0)), Case(8, 1, Void("Inherit"))},
    {})

Brand_Binding ==
  StructType(8, 1,
    {Case(0, 0, Void("Unbound")), Case(0, 1, NewPtr("Type", 0))},
    {})

Value_VoidToFloat64 ==
  {Case(0, 0, Void("Void")), Case(0, 1, Bit("Bool", 16)), Case(0, 2, Num("Int8", 2, 8)),
   Case(0, 3, Num("Int16", 2, 16)), Case(0, 4, Num("Int32", 4, 32)), Case(0, 5, Num("Int64", 8, 64)),
   Case(0, 6, Num("Uint8", 2, 8)), Case(0, 7, Num("Uint16", 2, 16)), Case(0, 8, Num("Uint32", 4, 32)),
   Case(0, 9, Num("Uint64", 8, 64)), Case(0, 10, Num("Float32", 4, 32)), Case(0, 11, Num("Float64", 8, 64))}

Value_TextToAnyPointer ==
  {Case(0, 12, Ptr("Text", 0)), Case(0, 13, Ptr("Data", 0)), Case(0, 14, Ptr("List", 0)),
   Case(0, 15, Num("Enum", 2, 16)), Case(0, 16, Ptr("StructValue", 0)), Case(0, 17, Void("Interface")),
   Case(0, 18, Ptr("AnyPointer", 0))}

Value ==
  StructType(16, 1,
    Value_VoidToFloat64 \cup Value_TextToAnyPointer,
    {})

Annotation ==
  StructType(8, 2,
    {Num("Id", 0, 64), NewPtr("Brand", 1), NewPtr("Value", 0)},
    {})

CapnpVersion ==
  StructType(8, 0,
    {Num("Major", 0, 16), Num("Minor", 2, 8), Num("Micro", 3, 8)},
    {})

CodeGeneratorRequest ==
  StructType(0, 4,
    {NewPtr("CapnpVersion", 2), NewPtr("Nodes", 0), NewPtr("SourceInfo", 3), NewPtr("RequestedFiles", 1)},
    {})

CodeGeneratorRequest_RequestedFile ==
  StructType(8, 2,
    {Num("Id", 0, 64), Ptr("Filename", 0), NewPtr("Imports", 1)},
    {})

CodeGeneratorRequest_RequestedFile_Import ==
  StructType(8, 1,
    {Num("Id", 0, 64), Ptr("Name", 0)},
    {})

\* Every struct type of the file, by name.
Types ==
  [Node |-> Node, Node_Parameter |-> Node_Parameter, Node_NestedNode |-> Node_NestedNode,
   Node_SourceInfo |-> Node_SourceInfo, Node_SourceInfo_Member |-> Node_SourceInfo_Member,
   Field |-> Field, Enumerant |-> Enumerant, Superclass |-> Superclass, Method |-> Method,
   Type |-> Type, Brand |-> Brand, Brand_Scope |-> Brand_Scope, Brand_Binding |-> Brand_Binding,
   Value |-> Value, Annotation |-> Annotation, CapnpVersion |-> CapnpVersion,
   CodeGeneratorRequest |-> CodeGeneratorRequest,
   CodeGeneratorRequest_RequestedFile |-> CodeGeneratorRequest_RequestedFile,
   CodeGeneratorRequest_RequestedFile_Import |-> CodeGeneratorRequest_RequestedFile_Import]
===============================================================================
