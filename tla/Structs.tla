------------------------------ MODULE Structs ------------------------------
(***************************************************************************)
(* The structs that travel between processes: the syntax tree and the      *)
(* plugin protocol (parser/AST.go, plugin/protocol.go) and the descriptors *)
(* of the reflection registry (thrift_reflection/descriptor.go), and the   *)
(* meta data that describe them all (meta/bootstrap.go).  A table          *)
(* has the members in the order of the Go struct, with the id, the name,   *)
(* the requiredness and the type that the tag and the registered meta data *)
(* give them.  In a value a pointer, a slice or a map is <<>> when it is   *)
(* nil and <<what it is>> else; a string is its bytes, a double its eight. *)
(***************************************************************************)
EXTENDS Integers, Sequences

STOP == 0
BOOL == 2
BYTE == 3
DOUBLE == 4
I16_ == 6
I32_ == 8
I64_ == 10
STRING_ == 11
STRUCT == 12
MAP == 13
SET == 14
LIST == 15

Bool == [tid |-> BOOL]
I16 == [tid |-> I16_]
I32 == [tid |-> I32_]
I64 == [tid |-> I64_]
Double == [tid |-> DOUBLE]
String == [tid |-> STRING_]
Enum == I32
Ptr(t) == [tid |-> t.tid, ptr |-> TRUE]
S(name) == [tid |-> STRUCT, of |-> name]
List(t) == [tid |-> LIST, value |-> t]
Map(k, t) == [tid |-> MAP, key |-> k, value |-> t]

Member(id, name, requiredness, t) ==
    [id |-> id, name |-> name, requiredness |-> requiredness, type |-> t]
F(id, name, t) == Member(id, name, "default", t)
Req(id, name, t) == Member(id, name, "required", t)
Opt(id, name, t) == Member(id, name, "optional", t)

ReferenceFields == <<F(1, "Name", String), F(2, "Index", I32)>>
AnnotationFields == <<F(1, "Key", String), F(2, "Values", List(String))>>
TypeFields ==
    <<F(1, "Name", String), Opt(2, "KeyType", S("Type")), Opt(3, "ValueType", S("Type")),
      F(4, "CppType", String), F(5, "Annotations", List(S("Annotation"))), F(6, "Category", Enum),
      Opt(7, "Reference", S("Reference")), Opt(8, "IsTypedef", Ptr(Bool))>>
NamespaceFields ==
    <<F(1, "Language", String), F(2, "Name", String), F(3, "Annotations", List(S("Annotation")))>>
TypedefFields ==
    <<Opt(1, "Type", S("Type")), F(2, "Alias", String), F(3, "Annotations", List(S("Annotation"))),
      F(4, "ReservedComments", String)>>
EnumValueFields ==
    <<F(1, "Name", String), F(2, "Value", I64), F(3, "Annotations", List(S("Annotation"))),
      F(4, "ReservedComments", String)>>
EnumFields ==
    <<F(1, "Name", String), F(2, "Values", List(S("EnumValue"))),
      F(3, "Annotations", List(S("Annotation"))), F(4, "ReservedComments", String)>>
ConstValueExtraFields ==
    <<F(1, "IsEnum", Bool), F(2, "Index", I32), F(3, "Name", String), F(4, "Sel", String)>>
ConstValueFields ==
    <<F(1, "Type", Enum), Opt(2, "TypedValue", S("ConstTypedValue")),
      Opt(3, "Extra", S("ConstValueExtra"))>>
MapConstValueFields == <<Opt(1, "Key", S("ConstValue")), Opt(2, "Value", S("ConstValue"))>>
ConstantFields ==
    <<F(1, "Name", String), Opt(2, "Type", S("Type")), Opt(3, "Value", S("ConstValue")),
      F(4, "Annotations", List(S("Annotation"))), F(5, "ReservedComments", String)>>
FieldFields ==
    <<F(1, "ID", I32), F(2, "Name", String), F(3, "Requiredness", Enum), F(4, "Type", S("Type")),
      Opt(5, "Default", S("ConstValue")), F(6, "Annotations", List(S("Annotation"))),
      F(7, "ReservedComments", String)>>
StructLikeFields ==
    <<F(1, "Category", String), F(2, "Name", String), F(3, "Fields", List(S("Field"))),
      F(4, "Annotations", List(S("Annotation"))), F(5, "ReservedComments", String),
      Opt(6, "Expandable", Ptr(Bool))>>
FunctionFields ==
    <<F(1, "Name", String), F(2, "Oneway", Bool), F(3, "Void", Bool), Opt(4, "FunctionType", S("Type")),
      F(5, "Arguments", List(S("Field"))), F(6, "Throws", List(S("Field"))),
      F(7, "Annotations", List(S("Annotation"))), F(8, "ReservedComments", String)>>
ServiceFields ==
    <<F(1, "Name", String), F(2, "Extends", String), F(3, "Functions", List(S("Function"))),
      F(4, "Annotations", List(S("Annotation"))), Opt(5, "Reference", S("Reference")),
      F(6, "ReservedComments", String)>>
IncludeFields == <<F(1, "Path", String), Opt(2, "Reference", S("Thrift")), Opt(3, "Used", Ptr(Bool))>>
ThriftFields ==
    <<F(1, "Filename", String), F(2, "Includes", List(S("Include"))), F(3, "CppIncludes", List(String)),
      F(4, "Namespaces", List(S("Namespace"))), F(5, "Typedefs", List(S("Typedef"))),
      F(6, "Constants", List(S("Constant"))), F(7, "Enums", List(S("Enum"))),
      F(8, "Structs", List(S("StructLike"))), F(9, "Unions", List(S("StructLike"))),
      F(10, "Exceptions", List(S("StructLike"))), F(11, "Services", List(S("Service"))),
      F(12, "Name2Category", Map(String, Enum))>>
ConstTypedValueFields ==
    <<Opt(1, "Double", Ptr(Double)), Opt(2, "Int", Ptr(I64)), Opt(3, "Literal", Ptr(String)),
      Opt(4, "Identifier", Ptr(String)), Opt(5, "List", List(S("ConstValue"))),
      Opt(6, "Map", List(S("MapConstValue")))>>
RequestFields ==
    <<Req(1, "Version", String), Req(2, "GeneratorParameters", List(String)),
      Req(3, "PluginParameters", List(String)), Req(4, "Language", String),
      Req(5, "OutputPath", String), Req(6, "Recursive", Bool), Req(7, "AST", S("Thrift"))>>
GeneratedFields ==
    <<Req(1, "Content", String), Opt(2, "Name", Ptr(String)), Opt(3, "InsertionPoint", Ptr(String))>>
ResponseFields ==
    <<Opt(1, "Error", Ptr(String)), Opt(2, "Contents", List(S("Generated"))),
      Opt(3, "Warnings", List(String))>>
TypeDescriptorFields ==
    <<Req(1, "Filepath", String), Req(2, "Name", String), Opt(3, "KeyType", S("TypeDescriptor")),
      Opt(4, "ValueType", S("TypeDescriptor")), Opt(5, "Extra", Map(String, String))>>
ConstDescriptorFields ==
    <<Req(1, "Filepath", String), Req(2, "Name", String), Req(3, "Type", S("TypeDescriptor")),
      Req(4, "Value", S("ConstValueDescriptor")), Req(5, "Annotations", Map(String, List(String))),
      Req(6, "Comments", String), Opt(7, "Extra", Map(String, String))>>
ConstValueDescriptorFields ==
    <<Req(1, "Type", Enum), Req(2, "ValueDouble", Double), Req(3, "ValueInt", I64),
      Req(4, "ValueString", String), Req(5, "ValueBool", Bool),
      Opt(6, "ValueList", List(S("ConstValueDescriptor"))),
      Opt(7, "ValueMap", Map(S("ConstValueDescriptor"), S("ConstValueDescriptor"))),
      Req(8, "ValueIdentifier", String), Opt(9, "Extra", Map(String, String))>>
TypedefDescriptorFields ==
    <<Req(1, "Filepath", String), Req(2, "Type", S("TypeDescriptor")), Req(3, "Alias", String),
      Req(4, "Annotations", Map(String, List(String))), Req(5, "Comments", String),
      Opt(6, "Extra", Map(String, String))>>
EnumDescriptorFields ==
    <<Req(1, "Filepath", String), Req(2, "Name", String),
      Req(3, "Values", List(S("EnumValueDescriptor"))),
      Req(4, "Annotations", Map(String, List(String))), Req(5, "Comments", String),
      Opt(6, "Extra", Map(String, String))>>
EnumValueDescriptorFields ==
    <<Req(1, "Filepath", String), Req(2, "Name", String), Req(3, "Value", I64),
      Req(4, "Annotations", Map(String, List(String))), Req(5, "Comments", String),
      Opt(6, "Extra", Map(String, String))>>
FieldDescriptorFields ==
    <<Req(1, "Filepath", String), Req(2, "Name", String), Req(3, "Type", S("TypeDescriptor")),
      Req(4, "Requiredness", String), Req(5, "ID", I32),
      Opt(6, "DefaultValue", S("ConstValueDescriptor")),
      Req(7, "Annotations", Map(String, List(String))), Req(8, "Comments", String),
      Opt(9, "Extra", Map(String, String))>>
StructDescriptorFields ==
    <<Req(1, "Filepath", String), Req(2, "Name", String), Req(3, "Fields", List(S("FieldDescriptor"))),
      Req(4, "Annotations", Map(String, List(String))), Req(5, "Comments", String),
      Opt(6, "Extra", Map(String, String))>>
MethodDescriptorFields ==
    <<Req(1, "Filepath", String), Req(2, "Name", String), Opt(3, "Response", S("TypeDescriptor")),
      Req(4, "Args", List(S("FieldDescriptor"))), Req(5, "Annotations", Map(String, List(String))),
      Req(6, "Comments", String), Req(7, "ThrowExceptions", List(S("FieldDescriptor"))),
      Req(8, "IsOneway", Bool), Opt(9, "Extra", Map(String, String))>>
ServiceDescriptorFields ==
    <<Req(1, "Filepath", String), Req(2, "Name", String),
      Req(3, "Methods", List(S("MethodDescriptor"))), Req(4, "Annotations", Map(String, List(String))),
      Req(5, "Comments", String), Opt(6, "Extra", Map(String, String)), Opt(7, "Base", String)>>
FileDescriptorFields ==
    <<Req(1, "Filepath", String), Req(2, "Includes", Map(String, String)),
      Req(3, "Namespaces", Map(String, String)), Req(4, "Services", List(S("ServiceDescriptor"))),
      Req(5, "Structs", List(S("StructDescriptor"))), Req(6, "Exceptions", List(S("StructDescriptor"))),
      Req(7, "Enums", List(S("EnumDescriptor"))), Req(8, "Typedefs", List(S("TypedefDescriptor"))),
      Req(9, "Unions", List(S("StructDescriptor"))), Req(10, "Consts", List(S("ConstDescriptor"))),
      Opt(11, "Extra", Map(String, String))>>
TypeMetaFields ==
    <<Req(1, "TypeID", Enum), Opt(2, "KeyType", S("TypeMeta")), Opt(3, "ValueType", S("TypeMeta"))>>
FieldMetaFields ==
    <<Req(1, "FieldID", I16), Req(2, "Name", String), Req(3, "Requiredness", Enum),
      Req(4, "FieldType", S("TypeMeta"))>>
StructMetaFields ==
    <<Req(1, "Name", String), Req(2, "Category", String), Req(3, "Fields", List(S("FieldMeta")))>>

\* Go's type of each struct: its members, by name their types, and the struct
\* that its constructor makes.
Structs ==
    [Reference |-> ReferenceFields, Annotation |-> AnnotationFields,
     Type |-> TypeFields, Namespace |-> NamespaceFields, Typedef |-> TypedefFields,
     EnumValue |-> EnumValueFields, Enum |-> EnumFields,
     ConstValueExtra |-> ConstValueExtraFields, ConstValue |-> ConstValueFields,
     MapConstValue |-> MapConstValueFields, Constant |-> ConstantFields,
     Field |-> FieldFields, StructLike |-> StructLikeFields,
     Function |-> FunctionFields, Service |-> ServiceFields,
     Include |-> IncludeFields, Thrift |-> ThriftFields,
     ConstTypedValue |-> ConstTypedValueFields, Request |-> RequestFields,
     Generated |-> GeneratedFields, Response |-> ResponseFields,
     TypeDescriptor |-> TypeDescriptorFields,
     ConstDescriptor |-> ConstDescriptorFields,
     ConstValueDescriptor |-> ConstValueDescriptorFields,
     TypedefDescriptor |-> TypedefDescriptorFields,
     EnumDescriptor |-> EnumDescriptorFields,
     EnumValueDescriptor |-> EnumValueDescriptorFields,
     FieldDescriptor |-> FieldDescriptorFields,
     StructDescriptor |-> StructDescriptorFields,
     MethodDescriptor |-> MethodDescriptorFields,
     ServiceDescriptor |-> ServiceDescriptorFields,
     FileDescriptor |-> FileDescriptorFields,
     TypeMeta |-> TypeMetaFields, FieldMeta |-> FieldMetaFields,
     StructMeta |-> StructMetaFields]

Names(T) == {Structs[T][i].name : i \in DOMAIN Structs[T]}
Types ==
    [T \in DOMAIN Structs |-> [n \in Names(T) |->
        (CHOOSE m \in {Structs[T][i] : i \in DOMAIN Structs[T]} : m.name = n).type]]

Nil == <<>>
IsPtr(t) == "ptr" \in DOMAIN t
Nilable(t) == IsPtr(t) \/ t.tid \in {STRUCT, MAP, LIST}
ZeroOf(t) ==
    CASE Nilable(t) -> Nil
      [] t = Bool -> FALSE
      [] t = Double -> <<0, 0, 0, 0, 0, 0, 0, 0>>
      [] t = String -> <<>>
      [] OTHER -> 0

New ==
    [T \in DOMAIN Structs |-> [n \in Names(T) |->
        IF T = "ConstValueExtra" /\ n = "Index" THEN -1 ELSE ZeroOf(Types[T][n])]]
=============================================================================
