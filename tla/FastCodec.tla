----------------------------- MODULE FastCodec -----------------------------
(***************************************************************************)
(* The generated code of k-AST.go and k-protocol.go, that plugins and      *)
(* thriftgo talk with: what FastAppend puts down member by member, behind  *)
(* which type and id, which of them only when they are set, and the cases  *)
(* of the switch of FastRead, the type of a field in their last byte.      *)
(* "side" is the end that runs the code: the members that the version of   *)
(* it lacks, and whether it meets the entries of a map backwards.          *)
(***************************************************************************)
EXTENDS BinaryProtocol

Put(name, tid, id) == [name |-> name, tid |-> tid, id |-> id, always |-> TRUE]
IfSet(name, tid, id) == [name |-> name, tid |-> tid, id |-> id, always |-> FALSE]

ReferenceAppend == <<Put("Name", 11, 1), Put("Index", 8, 2)>>
ReferenceRead == [Name |-> \h10b, Index |-> \h208]
AnnotationAppend == <<Put("Key", 11, 1), Put("Values", 15, 2)>>
AnnotationRead == [Key |-> \h10b, Values |-> \h20f]
TypeAppend ==
    <<Put("Name", 11, 1), IfSet("KeyType", 12, 2), IfSet("ValueType", 12, 3), Put("CppType", 11, 4),
      Put("Annotations", 15, 5), Put("Category", 8, 6), IfSet("Reference", 12, 7),
      IfSet("IsTypedef", 2, 8)>>
TypeRead ==
    [Name |-> \h10b, KeyType |-> \h20c, ValueType |-> \h30c, CppType |-> \h40b, Annotations |-> \h50f,
     Category |-> \h608, Reference |-> \h70c, IsTypedef |-> \h802]
NamespaceAppend == <<Put("Language", 11, 1), Put("Name", 11, 2), Put("Annotations", 15, 3)>>
NamespaceRead == [Language |-> \h10b, Name |-> \h20b, Annotations |-> \h30f]
TypedefAppend ==
    <<IfSet("Type", 12, 1), Put("Alias", 11, 2), Put("Annotations", 15, 3),
      Put("ReservedComments", 11, 4)>>
TypedefRead == [Type |-> \h10c, Alias |-> \h20b, Annotations |-> \h30f, ReservedComments |-> \h40b]
EnumValueAppend ==
    <<Put("Name", 11, 1), Put("Value", 10, 2), Put("Annotations", 15, 3),
      Put("ReservedComments", 11, 4)>>
EnumValueRead == [Name |-> \h10b, Value |-> \h20a, Annotations |-> \h30f, ReservedComments |-> \h40b]
EnumAppend ==
    <<Put("Name", 11, 1), Put("Values", 15, 2), Put("Annotations", 15, 3),
      Put("ReservedComments", 11, 4)>>
EnumRead == [Name |-> \h10b, Values |-> \h20f, Annotations |-> \h30f, ReservedComments |-> \h40b]
ConstValueExtraAppend ==
    <<Put("IsEnum", 2, 1), Put("Index", 8, 2), Put("Name", 11, 3), Put("Sel", 11, 4)>>
ConstValueExtraRead == [IsEnum |-> \h102, Index |-> \h208, Name |-> \h30b, Sel |-> \h40b]
ConstValueAppend == <<Put("Type", 8, 1), IfSet("TypedValue", 12, 2), IfSet("Extra", 12, 3)>>
ConstValueRead == [Type |-> \h108, TypedValue |-> \h20c, Extra |-> \h30c]
MapConstValueAppend == <<IfSet("Key", 12, 1), IfSet("Value", 12, 2)>>
MapConstValueRead == [Key |-> \h10c, Value |-> \h20c]
ConstantAppend ==
    <<Put("Name", 11, 1), IfSet("Type", 12, 2), IfSet("Value", 12, 3), Put("Annotations", 15, 4),
      Put("ReservedComments", 11, 5)>>
ConstantRead ==
    [Name |-> \h10b, Type |-> \h20c, Value |-> \h30c, Annotations |-> \h40f, ReservedComments |-> \h50b]
FieldAppend ==
    <<Put("ID", 8, 1), Put("Name", 11, 2), Put("Requiredness", 8, 3), Put("Type", 12, 4),
      IfSet("Default", 12, 5), Put("Annotations", 15, 6), Put("ReservedComments", 11, 7)>>
FieldRead ==
    [ID |-> \h108, Name |-> \h20b, Requiredness |-> \h308, Type |-> \h40c, Default |-> \h50c,
     Annotations |-> \h60f, ReservedComments |-> \h70b]
StructLikeAppend ==
    <<Put("Category", 11, 1), Put("Name", 11, 2), Put("Fields", 15, 3), Put("Annotations", 15, 4),
      Put("ReservedComments", 11, 5)>>
StructLikeRead ==
    [Category |-> \h10b, Name |-> \h20b, Fields |-> \h30f, Annotations |-> \h40f,
     ReservedComments |-> \h50b]
FunctionAppend ==
    <<Put("Name", 11, 1), Put("Oneway", 2, 2), Put("Void", 2, 3), IfSet("FunctionType", 12, 4),
      Put("Arguments", 15, 5), Put("Throws", 15, 6), Put("Annotations", 15, 7),
      Put("ReservedComments", 11, 8)>>
FunctionRead ==
    [Name |-> \h10b, Oneway |-> \h202, Void |-> \h302, FunctionType |-> \h40c, Arguments |-> \h50f,
     Throws |-> \h60f, Annotations |-> \h70f, ReservedComments |-> \h80b]
ServiceAppend ==
    <<Put("Name", 11, 1), Put("Extends", 11, 2), Put("Functions", 15, 3), Put("Annotations", 15, 4),
      IfSet("Reference", 12, 5), Put("ReservedComments", 11, 6)>>
\* Mutant: the case of a struct has the type of a string.
ServiceReadAsText ==
    [Name |-> \h10b, Extends |-> \h20b, Functions |-> \h30f, Annotations |-> \h40f, Reference |-> \h50b,
     ReservedComments |-> \h60b]
ServiceRead ==
    [Name |-> \h10b, Extends |-> \h20b, Functions |-> \h30f, Annotations |-> \h40f, Reference |-> \h50c,
     ReservedComments |-> \h60b]
IncludeAppend == <<Put("Path", 11, 1), IfSet("Reference", 12, 2), IfSet("Used", 2, 3)>>
IncludeRead == [Path |-> \h10b, Reference |-> \h20c, Used |-> \h302]
ThriftAppend ==
    <<Put("Filename", 11, 1), Put("Includes", 15, 2), Put("CppIncludes", 15, 3),
      Put("Namespaces", 15, 4), Put("Typedefs", 15, 5), Put("Constants", 15, 6), Put("Enums", 15, 7),
      Put("Structs", 15, 8), Put("Unions", 15, 9), Put("Exceptions", 15, 10), Put("Services", 15, 11),
      Put("Name2Category", 13, 12)>>
ThriftRead ==
    [Filename |-> \h10b, Includes |-> \h20f, CppIncludes |-> \h30f, Namespaces |-> \h40f,
     Typedefs |-> \h50f, Constants |-> \h60f, Enums |-> \h70f, Structs |-> \h80f, Unions |-> \h90f,
     Exceptions |-> \ha0f, Services |-> \hb0f, Name2Category |-> \hc0d]
ConstTypedValueAppend ==
    <<IfSet("Double", 4, 1), IfSet("Int", 10, 2), IfSet("Literal", 11, 3), IfSet("Identifier", 11, 4),
      IfSet("List", 15, 5), IfSet("Map", 15, 6)>>
ConstTypedValueRead ==
    [Double |-> \h104, Int |-> \h20a, Literal |-> \h30b, Identifier |-> \h40b, List |-> \h50f,
     Map |-> \h60f]
RequestAppend ==
    <<Put("Version", 11, 1), Put("GeneratorParameters", 15, 2), Put("PluginParameters", 15, 3),
      Put("Language", 11, 4), Put("OutputPath", 11, 5), Put("Recursive", 2, 6), Put("AST", 12, 7)>>
RequestRead ==
    [Version |-> \h10b, GeneratorParameters |-> \h20f, PluginParameters |-> \h30f, Language |-> \h40b,
     OutputPath |-> \h50b, Recursive |-> \h602, AST |-> \h70c]
GeneratedAppend == <<Put("Content", 11, 1), IfSet("Name", 11, 2), IfSet("InsertionPoint", 11, 3)>>
GeneratedRead == [Content |-> \h10b, Name |-> \h20b, InsertionPoint |-> \h30b]
ResponseAppend == <<IfSet("Error", 11, 1), IfSet("Contents", 15, 2), IfSet("Warnings", 15, 3)>>
ResponseRead == [Error |-> \h10b, Contents |-> \h20f, Warnings |-> \h30f]

FastAppends ==
    [Reference |-> ReferenceAppend, Annotation |-> AnnotationAppend, Type |-> TypeAppend,
     Namespace |-> NamespaceAppend, Typedef |-> TypedefAppend, EnumValue |-> EnumValueAppend,
     Enum |-> EnumAppend, ConstValueExtra |-> ConstValueExtraAppend,
     ConstValue |-> ConstValueAppend, MapConstValue |-> MapConstValueAppend,
     Constant |-> ConstantAppend, Field |-> FieldAppend, StructLike |-> StructLikeAppend,
     Function |-> FunctionAppend, Service |-> ServiceAppend, Include |-> IncludeAppend,
     Thrift |-> ThriftAppend, ConstTypedValue |-> ConstTypedValueAppend,
     Request |-> RequestAppend, Generated |-> GeneratedAppend, Response |-> ResponseAppend]
FastReads ==
    [Reference |-> ReferenceRead, Annotation |-> AnnotationRead, Type |-> TypeRead,
     Namespace |-> NamespaceRead, Typedef |-> TypedefRead, EnumValue |-> EnumValueRead,
     Enum |-> EnumRead, ConstValueExtra |-> ConstValueExtraRead, ConstValue |-> ConstValueRead,
     MapConstValue |-> MapConstValueRead, Constant |-> ConstantRead, Field |-> FieldRead,
     StructLike |-> StructLikeRead, Function |-> FunctionRead, Service |-> ServiceRead,
     Include |-> IncludeRead, Thrift |-> ThriftRead, ConstTypedValue |-> ConstTypedValueRead,
     Request |-> RequestRead, Generated |-> GeneratedRead, Response |-> ResponseRead]

\* The members whose absence a reader reports: the bits of isset.
Isset(T) ==
    CASE T = "Request" -> DOMAIN RequestRead
      [] T = "Generated" -> {"Content"}
      [] OTHER -> {}

\* The entries of a map in the order in which range gives them.
Entries(set, side) == LET s == SetToSeq(set) IN IF side.backwards THEN Reverse(s) ELSE s

RECURSIVE FastAppend(_, _, _), AppendValue(_, _, _)

AppendValue(t, v, side) ==
    CASE IsPtr(t) -> AppendValue([tid |-> t.tid], v[1], side)
      [] t = Bool -> WriteBool(v)
      [] t = I32 -> WriteI32(v)
      [] t = I64 -> WriteI64(v)
      [] t = Double -> v
      [] t = String -> WriteString(v)
      [] t.tid = STRUCT -> FastAppend(t.of, v, side)
      [] t.tid = LIST ->
            LET s == IF v = Nil THEN <<>> ELSE v[1]
            IN  WriteListBegin(t.value.tid, Len(s))
                \o FlattenSeq([i \in DOMAIN s |-> AppendValue(t.value, s[i], side)])
      [] t.tid = MAP ->
            LET s == IF v = Nil THEN <<>> ELSE Entries(v[1], side)
            IN  WriteMapBegin(t.key.tid, t.value.tid, Len(s))
                \o FlattenSeq([i \in DOMAIN s |->
                        AppendValue(t.key, s[i][1], side) \o AppendValue(t.value, s[i][2], side)])

FastAppend(T, v, side) ==
    IF v = Nil THEN <<STOP>>
    ELSE FlattenSeq([i \in DOMAIN FastAppends[T] |->
            LET f == FastAppends[T][i]
            IN  IF <<T, f.name>> \in side.lacks \/ (~f.always /\ v[1][f.name] = Nil) THEN <<>>
                ELSE <<f.tid, f.id \div 256, f.id % 256>>
                     \o AppendValue(Types[T][f.name], v[1][f.name], side)])
         \o <<STOP>>

\* What a map is after keys and values have been put into it in turn.
Pairs(s) ==
    {<<s[2 * i - 1], s[2 * i]>> : i \in {j \in 1 .. Len(s) \div 2 :
        \A k \in j + 1 .. Len(s) \div 2 : s[2 * k - 1] # s[2 * j - 1]}}

\* The size that the caller makes room for.
RECURSIVE BLength(_, _), LengthOf(_, _)

LengthOf(t, v) ==
    CASE t.tid = BOOL -> 1
      [] t.tid = I32_ -> 4
      [] t.tid \in {I64_, DOUBLE} -> 8
      [] t.tid = STRING_ -> 4 + Len(IF IsPtr(t) THEN v[1] ELSE v)
      [] t.tid = STRUCT -> BLength(t.of, v)
      [] t.tid = LIST ->
            IF v = Nil THEN 5
            ELSE FoldLeft(LAMBDA n, e : n + LengthOf(t.value, e), 5, v[1])
      [] t.tid = MAP ->
            IF v = Nil THEN 6
            ELSE 6 + MapThenSumSet(LAMBDA e : LengthOf(t.key, e[1]) + LengthOf(t.value, e[2]), v[1])

BLength(T, v) ==
    IF v = Nil THEN 1
    ELSE FoldLeft(LAMBDA n, f :
                      IF ~f.always /\ v[1][f.name] = Nil THEN n
                      ELSE n + 3 + LengthOf(Types[T][f.name], v[1][f.name]),
                  1, FastAppends[T])

RECURSIVE FastRead(_, _, _, _, _, _), FastValue(_, _, _, _), FastList(_, _, _, _, _, _)

\* size values of the types ts in turn.
FastList(ts, b, p, size, read, side) ==
    IF size = 0 THEN Done(p, read)
    ELSE Then(FastValue(ts[1], b, p, side), LAMBDA r :
             FastList(Append(Tail(ts), ts[1]), b, r.at, size - 1, Append(read, r.is), side))

FastValue(t, b, p, side) ==
    CASE IsPtr(t) -> Then(FastValue([tid |-> t.tid], b, p, side), LAMBDA r : Done(r.at, <<r.is>>))
      [] t = Bool -> ReadBool(b, p)
      [] t = I32 -> ReadI32(b, p)
      [] t = I64 -> ReadI64(b, p)
      [] t = Double -> ReadDouble(b, p)
      [] t = String -> ReadString(b, p)
      [] t.tid = STRUCT -> FastRead(t.of, New[t.of], b, p, {}, side)
      [] t.tid = LIST ->
            Then(ReadListBegin(b, p), LAMBDA l :
                Then(FastList(<<t.value>>, b, l.at, l.size, <<>>, side), LAMBDA r :
                    Done(r.at, <<r.is>>)))
      [] t.tid = MAP ->
            Then(ReadMapBegin(b, p), LAMBDA m :
                Then(FastList(<<t.key, t.value>>, b, m.at, m.size, <<>>, side), LAMBDA r :
                    Done(r.at, <<Pairs(r.is)>>)))

\* The member in whose case a field falls, if there is one.
CaseOf(T, f, side) ==
    {n \in DOMAIN FastReads[T] : FastReads[T][n] = f.id * 256 + f.tid /\ <<T, n>> \notin side.lacks}

\* The members are read into v; isset are those that were met.
FastRead(T, v, b, p, isset, side) ==
    Then(ReadFieldBegin(b, p), LAMBDA f :
        IF f.tid = STOP
        THEN IF {n \in Isset(T) : <<T, n>> \notin side.lacks} \subseteq isset
             THEN Done(f.at, <<v>>) ELSE Failed
        ELSE IF CaseOf(T, f, side) = {}
        THEN Then(Skip(b, f.at, f.tid), LAMBDA s : FastRead(T, v, b, s.at, isset, side))
        ELSE LET name == CHOOSE n \in CaseOf(T, f, side) : TRUE
             IN  Then(FastValue(Types[T][name], b, f.at, side), LAMBDA r :
                     FastRead(T, [v EXCEPT ![name] = r.is], b, r.at, isset \union {name}, side)))
=============================================================================
