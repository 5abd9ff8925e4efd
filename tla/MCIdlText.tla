------------------------------ MODULE MCIdlText ------------------------------
(***************************************************************************)
(* Entries that differ from a plain one in one or two of their parts, in   *)
(* every kind of definition, alone and two after each other.               *)
(***************************************************************************)
EXTENDS IdlText

MCLetters == {"bool", "byte", "i8", "i16", "i32", "i64", "double", "string",
    "binary", "const", "oneway", "typedef", "map", "set", "list", "void", "throws", "exception",
    "extends", "service", "struct", "union", "enum", "include", "cpp_include", "namespace",
    "cpp_type", "required", "optional", "e", "E", "go", "A", "B", "x", "y", "s", "expandable"}

Name(w) == <<w>>
Plain(name) == [name |-> name, key |-> <<>>, value |-> <<>>, cpp |-> <<>>, annotations |-> <<>>]
ListOfT(t) == [Plain(<<"list">>) EXCEPT !.value = <<t>>]
SetOfT(t) == [Plain(<<"set">>) EXCEPT !.value = <<t>>]
MapOfT(k, t) == [Plain(<<"map">>) EXCEPT !.key = <<k>>, !.value = <<t>>]

An(k, v) == [key |-> <<k>>, value |-> v]
Ann == <<An("x", <<"y">>)>>
Anns == <<An("x", <<"y">>), An("y", <<>>), An("x", <<"bs", "bs", "x", "{">>)>>

\* Names that begin with a word of the language, and one of another IDL.
Types ==
    {Plain(<<"string">>), Plain(<<"list", "s">>), Plain(<<"i32", "x">>), Plain(<<"A", ".", "B">>),
     ListOfT(Plain(<<"i64">>)), SetOfT([Plain(<<"A">>) EXCEPT !.annotations = Ann]),
     MapOfT(Plain(<<"string">>), ListOfT(Plain(<<"double">>))),
     [Plain(<<"binary">>) EXCEPT !.annotations = Ann]}

V(type, value) == <<type, value>>
Values ==
    {V("Int", 12), V("Int", -7), V("Double", <<"1", ".", "5">>),
     V("Double", <<"-", ".", "5">>), V("Identifier", <<"e", "5">>), V("Identifier", <<"A", ".", "B">>),
     V("Literal", <<>>), V("Literal", <<"//", " ", "sq", "}">>), V("List", <<>>),
     V("List", <<V("Int", 1), V("List", <<V("Double", <<"2", ".", "0">>)>>)>>), V("Map", <<>>),
     V("Map", <<<<V("Literal", <<"x">>), V("Int", 81)>>, <<V("Identifier", <<"x">>), V("Map", <<>>)>>>>)}

\* A comment is one that ends with the line, or one that does not.
C1 == <<"//", "x", "}">>
C2 == <<"#", "y">>
C3 == <<"/*", "x", "\n", ",", "*/">>

PlainField(name) ==
    [before |-> <<>>, id |-> NOTSET, requiredness |-> "default", type |-> Plain(<<"i32">>),
     name |-> <<name>>, default |-> <<>>, annotations |-> <<>>, sep |-> <<>>, after |-> <<>>]

F == PlainField("x")
Fields ==
    {[F EXCEPT !.id = i, !.requiredness = r] : i \in {NOTSET, 12, -1}, r \in {"default", "required", "optional"}}
    \cup {[F EXCEPT !.type = t, !.annotations = a] : t \in Types, a \in {<<>>, Anns}}
    \cup {[F EXCEPT !.default = <<v>>, !.sep = s] : v \in Values, s \in {<<>>, <<";">>}}
    \cup {[F EXCEPT !.before = b, !.sep = s, !.after = a, !.id = 5] :
             b \in {<<>>, <<C1>>, <<C3, C2>>}, a \in {<<>>, <<C2>>, <<C3>>}, s \in {<<>>, <<",">>}}

Second == [PlainField("optional") EXCEPT !.before = <<C2>>, !.sep = <<",">>]

PlainValue(name) == [before |-> <<>>, name |-> <<name>>, value |-> NOTSET, annotations |-> <<>>,
                     sep |-> <<>>, after |-> <<>>]
EnumValues ==
    {[PlainValue("A") EXCEPT !.value = v, !.annotations = a, !.sep = s] :
        v \in {NOTSET, 12, -1}, a \in {<<>>, Ann}, s \in {<<>>, <<",">>}}
    \cup {[PlainValue("A") EXCEPT !.before = b, !.after = a] :
        b \in {<<>>, <<C1>>, <<C3>>}, a \in {<<>>, <<C2>>}}

PlainFunction(name) ==
    [before |-> <<>>, oneway |-> FALSE, result |-> VoidType, name |-> <<name>>, arguments |-> <<>>,
     throws |-> <<>>, annotations |-> <<>>, sep |-> <<>>, after |-> <<>>]
P == PlainFunction("x")
Functions_ ==
    {[P EXCEPT !.oneway = o, !.result = r, !.arguments = as] :
        o \in BOOLEAN, r \in {VoidType, Plain(<<"void", "s">>), ListOfT(Plain(<<"i32">>))},
        as \in {<<>>, <<Second>>, <<[F EXCEPT !.id = 3, !.sep = <<",">>], Second>>}}
    \cup {[P EXCEPT !.before = b, !.throws = th, !.annotations = a, !.sep = s] :
        b \in {<<>>, <<C1, C3>>}, th \in {<<>>, <<F, Second>>}, a \in {<<>>, Anns}, s \in {<<>>, <<",">>}}

Def(kind, is) == [kind |-> kind, is |-> is, annotations |-> <<>>, before |-> <<>>, after |-> <<>>]
Structs(fss) == {Def("Struct", [name |-> <<"A">>, fields |-> fs]) : fs \in fss}
Enums(vss) == {Def("Enum", [name |-> <<"A">>, values |-> vs]) : vs \in vss}
Services(fss) == {Def("Service", [name |-> <<"A">>, extends |-> <<>>, functions |-> fs]) : fs \in fss}

Samples ==
    {Def("Const", [name |-> <<"A">>, type |-> Plain(<<"i32">>), value |-> v]) : v \in Values}
    \cup {Def("Typedef", [name |-> <<"A">>, type |-> t]) : t \in Types}
    \cup Structs({<<>>}) \cup Structs({<<f>> : f \in Fields}) \cup Structs({<<f, Second>> : f \in Fields})
    \cup Enums({<<v>> : v \in EnumValues}) \cup Enums({<<v, PlainValue("B")>> : v \in EnumValues})
    \cup Services({<<f>> : f \in Functions_}) \cup Services({<<f, PlainFunction("y")>> : f \in Functions_})

\* The same few definitions with what may stand around any of them.
Few ==
    {Def("Const", [name |-> <<"x">>, type |-> Plain(<<"i32">>), value |-> V("Int", 7)]),
     Def("Typedef", [name |-> <<"x">>, type |-> Plain(<<"A">>)]),
     Def("Enum", [name |-> <<"x">>, values |-> <<>>]),
     Def("Union", [name |-> <<"x">>, fields |-> <<F, Second>>]),
     Def("Exception", [name |-> <<"x">>, fields |-> <<Second>>]),
     Def("Struct", [name |-> <<"struct">>, fields |-> <<F>>]),
     Def("Service", [name |-> <<"x">>, extends |-> <<"A", ".", "B">>, functions |-> <<P>>])}

Dressed ==
    {[d EXCEPT !.before = b, !.annotations = a, !.after = c] :
        d \in Few, b \in {<<>>, <<C1>>}, a \in {<<>>, <<An("expandable", <<>>)>>}, c \in {<<>>, <<C2>>}}

MCDefinitions == Samples \cup Dressed

MCHeaders ==
    {[kind |-> "Include", name |-> <<"A">>], [kind |-> "Include", name |-> <<"B", ".", "x">>],
     [kind |-> "CppInclude", name |-> <<"<", "A", ">">>],
     [kind |-> "Namespace", language |-> <<"*">>, name |-> <<"A", ".", "B">>, annotations |-> <<>>],
     [kind |-> "Namespace", language |-> <<"go">>, name |-> <<"A", ".", "B">>, annotations |-> Ann]}

\* One whose last comment stays open for the next line, one that ends with a
\* word, and one that ends with a brace.
MCNeighbours ==
    {d \in Dressed :
        \/ d.kind = "Typedef" /\ d.before = <<>> /\ d.annotations = <<>>
        \/ d.kind = "Union" /\ d.before # <<>> /\ d.annotations # <<>> /\ d.after = <<>>}

=============================================================================
