------------------------------- MODULE MCScope -------------------------------
(***************************************************************************)
(* Small instances of Scope: IDLs of up to three definitions whose names   *)
(* collide with one another, with the names made of them, or both; types   *)
(* of up to three fields, with and without expansion; and functions whose  *)
(* parameters collide.                                                     *)
(***************************************************************************)
EXTENDS Scope

MCUpper == [low \in {"foo", "args", "get", "read", "field1", "p", "type"} |->
  CASE low = "foo" -> "Foo" [] low = "args" -> "Args" [] low = "get" -> "Get"
    [] low = "read" -> "Read" [] low = "field1" -> "Field1" [] low = "p" -> "P"
    [] low = "type" -> "Type"]
MCLower == [up \in {"Foo", "P", "Type"} |->
  CASE up = "Foo" -> "foo" [] up = "P" -> "p" [] up = "Type" -> "type"]
MCKeywords == {<<"type">>}

NoType == [name |-> <<>>, index |-> -1]
Own(name) == [name |-> name, index |-> -1]
Plainly(name, id) == [name |-> name, id |-> id, optional |-> id = 1, type |-> NoType,
                      expand |-> FALSE, nested |-> FALSE]
Typed(name, id, type, expand) ==
  [Plainly(name, id) EXCEPT !.type = type, !.expand = expand]
Numbered(raws) == [i \in DOMAIN raws |-> Plainly(raws[i], i)]

Function(name, returns, arguments, throws, legal) ==
  [name |-> name, oneway |-> returns = "oneway", void |-> returns # "value",
   returns |-> NoType, arguments |-> Numbered(arguments), throws |-> Numbered(throws),
   legal |-> legal]

Ping == Function(<<"foo">>, "oneway", <<>>, <<>>, TRUE)
Call == Function(<<"Foo">>, "value", <<>>, <<>>, TRUE)
Bad  == Function(<<"foo">>, "value", <<>>, <<>>, FALSE)

\* A definition has what the definitions of its kind need.
Service(name, functions)     == [kind |-> "service", name |-> name, functions |-> functions]
Type(kind, name, fields, expandable) ==
  [kind |-> kind, name |-> name, fields |-> fields, expandable |-> expandable]
Enum(name, values)           == [kind |-> "enum", name |-> name, values |-> values]
Constant(name)               == [kind |-> "constant", name |-> name]
Typedef(name, structLike)    == [kind |-> "typedef", name |-> name, structLike |-> structLike]

Idl(defs, includes) == [defs |-> defs, includes |-> includes]
-----------------------------------------------------------------------------
RawNames == {<<"foo">>, <<"Foo">>, <<"foo", "_">>, <<"New", "Foo">>,
             <<"Foo", "Client">>, <<"foo", "_", "args">>}

Services == {Service(n, fs) : n \in RawNames, fs \in {<<Ping>>, <<Call>>, <<Ping, Call>>, <<Bad>>}}
Structs  == {Type("struct", n, <<>>, FALSE) : n \in RawNames}
Typedefs == {Typedef(n, s) : n \in RawNames, s \in BOOLEAN}
Others   == {Enum(n, <<<<"A">>>>) : n \in RawNames} \cup {Constant(n) : n \in RawNames}

\* The resolver refuses two definitions of one name.
Differ(defs) == \A i, j \in DOMAIN defs : i # j => defs[i].name # defs[j].name

Packages ==
  LET any == Services \cup Structs \cup Typedefs \cup Others
      defs == {<<d, e>> : d, e \in any}
        \cup {<<d, e, f>> : d \in Services, e \in Services \cup Structs, f \in Structs \cup Typedefs}
  IN  {Idl(d, <<>>) : d \in {x \in defs : Differ(x)}}

FieldNames == {<<"foo">>, <<"Foo">>, <<"get", "_", "foo">>, <<"get", "_", "Foo">>,
               <<"read">>, <<"read", "_", "field1">>}

\* The checker refuses two fields of one name.
OneType ==
  {Idl(<<Type(kind, <<"foo">>, Numbered(raws), FALSE)>>, <<>>) :
     kind \in Category, raws \in {s \in [1 .. 3 -> FieldNames] : IsInjective(s)}}

\* An expanded type: its own fields, and where it is declared.
Inner == Type("struct", <<"In">>, <<Plainly(<<"bar">>, 1), Plainly(<<"Bar">>, 2)>>, FALSE)
Marked == [Inner EXCEPT !.expandable = TRUE]
Stranger == Type("struct", <<"In">>, <<Plainly(<<"baz">>, 1)>>, FALSE)

Outer(type, expand) ==
  Type("struct", <<"Out">>, <<Plainly(<<"foo">>, 1), Typed(<<"get", "_", "foo">>, 2, type, expand),
                              Plainly(<<"Get", "Foo">>, 3)>>, FALSE)

Expansions ==
  {Idl(<<Outer(Own(<<"In">>), e), d>>, <<>>) : e \in BOOLEAN, d \in {Inner, Marked}}
    \cup {Idl(<<Outer([name |-> <<"In">>, index |-> k], e)>>, <<<<>>, <<d>>, <<Stranger, Inner>>>>) :
            k \in 0 .. 2, e \in BOOLEAN, d \in {Inner, Marked, Constant(<<"In">>)}}

ParameterNames == {<<"p">>, <<"foo">>, <<"Foo">>, <<"type">>, <<"_", "type">>}

OneFunction ==
  {Idl(<<Service(<<"foo">>, <<Function(<<"foo">>, returns, <<a, b>>, <<t>>, TRUE)>>)>>, <<>>) :
     returns \in {"void", "value"}, a \in ParameterNames, b \in ParameterNames \ {<<"foo">>},
     t \in ParameterNames}

\* The checker lets arguments of one name pass.
Differing == {d \in OneFunction : LET as == d.defs[1].functions[1].arguments
                                  IN  as[1].name # as[2].name}

MCDocuments == Packages \cup OneType \cup Expansions \cup Differing

MCFeatures == {{}, {"compatible_names"},
               {"gen_setter", "gen_deep_equal", "keep_unknown_fields"}}
=============================================================================
