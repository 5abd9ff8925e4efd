------------------------------ MODULE MCResolve ------------------------------
(***************************************************************************)
(* An IDL that includes another one, or two of them, one by the prefix of  *)
(* the other: up to three definitions in any order against the IDLs that   *)
(* they may refer to.                                                      *)
(***************************************************************************)
EXTENDS Resolve

D(kind, name, types, values) ==
  [kind |-> kind, name |-> <<name>>, types |-> types, values |-> values, members |-> {}, extends |-> <<>>]

Typedef(name, type) == D("typedef", name, <<type>>, <<>>)
Enum(name, value)   == [D("enum", name, <<>>, <<>>) EXCEPT !.members = {<<value>>}]
Service(name, base) == [D("service", name, <<<<"T">>>>, <<>>) EXCEPT !.extends = base]

Include(prefix, file) == [prefix |-> <<prefix>>, file |-> file]

AST(includes, defs) == [includes |-> includes, defs |-> defs]

MCRoot == "main"

\* Chains and circles of typedefs, over both IDLs, and values that they explain.
MainDefs ==
  { Typedef("T", <<"U">>), Typedef("U", <<"V">>), Typedef("V", <<"T">>), Typedef("V", <<"i32">>),
    Typedef("U", <<"T">>),
    Typedef("U", <<"b", "T">>), Typedef("T", <<"b", "E">>),
    D("struct", "V", <<<<"list">>, <<"T">>, <<"U">>>>, <<<<"true">>>>),
    D("union", "S", <<<<"U">>, <<"b", "T">>>>, <<<<"T", "A">>>>),
    D("constant", "c", <<<<"i32">>>>, <<<<"b", "c">>>>),
    D("constant", "d", <<<<"U">>>>, <<<<"U", "A">>, <<"c">>, <<"b", "E", "A">>>>),
    Enum("V", "A"), Enum("b", "c"),
    Service("X", <<"b", "X">>), Service("Y", <<"X">>) }

Order == <<"typedef", "constant", "enum", "struct", "union", "exception", "service">>
Place(def) == CHOOSE n \in DOMAIN Order : Order[n] = def.kind

\* One, two or three of them, as the AST keeps them.
MainSequences ==
  UNION {{s \in [1 .. n -> MainDefs] :
            \A i, j \in 1 .. n : i < j => s[i] # s[j] /\ Place(s[i]) <= Place(s[j])} : n \in 1 .. 3}

BaseDefs ==
  { <<Typedef("T", <<"E">>), D("constant", "c", <<<<"T">>>>, <<<<"T", "A">>>>), Enum("E", "A")>>,
    <<Typedef("E", <<"o", "T">>), Typedef("T", <<"E">>), [Service("X", <<>>) EXCEPT !.types = <<>>]>> }

OtherDefs == <<Typedef("T", <<"S">>), D("constant", "c", <<<<"i32">>>>, <<>>), D("exception", "S", <<>>, <<>>)>>

Includes ==
  { <<Include("b", "base")>>, <<Include("o", "other"), Include("b", "base")>>,
    <<Include("b", "base"), Include("b", "other")>> }

MCDocuments ==
  {[main |-> AST(i, defs), base |-> AST(<<Include("o", "other")>>, base), other |-> AST(<<>>, OtherDefs)] :
     i \in Includes, defs \in MainSequences, base \in BaseDefs}
=============================================================================
