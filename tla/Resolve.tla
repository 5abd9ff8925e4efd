------------------------------- MODULE Resolve -------------------------------
(***************************************************************************)
(* semantic/semantic.go: ResolveSymbols finds out what the names in an IDL *)
(* and in the IDLs it includes stand for.  It resolves the includes first, *)
(* then registers the names of the IDL, resolves its types, values and     *)
(* base services, and finally replaces, in rounds, the category "typedef"  *)
(* of a type by the category of what the typedef stands for.               *)
(*                                                                         *)
(* A name is a sequence of tokens, the parts of the source's dotted names. *)
(* An AST is a record of                                                   *)
(*   includes: a sequence of [prefix, file], and                           *)
(*   defs: the definitions [kind, name, types, values, members, extends]   *)
(*     in the order in which the AST keeps them: typedefs, constants, enums, *)
(*     structs, unions, exceptions, services.                              *)
(* Its types are the names in a definition's types, containers before      *)
(* their elements, values the identifiers in its values, members the       *)
(* values of an enum and extends the base of a service, or <<>>.           *)
(* The fields of a struct are taken together, types before default values: *)
(* it only depends on that which of two errors is reported.                *)
(***************************************************************************)
EXTENDS Integers, Sequences, FiniteSets, GoMap

CONSTANTS Documents,  \* parsed IDLs: functions from files to ASTs
          Root        \* the file of the main IDL

Builtin  == {<<"i32">>, <<"list">>}                         \* of categoryMap
TypeLike == {"enum", "struct", "union", "exception", "typedef"}
Kinds    == TypeLike \cup {"constant", "service"}

IsSeq(s) == s \in Seq({s[n] : n \in DOMAIN s})

Names == Seq(STRING) \ {<<>>}

\* What the parser leaves: every include is read, and a typedef has a type but
\* no values.
ASSUME DocumentsAssumption ==
  \A ds \in Documents :
    /\ Root \in DOMAIN ds /\ IsFiniteSet(DOMAIN ds)
    /\ \A file \in DOMAIN ds :
         /\ IsSeq(ds[file].includes) /\ IsSeq(ds[file].defs)
         /\ \A i \in DOMAIN ds[file].includes : ds[file].includes[i].file \in DOMAIN ds
         /\ \A d \in DOMAIN ds[file].defs :
              LET def == ds[file].defs[d]
              IN  /\ def.types \in Seq(Names) /\ def.values \in Seq(Names)
                  /\ def.kind \in Kinds /\ def.name \in Names /\ def.extends \in Names \cup {<<>>}
                  /\ def.kind = "typedef" =>
                       /\ def.types # <<>> /\ def.values = <<>>
                       /\ \A e \in 1 .. d : ds[file].defs[e].kind = "typedef"

\* CircleDetect finds no IDL that includes itself.
NoCircles(ds) ==
  \E depth \in [DOMAIN ds -> 0 .. Cardinality(DOMAIN ds)] :
    \A file \in DOMAIN ds : \A i \in DOMAIN ds[file].includes :
      depth[ds[file].includes[i].file] < depth[file]

\* Of definitions with dots in their names or with the names of built-in types,
\* and of an include of .thrift, nothing is said here.
ASSUME PlainAssumption ==
  \A ds \in Documents :
    /\ NoCircles(ds)
    /\ \A file \in DOMAIN ds :
         /\ \A i \in DOMAIN ds[file].includes : ds[file].includes[i].prefix # <<>>
         /\ \A d \in DOMAIN ds[file].defs :
              Len(ds[file].defs[d].name) = 1 /\ ds[file].defs[d].name \notin Builtin

VARIABLES
  asts,        \* the parsed IDLs
  names,       \* Thrift.Name2Category, of the files where it is not nil
  categories,  \* Type.Category by type
  aliases,     \* the types with IsTypedef set
  refs,        \* Reference.Index of the types and bases that have a reference
  extras,      \* ConstValue.Extra by value
  used,        \* the includes with Used set
  stack,       \* the calls of ResolveSymbols, the innermost first
  status       \* "resolving", "resolved", "failed" or "diverged": getEnum
               \* calls itself without end, ResolveSymbols does not return

symbols == <<categories, aliases, refs, extras, used>>
vars == <<asts, names, categories, aliases, refs, extras, used, stack, status>>
-----------------------------------------------------------------------------
(***************************************************************************)
(* Types and values are named by file, definition and position.  Indexes   *)
(* of includes are counted from one; zero is the IDL itself.               *)
(***************************************************************************)
Def(file, d) == asts[file].defs[d]

Included(file, i) == asts[file].includes[i].file

At(file, i) == IF i = 0 THEN file ELSE Included(file, i)

\* GetTypedef, GetEnum: the first definition of the name.
Lookup(file, name) ==
  LET ds == {d \in DOMAIN asts[file].defs : Def(file, d).name = name}
  IN  CHOOSE d \in ds : \A e \in ds : d <= e

TypeName(t) == Def(t[1], t[2]).types[t[3]]

\* The last part of a name, and what comes before it.
Base(name)   == <<name[Len(name)]>>
Prefix(name) == SubSeq(name, 1, Len(name) - 1)

IncludesOf(file, prefix) ==
  {i \in DOMAIN asts[file].includes : asts[file].includes[i].prefix = prefix}

Category(file, name) == Get(names[file], name, "none")

\* The includes by whose prefix a name of that kind is found.
Finding(file, name, kinds) ==
  {i \in IncludesOf(file, Prefix(name)) : Category(Included(file, i), Base(name)) \in kinds}

\* Where a name is found: in the IDL itself or in the first such include.
PlacesOf(file, name, kinds) ==
  IF Len(name) = 1 THEN {0 : c \in {Category(file, name)} \cap kinds}
  ELSE {i \in Finding(file, name, kinds) : \A j \in Finding(file, name, kinds) : i <= j}
-----------------------------------------------------------------------------
(***************************************************************************)
(* Values.                                                                 *)
(***************************************************************************)
NoEnum == [answer |-> "no", members |-> {}, index |-> 0]
Lost   == [NoEnum EXCEPT !.answer = "lost"]

Nodes == UNION {{<<f, d>> : d \in DOMAIN asts[f].defs} : f \in DOMAIN asts}

\* A call repeats, and the program never comes back, when there are more calls
\* than definitions.
Calls == 1 + Cardinality(Nodes)

\* getEnum, with at most k calls: an enum, or what a typedef stands for.
GetEnum[k \in 0 .. Calls] ==
  [at \in (DOMAIN asts) \X Seq(STRING) |->
    LET file  == at[1]
        d     == Lookup(file, at[2])
        t     == <<file, d, 1>>
        i     == Get(refs, t, 0)
        there == IF i = 0 THEN NoEnum ELSE GetEnum[k - 1][<<Included(file, i), Base(TypeName(t))>>]
    IN  IF k = 0 THEN Lost
        ELSE IF Category(file, at[2]) = "enum"
        THEN [answer |-> "yes", members |-> Def(file, d).members, index |-> 0]
        ELSE IF Category(file, at[2]) # "typedef" THEN NoEnum
        ELSE IF there.answer = "no" THEN GetEnum[k - 1][<<file, TypeName(t)>>]
        ELSE [there EXCEPT !.index = i]]

EnumAt(file, name) == GetEnum[Calls][<<file, name>>]

HasValue(file, name, value) == value \in EnumAt(file, name).members

Extra(isEnum, index, name, sel) ==
  [isEnum |-> isEnum, index |-> index, name |-> name, sel |-> sel]

\* The explanations of an identifier that name no include: a constant, and the
\* value of an enum or of a typedef of one.
Local(file, id) ==
  IF Len(id) = 1 THEN {Extra(FALSE, 0, id, <<>>) : c \in {Category(file, id)} \cap {"constant"}}
  ELSE {Extra(TRUE, EnumAt(file, sel).index, Base(id), sel) :
          sel \in {s \in {Prefix(id)} : HasValue(file, s, Base(id))}}

\* Those that do: include.constant and include.enum.value.
FromInclude(file, id) ==
  {Extra(FALSE, i, Base(id), Prefix(id)) : i \in Finding(file, id, {"constant"})}
    \cup IF Len(id) < 3 THEN {}
         ELSE LET sel == Base(Prefix(id))
              IN  {Extra(TRUE, i, Base(id), sel) :
                     i \in {j \in IncludesOf(file, Prefix(Prefix(id))) :
                              HasValue(Included(file, j), sel, Base(id))}}

\* Looking for an explanation never ends.
GetsLost(file, id) ==
  \/ Len(id) > 1 /\ EnumAt(file, Prefix(id)).answer = "lost"
  \/ Len(id) > 2 /\ \E i \in IncludesOf(file, Prefix(Prefix(id))) :
                     EnumAt(Included(file, i), Base(Prefix(id))).answer = "lost"
-----------------------------------------------------------------------------
(***************************************************************************)
(* A call of ResolveSymbols: what it is at, what is still to be done there *)
(* and, of the resolver, the typedefs to be looked at in the end, those    *)
(* that this round has left and how many the last one had.                 *)
(***************************************************************************)
Frame(file) == [file |-> file, phase |-> "includes",
                todo |-> [i \in DOMAIN asts[file].includes |-> i],
                typedefs |-> <<>>, left |-> <<>>, count |-> 0]

Top == Head(stack)
It  == Head(Top.todo)

IsAt(phase) == status = "resolving" /\ Top.phase = phase

Continue == [Top EXCEPT !.todo = Tail(@)]

Replaced(frame) == <<frame>> \o Tail(stack)

\* guard panics, and every caller up to the first passes the error on.
Fail == status' = "failed" /\ UNCHANGED <<names, symbols, stack>>

\* What is to be resolved in a definition.
Symbols(file, d) ==
  LET def == Def(file, d)
      Each(what, xs) == [k \in DOMAIN xs |-> [what |-> what, def |-> d, k |-> k]]
  IN  Each("type", def.types) \o Each("value", def.values)
        \o Each("base", IF def.extends = <<>> THEN <<>> ELSE <<def.extends>>)

\* All symbols of an IDL.
Work(file) ==
  LET all[n \in 0 .. Len(asts[file].defs)] ==
        IF n = 0 THEN <<>> ELSE all[n - 1] \o Symbols(file, n)
  IN  all[Len(asts[file].defs)]

Init ==
  /\ asts \in Documents
  /\ names = [file \in {Root} |-> EmptyMap]
  /\ categories = EmptyMap /\ refs = EmptyMap /\ extras = EmptyMap
  /\ aliases = {} /\ used = {}
  /\ stack = <<Frame(Root)>>
  /\ status = "resolving"
-----------------------------------------------------------------------------
(***************************************************************************)
(* The includes: one that has a Name2Category has been resolved.           *)
(***************************************************************************)
ResolveInclude ==
  /\ IsAt("includes") /\ Top.todo # <<>>
  /\ LET file == Included(Top.file, It)
     IN  IF file \in DOMAIN names THEN stack' = Replaced(Continue) /\ UNCHANGED names
         ELSE /\ names' = Put(names, file, EmptyMap)
              /\ stack' = <<Frame(file)>> \o Replaced(Continue)
  /\ UNCHANGED <<asts, symbols, status>>

Entering(phase, todo) == Replaced([Top EXCEPT !.phase = phase, !.todo = todo])

RegisterNames ==
  /\ IsAt("includes") /\ Top.todo = <<>>
  /\ stack' = Entering("names", [d \in DOMAIN asts[Top.file].defs |-> d])
  /\ UNCHANGED <<asts, names, symbols, status>>

Named(file, def) == [names EXCEPT ![file] = Put(@, def.name, def.kind)]

\* Mutant: an earlier definition of the name is not seen.
AddNameAgain ==
  /\ IsAt("names") /\ Top.todo # <<>>
  /\ names' = Named(Top.file, Def(Top.file, It)) /\ stack' = Replaced(Continue)
  /\ UNCHANGED <<asts, symbols, status>>

AddName ==
  /\ IsAt("names") /\ Top.todo # <<>>
  /\ LET def == Def(Top.file, It)
     IN  IF def.name \in DOMAIN names[Top.file] THEN Fail
         ELSE names' = Named(Top.file, def) /\ stack' = Replaced(Continue)
                /\ UNCHANGED <<symbols, status>>
  /\ UNCHANGED asts

ResolveAll ==
  /\ IsAt("names") /\ Top.todo = <<>>
  /\ stack' = Entering("symbols", Work(Top.file))
  /\ UNCHANGED <<asts, names, symbols, status>>
-----------------------------------------------------------------------------
(***************************************************************************)
(* The symbols of an IDL, one after another.                               *)
(***************************************************************************)
Is(what) == IsAt("symbols") /\ Top.todo # <<>> /\ It.what = what

Here == <<Top.file, It.def, It.k>>

\* Mutant: the search of the includes goes on after a find.
ReferToLast(at, i) ==
  LET same == IncludesOf(at[1], IF i = 0 THEN <<>> ELSE asts[at[1]].includes[i].prefix)
      last == {j \in same : \A k \in same : k <= j}
  IN  /\ refs' = [x \in DOMAIN refs \cup {at : j \in last} |-> IF x = at THEN CHOOSE j \in last : TRUE ELSE refs[x]]
      /\ used' = used \cup {<<at[1], j>> : j \in last}

\* A reference to what the include i has, or nothing if i is the IDL itself.
Refer(at, i) ==
  /\ refs' = IF i = 0 THEN refs ELSE Put(refs, at, i)
  /\ used' = used \cup ({<<at[1], i>>} \ {<<at[1], 0>>})

Pair(at, file, name) == [type |-> at, file |-> file, name |-> name]

WithPair(pair) == [Continue EXCEPT !.typedefs = Append(@, pair)]

\* A type that is found as name in file and has a category there.
Found(at, i, file, name) ==
  /\ categories' = Put(categories, at, Category(file, name))
  /\ IF Category(file, name) = "typedef"
     THEN stack' = Replaced(WithPair(Pair(at, file, name))) /\ aliases' = aliases \cup {at}
     ELSE stack' = Replaced(Continue) /\ UNCHANGED aliases
  /\ Refer(at, i)

ResolveType ==
  /\ Is("type")
  /\ LET name   == TypeName(Here)
         places == PlacesOf(Top.file, name, TypeLike)
     IN  \/ /\ name \in Builtin
            /\ categories' = Put(categories, Here, name[1])
            /\ stack' = Replaced(Continue)
            /\ UNCHANGED <<names, aliases, refs, extras, used, status>>
         \/ name \notin Builtin /\ places = {} /\ Fail
         \/ /\ name \notin Builtin
            /\ \E i \in places : Found(Here, i, At(Top.file, i), Base(name))
            /\ UNCHANGED <<names, extras, status>>
  /\ UNCHANGED asts

\* true and false need no explanation.
Literals == {<<"true">>, <<"false">>}

Explained(at, extra, includes) ==
  /\ extras' = Put(extras, at, extra)
  /\ used' = used \cup includes
  /\ stack' = Replaced(Continue)
  /\ UNCHANGED <<names, categories, aliases, refs, status>>

ResolveConstValue ==
  /\ Is("value")
  /\ LET id      == Def(Top.file, It.def).values[It.k]
         there   == FromInclude(Top.file, id)
         refsTo  == Local(Top.file, id) \cup there
     IN  \/ id \in Literals /\ stack' = Replaced(Continue) /\ UNCHANGED <<names, symbols, status>>
         \/ /\ id \notin Literals /\ GetsLost(Top.file, id)
            /\ status' = "diverged" /\ UNCHANGED <<names, symbols, stack>>
         \/ /\ id \notin Literals /\ ~GetsLost(Top.file, id)
            /\ IF Cardinality(refsTo) # 1 THEN Fail
               ELSE \E extra \in refsTo :
                      Explained(Here, extra, {<<Top.file, e.index>> : e \in there})
  /\ UNCHANGED asts

ResolveBaseService ==
  /\ Is("base")
  /\ LET places == PlacesOf(Top.file, Def(Top.file, It.def).extends, {"service"})
     IN  IF places = {} THEN Fail
         ELSE /\ \E i \in places : Refer(<<Top.file, It.def, 0>>, i)
              /\ stack' = Replaced(Continue)
              /\ UNCHANGED <<names, categories, aliases, extras, status>>
  /\ UNCHANGED asts
-----------------------------------------------------------------------------
(***************************************************************************)
(* The types that are typedefs, in rounds.                                 *)
(***************************************************************************)
ResolveTypedefs ==
  /\ IsAt("symbols") /\ Top.todo = <<>>
  /\ stack' = Replaced([Top EXCEPT !.phase = "rounds", !.todo = Top.typedefs,
                                   !.count = Len(Top.typedefs)])
  /\ UNCHANGED <<asts, names, symbols, status>>

\* The category that the typedef of a pair has by now.
TypedefCategory(pair) == categories[<<pair.file, Lookup(pair.file, pair.name), 1>>]

ResolveTypedef ==
  /\ IsAt("rounds") /\ Top.todo # <<>>
  /\ IF TypedefCategory(It) = "typedef"
     THEN stack' = Replaced([Continue EXCEPT !.left = Append(@, It)]) /\ UNCHANGED categories
     ELSE stack' = Replaced(Continue)
            /\ categories' = Put(categories, It.type, TypedefCategory(It))
  /\ UNCHANGED <<asts, names, aliases, refs, extras, used, status>>

NextRound(frame) ==
  Replaced([frame EXCEPT !.todo = frame.left, !.left = <<>>, !.count = Len(frame.left)])

\* Mutants: a single round, and no end of them.
EndOnlyRound ==
  /\ IsAt("rounds") /\ Top.todo = <<>> /\ Top.left # <<>> /\ Fail /\ UNCHANGED asts

EndRoundAnyway ==
  /\ IsAt("rounds") /\ Top.todo = <<>> /\ Top.left # <<>>
  /\ stack' = NextRound(Top) /\ UNCHANGED <<asts, names, symbols, status>>

EndRound ==
  /\ IsAt("rounds") /\ Top.todo = <<>> /\ Top.left # <<>>
  /\ IF Len(Top.left) = Top.count THEN Fail
     ELSE stack' = NextRound(Top) /\ UNCHANGED <<names, symbols, status>>
  /\ UNCHANGED asts

Return ==
  /\ IsAt("rounds") /\ Top.todo = <<>> /\ Top.left = <<>>
  /\ stack' = Tail(stack)
  /\ status' = IF stack' = <<>> THEN "resolved" ELSE "resolving"
  /\ UNCHANGED <<asts, names, symbols>>

Next ==
  \/ ResolveInclude \/ RegisterNames \/ AddName \/ ResolveAll
  \/ ResolveType \/ ResolveConstValue \/ ResolveBaseService
  \/ ResolveTypedefs \/ ResolveTypedef \/ EndRound \/ Return

\* ResolveSymbols is sequential: it takes steps until it returns.
Spec == Init /\ [][Next]_vars /\ WF_vars(Next)
-----------------------------------------------------------------------------
(***************************************************************************)
(* What an IDL means, whatever the order of its definitions.               *)
(***************************************************************************)
Reached ==
  {file \in DOMAIN asts :
     \A S \in SUBSET DOMAIN asts :
       Root \in S /\ (\A f \in S : \A i \in DOMAIN asts[f].includes : Included(f, i) \in S) => file \in S}

Defines(file, name, kinds) ==
  {<<file, d>> : d \in {d \in DOMAIN asts[file].defs : Def(file, d).name = name /\ Def(file, d).kind \in kinds}}

\* The definitions that a name in a file can mean, in the first include that has one.
Having(file, name, kinds) ==
  {i \in IncludesOf(file, Prefix(name)) : Defines(Included(file, i), Base(name), kinds) # {}}

Meant(file, name, kinds) ==
  IF Len(name) = 1 THEN Defines(file, name, kinds)
  ELSE UNION {Defines(Included(file, i), Base(name), kinds) :
                i \in {i \in Having(file, name, kinds) : \A j \in Having(file, name, kinds) : i <= j}}

Kind(node) == Def(node[1], node[2]).kind

Typedefs == {node \in Nodes : Kind(node) = "typedef"}

\* What a typedef is a name of.
Follows(node) == Meant(node[1], Def(node[1], node[2]).types[1], TypeLike)

\* From typedef to typedef there is no end.
Circular(node) ==
  \E S \in SUBSET Typedefs : node \in S /\ \A x \in S : Follows(x) \cap S # {}

\* The enums with a value, and what stands for one, from typedef to typedef.
EnumsWith(value) == {node \in Nodes : Kind(node) = "enum" /\ value \in Def(node[1], node[2]).members}

StandsFor(node, value) ==
  \A S \in SUBSET Typedefs :
    (\A x \in Typedefs : Follows(x) \cap (S \cup EnumsWith(value)) # {} => x \in S)
      => node \in S \cup EnumsWith(value)

\* A name without prefix stands for an enum with the value.
Offers(file, name, value) == \E node \in Defines(file, name, TypeLike) : StandsFor(node, value)

\* The ways to explain an identifier, by the IDL itself or by an include.
Explanations(file, id) ==
  IF Len(id) = 1 THEN {<<"constant", 0>> : node \in Defines(file, id, {"constant"})}
  ELSE {<<"value", i>> : i \in {i \in {0} : Offers(file, Prefix(id), Base(id))}}
    \cup {<<"constant", i>> : i \in Having(file, id, {"constant"})}
    \cup {<<"value", i>> : i \in {i \in DOMAIN asts[file].includes :
             /\ Len(id) > 2 /\ i \in IncludesOf(file, Prefix(Prefix(id)))
             /\ Offers(Included(file, i), Base(Prefix(id)), Base(id))}}

IllegalDef(file, def) ==
  \/ Cardinality(Defines(file, def.name, Kinds)) > 1
  \/ \E k \in DOMAIN def.types : def.types[k] \notin Builtin /\ Meant(file, def.types[k], TypeLike) = {}
  \/ \E k \in DOMAIN def.values : def.values[k] \notin Literals /\ Cardinality(Explanations(file, def.values[k])) # 1
  \/ def.extends # <<>> /\ Meant(file, def.extends, {"service"}) = {}

Illegal ==
  \E file \in Reached : \E d \in DOMAIN asts[file].defs :
    IllegalDef(file, Def(file, d)) \/ Circular(<<file, d>>)
-----------------------------------------------------------------------------
\* A name of a typedef that has no end, and the identifiers that getEnum looks
\* up in one, here or in an include.
Endless(file, name) == \E node \in Defines(file, name, {"typedef"}) : Circular(node)

LooksUpEndless(file, id) ==
  \/ Len(id) > 1 /\ Endless(file, Prefix(id))
  \/ Len(id) > 2 /\ \E i \in IncludesOf(file, Prefix(Prefix(id))) :
                     Endless(Included(file, i), Base(Prefix(id)))

EndlessValue ==
  \E file \in Reached : \E d \in DOMAIN asts[file].defs :
    \E k \in DOMAIN Def(file, d).values :
      /\ Def(file, d).values[k] \notin Literals
      /\ LooksUpEndless(file, Def(file, d).values[k])
-----------------------------------------------------------------------------
(***************************************************************************)
(* Deref, which backends use, with at most k calls.                        *)
(***************************************************************************)
Target(t) == <<At(t[1], Get(refs, t, 0)), Base(TypeName(t))>>

TargetType(t) == <<Target(t)[1], Lookup(Target(t)[1], Target(t)[2]), 1>>

Deref[k \in 0 .. Calls] ==
  [t \in DOMAIN categories |->
    IF k = 0 THEN "lost"
    ELSE IF t \notin DOMAIN refs /\ t \notin aliases THEN categories[t]
    ELSE IF t \notin DOMAIN refs \/ Category(Target(t)[1], Target(t)[2]) = "typedef"
    THEN Deref[k - 1][TargetType(t)]
    ELSE Category(Target(t)[1], Target(t)[2])]
-----------------------------------------------------------------------------
TypesOf(file) ==
  UNION {{<<file, d, k>> : k \in DOMAIN Def(file, d).types} : d \in DOMAIN asts[file].defs}

AllTypes == UNION {TypesOf(file) : file \in DOMAIN asts}

Calling == {stack[n].file : n \in DOMAIN stack}

(***************************************************************************)
(* Categories, references and values are of types, bases and values of the *)
(* IDLs; a call is of an IDL whose names are being or have been registered.*)
(***************************************************************************)
TypeOK ==
  /\ DOMAIN names \subseteq DOMAIN asts
  /\ DOMAIN categories \subseteq AllTypes /\ aliases \subseteq DOMAIN categories
  /\ \A at \in DOMAIN refs : refs[at] \in DOMAIN asts[at[1]].includes
  /\ used \subseteq {<<at[1], refs[at]>> : at \in DOMAIN refs}
                     \cup {<<at[1], extras[at].index>> : at \in DOMAIN extras}
  /\ Calling \subseteq DOMAIN names
  /\ status \in {"resolving", "resolved", "failed", "diverged"}

(***************************************************************************)
(* ResolveSymbols accepts no IDL with a name defined twice, an undefined   *)
(* type, service or value, a value that can be explained in two ways, or a *)
(* circle of typedefs: the order of includes, definitions and rounds hides *)
(* none of them.                                                           *)
(***************************************************************************)
AcceptedIsLegal == status = "resolved" => ~Illegal

(***************************************************************************)
(* Nor does it refuse, or fail to return from, any other IDL: whatever the *)
(* order of definitions, a typedef may come before what it stands for, in  *)
(* any number of rounds.                                                   *)
(***************************************************************************)
RefusedIsIllegal == status \in {"failed", "diverged"} => Illegal

(***************************************************************************)
(* The category that the rounds of ResolveTypedefs leave with a type is    *)
(* the one of the type that Deref later finds for it, so that generated    *)
(* code does not depend on which of the two a backend asks.                *)
(***************************************************************************)
DerefAgrees ==
  status = "resolved" => \A t \in AllTypes : t[1] \in DOMAIN names => Deref[Calls][t] = categories[t]

\* The category "typedef" is not the last word of a call.
NoTypedefLeft == \A t \in DOMAIN categories : categories[t] = "typedef" => t[1] \in Calling

(***************************************************************************)
(* ResolveSymbols returns, with symbols or with an error: the rounds do    *)
(* not go on forever, not even over a circle of typedefs.  Only when an    *)
(* identifier is looked up in a typedef of such a circle, getEnum calls    *)
(* itself without end (semantic.go:329) and the program dies of its stack: *)
(* documents with such a value are excluded, and no others.                *)
(***************************************************************************)
Ends == ~EndlessValue => <>(status \in {"resolved", "failed"})

=============================================================================
