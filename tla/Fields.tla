-------------------------------- MODULE Fields --------------------------------
(***************************************************************************)
(* generator/golang/scope_internal.go: what buildStructLike declares in    *)
(* the Go type of a struct, a union or an exception.  Fields and methods   *)
(* share one namespace, which is filled in two passes over the fields: the *)
(* methods get their names before the fields do.  A field that is expanded *)
(* is replaced by the fields of its type.                                  *)
(*                                                                         *)
(* A field is a record [name, id, optional, type, expand, nested], a type  *)
(* a record [name, index]: name is <<>> when the type is no struct, union  *)
(* or exception, and index, from zero, says which include declares it, or  *)
(* is -1 for a type of the IDL itself.  An IDL is a record with defs and   *)
(* includes, the definitions of each included IDL that is used, or <<>>.   *)
(***************************************************************************)
EXTENDS Integers, Naming, TLC

Category == {"struct", "union", "exception"}

IsStructLike(f) == f.type.name # <<>>

SupportIsSet(f) == IsStructLike(f) \/ f.optional

\* A member of a Go type, with the ID under which its name is registered.
Member(kind, id, go) == [kind |-> kind, id |-> id, go |-> go]

Method(id, go) == Member("method", id, go)

\* As fmt writes the ID of a field into the name of a method.
FieldWord(id) == IF id < 0 THEN "Field_" \o ToString(-id) ELSE "Field" \o ToString(id)

\* The methods of a field, for a field that is called go.
MethodsOf(f, go, features) ==
  LET word == FieldWord(f.id)
      Only(condition, id, name) == IF condition THEN <<Method(id, name)>> ELSE <<>>
  IN  <<Method(<<"get", f.name>>, <<"Get">> \o go)>>
        \o Only("gen_setter" \in features, <<"set", f.name>>, <<"Set">> \o go)
        \o Only(SupportIsSet(f), <<"isset", f.name>>, <<"IsSet">> \o go)
        \o <<Method(<<"read", <<word>>>>, <<"Read", word>>),
             Method(<<"write", <<word>>>>, <<"write", word>>)>>
        \o Only("gen_deep_equal" \in features, <<"deepequal", <<word>>>>,
                <<word, "Deep", "Equal">>)

\* The methods that every type of the category gets.
BuiltIns(kind, features) ==
  LET Only(condition, name) == IF condition THEN <<name>> ELSE <<>>
  IN  <<<<"Read">>, <<"Write">>, <<"String">>>>
        \o Only(kind = "union", <<"Count", "Set", "Fields">>)
        \o Only(kind = "exception", <<"Error">>)
        \o Only("keep_unknown_fields" \in features, <<"Carrying", "Unknown", "Fields">>)
        \o Only("gen_deep_equal" \in features, <<"Deep", "Equal">>)

\* Those are reserved; the template declares InitDefault as well, and appends
\* the name of a union to its CountSetFields.
Declared(kind, last, features) ==
  LET Full(name) == IF Head(name) = "Count" THEN name \o last ELSE name
      Each(names) == [i \in DOMAIN names |-> Full(names[i])]
  IN  <<<<"Init", "Default">>>> \o Each(BuiltIns(kind, features))

IsNested(f, features) == "enable_nested_struct" \in features /\ f.nested

\* What the methods of a field are named after.
Stem(f, features) ==
  Identified(IF IsNested(f, features) THEN f.type.name ELSE f.name,
             "compatible_names" \in features)
-----------------------------------------------------------------------------
(***************************************************************************)
(* getReferencedStruct.  A type of an included IDL is looked up by name in *)
(* the structs of every include, the index of the include being compared   *)
(* with the number of them.                                                *)
(***************************************************************************)
StructsOf(defs) == SelectSeq(defs, LAMBDA d : d.kind = "struct")

StructLikesOf(defs) == StructsOf(defs)
  \o SelectSeq(defs, LAMBDA d : d.kind = "union")
  \o SelectSeq(defs, LAMBDA d : d.kind = "exception")

\* The definitions in the order in which they are looked at.
Searched(idl, type) ==
  LET Long(defs) == IF type.index < Len(StructsOf(defs)) THEN StructsOf(defs) ELSE <<>>
      Own == Long(idl.defs)
  IN  IF type.index >= 0
      THEN FlattenSeq([k \in DOMAIN idl.includes |-> Long(idl.includes[k])])
             \o (IF Own = <<>> THEN <<>> ELSE <<Own[type.index + 1]>>)
      ELSE StructLikesOf(idl.defs)
             \o FlattenSeq([k \in DOMAIN idl.includes |-> StructLikesOf(idl.includes[k])])

Found(idl, type) == SelectSeq(Searched(idl, type), LAMBDA d : d.name = type.name)

IsExpandable(idl, f) ==
  /\ IsStructLike(f)
  /\ Found(idl, f.type) # <<>>
  /\ f.expand \/ Head(Found(idl, f.type)).expandable
-----------------------------------------------------------------------------
\* The first pass; the stem of a name never counts as taken by its own field.
WithMethods(ns, f, features) ==
  FoldLeft(LAMBDA n, m : NS!Add(n, m.go, m.id), ns,
           MethodsOf(f, Stem(f, features), features))

AdjustedId(f, inner) == inner.id + f.id * 1000

\* The members that stand for one field of an expanded one.  Only the field's
\* name is added; its methods are named after it without a look.
ExpandedMembers(f, inner, go, features) ==
  LET adjusted == [inner EXCEPT !.id = AdjustedId(f, inner)]
  IN  <<Member("field", Plain(inner.name), go)>>
        \o MethodsOf(adjusted, go, features)

\* The members of a field that is not expanded, as they were registered; a
\* nested field is renamed after its type when types are resolved.
PlainMembers(ns, f, go, features) ==
  LET name == IF IsNested(f, features) THEN Stem(f, features) ELSE go
      Registered(methods) ==
        [i \in DOMAIN methods |-> [methods[i] EXCEPT !.go = NS!NameFor(ns, methods[i].id, <<>>)]]
  IN  <<Member("field", Plain(f.name), name)>> \o Registered(MethodsOf(f, go, features))

\* A namespace with the name added, and that name as the last one.
Claimed(b, go, id) == [b EXCEPT !.ns = NS!Claim(@, go, id), !.last = go]

AddName(b, raw, features) ==
  Claimed(b, NS!AddedName(b.ns, Identified(raw, "compatible_names" \in features), Plain(raw)),
          Plain(raw))

\* A field whose name was added last.
WithPlain(b, f, features) ==
  [b EXCEPT !.members = @ \o PlainMembers(b.ns, f, b.last, features)]

WithInner(b, f, inner, features) ==
  [b EXCEPT !.members = @ \o ExpandedMembers(f, inner, b.last, features)]

Expanded(b, f, inners, features) ==
  FoldLeft(LAMBDA c, inner : WithInner(AddName(c, inner.name, features), f, inner, features),
           b, inners)

\* The second pass, one field.
WithField(b, idl, f, features) ==
  LET own == AddName(b, f.name, features)
  IN  IF IsExpandable(idl, f) THEN Expanded(own, f, Head(Found(idl, f.type)).fields, features)
      ELSE WithPlain(own, f, features)

InTwoPasses(idl, ns, fields, features) ==
  LET full == FoldLeft(LAMBDA n, f : WithMethods(n, f, features), ns, fields)
  IN  FoldLeft(LAMBDA b, f : WithField(b, idl, f, features),
               [ns |-> full, members |-> <<>>, last |-> <<>>], fields).members

\* All members of a type that is called go.
Members(idl, kind, fields, go, features) ==
  LET Builtin(name) == <<"builtin", name>>
      reserved == FoldLeft(LAMBDA n, name : NS!Reserve(n, name, Builtin(name)),
                           NS!NewNamespace, BuiltIns(kind, features))
      Methods(declared) == [i \in DOMAIN declared |-> Method(Builtin(declared[i]), declared[i])]
  IN  Methods(Declared(kind, go, features)) \o InTwoPasses(idl, reserved, fields, features)
===============================================================================
