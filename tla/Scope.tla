-------------------------------- MODULE Scope --------------------------------
(***************************************************************************)
(* generator/golang/scope_internal.go: Scope.installNames gives every      *)
(* definition of an IDL a name in the Go package, and with it the names of *)
(* what is generated for the definition: the members of its type, argument *)
(* and result structs, parameters, constructors, clients and processors.   *)
(* One step installs one definition.                                       *)
(***************************************************************************)
EXTENDS Fields

CONSTANTS
  Documents,  \* the IDLs, see InstallOrder
  Features,   \* the options of the backend that may be set together
  Keywords    \* the keywords of Go

VARIABLES
  idl,       \* the IDL
  features,  \* the options that are set
  pending,   \* its definitions that have no name yet
  globals,   \* Scope.globals
  names,     \* the identifiers declared so far: [in, kind, id, go]
  status     \* "working", "done" or "failed"

vars == <<idl, features, pending, globals, names, status>>
-----------------------------------------------------------------------------
(***************************************************************************)
(* A scope in the making.  A panic in one of its calls ends it.            *)
(***************************************************************************)
\* Where an identifier is declared.
Package          == <<"package">>
TypeScope(go)    == <<"type", go>>
ServiceScope(s)  == <<"service", s>>
FuncScope(s, f)  == <<"function", s, f>>

DeclareAll(b, in, members) ==
  [b EXCEPT !.names = @ \o [i \in DOMAIN members |->
     [in |-> in, kind |-> members[i].kind, id |-> members[i].id,
      go |-> members[i].go]]]

Declare(b, in, kind, id, go) == DeclareAll(b, in, <<Member(kind, id, go)>>)

\* Scope.identify; the prefix of internal names keeps the option away.
GoName(raw, internal) ==
  Identified(raw, "compatible_names" \in features /\ ~internal)

\* A definition is declared under the name that the namespace gave it.
Named(b, kind, id, name) ==
  [Declare(b, Package, kind, id, name) EXCEPT !.ns = NS!Claim(b.ns, name, id), !.last = name]

AddGlobal(b, kind, raw, go) ==
  IF b.failed THEN b
  ELSE Named(b, kind, Plain(raw), NS!AddedName(b.ns, go, Plain(raw)))

\* Mutant: Reserve instead of MustReserve, and nobody looks at the result.
ReserveQuietly(b, go, id) ==
  IF b.failed THEN b
  ELSE [Declare(b, Package, "generated", id, go) EXCEPT !.ns = NS!Reserve(b.ns, go, id)]

MustReserve(b, go, id) ==
  IF b.failed \/ ~NS!IsFree(b.ns, go) THEN [b EXCEPT !.failed = TRUE]
  ELSE [Declare(b, Package, "generated", id, go) EXCEPT
          !.ns = NS!Claim(b.ns, go, id)]

\* What is made for the type that was declared last, named after used.
WithConstructor(b, used) == MustReserve(b, <<"New">> \o b.last, <<"new", used>>)
WithFieldNames(b, used)  == MustReserve(b, <<"fieldIDToName_">> \o b.last, <<"ids", used>>)

WithMembers(b, category, fields) ==
  IF b.failed THEN b
  ELSE DeclareAll(b, TypeScope(b.last), Members(idl, category, fields, b.last, features))

\* raw is the name in the syntax tree, and used what the Go name is made of.
BuildStructLike(b, kind, raw, used, internal, fields) ==
  WithMembers(
    WithFieldNames(WithConstructor(AddGlobal(b, kind, raw, GoName(used, internal)), used), used),
    IF kind \in Category THEN kind ELSE "struct", fields)

\* The argument and the result struct of a function.
Synthesized(f) ==
  LET success == [name |-> <<"success">>, id |-> 0, optional |-> TRUE,
                  type |-> f.returns, expand |-> FALSE, nested |-> FALSE]
      Struct(word, fields) == <<[raw |-> f.name \o <<"_", word>>, fields |-> fields]>>
  IN  Struct("args", f.arguments)
        \o IF f.oneway THEN <<>>
           ELSE Struct("result", (IF f.void THEN <<>> ELSE <<success>>) \o f.throws)

BuildSynthesized(b, svc, f) ==
  FoldLeft(LAMBDA c, s : BuildStructLike(c, "synthesized", s.raw, svc \o GoName(s.raw, TRUE),
                                         TRUE, s.fields),
           b, Synthesized(f))

\* buildFunction: the parameters of a method, in a namespace of its own.
Parameters(f) ==
  LET own == <<"p", "err", "ctx">> \o (IF f.void THEN <<>> ELSE <<"r", "_result">>)
      reserved == FoldLeft(LAMBDA ns, word : NS!Reserve(ns, <<word>>, <<"own", word>>),
                           NS!NewNamespace, own)
      Variable(a) == LET low == LowerFirstRune(GoName(a.name, FALSE))
                     IN  IF low \in Keywords THEN <<"_">> \o low ELSE low
      ns == FoldLeft(LAMBDA n, a : NS!Add(n, Variable(a), Plain(a.name)),
                     reserved, f.arguments \o f.throws)
  IN  [i \in DOMAIN own |-> Member("own", <<"own", own[i]>>, <<own[i]>>)]
        \o [i \in DOMAIN f.arguments |->
              LET id == Plain(f.arguments[i].name)
              IN  Member("argument", id, NS!NameFor(ns, id, <<>>))]

\* The methods of a service have a namespace of their own.
WithMethod(b, svc, f, name) ==
  [Declare(b, ServiceScope(svc), "method", Plain(f.name), name) EXCEPT
     !.methods = NS!Claim(b.methods, name, Plain(f.name)),
     !.failed = ~f.legal]

AddMethod(b, svc, f) ==
  IF b.failed THEN b
  ELSE WithMethod(b, svc, f, NS!AddedName(b.methods, GoName(f.name, FALSE), Plain(f.name)))

AddFunction(b, svc, f) ==
  IF b.failed THEN b
  ELSE DeclareAll(BuildSynthesized(b, svc, f), FuncScope(svc, f.name), Parameters(f))

\* The rest of a service that was declared as go.
WithFunctions(b, def, go) ==
  LET methods == FoldLeft(LAMBDA c, f : AddMethod(c, def.name, f), b, def.functions)
      functions == FoldLeft(LAMBDA c, f : AddFunction(c, def.name, f), methods, def.functions)
      client == MustReserve(functions, go \o <<"Client">>, <<"client", def.name>>)
  IN  MustReserve(client, go \o <<"Processor">>, <<"processor", def.name>>)

ServiceDeclared(b, def) == WithFunctions(b, def, b.last)

BuildService(b, def) ==
  ServiceDeclared(AddGlobal(b, def.kind, def.name, GoName(def.name, FALSE)), def)

BuildTypedef(b, def) ==
  LET c == AddGlobal(b, def.kind, def.name, GoName(def.name, FALSE))
  IN  IF def.structLike THEN WithConstructor(c, def.name) ELSE c

\* The values of an enum are constants of the package, but are not registered
\* there; in the enum they differ because their names do.
BuildEnum(b, def) ==
  LET c == AddGlobal(b, def.kind, def.name, GoName(def.name, FALSE))
  IN  DeclareAll(c, Package, [i \in DOMAIN def.values |->
        Member("value", <<"value", def.name \o def.values[i]>>,
               c.last \o <<"_">> \o def.values[i])])

BuildConstant(b, def) == AddGlobal(b, def.kind, def.name, GoName(def.name, FALSE))

Build(b, def) ==
  CASE def.kind = "service"   -> BuildService(b, def)
    [] def.kind \in Category  -> BuildStructLike(b, def.kind, def.name, def.name, FALSE, def.fields)
    [] def.kind = "enum"      -> BuildEnum(b, def)
    [] def.kind = "typedef"   -> BuildTypedef(b, def)
    [] def.kind = "constant"  -> BuildConstant(b, def)
-----------------------------------------------------------------------------
OfKind(defs, kind) == SelectSeq(defs, LAMBDA def : def.kind = kind)

\* Mutant: services come last.
ServicesLast(defs) == StructLikesOf(defs) \o OfKind(defs, "enum")
  \o OfKind(defs, "typedef") \o OfKind(defs, "constant") \o OfKind(defs, "service")

\* installNames goes through the kinds in this order.
InstallOrder(defs) == OfKind(defs, "service") \o StructLikesOf(defs)
  \o OfKind(defs, "enum") \o OfKind(defs, "typedef") \o OfKind(defs, "constant")

Init ==
  /\ idl \in Documents
  /\ features \in Features
  /\ pending = InstallOrder(idl.defs)
  /\ globals = NS!NewNamespace
  /\ names = <<>>
  /\ status = "working"

Becomes(b) ==
  /\ globals' = b.ns
  /\ names' = b.names
  /\ status' = IF b.failed THEN "failed" ELSE "working"

\* The next definition gets its names, or the scope fails.
InstallName ==
  /\ status = "working" /\ pending # <<>>
  /\ Becomes(Build([ns |-> globals, names |-> names, methods |-> NS!NewNamespace,
                    last |-> <<>>, failed |-> FALSE], Head(pending)))
  /\ pending' = Tail(pending)
  /\ UNCHANGED <<idl, features>>

NamesInstalled ==
  /\ status = "working" /\ pending = <<>>
  /\ status' = "done"
  /\ UNCHANGED <<idl, features, pending, globals, names>>

Next == InstallName \/ NamesInstalled

Spec == Init /\ [][Next]_vars
-----------------------------------------------------------------------------

\* No two identifiers of one place have one name.
NoneTwice == Cardinality({<<names[i].in, names[i].go>> : i \in DOMAIN names}) = Len(names)

(***************************************************************************)
(* No Go identifier is declared twice in the package, in a type, in a      *)
(* service or in a list of parameters: what is generated compiles.  In a   *)
(* type, that includes the methods named after field IDs, which are made   *)
(* up for expanded fields.  In the package, the synthesized structs of     *)
(* functions of one name have one ID, which Add gives one name; that this  *)
(* does not go unnoticed rests on the constructors being reserved.         *)
(***************************************************************************)
DeclaredOnce == status # "failed" => NoneTwice

(***************************************************************************)
(* The resolver looks types and constants up by the names they have in the *)
(* IDL, and finds what they were declared as: the IDs of the synthesized   *)
(* structs share the space of these names, and only the order in which the *)
(* kinds are installed keeps the last word with the definitions.           *)
(***************************************************************************)
LookupFindsTheDefinition ==
  status = "done" =>
    \A d \in ToSet(idl.defs) :
      d.kind # "service" =>
        \E i \in DOMAIN names :
          /\ names[i].kind = d.kind /\ names[i].id = Plain(d.name)
          /\ names[i].go = NS!NameFor(globals, Plain(d.name), <<>>)

=============================================================================
