-------------------------------- MODULE Trimmer -------------------------------
(***************************************************************************)
(* tool/trimmer/trim: what the services of the main IDL do not need is     *)
(* removed from it and from all it includes.  The trimmer marks nodes of   *)
(* the AST - kept parts first, then service by service, everything they    *)
(* refer to - and sweeps what has no mark; the result is resolved again.   *)
(* With methods given, only these and what they need are marked, and a     *)
(* service stops to extend a base in which nothing was found.              *)
(* What a call marks is all that it reaches through what was not marked    *)
(* before; the calls of preProcess and markService that are still to be    *)
(* made are listed in todo.                                                *)
(***************************************************************************)
EXTENDS Integers, FiniteSets, SequencesExt

CONSTANTS
  Root,
  Inputs,    \* trees of IDLs that resolve, with the options they are trimmed with
  PartOf,    \* PartOf[p, n]: p is a part of the name n of a function
  GoName,    \* toGoName
  MaxTrims   \* bound on how often a process trims one AST

\* What is reached from start in the steps of next, a function to sets: no
\* more steps lead to new elements than there are elements that lead on.
Further(S, next) == S \union UNION {next[x] : x \in S \intersect DOMAIN next}

Reach(start, next) ==
  LET last == Cardinality(DOMAIN next) + 1
      R[n \in 0 .. last] == IF n = 0 THEN start ELSE Further(R[n - 1], next)
  IN R[last]

\* The elements of s that are in S, in their order.
Filtered(s, S) ==
  LET F[n \in 0 .. Len(s)] == IF n = 0 THEN <<>>
                              ELSE IF s[n] \in S THEN Append(F[n - 1], s[n]) ELSE F[n - 1]
  IN F[Len(s)]

Only(f, S) == [x \in DOMAIN f \intersect S |-> f[x]]

-----------------------------------------------------------------------------
(* What types and services refer to, in an AST i: a function from its IDLs *)

NoBase == [idl |-> "", name |-> ""]

\* Where a type or a base service is: in this IDL or in one it includes.
At(d, t) == IF t.idl = "" THEN d ELSE t.idl

Seen(i, d, t) == t.idl = "" \/ t.idl \in ToSet(i[d].includes)

Exists(x, t) ==
  CASE t.kind = "struct"  -> t.name \in DOMAIN x.structs
    [] t.kind = "typedef" -> t.name \in DOMAIN x.typedefs
    [] OTHER              -> t.name \in x.enums

Resolves(i, d, t) == Seen(i, d, t) /\ Exists(i[At(d, t)], t)

FixedTypes(x)  == ToSet(x.consts) \union UNION {ToSet(x.typedefs[n]) : n \in DOMAIN x.typedefs}
StructTypes(x) == UNION {ToSet(x.structs[n]) : n \in DOMAIN x.structs}
FnTypes(x) ==
  UNION {UNION {ToSet(x.services[s].fns[f]) : f \in DOMAIN x.services[s].fns} : s \in DOMAIN x.services}
Types(x) == FixedTypes(x) \union StructTypes(x) \union FnTypes(x)

HasBase(i, d, b) == Seen(i, d, b) /\ b.name \in DOMAIN i[At(d, b)].services

\* An AST is trimmed when it has been read and resolved.
IsAST(i) ==
  /\ Root \in DOMAIN i /\ "" \notin DOMAIN i /\ IsFiniteSet(DOMAIN i)
  /\ \A d \in DOMAIN i :
       LET x == i[d] IN
         /\ DOMAIN x = {"includes", "structs", "preserved", "typedefs", "consts", "enums", "order", "services"}
         /\ x.includes \in Seq(DOMAIN i)
         /\ x.order \in Seq(DOMAIN x.services) /\ ToSet(x.order) = DOMAIN x.services
         /\ x.preserved \subseteq DOMAIN x.structs
         /\ \A S \in {DOMAIN x.structs, DOMAIN x.typedefs, DOMAIN x.services} : IsFiniteSet(S)
         /\ \A t \in Types(x) : Resolves(i, d, t)
         /\ \A s \in DOMAIN x.services :
              /\ DOMAIN x.services[s] = {"fns", "base"}
              /\ x.services[s].base # NoBase => HasBase(i, d, x.services[s].base)

ASSUME TrimAssumption == MaxTrims \in Nat /\ \A i \in Inputs : IsAST(i.idl)

VARIABLES
  before,  \* the AST that was parsed
  idl,     \* idl[d]: what is left of the includes, struct-likes, ... of an IDL
  opts,    \* methods, force, goNames
  marks,   \* marks[filename] of the trimmer
  kept,    \* keptPartCache, of the process
  ext,     \* extServices
  todo,    \* IDLs that are still to be processed, later services to be marked
  phase,
  trims,
  outcome

vars == <<before, idl, opts, marks, kept, ext, todo, phase, trims, outcome>>

-----------------------------------------------------------------------------
(* Nodes of the AST.  A service is given as <<d, s>>. *)

Inc(d, e)    == <<d, "include", e>>
Alias(d, n)  == <<d, "typedef", n>>
Struct(d, n) == <<d, "struct", n>>
Svc(x)       == <<x[1], "service", x[2]>>
Fn(x, f)     == <<x[1], "function", x[2], f>>

Service(x) == idl[x[1]].services[x[2]]
Base(x)    == Service(x).base
Fns(x)     == DOMAIN Service(x).fns
BaseOf(x)  == <<At(x[1], Base(x)), Base(x).name>>

Services == UNION {{<<d, s>> : s \in DOMAIN idl[d].services} : d \in DOMAIN idl}
-----------------------------------------------------------------------------
(* markType, markTypeDef, markStructLike, markFunction *)

Via(d, t) == IF t.idl = "" THEN {} ELSE {Inc(d, t.idl)}

\* Mutant: what a type with a prefix stands for is looked for without it.
TargetNear(d, t) ==
  CASE t.kind = "struct" /\ t.name \in DOMAIN idl[d].structs -> {Struct(d, t.name)}
    [] t.kind = "typedef" /\ t.idl = ""                      -> {Alias(d, t.name)}
    [] OTHER                                                 -> {}

\* An alias of another IDL has a prefix and is not found by its name there.
Target(d, t) ==
  CASE t.kind = "struct" /\ t.name \in DOMAIN idl[At(d, t)].structs -> {Struct(At(d, t), t.name)}
    [] t.kind = "typedef" /\ t.idl = ""                             -> {Alias(d, t.name)}
    [] OTHER                                                        -> {}

UsedBy(d, ts) == UNION {Via(d, t) \union Target(d, t) : t \in ts}

\* Struct-likes and aliases: what has types to follow when it is marked.
Definitions ==
  UNION {{Struct(d, n) : n \in DOMAIN idl[d].structs} \union {Alias(d, n) : n \in DOMAIN idl[d].typedefs} :
         d \in DOMAIN idl}

Uses(x) ==
  UsedBy(x[1], ToSet(IF x[2] = "struct" THEN idl[x[1]].structs[x[3]] ELSE idl[x[1]].typedefs[x[3]]))

\* What is marked already is not followed again.
Mark(m, new) == m \union Reach(new, [x \in Definitions \ m |-> Uses(x)])

OfFunction(x, f) == {Fn(x, f)} \union UsedBy(x[1], ToSet(Service(x).fns[f]))
OfService(x, fs) == {Svc(x)} \union UNION {OfFunction(x, f) : f \in fs}
-----------------------------------------------------------------------------
(* markKeptPart and preProcess *)

Preserved(d) == IF opts.force THEN {} ELSE idl[d].preserved

FixedPart(d) == UsedBy(d, FixedTypes(idl[d]))

\* Preserved struct-likes that neither constants nor aliases have marked.
Fresh(d, m) == {n \in Preserved(d) : Struct(d, n) \notin m}

KeptPart(d) ==
  LET m == Mark(marks, FixedPart(d)) IN
    /\ marks' = Mark(m, {Struct(d, n) : n \in Fresh(d, m)})
    /\ kept' = [e \in DOMAIN kept \union {d} |->
         IF e = d THEN idl[d].consts # <<>> \/ DOMAIN idl[d].typedefs # {} \/ Fresh(d, m) # {}
         ELSE kept[e]]

\* An IDL with all that it includes.
Under(d) == Reach({d}, [e \in DOMAIN idl |-> ToSet(idl[e].includes)])

\* The result of preProcess.
Keeps(d) == \E e \in Under(d) : kept[e]

KeptIncludes ==
  UNION {{Inc(d, e) : e \in {x \in ToSet(idl[d].includes) : Keeps(x)}} : d \in Under(Root)}
-----------------------------------------------------------------------------
(* markService, traceExtendMethod *)

NameOf(f) == IF opts.goNames THEN GoName[f] ELSE f

\* regexp2 looks for a match anywhere in the name.
Matches(p, s, n) == p.svc = s /\ (p.any \/ PartOf[p.name, n])

\* A plain name does not stand for the longer names that begin with it.
Chosen(p, s, n) == Matches(p, s, n) /\ (p.any \/ p.name = n)

\* The service and what it extends, directly or not.
Bases(x) == Reach({x}, [y \in Services |-> IF Base(y) = NoBase THEN {} ELSE {BaseOf(y)}])

\* Mutant: the methods of a base are looked for under its own name only.
FathersOwn(x, y) == {y[2]}

\* The names of the services on the way from x to y.
Fathers(x, y) == {z[2] : z \in {w \in Bases(x) : y \in Bases(w)}}

Hits(x, y) == {f \in Fns(y) : \E p \in opts.methods, n \in Fathers(x, y) : Matches(p, n, f)}

\* The result of traceExtendMethod for y, when it began with x.
Found(x, y) == \E z \in Bases(y) : Hits(x, z) # {}

Traced(x) ==
  UNION {OfService(y, Hits(x, y)) \union Via(y[1], Base(y)) : y \in {z \in Bases(x) : Found(x, z)}}

CutOff(x) == {y \in Bases(x) : Base(y) # NoBase /\ ~ Found(x, BaseOf(y))}

\* All functions of x, or those that are asked for.
Own(x) ==
  IF opts.methods = {} THEN OfService(x, Fns(x))
  ELSE LET fs == {f \in Fns(x) : \E p \in opts.methods : Chosen(p, x[2], NameOf(f))} IN
         IF fs = {} THEN {} ELSE OfService(x, fs)

\* Methods are looked for in the bases too.
Traces(x) == opts.methods # {} /\ Base(x) # NoBase

MarkedBy(x) ==
  LET m == Mark(marks, Own(x) \union IF Traces(x) THEN Traced(x) ELSE {})
  IN IF Svc(x) \in m THEN m \union Via(x[1], Base(x)) ELSE m
-----------------------------------------------------------------------------
(* traversal *)

HasFixed(e) == idl[e].consts # <<>> \/ idl[e].enums # {} \/ DOMAIN idl[e].typedefs # {}

IncludesLeft(d) == {e \in ToSet(idl[d].includes) : Inc(d, e) \in marks \/ HasFixed(e)}

\* Mutant: included IDLs are not swept.
VisitedRoot == {Root}

Visited == Reach({Root}, [d \in DOMAIN idl |-> IncludesLeft(d)])

StructsLeft(d) == {n \in DOMAIN idl[d].structs : Struct(d, n) \in marks \/ n \in Preserved(d)}
ServicesLeft(d) == {s \in DOMAIN idl[d].services : Svc(<<d, s>>) \in marks}
FnsLeft(x) == {f \in Fns(x) : opts.methods = {} \/ Fn(x, f) \in marks}
ServiceLeft(x) == [Service(x) EXCEPT !.fns = Only(@, FnsLeft(x))]

Swept(d) ==
  [idl[d] EXCEPT
     !.includes = Filtered(@, IncludesLeft(d)),
     !.structs  = Only(@, StructsLeft(d)),
     !.order    = Filtered(@, ServicesLeft(d)),
     !.services = [s \in ServicesLeft(d) |-> ServiceLeft(<<d, s>>)]]
-----------------------------------------------------------------------------
(* ResolveSymbols, as far as trimming can make it fail *)

Left == Under(Root)

\* A base of the same IDL is looked up again; that of an included one has
\* its Reference from before and is not missed.
Succeeds ==
  \A d \in Left :
    /\ \A t \in Types(idl[d]) : Resolves(idl, d, t)
    /\ \A s \in DOMAIN idl[d].services :
         LET b == idl[d].services[s].base IN
           b # NoBase /\ b.idl = "" => b.name \in DOMAIN idl[d].services
-----------------------------------------------------------------------------
\* doTrimAST: a method without a service is one of the last service.
Qualified(i) ==
  {[p EXCEPT !.svc = IF @ = "" THEN Last(i.idl[Root].order) ELSE @] : p \in i.opts.methods}

Init ==
  /\ \E i \in Inputs :
       /\ idl = i.idl /\ before = i.idl
       /\ opts = [i.opts EXCEPT !.methods = Qualified(i)]
  /\ marks = {} /\ kept = <<>> /\ ext = {} /\ todo = <<>>
  /\ phase = "idle" /\ trims = 0 /\ outcome = "none"

\* markAST begins: a new trimmer, with a cache that is not new.
Begin ==
  /\ phase = "idle" /\ trims < MaxTrims /\ outcome # "error"
  /\ marks' = {} /\ ext' = {} /\ todo' = <<Root>>
  /\ phase' = "kept parts"
  /\ UNCHANGED <<before, idl, opts, kept, trims, outcome>>

\* A call of preProcess: the kept part of an IDL, then its includes.
PreProcess ==
  /\ phase = "kept parts" /\ todo # <<>>
  /\ IF Head(todo) \in DOMAIN kept THEN UNCHANGED <<marks, kept>> ELSE KeptPart(Head(todo))
  /\ todo' = idl[Head(todo)].includes \o Tail(todo)
  /\ UNCHANGED <<before, idl, opts, ext, phase, trims, outcome>>

\* The calls of preProcess return, and mark the includes that keep something.
PreProcessed ==
  /\ phase = "kept parts" /\ todo = <<>>
  /\ marks' = marks \union KeptIncludes
  /\ todo' = [n \in DOMAIN idl[Root].order |-> <<Root, idl[Root].order[n]>>]
  /\ phase' = "services"
  /\ UNCHANGED <<before, idl, opts, kept, ext, trims, outcome>>

SkipService ==
  /\ phase = "services" /\ todo # <<>> /\ Svc(Head(todo)) \in marks
  /\ todo' = Tail(todo)
  /\ UNCHANGED <<before, idl, opts, marks, kept, ext, phase, trims, outcome>>

\* A call of markService, which ends with the base if that is in another IDL.
MarkService ==
  /\ phase = "services" /\ todo # <<>> /\ Svc(Head(todo)) \notin marks
  /\ LET x == Head(todo) IN
       /\ marks' = MarkedBy(x)
       /\ ext' = IF Traces(x) THEN ext \union CutOff(x) ELSE ext
       /\ todo' = IF Base(x).idl # "" /\ Svc(x) \in marks' THEN <<BaseOf(x)>> \o Tail(todo)
                  ELSE Tail(todo)
  /\ UNCHANGED <<before, idl, opts, kept, phase, trims, outcome>>

\* The main IDL is in the cache: its markKeptPart at the end does nothing.
CleanServiceExtends ==
  /\ phase = "services" /\ todo = <<>>
  /\ idl' = [d \in DOMAIN idl |-> [idl[d] EXCEPT !.services =
        [s \in DOMAIN @ |-> IF <<d, s>> \in ext THEN [@[s] EXCEPT !.base = NoBase] ELSE @[s]]]]
  /\ phase' = "marked"
  /\ UNCHANGED <<before, opts, marks, kept, ext, todo, trims, outcome>>

Sweep ==
  /\ phase = "marked"
  /\ idl' = [d \in DOMAIN idl |-> IF d \in Visited THEN Swept(d) ELSE idl[d]]
  /\ phase' = "swept" /\ trims' = trims + 1
  /\ UNCHANGED <<before, opts, marks, kept, ext, todo, outcome>>

Resolve ==
  /\ phase = "swept"
  /\ outcome' = IF Succeeds THEN "ok" ELSE "error"
  /\ phase' = "idle"
  /\ UNCHANGED <<before, idl, opts, marks, kept, ext, todo, trims>>

Next ==
  \/ Begin \/ PreProcess \/ PreProcessed \/ SkipService \/ MarkService
  \/ CleanServiceExtends \/ Sweep \/ Resolve

Spec == Init /\ [][Next]_vars
-----------------------------------------------------------------------------
(* Properties *)

Trimmed == phase = "idle" /\ trims > 0

\* After trimming every type in every IDL that is left resolves through the
\* includes that are left, and every base service is there - but for a base
\* that an included IDL declares itself, which markService does not follow.
NothingIsMissed ==
  Trimmed =>
    \A d \in Left :
      /\ \A t \in Types(idl[d]) : Resolves(idl, d, t)
      /\ \A s \in DOMAIN idl[d].services :
           LET b == idl[d].services[s].base IN
             b # NoBase /\ (b.idl # "" \/ d = Root) => HasBase(idl, d, b)

\* The structs that d needs because of the types ts, through aliases too.
StructsAt(d, ts) == {<<At(d, t), t.name>> : t \in {u \in ts : u.kind = "struct"}}

Given ==
  UNION {StructsAt(d, FixedTypes(idl[d]) \union FnTypes(idl[d]))
           \union {<<d, n>> : n \in Preserved(d)} : d \in Left}

AllStructs == UNION {{<<d, n>> : n \in DOMAIN idl[d].structs} : d \in Left}

\* A struct that is left is preserved, or reached from a constant, an alias
\* or a function that is left: trimming leaves nothing that it could remove.
NothingUnneeded ==
  Trimmed =>
    AllStructs \subseteq
      Reach(Given, [x \in AllStructs |-> StructsAt(x[1], ToSet(idl[x[1]].structs[x[2]]))])

Declared(i, d, s) == IF s \in DOMAIN i[d].services THEN DOMAIN i[d].services[s].fns ELSE {}

\* The functions of a service: its own, and those of the base it extends.
Offered(i, d, s) ==
  Declared(i, d, s) \union
    UNION {LET b == i[d].services[s].base IN IF b = NoBase THEN {} ELSE Declared(i, At(d, b), b.name) :
           x \in {s} \intersect DOMAIN i[d].services}

Requested(s, f) ==
  \E p \in opts.methods :
    p.svc = s /\ (p.any \/ p.name = IF f \in DOMAIN before[Root].services[s].fns THEN NameOf(f) ELSE f)

\* The methods that were asked for can still be called on their service,
\* whatever the order of services and whoever else extends their bases: those
\* it declares, and those of the base that it extends.
\* With goNames, a service that was marked as a base before its turn loses
\* the methods that it is asked for by Go names: no input of the run has both.
RequestedMethodsStay ==
  Trimmed =>
    \A s \in DOMAIN before[Root].services :
      \A f \in Offered(before, Root, s) :
        Requested(s, f) => f \in Offered(idl, Root, s)

=============================================================================
