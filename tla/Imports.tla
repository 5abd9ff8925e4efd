------------------------------- MODULE Imports -------------------------------
(***************************************************************************)
(* generator/golang/imports.go: the import manager of one scope, from its  *)
(* initialisation with the standard libraries to ResolveImports, which     *)
(* yields the import lines of the rendered file.  The scope adds the IDLs  *)
(* it includes, takes the packages of expanded fields out again and adds   *)
(* what its types and values turn out to need; the templates say which     *)
(* standard libraries they use.                                            *)
(***************************************************************************)
EXTENDS Naturals, FiniteSets, Sequences, GoMap

CONSTANTS
  Std,           \* names of the standard libraries, sequences of tokens
  StdPath,       \* their import paths
  Idls,          \* the IDLs, other than the root, that the root can refer to
  Pkg,           \* the Go package name of each IDL, a sequence of tokens
  RefName,       \* what the root's IDL calls it: the name of its file
  Path,          \* its import path
  Replacements,  \* what the use_package option may hold: path to path
  Documents      \* [includes, expanded, types, values, nested], see below

ASSUME ImportsAssumption ==
  /\ IsFiniteSet(Std) /\ Std \subseteq Seq(STRING)
  /\ Pkg \in [Idls -> Seq(STRING)] /\ RefName \in [Idls -> Seq(STRING)]
  /\ \A d \in Documents :
       /\ d.includes \in Seq(Idls)
       /\ d.expanded \cup d.types \cup d.values \cup d.nested \subseteq Idls

\* The zero-based suffix of importManager.init.
ZeroIndexed(name, cnt) == name \o <<cnt - 1>>

NS == INSTANCE Namespace WITH Rename <- ZeroIndexed

(***************************************************************************)
(* Of a document matter: includes, the IDLs in its include list that it    *)
(* uses, in order; expanded, those that fields are expanded from; types    *)
(* and values, those that its types and its constants, default values and  *)
(* element types refer to; nested, those that the fields of expanded       *)
(* structs use.  The IDLs have other Go namespaces than the root.          *)
(***************************************************************************)
VARIABLES
  replace,   \* idHijack.replacement
  doc,       \* the document of the scope
  imports,   \* the namespace of the import manager
  notUsed,   \* importManager.libNotUsed
  todo,      \* what the scope has yet to do
  code,      \* <<name, path>>: what the generated code calls a package
  lines      \* the import lines, path to name

vars == <<replace, doc, imports, notUsed, todo, code, lines>>

Replaced(path) == Get(replace, path, path)

Paths == {StdPath[lib] : lib \in Std} \cup {Path[idl] : idl \in Idls}
           \cup UNION {{r[p] : p \in DOMAIN r} : r \in Replacements}

AddPath(ns, name, path) == NS!Add(ns, name, Replaced(path))

\* The libraries in an order, as Go iterates over a map.
Orders == {order \in [1 .. Cardinality(Std) -> Std] :
             \A lib \in Std : \E n \in DOMAIN order : order[n] = lib}

Init ==
  /\ replace \in Replacements
  /\ doc \in Documents
  /\ imports = NS!NewNamespace
  /\ notUsed = {}
  /\ todo = "init"
  /\ code = {}
  /\ lines = EmptyMap

\* importManager.init.
InitImports ==
  /\ todo = "init"
  /\ \E order \in Orders :
       LET ns[n \in 0 .. Len(order)] ==
             IF n = 0 THEN NS!NewNamespace
             ELSE AddPath(ns[n - 1], order[n], StdPath[order[n]])
       IN  imports' = ns[Len(order)]
  /\ notUsed' = Std
  /\ todo' = "include"
  /\ UNCHANGED <<replace, doc, code, lines>>

\* Mutant: the package of an IDL takes the name it has in the IDL.
IncludeAsIs(ns, idl) == NS!Claim(ns, Pkg[idl], Replaced(Path[idl]))

\* Scope.include.
Include(ns, idl) == AddPath(ns, Pkg[idl], Path[idl])

BuildIncludes ==
  /\ todo = "include"
  /\ LET ns[n \in 0 .. Len(doc.includes)] ==
           IF n = 0 THEN imports ELSE Include(ns[n - 1], doc.includes[n])
     IN  imports' = ns[Len(doc.includes)]
  /\ todo' = "unused"
  /\ UNCHANGED <<replace, doc, notUsed, code, lines>>

\* Mutant: the types of other fields are not looked at.
CheckUnusedBlindly ==
  /\ todo = "unused"
  /\ notUsed' = notUsed \cup {RefName[idl] : idl \in doc.expanded}
  /\ todo' = "resolve"
  /\ UNCHANGED <<replace, doc, imports, code, lines>>

\* checkUnusedPackagesAfterExpansion: of what is used, only types are seen.
CheckUnused ==
  /\ todo = "unused"
  /\ LET used == {RefName[idl] : idl \in doc.types \cup doc.nested}
     IN  notUsed' = notUsed \cup ({RefName[idl] : idl \in doc.expanded} \ used)
  /\ todo' = "resolve"
  /\ UNCHANGED <<replace, doc, imports, code, lines>>

\* Scope.includeIDL.
IncludedAs(idl) ==
  LET known == NS!NameFor(imports, Replaced(Path[idl]), <<>>)
  IN  IF known # <<>> THEN [name |-> known, ns |-> imports]
      ELSE LET ns == Include(imports, idl)
           IN  [name |-> NS!NameFor(ns, Replaced(Path[idl]), <<>>), ns |-> ns]

\* A type or a value of another package: the resolver asks for its name.
ResolveReference(idl) ==
  /\ todo = "resolve"
  /\ idl \in doc.types \cup doc.values
  /\ LET inc == IncludedAs(idl)
     IN  /\ imports' = inc.ns
         /\ code' = code \cup {<<inc.name, Replaced(Path[idl])>>}
  /\ UNCHANGED <<replace, doc, notUsed, todo, lines>>

\* A type of an expanded field, which keeps the package name it has in the
\* IDL; its package counts as used from then on.
ResolveExpanded(idl) ==
  /\ todo = "resolve"
  /\ idl \in doc.nested
  /\ LET inc == IncludedAs(idl)
     IN  /\ imports' = inc.ns
         /\ notUsed' = notUsed \ {inc.name}
         /\ code' = code \cup {<<RefName[idl], Replaced(Path[idl])>>}
  /\ UNCHANGED <<replace, doc, todo, lines>>

References == {Replaced(Path[idl]) : idl \in doc.types \cup doc.values \cup doc.nested}

ScopeIsBuilt ==
  /\ todo = "resolve"
  /\ \A path \in References : \E use \in code : use[2] = path
  /\ todo' = "render"
  /\ UNCHANGED <<replace, doc, imports, notUsed, code, lines>>

\* A template writes the name of a standard library and says that it does.
UseStdLibrary(lib) ==
  /\ todo = "render"
  /\ notUsed' = notUsed \ {lib}
  /\ code' = code \cup {<<lib, Replaced(StdPath[lib])>>}
  /\ UNCHANGED <<replace, doc, imports, todo, lines>>

\* The names that ResolveImports finds for a path.
NamesOf(path) == {name \in DOMAIN imports.name2id \ notUsed :
                    imports.name2id[name] = path}

\* The last of a path's names wins, in the order of a map iteration.
ResolveImports ==
  /\ todo = "render"
  /\ LET paths == {path \in Paths : NamesOf(path) # {}}
     IN  \E last \in SUBSET UNION {NamesOf(path) : path \in paths} :
           /\ \A path \in paths : Cardinality(last \cap NamesOf(path)) = 1
           /\ lines' = [path \in paths |->
                          CHOOSE name \in last \cap NamesOf(path) : TRUE]
  /\ todo' = "done"
  /\ UNCHANGED <<replace, doc, imports, notUsed, code>>

Next ==
  \/ InitImports
  \/ BuildIncludes
  \/ CheckUnused
  \/ \E idl \in Idls : ResolveReference(idl) \/ ResolveExpanded(idl)
  \/ ScopeIsBuilt
  \/ \E lib \in Std : UseStdLibrary(lib)
  \/ ResolveImports

Spec == Init /\ [][Next]_vars
-----------------------------------------------------------------------------

(***************************************************************************)
(* A package that the generated code names has an import line, and the     *)
(* line gives it the name that the code uses, whatever other packages and  *)
(* libraries wanted that name and in whatever order they came.             *)
(***************************************************************************)
EveryUseIsImported ==
  todo = "done" =>
    \A use \in code : use[2] \in DOMAIN lines /\ lines[use[2]] = use[1]

(***************************************************************************)
(* In the generated code one name is one package.                          *)
(***************************************************************************)
OneNameOnePackage == \A u, v \in code : u[1] = v[1] => u[2] = v[2]

=============================================================================
