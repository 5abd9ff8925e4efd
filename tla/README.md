# Verification of thriftgo

thriftgo is a Thrift IDL compiler: it parses IDLs, resolves their symbols and
generates Go code (and TypeScript, OpenAPI and "fastgo" code), with plugins that
add and patch files. This directory holds TLA+ models of it, TLC configurations
that check them on small instances, and TLAPS proofs about them. Every
definition of a model is translated from `src/`; `PROJECT.json` gives the lines
of each (`map`), the runs, one mutant for each property of each run, the hazards
and the theorems.

## The system

One command runs through these stages, in one goroutine except where noted:

    main -> sdk.InvokeThriftgo
      args.Parse -> parser.ParseFile -> CircleDetect -> checker.CheckAll
      -> semantic.ResolveSymbols -> for each target language:
           Generator.Generate
             backend (golang, fastgo, typescript, openapi)
               scope of each IDL: names, imports, resolver, templates
             SDK plugins, external plugins       each feeds the FileManager
             FileManager.BuildResponse
           Generator.Persist                     one goroutine per file

| part | state it keeps | operations | hard behaviours | what makes it correct |
|---|---|---|---|---|
| file manager (`generator/file_manager.go`) | files, patches, index, count | Feed, BuildResponse | names that collide, items that mean the item before | no content lost, unique names, patches reach their file |
| persisting (`generator/generator.go`) | two channels, a wait group, a slot count | Persist, OnFinished | goroutines, errors, blocked senders | all written or an error, no leak, bounded concurrency |
| generator and driver (`generator/generator.go`, `sdk/invoke.go`) | backends, plugins, post-processor, a backend's error; the AST | RegisterBackend, Generate, the loop over targets | state that outlives a target or command; partial failure | what is persisted is what was asked for |
| namespace (`pkg/namespace`) | two maps between names and IDs | Add, Reserve, Get, ID | renamed names that are asked for too | names are unique and stable |
| import manager (`golang/imports.go`, `scope_internal.go`) | a namespace, used names, unused packages | init, include, ResolveImports | map order, packages used in passing | what is used is imported, and nothing else |
| scope of a Go package (`golang/scope*.go`) | nested namespaces | buildService, buildStructLike, ... | names that the generator makes up | no identifier twice, lookups find definitions |
| include graph (`parser/parser.go`, `circle_detect.go`, `AST-extend.go`) | memo of parsed IDLs, a traversal goroutine | ParseFile, CircleDetect, DepthFirstSearch | circles, one file under two spellings, a caller that stops early | each IDL once, includes first, no circle missed |
| IDL grammar (`parser/thrift.peg.go`, `parser.go`) | position and tokens | Parse, the `parse...` functions | order of alternatives, words inside names | the tree says what the text says |
| semantic resolver (`semantic/semantic.go`) | Name2Category, typedef work list | ResolveSymbols, Deref | typedefs across IDLs and in circles, failure half way | every reference resolves to its definition |
| types and values in Go (`golang/resolver.go`, `scope_ref.go`) | a cache of scopes | ResolveTypesAndValues | lookups by bare names | a type name denotes the type it refers to |
| plugin protocol (`plugin/`) | the AST while a plugin runs | Execute, trailer, compression, Marshal and Unmarshal | time limit, every exit restores the AST, cut messages | the AST is what it was; the plugin sees all of it |
| syntax tree, descriptors, run-time extensions (`parser/k-AST.go`, `thrift_reflection/`, `extension/meta/`) | registered meta data | two codecs | versions, order of maps, nil | what is written is read, by either codec |
| trimmer (`tool/trimmer`) | marks, a global cache | mark, traversal | recursion over IDLs, options, bases | what is needed is kept, nothing else |
| field mask (`fieldmask/`) | a tree of masks, two caches | addPath, lookups, PathInMask, JSON | wildcards, black lists, order of paths | a value passes iff the paths say so |

The semantic checker, arguments, templates, TypeScript and OpenAPI conversions, option
annotations and helpers are sequential scans or text to data, without state of their own;
`PROJECT.json` lists them as components and says which part of each, if any, is modelled.

## Modules

| module | what it is |
|---|---|
| `GoMap` | Go maps as functions: `Get` with a default, `Put` |
| `FileManager` | the file manager; one action per kind of item in `Feed`'s loop |
| `FileStore` | its abstract specification: two maps that only grow |
| `PostProcess` | `Persist` and `OnFinished`; the main loop and the goroutines |
| `Persist` | its abstract specification: what the caller is promised |
| `Generator` | `Generate` and the command driver |
| `Renaming` | the two rename functions of `pkg/namespace` |
| `Namespace` | operators on one namespace, no variables |
| `NamespaceSpec` | one namespace, asked by anyone in any order |
| `Imports` | one import manager with the scope that uses it |
| `Naming` | how a name becomes a Go identifier (default style) |
| `Fields` | members of the Go type of a struct, union or exception |
| `Scope` | `installNames`, one definition per step |
| `Resolve` | `ResolveSymbols` over several IDLs, and `Deref` |
| `IncludeGraph` | `ParseFile`, `CircleDetect`, `DepthFirstSearch` |
| `PluginCall` | `Execute` of an external plugin, on the AST that `IncludeGraph` made |
| `Peg` | the engine of the generated parser: parsing expressions and their match |
| `ThriftGrammar` | the rules of `thrift.peg.go` as parsing expressions |
| `IdlParser` | the functions of `parser.go`, from nodes to the syntax tree |
| `IdlText` | a text that grows by headers and definitions, and what it says |
| `Structs` | the structs that travel between processes, member by member |
| `BinaryProtocol` | the binary protocol: writes, reads, skips |
| `FastCodec` | the generated codec of `k-AST.go` and `k-protocol.go` |
| `MetaCodec` | the codec by reflection, `extension/meta` |
| `Wire` | a struct between two processes, of any codec and version |
| `Trimmer` | the trimmer: marking, sweep, resolution of what is left |
| `FieldMask` | the masks of two processes, their use and their JSON |
| `*Proofs` | theorems about the module they are named after; those about `PluginCall` are in `IncludeGraphProofs` |
| `MC*` | small instances for TLC |

`Imports`, `Naming`, `Fields` and `Scope` instantiate `Namespace`; `Scope`
extends `Fields`, which extends `Naming`. `Generator` abstracts from
`FileManager` (a target's items) and `PostProcess` (`Persist` succeeds or
fails): the first feeds the second, the response of the second is the third's
set of jobs. `PluginCall` extends `IncludeGraph`. `IdlText` extends `IdlParser`,
`ThriftGrammar` and `Peg`; `Wire` extends `MetaCodec`, `FastCodec`, `BinaryProtocol` and `Structs`.

### FileManager

`files`, `patch`, `index` and `count` are the fields of the Go struct; `phase`
and `last` the control state and local of `Feed`, where `discarding` is its loop that
skips the patches of a dropped duplicate. `lastFile`, `own`, `meant`, `astray`, `accepted` and the `for`
of a patch are history and no guard reads them. `own` has the file of each name in the list being fed - under another name
when it was renamed, or the older file when it was dropped as its duplicate - and `meant` the patches for each file as they were fed: an
unnamed one is meant for the file of the item before it, one by name for the sender's own file of that name or, when the sender gave none,
for the one that bears the name. Where `Feed` queues a patch plays no part in this. The items of a `Feed` are chosen one at a time, which
covers every list, cut into `Feed` calls in any way. Names are values, and a
renamed name is a pair of name and number.

*Runs.* `file_manager`: five items, two names, three contents (one with an
insertion point): a name can be used by three different contents, so that
`n_2` exists, and still be patched and repeated. Names and plain contents are symmetric. `InsertedAsMeant` compares
sequences (`InOrder`): each patch once, as often as it was fed, in that order. The code does not always do what was meant: `Feed` has
a `FIXME` (line 69) at patches by name whose target was renamed. The run reaches the case (a file `a` with one content,
then in the next list another and a patch for `a`), and there the patch goes to the first file. The two files of
such a patch are in `astray`, `InsertedAsMeant` says nothing of them, and `PatchFollowsItsFile` nothing of patches meant for them;
without the exclusion TLC finds both violated.

*Proved* (`FileManagerProofs`, for all names, contents and any bound on the items).
`TypeInv` adds to `TypeOK` that every version of a name is indexed. `LinkInv`
adds that a patch is queued under the name of its file and that `last` and
`lastFile` agree, unless the file is astray: it gives `IndexSound` and `PatchFollowsItsFile`. `NameInv` adds
that every file is indexed at its own position, which needs the hypothesis
`NoClash`; it gives `UniqueNames` and that `FileManager` implements `FileStore`.
The hypothesis is needed: `a_1.go` and twice `a.go`, with different contents, give two
files `a_1.go`, which share their patches. Under the same hypothesis `KeptInv` adds that
every name under which something was accepted is indexed: a position keeps its content and counts only
grow, so a version that was found once is found for good (`NothingLost`). `InsertedAsMeant` needs
`MeantInv`: for a file that is not astray, the queue under its name is what was meant for it, entry by entry. And it needs what the loop of
`BuildResponse` computes for any number of patches (`Collects`): that the recursion
has a solution, and that it puts the patch that has k - 1 before it at its point (`AtPoint`) at position k (`CollectedFacts`), are proved over
the least number of patches for which they would fail.

### PostProcess

`processing` and `errs` are the buffered channels, `wg` the wait group's
counter. Each goroutine has one program counter: post-process, write, report, then the
two halves of the deferred function, in the order of the code. `select` is two
actions that are both enabled.

*Run* `post_process`: up to five files and zero to three processors, so that
jobs outnumber slots, several goroutines fail at a time, and the loop is left
early with unstarted jobs. Zero processors exercises the guard of `OnFinished`.
*Fairness*: weak fairness for the main goroutine and for each worker. The Go scheduler
runs every goroutine that can run; the post-processor (`gofmt`) and the
file system return; a response has finitely many files.

*Proved* (`PostProcessProofs`, any number of files and processors). `IInv` says
which goroutines exist at which point of the main loop, that counters equal
cardinalities, and how written, failed and reported files relate. It gives
`TypeOK`, `BoundedConcurrency`, `QuietAfterReturn`, `ResultIsRight` and that `PostProcess`
implements `Persist`. `RoomInv` counts the errors in the channel against the jobs
that have failed: it gives `ReportNeverBlocks`, so that no goroutine can be stuck with its error.
The liveness property `Returns` is checked by TLC only.

### Generator

The generator is a package variable: `backends`, `plugins`, `pp` and the error
that a backend keeps (`broken`) outlive a target and, in SDK mode, a command. `ast`
has the two parts that a backend may take away. `outputs` records what was
persisted and from which AST it was made.

*Run* `generator`: three commands of one process, each out of ten commands
with up to three targets, two plugins and two SDK plugins; a second command is what it
takes to see state that was left behind, a third to see it accumulate.

*Proved* (`GeneratorProofs`, for all sets of commands, backends and plugins).
`IInv` has five named parts: which target is in work, that the list of plugins ends in
those of the command, what was fed so far, what was persisted so far, and that
the list is as long as the descriptions while the first target is in work. They
give `OutputsAsAsked`, `ResultIsRight` and `FirstTargetIsSafe`. `AstInv` adds that the AST lacks
what the backends have taken that were at it (`Served`), and that the items of the target in work were all
made from it: it gives `SawWhatIsLeft`.

### Namespace

`Add` is one operator: the loop's answer is the first candidate that is free or
already has the ID. `NamespaceSpec` lets IDs ask for names in any order and
remembers the answers.

*Run* `namespace`: three IDs, three names, two of which are renamed forms of
another, so that a name that was made up is also asked for.

*Proved* (`NamespaceProofs`, any IDs, names and rename function that keeps its results apart,
`AllApart`). The inductive invariant adds to `TypeOK` and `GetThenId` that for each
answer all earlier candidates still belong to others (`AnswersHold`), from which
`OwnersDiffer`, `SameAnswer` and `NamesAreKept` follow. `SomeFit` shows that the loop
ends: among n + 1 candidates one is free when n names are taken.
`UnderscoresApart` shows that the underscore suffixes satisfy `AllApart`.

### Imports

The order in which Go iterates over the map of standard libraries is a choice of
`InitImports`. The scope includes the IDLs, decides which are unused because only
expanded fields came from them, and then resolves the references of expanded fields and of types and
values. Package names are sequences of tokens.

*Run* `imports`: three libraries in any order, one of them replaced by another
path or none; documents with up to three includes, in any order, and one IDL
that is included by an included one; two IDLs have one package name, one that of
a library. Outside the run, and described below: a package from which fields are expanded and which
otherwise only a value needs, and two replaced libraries with one path.

*Proved* (`ImportsProofs`, for all libraries, orders, IDLs, replacements and documents). Two theorems, each under the
hypotheses about the inputs without which the code is wrong, as said below; the inputs of the run satisfy
them. `OneNameIsOnePackage` (`OneNameOnePackage`): a path is imported under one name only (`OnePackagePerPath`; two libraries
may be replaced by one path, `imports.go:51`), and a package that comes with an expanded field has its own name, which
nobody else is given (`NestedStandOut`; `scope_internal.go:927` writes it without asking the manager). `EveryNameIsImported`
(`EveryUseIsImported`) needs two more: no IDL has the path of a library (`LibrariesApart`), and no type or value is written with a
name that is marked unused (`DroppedAreUnused`; `scope_internal.go:751`). `OwnInv` says that the manager is one to one, with
every candidate before an answer taken by somebody else, and that the code's names own their paths; it uses the theorems of
`Namespace`. `UsedInv` adds that what the code names is not marked unused.

### Naming, Fields and Scope

Names are sequences of tokens, because collisions come from prefixes and
suffixes (`New`, `Client`, `Get`, `_args`) and from letter case. `Scope` installs one
definition per step; a panic of `MustReserve` ends the scope with `failed`.
`names` collects every identifier that is declared, with the place where it is:
the package, a type, a service or a list of parameters. `Fields` computes the
members of one type, in the two passes of the code, expanded fields included.

*Run* `scope`: all pairs, and many triples, of services, structs, typedefs,
enums and constants over six names that collide with each other or with what is made of them; types with
three fields over six names; expansions of own and included types; functions with two
arguments and an exception over five names; three sets of options. Two definitions, two fields or an
argument and an exception are enough for each rule of the code to meet another one; the
third is there for renamed names to meet.
Outside the bounds, each described below: two fields of one expandable type (which give the struct
two fields of one name), a field called `InitDefault`, enum values with the
name of another definition, arguments of one name, field IDs from 1000.

These modules are checked by TLC only: what a fold computes for every sequence
needs induction over data. The theorems about `Namespace` are what they rest on.

### Resolve

`stack` holds the calls of `ResolveSymbols`, one per IDL that is being resolved; a
frame says which phase the call is in, what is left of it and, of the resolver, the
work list of typedefs with the counts of its rounds. `names` is `Name2Category`;
`categories`, `aliases`, `refs` and `extras` are the fields that resolution sets in types
and values, which are named by file, definition and position. Names are sequences of
tokens, the parts between dots. `getEnum` and `Deref` are recursive functions with a bound on the
number of calls; a bound that is reached stands for a recursion that never ends, since
there are more calls than definitions.

`AcceptedIsLegal` and `RefusedIsIllegal` compare the outcome with what an IDL means (`Illegal`),
which is defined over the definitions alone: sets of typedefs closed under what they follow,
the ways to explain a value, and no order of anything.

*Run* `resolve`: one, two or three of fifteen definitions in every order that the AST can keep them in (it has typedefs before
constants, and so on), with two versions of an IDL that they refer to and three of the includes, two of them under one
prefix. Three definitions are a chain that takes two rounds and a circle of three, each in the
worst order. The IDLs that are included are small: what can go wrong in them is what can go wrong in
the first. A circle of typedefs in which a value is looked up ends as `diverged`: `getEnum` does not come back (see below).
For `RefusedIsIllegal` that is a refusal, for `Ends` it is no end: `Ends` says that `ResolveSymbols` returns with symbols or an
error for every document but those (`EndlessValue`), which the run has; for them TLC finds it violated.
*Fairness*: weak fairness of `Next`: the resolver is sequential and waits for nobody.

*Proved* (`ResolveProofs`, for all IDLs; but for the last three theorems with includes in any shape). `DocumentsAssumption` says what the
parser leaves: every include is read, and a definition has a name and a typedef has a type and no values. The first inductive invariant, `IInv`, says
that every type with the category "typedef" is in the work list of a call that resolves its IDL
(`Waited`): in the list of the resolver until the rounds start, then in what a round has
before it or has left. A call returns with an empty list, hence `TypedefsAreResolved` and
`ResolvedIsConcrete`. The second, `MInv`, says what each call has done (`Stacked`), that an IDL in no call is finished
(`Finished`), what a type refers to (`Right`), and that types can be ranked such that a typedef whose category is
known is above what it stands for (`Ranked`): a type that a round resolves gets a rank above its target's, which has
its category already. In the end every type has a category and `Deref`, which goes down in rank, ends at the same one
(`DerefIsCategory`). That `Work`, `GetEnum` and `Deref` exist and what they contain is proved from a least number at which it
would fail.

The third, `LInv`, is about meaning, and rests on `PlainAssumption`: includes have no circles, which `CircleDetect` ensures, no name
of a definition has a dot or is that of a built-in type, and no include an empty prefix. It says that every type that has a category
is linked with the definitions that its name means (`Linked`), and that a value or base of an IDL is sound or still in the list of its
call (`Checked`). Steps keep it because what a call looks at has registered all its names (`Grounded`, `Descending`): there,
`PlacesOf` finds what `Meant` says (`PlacesAreMeant`). For values the call also needs that its typedefs are linked, as they come
first (`Ordered`); then what `getEnum` answers is an enum that the name stands for (`EnumAnswers`), and an identifier has one
explanation in the tables if and only if it has one by the definitions (`ExplainedOnce`). In the end all lists are empty, and a
circle of typedefs would fall in rank for ever: hence `OnlyLegalIsAccepted` (`AcceptedIsLegal`).

The fourth, `RInv`, is about what is refused: the IDLs with names are reached from the main one, and what is refused is illegal. A
name that is found to be defined twice, a type or base without a place and a value with no or several explanations are so by the same
lemmas read the other way. Two refusals need more. A round fails when it has resolved nothing: `Counted` says that as long as
nothing was resolved in a round, every typedef that it has left stands for one that was a typedef when it was looked at; in the end
each of them stands for another of the list (`LeftFollows`), which is a circle (`StuckIsIllegal`). And a `getEnum` that does not come
back has more calls than there are definitions: each call that is not enough leaves fewer typedefs for which it is not, unless they
stand for each other (`LostFall`), so that it is in a circle (`LostIsEndless`). Hence `OnlyIllegalIsRefused`
(`RefusedIsIllegal`): with the theorem before it, `ResolveSymbols` decides exactly whether an IDL is legal, in any order of its
definitions. The same argument shows that the name whose `getEnum` is lost is one that `EndlessValue` speaks of:
`OnlyEndlessValuesDiverge` says that no other document leads to `diverged`. (Some of them are refused for another reason before `getEnum` is reached.)

### IncludeGraph and PluginCall

`stack` of `IncludeGraph` holds the running calls of `parseFileRecursively`, `thriftMap` is the
memo. A disk gives each path its includes or is broken; a spelling is what `search` finds, and a
path what it means. Afterwards `CircleDetect` runs, and only a graph without circles is walked:
the goroutine of `DepthFirstSearch` sends on an unbuffered channel to a caller that may give up.
`PluginCall` goes on from there. `CompressInclude` is one round of the loop of `compressThriftInclude`, whose running
calls are `visits`: the first reference to an IDL is kept, the next ones become stubs, in the AST itself. The plugin, old or new,
fails, is killed, answers nonsense or answers; the deferred `decompressThriftInclude` puts the references
back. Of this and of `collectThriftInclude` the model has the result only: what is reached without going through a
stub, and the stubs that are reached and whose IDL is in the table are put back.

*Run* `plugin_call`: up to four files in three directories, one of them only found through an
include directory, one spelled in two ways, some broken, with every list of up to two includes;
two plugins one after the other, to meet what the first one left. *Fairness*: weak fairness of the parser, of the
goroutine, of its caller and of `Execute`: the first reads files, the next two wait for each other only, and giving up is a
choice nobody has to make; a plugin returns or is killed at the time limit.

*Proved* (`IncludeGraphProofs`, for all disks, maps and include directories, with finitely many paths). All safety properties of the run:

* `ParserIsNotReentered`: the IDLs that are being parsed are different ones, because a call enters its IDL into
  the memo first; the recursion is no deeper than there are files, whatever circles there are.
* `AllIncludesAreSet` (`ParsedWhole`): `WholeInv` says that an IDL in work has as many references set as
  its call has done, that the next call is for the include it is at, and that every other IDL in the memo is complete.
* `CirclesAreReported` (`CirclesAreFound`): the recursion of `searchCircle` has a solution because a path of
  different IDLs cannot grow for ever (`SearchIsDefined`); what it returns is a path that comes back to an IDL on it. If it
  returns nothing, the IDLs from which it found nothing are closed under includes and none of them leads to itself (`NoWayBack`).
  `CircleInv` says that everything in the memo is reached from the main IDL, so that they are all of them.
* `WalkIsInOrder` (`IncludesComeFirst`): without a circle, the number of IDLs that an IDL leads to falls
  along each include (`DepthIsRank`). What is finished has its includes finished, and ranks fall along the stack
  of `dfs`, so an IDL that was met but is not finished cannot be met again below.
* `RequestIsCompressed` (`EveryIdlIsSentOnce`), `PluginsSeeTheTree` (`PluginSeesEverything`) and `AstComesBack`
  (`AstIsRestored`), of `PluginCall`: of the references that compression has behind it, exactly one to each IDL in `kept`
  is not a stub (`KeptOnce`); the calls are for different IDLs, as ranks fall. When the last call returns, `kept` and the main IDL
  are closed under includes, hence the whole tree; and from an IDL of the highest rank that could not be
  reached through kept references there would be one to it from a higher one (`KeptAreReached`). So the tables of both sides
  have every IDL that a stub stands for.

`IncludesEnd` is checked by TLC.

### Peg, ThriftGrammar, IdlParser and IdlText

A text is a sequence of pieces: words, digits, signs, blanks. `ThriftGrammar` has one definition for each
rule of `thrift.peg.go`, which does not agree with `thrift.peg` in all of them: the Go file counts. `Peg` matches as the generated functions do: the first alternative is final, repetitions take all.
`IdlParser` has one operator for each function of `parser.go`.

`IdlText` writes a text from a syntax tree, by the words of the language and not by the parser,
and says what should be read from it, with the comments that belong to a definition, the ids
of fields without one and the values of an enum. The text grows by an entry at a time.

*Run* `idl_text`: every kind of definition with one or two of its parts changed - comments before
and after, separators, annotations, types with names like `i32x`, values of
all kinds, numbers in three bases - alone and beside two others; headers in front. Definitions meet only their neighbours,
so two are enough. `DefinitionsAsWritten` says that the parser reads the definitions that were written,
`HeadersAsWritten` that includes, once each, and namespaces arrive.

### Structs, the codecs and Wire

`Structs` has the members of all 35 structs of the syntax tree, the plugin protocol, the descriptors and the meta
data, as tags and registered meta data give them. `FastCodec` has the sequence of writes of each
`FastAppend` and the cases of each `FastRead`, which somebody generated from `AST.thrift`; `MetaCodec` interprets
the meta data. Bytes are numbers. The map of `Thrift`, whose order Go chooses, has two entries, in both
orders. `Wire` sends one struct: it is written by either codec, maybe cut, and read by either.

*Run* `wire`: each struct as its constructor makes it, with each of its members alone, and with all; between
versions, one of which lacks one member of any struct; cut at every length, for the structs of the
plugin protocol and two descriptors. Members do not influence each other
but through the order of writing, which the full struct has. A required struct is never nil in the samples: a nil
one is written as an empty one, which a reader refuses if it has required members.

### Trimmer

`marks` is the set of marked nodes, `kept` the `keptPartCache` of the process, `ext` the `extServices`, `todo` the calls that are
still to be made: of `preProcess` for IDLs (`PreProcess`), then of `markService` for services (`SkipService`, `MarkService`). A call
of `markType` marks what it reaches through what was not marked before, whatever the order of its own calls: it is one
closure (`Mark`, `Reach`), and so is `traceExtendMethod` along the bases. `PreProcessed` marks the includes of IDLs under which something is
kept, `CleanServiceExtends` cuts off the bases, `Sweep` is `traversal`, `Resolve` is `ResolveSymbols` of what is left.

*Run* `trimmer`: a main IDL with two included ones; every constellation of types - own, included, included by an
included one, through typedefs, constants and preserved structs - and the services of three IDLs with every choice of bases and
methods. References are followed one at a time, and three IDLs have all the ways in which one can lead from one IDL to another.
Types stand in typedefs, fields and functions; what stands inside containers is marked like them.

*Proved* (`TrimmerProofs`, for all IDLs that resolve, all options and all name tables, with `MaxTrims = 1`). The
hypothesis says that a process trims an AST once, as the command does: `keptPartCache` outlives the trimmer, and with two trims TLC
finds an IDL whose kept part is missed. Three theorems:

* `TrimInvariant`: `IInv` holds. Marks are followed (what a marked struct or alias refers to is marked, with the includes
  on the way); the kept part of an IDL in the cache is marked, and the cache and what the calls to come will visit
  make up all included IDLs; without methods a marked service has all its functions marked; the base of a marked service is marked,
  waits in `todo`, is cut off, or stands in the same included IDL.
* `MissesNothing` (`NothingIsMissed`): after the sweep, an IDL that is left was visited, and its include was left because it is marked or because
  it has constants, enums or typedefs. A type in it belonged to something that is marked or kept, so that the include it goes through and the struct
  it stands for are marked, and both are still there.
* `LeavesNothingUnneeded` (`NothingUnneeded`): `JInv` says of the marks where they come from. Take any IDLs and structs that hold what has
  to stay - closed under marked includes, with the structs of constants, aliases, preserved structs and marked functions, and
  closed under the types of marked structs: they hold every marked struct (`Justified`). After the sweep, the IDLs that are left and
  the structs that `NothingUnneeded` calls needed are such sets.

What the recursive functions `Reach` and `Filtered` return is proved over the least number of steps at which it would fail;
`Reach` needs that its graph is finite, as more steps than elements lead nowhere new. TLC has checked `IInv` on the run of this module.
`RequestedMethodsStay` is checked by TLC only, on one level of bases, because it does not hold for all inputs: with `goNames`
it fails for a service that is marked as the base of another one before its turn (see below).

### FieldMask

A mask is a tree, as in the code, with `isAll` and black bit. `meant` remembers the lists a mask was made of. Two
references stand for two processes: one makes masks, JSON takes them to the other, with the
caches of `serdes.go`.

*Run* `field_mask`: every list of up to three of fourteen paths in every order, white and black, over a
struct with a scalar, a struct, a list and two maps. Paths interact in one node, and three of them are a path, one beside and one above it.

## Proved, checked, neither

The proofs are about `FileManager`, `PostProcess`, `Generator`, `NamespaceSpec`, `Imports`, `Resolve`, `IncludeGraph`,
`PluginCall` and `Trimmer`. Of these modules only the liveness properties `Returns`, `IncludesEnd` and `Ends` and, of the trimmer,
`RequestedMethodsStay` are left to TLC. Liveness and ENABLED are out of the
prover's reach, and so are the induction theorems of the library, which take an operator; where a proof needs an induction over
numbers it takes the least one for which the claim would fail. `FieldMask`, the grammar and the codecs are recursive over
their data (trees, texts, bytes) and use RECURSIVE operators, `Scope` folds over sequences of definitions: they are checked by TLC only.

Not modelled, and why:

* Text: templates, formatting, printing, option parsing. That a template declares exactly the names that the
  scope computed is an assumption of `Scope`.
* The semantic checker and the arguments: scans of one document that keep nothing.
* How the Go backend puts together the text of types and values, and the initialisms of other naming styles.
* The registry of descriptors beyond their marshalling: maps that `init` functions fill once. The debug protocol and the
  adapters of transports.
* Two commands at a time in one process: `Generator` runs them one after another, as the repository does.

## Defects and oddities met while modelling

What follows was seen in the code while it was translated. Where a property stays silent about it, the property's comment
says so, or its run does not reach it.

*Generator.* `plugins` grows from target to target while the descriptions do not, so the second
target with a plugin panics (`generator.go:105`). `thrift_streaming` for a second Go target has nothing left to
keep, because the first one removed the functions from the shared AST (`backend.go:106`). A backend never forgets an error (`backend.go:124`).
`RegisterBackend` compares `Lang()` with `Name()`, "Go" with "go" (`generator.go:65`). Which files are written when one fails
depends on the scheduling (`generator.go:247`). A panic ends the program with exit code 0 (`main.go:73`).

*File manager.* Without `NoClash` two files share a name (`file_manager.go:99`). An unnamed item without an insertion
point is queued for the point "", which no file has, and is lost (`:57`). A patch for a name
that nobody has fed becomes the file (`:62`). A sender whose file was renamed or dropped as a duplicate patches by name the file of
somebody else, and unnamed items behind that patch follow it; the code says so itself (`FIXME`, `:69`). Insertion points inside a patch's text stay (`:141`).

*Names and imports.* A package from which fields are expanded and which otherwise only a value or an element type needs is marked unused
(`scope_internal.go:751`), and the code does not compile. When two libraries are replaced by one path, one name is lost (`imports.go:51`).
`MustReserve` panics on some legal IDLs: two services whose argument structs collide (`scope_internal.go:460`). Two
fields of one expandable type give a struct two fields of one name; `InitDefault` is not reserved (`templates/struct.go:60`);
enum values are not registered as names of the package (`:280`). An argument type of another package is looked up by its bare name in
every include (`:983`). `ID` is not the reverse of `Get` when an ID is added twice (`namespace.go:101`).

*Semantics.* A circle of typedefs in which a value is looked up recurses for ever (`semantic.go:329`), until the stack overflows. An enum value that is
selected through a typedef passes `ResolveSymbols`, and the Go backend refuses it (`resolver.go:239`). A union with
two defaults passes, as `hasDefault` is never set (`checker.go:174`), and so do arguments of one name (`checker.go:206`).
`checkOptions` changes a copy of the option (`args.go:125`).

*Includes.* An early stop of `executeTemplates` leaves the goroutine of `DepthFirstSearch` behind. A symbolic link, or an absolute include
directory, still makes two IDLs of one file.

*Grammar.* A constant `010` is 8, an id `010` is 10 (`parser.go:515`, `776`); a constant `08` is refused, an enum value `08` is 0 (`:609`).
Numbers beyond 64 bits, which are refused, are left out of the model. `1e5` is read as 5: the exponent has a text of its own inside the text (`parser.go:203`). `FieldReq` does not ask for the end of
the word, so that `optionalx y` is an optional field of type `x` (`thrift.peg.go:1166`). A literal that ends in an escaped
backslash does not end (`:2155`). Ids that are hexadecimal become 0 and large ones are cut (`parser.go:776`). A typedef takes no
separator; an empty file is refused. `thrift.peg` and `thrift.peg.go` differ in the rule of structs.

*Wire.* `StructLike.Expandable` (`AST.go:1104`) is in neither codec (`k-AST.go:1691`), so no plugin ever learns it, and `meta.Marshal` of a
`StructLike` panics. `WriteString` of the richer transport calls itself (`meta/transport.go`).

*Trimmer.* A base that stands in the same included IDL is not marked (`mark.go:83`), and the result does not resolve. Methods more than one
base up can be lost (`mark.go:299`), which the comment at 262 does not expect. `keptPartCache` (`mark.go:225`)
makes a second trim of one AST miss its kept part. `goNames` and prefixes count in `markService` only (`mark.go:63`): a service that an earlier one has marked as its base
is skipped in its turn (`:51`), and its own methods, when asked for by their Go names, are lost. A service that
extends itself is followed for ever.

*Field mask.* `mask.go:110` promises that a complete path of a black list is refused; when another path goes on below it, its node has children
and passes (`mask.go:459`). After a path with `*`, a shorter one keeps the narrower mask. The JSON of a nested
black list drops the children that make it pass (`serdes.go:123`); the mask of no path is written as "Invalid", which `Unmarshal`
refuses (`serdes.go:278`). `*` over the fields of a struct takes the type of the first field (`mask.go:218`). `GetPath` does not unwrap typedefs.
Negative field ids index out of range (`storage.go:55`).

*Registry.* `checkDuplicateAndRegister` compares defaults that are maps with `DeepEqual`; the UUID of a descriptor has four bytes; `registerGlobalUUID`
leaves out the types of constants; the maps have no lock (`descriptor_register.go:158`).

## How to run

    tlc -workers 2 -config Scope.cfg MCScope
    tlapm PostProcessProofs.tla

Each `.cfg` names its properties; `PROJECT.json` says which module goes with it.
