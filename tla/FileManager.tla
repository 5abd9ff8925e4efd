----------------------------- MODULE FileManager -----------------------------
(***************************************************************************)
(* generator/file_manager.go: the in-memory files of one Generate call.    *)
(*                                                                         *)
(* The backend and then every plugin hand a list of plugin.Generated items *)
(* to Feed.  An item is a file (named), a patch for a named file (named,   *)
(* with an insertion point) or a patch for the file the item before it     *)
(* stands for (unnamed).  Two files of one name are told apart by          *)
(* renaming the later one, unless their contents agree: then the later one *)
(* is dropped together with the unnamed patches behind it.  BuildResponse  *)
(* finally splices the patches into the files.                             *)
(*                                                                         *)
(* Feed's loop takes one item per step.  The items are not a list fixed in *)
(* advance: the environment chooses the next one at each iteration, which  *)
(* covers every list of at most MaxItems items cut into Feed calls in      *)
(* every way.                                                              *)
(***************************************************************************)
EXTENDS Integers, Sequences, FiniteSets, GoMap

CONSTANTS
  Names,     \* names the backend and the plugins give their files
  Contents,  \* texts of files and of patches
  Points,    \* insertion point names
  Markers,   \* the insertion points each text contains
  NoName,    \* "" : Generated.Name is not set
  NoPoint,   \* "" : Generated.InsertionPoint is not set
  MaxItems   \* bound on the items fed in one behaviour

ASSUME FileManagerAssumption ==
  /\ Markers \in [Contents -> SUBSET Points]
  /\ NoPoint \notin Points
  /\ NoName \notin Names
  /\ MaxItems \in Nat

VARIABLES
  files,     \* FileManager.files: the accepted files, in order
  patch,     \* FileManager.patch: file name -> patches, in order
  index,     \* FileManager.index: file name -> position in files
  count,     \* FileManager.count: fed name -> number of renamed versions
  phase,     \* where Generate and Feed are; "discarding": Feed is skipping
             \* the unnamed items behind a file it dropped
  last,      \* Feed: name that unnamed items are attached to
  response,  \* the response BuildResponse returns
  lastFile,  \* history: position of the file the last named item stands for
  own,       \* history: name -> position of the file that the list being
             \* fed has under that name
  meant,     \* history: position of a file -> patches meant for it, as fed
  astray,    \* history: positions of the files that a patch by name should
             \* have reached, or reached, instead of the other
  accepted,  \* history: the <<name, content>> pairs fed as files
  items      \* history: number of items taken so far

fmVars   == <<files, patch, index, count>>
feedVars == <<phase, last>>
meantVars == <<lastFile, own, meant, astray>>
vars == <<files, patch, index, count, phase, last, response,
          lastFile, own, meant, astray, accepted, items>>

Generated(name, content, point) ==
  [name |-> name, content |-> content, point |-> point]

\* fmt.Sprintf("%s_%d%s", pth, k, ext).  Distinct pairs give distinct names.
Renamed(name, k) == <<name, k>>

Count(name) == Get(count, name, 0)

\* Position of the k-th version of a name; version 0 is the first file.
Version(name, k) == index[IF k = 0 THEN name ELSE Renamed(name, k)]

\* Mutant: any file of the name counts as a duplicate.
AnyVersion(name, content) == 0..Count(name)

\* The versions whose content the search loop finds equal to the fed one.
SameContent(name, content) ==
  {k \in 0..Count(name) : files[Version(name, k)].content = content}

\* Mutant: a patch replaces the earlier patches of its file.
ReplacedPatch(name, item, for) ==
  Put(patch, name, <<[item |-> item, for |-> for]>>)

Queued(queues, key, entry) ==
  Put(queues, key, Append(Get(queues, key, <<>>), entry))

\* A patch remembers the file it was meant for: a history field.
AddedPatch(name, item, for) ==
  Queued(patch, name, [item |-> item, for |-> for])

\* The history of what was meant for each file, with one more patch.
Meant(item, for) == Queued(meant, for, [item |-> item, for |-> for])

\* The file a patch by name is meant for.  Who gave a file of that name
\* patches that one, whatever it is called by now or whichever file made it
\* superfluous; who gave none patches the file that bears the name.
Target(name) == Get(own, name, index[name])

-----------------------------------------------------------------------------

Init ==
  /\ files = <<>> /\ patch = EmptyMap /\ index = EmptyMap /\ count = EmptyMap
  /\ phase = "idle" /\ last = NoName /\ response = <<>>
  /\ lastFile = 0 /\ own = EmptyMap /\ meant = EmptyMap /\ astray = {}
  /\ accepted = {} /\ items = 0

\* Generate calls Feed with the items of the backend or of one plugin.
BeginFeed ==
  /\ phase = "idle"
  /\ phase' = "feeding" /\ last' = NoName /\ lastFile' = 0 /\ own' = EmptyMap
  /\ UNCHANGED <<fmVars, response, meant, astray, accepted, items>>

EndFeed ==
  /\ phase \in {"feeding", "discarding"}
  /\ phase' = "idle"
  /\ UNCHANGED <<fmVars, last, response, meantVars, accepted, items>>

TakeItem ==
  /\ phase \in {"feeding", "discarding"}
  /\ items < MaxItems
  /\ items' = items + 1
  /\ UNCHANGED response

\* An unnamed item with no file before it: Feed fails, and so does Generate.
NoTarget ==
  /\ TakeItem
  /\ phase = "feeding" /\ last = NoName
  /\ phase' = "failed"
  /\ UNCHANGED <<fmVars, last, meantVars, accepted>>

\* An unnamed item is a patch for the name of the item before it.
AppendPatch(content, point) ==
  /\ TakeItem
  /\ phase = "feeding" /\ last # NoName
  /\ patch' = AddedPatch(last, Generated(NoName, content, point), lastFile)
  /\ meant' = Meant(Generated(NoName, content, point), lastFile)
  /\ UNCHANGED <<files, index, count, feedVars, lastFile, own, astray, accepted>>

\* An unnamed item behind a discarded file goes with it.
DiscardPatch ==
  /\ TakeItem
  /\ phase = "discarding"
  /\ UNCHANGED <<fmVars, feedVars, meantVars, accepted>>

\* The item, fed as "fed", is stored as a file under the given name.
Accept(fed, name, content, point) ==
  /\ index' = Put(index, name, Len(files) + 1)
  /\ files' = Append(files, Generated(name, content, point))
  /\ phase' = "feeding" /\ last' = name /\ lastFile' = Len(files) + 1
  /\ own' = Put(own, fed, Len(files) + 1)
  /\ accepted' = accepted \cup {<<fed, content>>}
  /\ UNCHANGED <<meant, astray>>

\* A name nobody used: the item becomes a file, even with an insertion point.
NewFile(name, content, point) ==
  /\ TakeItem
  /\ name \notin DOMAIN index
  /\ Accept(name, name, content, point)
  /\ UNCHANGED <<patch, count>>

\* A named item with an insertion point patches the file that bears the name,
\* also when it is meant for another: "FIXME: when the target file is renamed
\* due to name collision, the patch may be invalid" (line 69).
PatchFile(name, content, point) ==
  LET item == Generated(name, content, point) IN
  /\ TakeItem
  /\ name \in DOMAIN index /\ point # NoPoint
  /\ patch' = AddedPatch(name, item, Target(name))
  /\ meant' = Meant(item, Target(name))
  /\ astray' = IF Target(name) = index[name] THEN astray
               ELSE astray \cup {Target(name), index[name]}
  /\ phase' = "feeding" /\ last' = name /\ lastFile' = Target(name)
  /\ UNCHANGED <<files, index, count, own, accepted>>

\* Mutant: the patches behind a dropped duplicate are taken.
DiscardFileOnly(name, content) ==
  /\ TakeItem
  /\ name \in DOMAIN index
  /\ \E k \in SameContent(name, content) :
       /\ lastFile' = Version(name, k)
       /\ own' = Put(own, name, Version(name, k))
  /\ phase' = "feeding"
  /\ accepted' = accepted \cup {<<name, content>>}
  /\ UNCHANGED <<fmVars, last, meant, astray>>

\* The same content under the same name again.  "last" keeps its old value.
Discard(name, content) ==
  /\ TakeItem
  /\ name \in DOMAIN index
  /\ \E k \in SameContent(name, content) :
       /\ lastFile' = Version(name, k)
       /\ own' = Put(own, name, Version(name, k))
  /\ phase' = "discarding"
  /\ accepted' = accepted \cup {<<name, content>>}
  /\ UNCHANGED <<fmVars, last, meant, astray>>

\* Another content under a used name is stored under the next free version.
RenameFile(name, content) ==
  LET renamed == Renamed(name, Count(name) + 1) IN
  /\ TakeItem
  /\ name \in DOMAIN index /\ SameContent(name, content) = {}
  /\ Accept(name, renamed, content, NoPoint)
  /\ count' = Put(count, name, Count(name) + 1)
  /\ UNCHANGED patch

\* Mutant: a patch is put before those its point has already.
SplicedInFront(name, point) ==
  LET patches == Get(patch, name, <<>>)
      text[k \in 0..Len(patches)] ==
        IF k = 0 THEN <<>>
        ELSE IF patches[k].item.point = point
             THEN <<patches[k].item.content>> \o text[k - 1]
             ELSE text[k - 1]
  IN  text[Len(patches)]

\* The contents spliced in at a point: the patches of the name, in order.
Spliced(name, point) ==
  LET patches == Get(patch, name, <<>>)
      text[k \in 0..Len(patches)] ==
        IF k = 0 THEN <<>>
        ELSE IF patches[k].item.point = point
             THEN Append(text[k - 1], patches[k].item.content)
             ELSE text[k - 1]
  IN  text[Len(patches)]

\* Patches whose point is not a marker of the content are not spliced.
BuildResponse ==
  /\ phase = "idle"
  /\ phase' = "built"
  /\ response' = [i \in DOMAIN files |->
       [name |-> files[i].name,
        content |-> files[i].content,
        inserted |-> [p \in Markers[files[i].content] |->
                        Spliced(files[i].name, p)]]]
  /\ UNCHANGED <<fmVars, last, meantVars, accepted, items>>

FeedUnnamed ==
  \/ NoTarget
  \/ DiscardPatch
  \/ \E c \in Contents, p \in Points \cup {NoPoint} : AppendPatch(c, p)

FeedNamed ==
  \E n \in Names, c \in Contents :
    \/ \E p \in Points \cup {NoPoint} : NewFile(n, c, p) \/ PatchFile(n, c, p)
    \/ Discard(n, c)
    \/ RenameFile(n, c)

Next == BeginFeed \/ EndFeed \/ FeedUnnamed \/ FeedNamed \/ BuildResponse

Spec == Init /\ [][Next]_vars
-----------------------------------------------------------------------------

(***************************************************************************)
(* Properties.                                                             *)
(***************************************************************************)

\* The names a file can have: a fed one, or a renamed fed one.
FileNames == Names \cup (Names \X (1..MaxItems))

File == [name : FileNames, content : Contents, point : Points \cup {NoPoint}]

Entry == [item : [name : Names \cup {NoName}, content : Contents,
                  point : Points \cup {NoPoint}],
          for : 1..MaxItems]

IndexOK ==
  \A n \in DOMAIN index : n \in FileNames /\ index[n] \in 1..Len(files)

CountOK ==
  \A n \in DOMAIN count : n \in Names /\ count[n] \in 1..items

PatchOK ==
  \A n \in DOMAIN patch : n \in DOMAIN index /\ patch[n] \in Seq(Entry)

FeedOK ==
  /\ phase \in {"idle", "feeding", "discarding", "failed", "built"}
  /\ last \in DOMAIN index \cup {NoName}
  /\ lastFile \in 0..Len(files) /\ (last # NoName => lastFile # 0)
  /\ DOMAIN own \subseteq Names /\ \A n \in DOMAIN own : own[n] \in 1..Len(files)
  /\ accepted \subseteq Names \X Contents

MeantOK ==
  /\ astray \subseteq 1..Len(files)
  /\ \A i \in DOMAIN meant : i \in 1..Len(files) /\ meant[i] \in Seq(Entry)

\* Every field holds what its Go type allows, and positions point into files.
TypeOK ==
  /\ items \in 0..MaxItems
  /\ files \in Seq(File) /\ Len(files) <= items
  /\ IndexOK /\ CountOK /\ PatchOK /\ FeedOK /\ MeantOK

\* No fed name has the form of a name that Feed makes up for a renamed file.
NoClash ==
  \A n, m \in Names : \A k \in 1..MaxItems : n # Renamed(m, k)

\* Persist writes every file to the path of its name, concurrently: two files
\* of one name would leave an arbitrary one of them on disk.
UniqueNames ==
  \A i, j \in DOMAIN files : files[i].name = files[j].name => i = j

\* The index and the files agree: a name leads to a file that bears it.
IndexSound ==
  \A n \in DOMAIN index : files[index[n]].name = n

\* Nothing fed as a file gets lost: its content is in a version of its name
\* that the index still leads to, however names repeat later.
NothingLost ==
  \A a \in accepted : \E k \in 0..Count(a[1]) :
    files[Version(a[1], k)].content = a[2]

\* An unnamed patch is queued under the name of the very file it followed in
\* its list, also when that file was renamed or dropped as a duplicate.  Only
\* behind a patch by name that missed its own target (file_manager.go:69) it
\* goes where that one went.
PatchFollowsItsFile ==
  \A n \in DOMAIN patch : \A i \in DOMAIN patch[n] :
    patch[n][i].for \in astray \/ files[patch[n][i].for].name = n

\* The texts are those of the list's patches at the point: each of them, once,
\* in the order of the list.
InOrder(texts, list, point) ==
  LET AtPoint(k) == {j \in 1..k : list[j].item.point = point}
  IN  /\ Len(texts) = Cardinality(AtPoint(Len(list)))
      /\ \A k \in AtPoint(Len(list)) :
           texts[Cardinality(AtPoint(k))] = list[k].item.content

\* What ends up in a file at a marker is what was fed for that file and marker,
\* all of it, as often as it was fed and in that order (plugin/doc.go:31).  A
\* patch by name is meant for the file its sender gave under that name.  When
\* that file was renamed or dropped the patch goes to the one that bears the
\* name instead: the FIXME of file_manager.go:69.  The two files of such a
\* patch are in astray, and nothing is said of them.
InsertedAsMeant ==
  phase = "built" =>
    \A i \in DOMAIN response \ astray : \A p \in Markers[response[i].content] :
      InOrder(response[i].inserted[p], Get(meant, i, <<>>), p)

\* The file manager is a store that only grows: see FileStore.
Store == INSTANCE FileStore WITH
  store <- [n \in DOMAIN index |-> files[index[n]].content],
  patches <- patch

GrowsOnly == Store!StoreSpec
=============================================================================
