-------------------------- MODULE FileManagerProofs --------------------------
(***************************************************************************)
(* What holds of FileManager for all names, contents, points and bounds:   *)
(* type correctness, unique names, the index, that nothing fed is lost,    *)
(* what is inserted at each point, and the refinement of FileStore.        *)
(***************************************************************************)
EXTENDS FileManager, FiniteSetTheorems, WellFoundedInduction, TLAPS

\* Every version up to the count of a name is in the index.
VersionsIndexed ==
  \A n \in Names : \A k \in 1..Count(n) : Renamed(n, k) \in DOMAIN index

TypeInv == TypeOK /\ VersionsIndexed

\* The number of renamed versions of a name is a natural number.
LEMMA CountType == TypeOK => \A n : Count(n) \in 0..items
BY DEF TypeOK, CountOK, Count, Get

LEMMA TypeInit == Init => TypeInv
<1> SUFFICES ASSUME Init PROVE TypeInv  OBVIOUS
<1>1. /\ files = <<>> /\ DOMAIN patch = {} /\ DOMAIN index = {}
      /\ DOMAIN count = {} /\ phase = "idle" /\ last = NoName
      /\ lastFile = 0 /\ DOMAIN own = {} /\ DOMAIN meant = {} /\ astray = {}
      /\ accepted = {} /\ items = 0
  BY DEF Init, EmptyMap
<1>2. files \in Seq(File) /\ Len(files) = 0  BY <1>1
<1>3. IndexOK /\ CountOK /\ PatchOK /\ MeantOK
  BY <1>1 DEF IndexOK, CountOK, PatchOK, MeantOK
<1>4. FeedOK  BY <1>1, <1>2 DEF FeedOK
<1>5. VersionsIndexed  BY <1>1 DEF VersionsIndexed, Count, Get
<1> QED  BY <1>1, <1>2, <1>3, <1>4, <1>5, FileManagerAssumption DEF TypeInv, TypeOK

\* Queueing an entry lengthens one queue and leaves the others alone.
LEMMA QueuedFacts ==
  ASSUME NEW queues, NEW key, NEW entry \in Entry,
         \A k \in DOMAIN queues : queues[k] \in Seq(Entry)
  PROVE  /\ DOMAIN Queued(queues, key, entry) = DOMAIN queues \cup {key}
         /\ \A k \in DOMAIN Queued(queues, key, entry) :
              Queued(queues, key, entry)[k] \in Seq(Entry)
<1> DEFINE q == Get(queues, key, <<>>)
           longer == Append(q, entry)
<1>1. q \in Seq(Entry)  BY DEF Get
<1>2. longer \in Seq(Entry)  BY <1>1
<1>3. Queued(queues, key, entry)
        = [k \in DOMAIN queues \cup {key} |-> IF k = key THEN longer ELSE queues[k]]
  BY DEF Queued, Put
<1> HIDE DEF longer
<1> QED  BY <1>2, <1>3

\* What a queue is after queueing an entry.
LEMMA QueuedGet ==
  ASSUME NEW queues, NEW key, NEW entry, NEW k
  PROVE  Get(Queued(queues, key, entry), k, <<>>)
           = IF k = key THEN Append(Get(queues, key, <<>>), entry)
             ELSE Get(queues, k, <<>>)
<1> DEFINE longer == Append(Get(queues, key, <<>>), entry)
<1>1. Queued(queues, key, entry)
        = [x \in DOMAIN queues \cup {key} |-> IF x = key THEN longer ELSE queues[x]]
  BY DEF Queued, Put
<1> HIDE DEF longer
<1>2. Get(Queued(queues, key, entry), k, <<>>)
        = IF k = key THEN longer ELSE Get(queues, k, <<>>)
  BY <1>1 DEF Get
<1> QED  BY <1>2 DEF longer

\* An item and the position it is meant for make an entry.
LEMMA EntryType ==
  ASSUME NEW name \in Names \cup {NoName}, NEW content \in Contents,
         NEW point \in Points \cup {NoPoint}, NEW for \in 1..MaxItems
  PROVE  [item |-> Generated(name, content, point), for |-> for] \in Entry
BY DEF Generated, Entry

\* The queues keep their type when an item is put into one of each kind.
LEMMA PatchType ==
  ASSUME TypeOK, NEW name \in DOMAIN index, NEW for \in 1..Len(files), NEW item,
         [item |-> item, for |-> for] \in Entry,
         patch' = AddedPatch(name, item, for), meant' = Meant(item, for),
         UNCHANGED <<files, index>>, astray' \subseteq 1..Len(files)
  PROVE  PatchOK' /\ MeantOK'
<1> DEFINE e == [item |-> item, for |-> for]
<1>1. /\ \A n \in DOMAIN patch : patch[n] \in Seq(Entry)
      /\ \A i \in DOMAIN meant : meant[i] \in Seq(Entry)
      /\ DOMAIN patch \subseteq DOMAIN index /\ DOMAIN meant \subseteq 1..Len(files)
  BY DEF TypeOK, PatchOK, MeantOK
<1>2. patch' = Queued(patch, name, e) /\ meant' = Queued(meant, for, e) /\ e \in Entry
  BY DEF AddedPatch, Meant
<1> HIDE DEF e
<1>3. DOMAIN patch' = DOMAIN patch \cup {name} /\ \A n \in DOMAIN patch' : patch'[n] \in Seq(Entry)
  BY <1>1, <1>2, QueuedFacts
<1>4. DOMAIN meant' = DOMAIN meant \cup {for} /\ \A i \in DOMAIN meant' : meant'[i] \in Seq(Entry)
  BY <1>1, <1>2, QueuedFacts
<1> QED  BY <1>1, <1>3, <1>4 DEF PatchOK, MeantOK

\* A file that a patch by name is meant for is one the manager has.
LEMMA TargetType ==
  ASSUME TypeOK, NEW name \in DOMAIN index
  PROVE  Target(name) \in 1..Len(files)
BY DEF TypeOK, IndexOK, FeedOK, Target, Get

\* Accepting one more file under a name keeps the files and the index typed.
LEMMA AcceptType ==
  ASSUME TypeOK, NEW name \in FileNames, NEW content \in Contents,
         NEW point \in Points \cup {NoPoint},
         files' = Append(files, Generated(name, content, point)),
         index' = Put(index, name, Len(files) + 1)
  PROVE  /\ files' \in Seq(File) /\ Len(files') = Len(files) + 1
         /\ DOMAIN index' = DOMAIN index \cup {name}
         /\ IndexOK'
<1>1. Generated(name, content, point) \in File  BY DEF Generated, File
<1>2. files \in Seq(File) /\ Len(files) \in Nat  BY DEF TypeOK
<1>3. files' \in Seq(File) /\ Len(files') = Len(files) + 1  BY <1>1, <1>2
<1>4. /\ DOMAIN index' = DOMAIN index \cup {name}
      /\ \A n \in DOMAIN index' :
           index'[n] = IF n = name THEN Len(files) + 1 ELSE index[n]
  BY DEF Put
<1>5. IndexOK'  BY <1>2, <1>3, <1>4 DEF TypeOK, IndexOK
<1> QED  BY <1>3, <1>4, <1>5

\* Accepting a file keeps Feed's own state and the history typed.
LEMMA AcceptFeed ==
  ASSUME FeedOK, MeantOK, Len(files) \in Nat, Len(files') = Len(files) + 1,
         NEW fed \in Names, NEW name, NEW content \in Contents, NEW point,
         DOMAIN index' = DOMAIN index \cup {name}, Accept(fed, name, content, point)
  PROVE  FeedOK' /\ MeantOK'
<1>1. /\ phase' = "feeding" /\ last' = name /\ lastFile' = Len(files) + 1
      /\ own' = Put(own, fed, Len(files) + 1)
      /\ accepted' = accepted \cup {<<fed, content>>}
      /\ UNCHANGED <<meant, astray>>
  BY DEF Accept
<1>2. FeedOK'  BY <1>1 DEF FeedOK, Put
<1>3. MeantOK'  BY <1>1 DEF MeantOK
<1> QED  BY <1>2, <1>3

LEMMA TypeStep == TypeInv /\ [Next]_vars => TypeInv'
<1> SUFFICES ASSUME TypeInv, [Next]_vars PROVE TypeInv'  OBVIOUS
<1>1. TypeOK /\ VersionsIndexed  BY DEF TypeInv
<1>2. /\ items \in Nat /\ MaxItems \in Nat /\ Len(files) \in Nat
      /\ items \in 0..MaxItems /\ Len(files) <= items
      /\ files \in Seq(File)
      /\ IndexOK /\ CountOK /\ PatchOK /\ FeedOK /\ MeantOK
  BY <1>1, FileManagerAssumption DEF TypeOK
\* A step that leaves the files, the index and the counts alone.
<1>3. ASSUME UNCHANGED <<files, index, count>>, items' \in 0..MaxItems,
             items <= items', PatchOK', FeedOK', MeantOK'
      PROVE  TypeInv'
  <2>1. IndexOK'  BY <1>2, <1>3 DEF IndexOK
  <2>2. CountOK'  BY <1>2, <1>3 DEF CountOK
  <2>3. VersionsIndexed'  BY <1>1, <1>3 DEF VersionsIndexed, Count, Get, Renamed
  <2> QED  BY <1>2, <1>3, <2>1, <2>2, <2>3 DEF TypeInv, TypeOK
\* A step that leaves all of the manager's fields alone.
<1>4. ASSUME UNCHANGED <<fmVars, meant, astray>>, items' \in 0..MaxItems,
             items <= items', FeedOK'
      PROVE  TypeInv'
  BY <1>2, <1>3, <1>4 DEF fmVars, PatchOK, MeantOK
<1>a. CASE UNCHANGED vars
  BY <1>2, <1>4, <1>a DEF vars, fmVars, FeedOK
<1>b. CASE BeginFeed
  BY <1>2, <1>4, <1>b DEF BeginFeed, fmVars, FeedOK, EmptyMap
<1>c. CASE EndFeed
  BY <1>2, <1>4, <1>c DEF EndFeed, fmVars, meantVars, FeedOK
<1>d. CASE BuildResponse
  BY <1>2, <1>4, <1>d DEF BuildResponse, fmVars, meantVars, FeedOK
<1>e. CASE NoTarget
  BY <1>2, <1>4, <1>e DEF NoTarget, TakeItem, fmVars, meantVars, FeedOK
<1>f. CASE DiscardPatch
  BY <1>2, <1>4, <1>f
  DEF DiscardPatch, TakeItem, fmVars, feedVars, meantVars, FeedOK
<1>g. ASSUME NEW content \in Contents, NEW point \in Points \cup {NoPoint},
             AppendPatch(content, point)
      PROVE  TypeInv'
  <2>1. last \in DOMAIN index /\ lastFile \in 1..Len(files) /\ lastFile \in 1..MaxItems
    BY <1>2, <1>g DEF AppendPatch, FeedOK
  <2>2. /\ patch' = AddedPatch(last, Generated(NoName, content, point), lastFile)
        /\ meant' = Meant(Generated(NoName, content, point), lastFile)
        /\ UNCHANGED <<files, index>> /\ astray' \subseteq 1..Len(files)
    BY <1>2, <1>g DEF AppendPatch, MeantOK
  <2>3. PatchOK' /\ MeantOK'  BY <1>1, <2>1, <2>2, EntryType, PatchType
  <2> QED
    BY <1>2, <1>3, <1>g, <2>3 DEF AppendPatch, TakeItem, feedVars, FeedOK
<1>h. ASSUME NEW name \in Names, NEW content \in Contents,
             NEW point \in Points \cup {NoPoint}, PatchFile(name, content, point)
      PROVE  TypeInv'
  <2>1. /\ name \in DOMAIN index /\ index[name] \in 1..Len(files)
        /\ Target(name) \in 1..Len(files) /\ Target(name) \in 1..MaxItems
    BY <1>1, <1>2, <1>h, TargetType DEF PatchFile, IndexOK
  <2>2. /\ patch' = AddedPatch(name, Generated(name, content, point), Target(name))
        /\ meant' = Meant(Generated(name, content, point), Target(name))
        /\ UNCHANGED <<files, index>> /\ astray' \subseteq 1..Len(files)
    BY <1>2, <1>h, <2>1 DEF PatchFile, MeantOK
  <2>3. PatchOK' /\ MeantOK'  BY <1>1, <2>1, <2>2, EntryType, PatchType
  <2>4. FeedOK'  BY <1>2, <1>h, <2>1 DEF PatchFile, FeedOK
  <2> QED  BY <1>2, <1>3, <1>h, <2>3, <2>4 DEF PatchFile, TakeItem
<1>i. ASSUME NEW name \in Names, NEW content \in Contents,
             NEW point \in Points \cup {NoPoint}, NewFile(name, content, point)
      PROVE  TypeInv'
  <2>1. name \in FileNames  BY DEF FileNames
  <2>2. /\ files' \in Seq(File) /\ Len(files') = Len(files) + 1
        /\ DOMAIN index' = DOMAIN index \cup {name}
        /\ IndexOK'
    BY <1>1, <1>i, <2>1, AcceptType DEF NewFile, Accept
  <2>3. items' = items + 1 /\ items' \in 0..MaxItems /\ UNCHANGED <<patch, count>>
    BY <1>2, <1>i DEF NewFile, Accept, TakeItem
  <2>4. VersionsIndexed'
    BY <1>1, <2>2, <2>3 DEF VersionsIndexed, Count, Get, Renamed
  <2>5. CountOK'  BY <1>2, <2>3 DEF CountOK
  <2>6. PatchOK'  BY <1>2, <2>2, <2>3 DEF PatchOK
  <2>7. FeedOK' /\ MeantOK'
    BY <1>2, <1>i, <2>2, AcceptFeed DEF NewFile, Accept
  <2> QED
    BY <1>2, <2>2, <2>3, <2>4, <2>5, <2>6, <2>7 DEF TypeInv, TypeOK
<1>j. ASSUME NEW name \in Names, NEW content \in Contents, Discard(name, content)
      PROVE  TypeInv'
  <2>1. PICK k \in 0..Count(name) : /\ lastFile' = Version(name, k)
                                    /\ own' = Put(own, name, Version(name, k))
    BY <1>j DEF Discard, SameContent
  <2>2. (IF k = 0 THEN name ELSE Renamed(name, k)) \in DOMAIN index
    BY <1>1, <1>j, CountType DEF Discard, VersionsIndexed
  <2>3. lastFile' \in 1..Len(files)  BY <1>2, <2>1, <2>2 DEF Version, IndexOK
  <2>4. FeedOK'  BY <1>2, <1>j, <2>1, <2>3 DEF Discard, fmVars, FeedOK, Put
  <2> QED  BY <1>2, <1>4, <1>j, <2>4 DEF Discard, TakeItem
<1>k. ASSUME NEW name \in Names, NEW content \in Contents,
             RenameFile(name, content)
      PROVE  TypeInv'
  <2> DEFINE renamed == Renamed(name, Count(name) + 1)
  <2>1. Count(name) \in 0..items  BY <1>1, CountType
  <2>2. /\ items' = items + 1 /\ items' \in 0..MaxItems /\ UNCHANGED patch
        /\ Count(name) + 1 \in 1..items'
    BY <1>2, <1>k, <2>1 DEF RenameFile, Accept, TakeItem
  <2>3. renamed \in FileNames  BY <1>2, <2>2 DEF Renamed, FileNames
  <2>4. /\ files' \in Seq(File) /\ Len(files') = Len(files) + 1
        /\ DOMAIN index' = DOMAIN index \cup {renamed}
        /\ IndexOK'
    BY <1>1, <1>k, <2>3, AcceptType DEF RenameFile, Accept
  <2>5. count' = Put(count, name, Count(name) + 1)  BY <1>k DEF RenameFile, Accept
  <2>6. /\ DOMAIN count' = DOMAIN count \cup {name}
        /\ \A n \in DOMAIN count' :
             count'[n] = IF n = name THEN Count(name) + 1 ELSE count[n]
    BY <2>5 DEF Put
  <2>7. CountOK'  BY <1>2, <2>2, <2>6 DEF CountOK
  <2>8. ASSUME NEW n \in Names, NEW k \in 1..Count(n)'
        PROVE  Renamed(n, k) \in DOMAIN index'
    <3>1. CASE n = name
      <4>1. Count(n)' = Count(n) + 1  BY <2>6, <3>1 DEF Count, Get
      <4>2. k \in 1..Count(n) \/ k = Count(n) + 1  BY <2>1, <3>1, <4>1
      <4> QED  BY <1>1, <2>4, <3>1, <4>2 DEF VersionsIndexed
    <3>2. CASE n # name
      <4>1. Count(n)' = Count(n)  BY <2>6, <3>2 DEF Count, Get
      <4> QED  BY <1>1, <2>4, <4>1 DEF VersionsIndexed
    <3> QED  BY <3>1, <3>2
  <2>9. VersionsIndexed'  BY <2>8 DEF VersionsIndexed, Renamed
  <2>10. PatchOK'  BY <1>2, <2>2, <2>4 DEF PatchOK
  <2>11. FeedOK' /\ MeantOK'
    BY <1>2, <1>k, <2>4, AcceptFeed DEF RenameFile, Accept
  <2> HIDE DEF renamed
  <2> QED
    BY <1>2, <2>2, <2>4, <2>7, <2>9, <2>10, <2>11 DEF TypeInv, TypeOK
<1> QED
  BY <1>a, <1>b, <1>c, <1>d, <1>e, <1>f, <1>g, <1>h, <1>i, <1>j, <1>k
  DEF Next, FeedUnnamed, FeedNamed

\* Every reachable state of the file manager is well typed, and every position
\* a name or a patch leads to is the position of a file.
THEOREM TypeCorrect == Spec => []TypeOK
<1>1. TypeInv => TypeOK  BY DEF TypeInv
<1> QED  BY <1>1, TypeInit, TypeStep, PTL DEF Spec

-----------------------------------------------------------------------------
(***************************************************************************)
(* Patches and the index, whatever names are fed.                          *)
(***************************************************************************)

\* While Feed takes items, "last" leads to the file the last one stands for,
\* unless that one was a patch by name that missed its target.
LastInv ==
  phase = "feeding" /\ last # NoName =>
    lastFile = index[last] \/ {lastFile, index[last]} \subseteq astray

\* A patch was queued for a file the manager has, under the file's name, or
\* for one whose name is borne by another.
PatchPlaced ==
  \A n \in DOMAIN patch : \A i \in DOMAIN patch[n] :
    /\ patch[n][i].for \in 1..Len(files)
    /\ patch[n][i].for \in astray \/ files[patch[n][i].for].name = n

LinkInv == TypeInv /\ IndexSound /\ PatchPlaced /\ LastInv

\* What appending a file changes, and what it does not.
LEMMA AcceptFacts ==
  ASSUME TypeOK, NEW name, NEW content, NEW point,
         files' = Append(files, Generated(name, content, point)),
         index' = Put(index, name, Len(files) + 1)
  PROVE  /\ DOMAIN files = 1..Len(files) /\ Len(files) \in Nat
         /\ DOMAIN files' = 1..(Len(files) + 1)
         /\ \A i \in 1..Len(files) : files'[i] = files[i]
         /\ files'[Len(files) + 1].name = name
         /\ files'[Len(files) + 1].content = content
         /\ DOMAIN index' = DOMAIN index \cup {name}
         /\ \A n \in DOMAIN index' :
              index'[n] = IF n = name THEN Len(files) + 1 ELSE index[n]
<1>1. files \in Seq(File)  BY DEF TypeOK
<1>2. /\ DOMAIN files = 1..Len(files) /\ Len(files) \in Nat
      /\ DOMAIN files' = 1..(Len(files) + 1)
      /\ \A i \in 1..Len(files) : files'[i] = files[i]
      /\ files'[Len(files) + 1] = Generated(name, content, point)
  BY <1>1
<1>3. /\ DOMAIN index' = DOMAIN index \cup {name}
      /\ \A n \in DOMAIN index' :
           index'[n] = IF n = name THEN Len(files) + 1 ELSE index[n]
  BY DEF Put
<1> QED  BY <1>2, <1>3 DEF Generated

\* Accepting a file keeps the index sound and the patches where they are.
LEMMA AcceptLinks ==
  ASSUME LinkInv, NEW name, NEW content, NEW point,
         files' = Append(files, Generated(name, content, point)),
         index' = Put(index, name, Len(files) + 1),
         patch' = patch, astray' = astray
  PROVE  IndexSound' /\ PatchPlaced'
<1>1. TypeOK /\ IndexOK /\ IndexSound /\ PatchPlaced
  BY DEF LinkInv, TypeInv, TypeOK
<1>2. /\ Len(files) \in Nat /\ Len(files') = Len(files) + 1
      /\ \A i \in 1..Len(files) : files'[i] = files[i]
      /\ files'[Len(files) + 1].name = name
      /\ DOMAIN index' = DOMAIN index \cup {name}
      /\ \A n \in DOMAIN index' :
           index'[n] = IF n = name THEN Len(files) + 1 ELSE index[n]
  <2>1. files \in Seq(File)  BY <1>1 DEF TypeOK
  <2>2. Len(files) \in Nat /\ Len(files') = Len(files) + 1  BY <2>1
  <2> QED  BY <1>1, <2>2, AcceptFacts
<1>3. IndexSound'  BY <1>1, <1>2 DEF IndexSound, IndexOK
<1>4. PatchPlaced'  BY <1>1, <1>2 DEF PatchPlaced
<1> QED  BY <1>3, <1>4

\* Queueing a patch for the file that bears the name, or for one astray, keeps
\* patches placed.
LEMMA AddedPatchPlaced ==
  ASSUME LinkInv, NEW name \in DOMAIN index, NEW item, NEW for \in 1..Len(files),
         [item |-> item, for |-> for] \in Entry,
         for = index[name] \/ for \in astray', astray \subseteq astray',
         UNCHANGED <<files, index>>, patch' = AddedPatch(name, item, for)
  PROVE  PatchPlaced'
<1> DEFINE e == [item |-> item, for |-> for]
           q == Get(patch, name, <<>>)
<1>1. PatchPlaced /\ PatchOK /\ files[index[name]].name = name
  BY DEF LinkInv, TypeInv, TypeOK, IndexSound
<1>2. q \in Seq(Entry)  BY <1>1 DEF PatchOK, Get
<1>3. /\ \A i \in DOMAIN Append(q, e) :
           Append(q, e)[i] = IF i \in DOMAIN q THEN q[i] ELSE e
  BY <1>2
<1>4. \A i \in DOMAIN q : /\ q[i].for \in 1..Len(files)
                          /\ q[i].for \in astray' \/ files'[q[i].for].name = name
  BY <1>1 DEF PatchPlaced, Get
<1>5. e.for = for /\ (for \in astray' \/ files'[for].name = name)  BY <1>1
<1>6. /\ DOMAIN patch' = DOMAIN patch \cup {name}
      /\ \A n \in DOMAIN patch' :
           patch'[n] = IF n = name THEN Append(q, e) ELSE patch[n]
  BY DEF AddedPatch, Queued, Put
<1> HIDE DEF e, q
<1>7. ASSUME NEW n \in DOMAIN patch', NEW i \in DOMAIN patch'[n]
      PROVE  /\ patch'[n][i].for \in 1..Len(files)
             /\ patch'[n][i].for \in astray' \/ files'[patch'[n][i].for].name = n
  <2>1. CASE n = name
    <3>1. patch'[n] = Append(q, e)  BY <1>6, <2>1
    <3>2. patch'[n][i] = IF i \in DOMAIN q THEN q[i] ELSE e
      BY <1>3, <1>7, <3>1
    <3>3. CASE i \in DOMAIN q  BY <1>4, <2>1, <3>2, <3>3
    <3>4. CASE i \notin DOMAIN q  BY <1>5, <2>1, <3>2, <3>4
    <3> QED  BY <3>3, <3>4
  <2>2. CASE n # name  BY <1>1, <1>6, <1>7, <2>2 DEF PatchPlaced
  <2> QED  BY <2>1, <2>2
<1> QED  BY <1>7 DEF PatchPlaced

\* What the two kinds of patches put into the queues, and where.
LEMMA PatchFacts ==
  ASSUME LinkInv, NEW name \in DOMAIN index, NEW content \in Contents,
         NEW point \in Points \cup {NoPoint},
         \/ AppendPatch(content, point) /\ name = last
         \/ name \in Names /\ PatchFile(name, content, point)
  PROVE  \E item : \E for \in 1..Len(files) :
           /\ [item |-> item, for |-> for] \in Entry
           /\ for = index[name] \/ {for, index[name]} \subseteq astray'
           /\ astray \subseteq astray' /\ UNCHANGED <<files, index>>
           /\ patch' = AddedPatch(name, item, for) /\ meant' = Meant(item, for)
<1>1. TypeOK /\ FeedOK /\ LastInv /\ 1..Len(files) \subseteq 1..MaxItems
  BY FileManagerAssumption DEF LinkInv, TypeInv, TypeOK
<1>2. CASE AppendPatch(content, point) /\ name = last
  <2> DEFINE item == Generated(NoName, content, point)
  <2>0. lastFile \in 1..Len(files)  BY <1>1, <1>2 DEF AppendPatch, FeedOK
  <2>1. [item |-> item, for |-> lastFile] \in Entry  BY <1>1, <2>0, EntryType
  <2>2. /\ lastFile = index[name] \/ {lastFile, index[name]} \subseteq astray'
        /\ astray' = astray /\ UNCHANGED <<files, index>>
        /\ patch' = AddedPatch(name, item, lastFile) /\ meant' = Meant(item, lastFile)
    BY <1>1, <1>2 DEF AppendPatch, LastInv
  <2> HIDE DEF item
  <2> QED  BY <2>0, <2>1, <2>2
<1>3. CASE name \in Names /\ PatchFile(name, content, point)
  <2> DEFINE item == Generated(name, content, point)
             for == Target(name)
  <2>1. for \in 1..Len(files)  BY <1>1, TargetType
  <2>2. [item |-> item, for |-> for] \in Entry  BY <1>1, <1>3, <2>1, EntryType
  <2>3. /\ for = index[name] \/ {for, index[name]} \subseteq astray'
        /\ astray \subseteq astray' /\ UNCHANGED <<files, index>>
        /\ patch' = AddedPatch(name, item, for) /\ meant' = Meant(item, for)
    BY <1>3 DEF PatchFile
  <2> HIDE DEF item, for
  <2> QED  BY <2>1, <2>2, <2>3
<1> QED  BY <1>2, <1>3

LEMMA LinkStep == LinkInv /\ [Next]_vars => LinkInv'
<1> SUFFICES ASSUME LinkInv, [Next]_vars PROVE LinkInv'  OBVIOUS
<1>1. /\ TypeInv /\ TypeOK /\ IndexOK /\ FeedOK /\ Len(files) \in Nat
      /\ IndexSound /\ PatchPlaced /\ LastInv
  BY DEF LinkInv, TypeInv, TypeOK
<1>2. TypeInv'  BY <1>1, TypeStep
\* A step that changes none of the manager's fields.
<1>3. ASSUME UNCHANGED <<fmVars, astray>>, LastInv'  PROVE LinkInv'
  BY <1>1, <1>2, <1>3 DEF fmVars, LinkInv, IndexSound, PatchPlaced
<1>a. CASE UNCHANGED vars
  BY <1>1, <1>3, <1>a DEF vars, fmVars, LastInv
<1>b. CASE BeginFeed
  BY <1>3, <1>b DEF BeginFeed, LastInv
<1>c. CASE EndFeed
  BY <1>3, <1>c DEF EndFeed, meantVars, LastInv
<1>d. CASE BuildResponse
  BY <1>3, <1>d DEF BuildResponse, meantVars, LastInv
<1>e. CASE NoTarget
  BY <1>3, <1>e DEF NoTarget, meantVars, LastInv
<1>f. CASE DiscardPatch
  BY <1>3, <1>f DEF DiscardPatch, meantVars, feedVars, LastInv
<1>g. ASSUME NEW content \in Contents, NEW point \in Points \cup {NoPoint},
             AppendPatch(content, point)
      PROVE  LinkInv'
  <2>1. last \in DOMAIN index  BY <1>1, <1>g DEF AppendPatch, FeedOK
  <2>2. PatchPlaced'  BY <1>g, <2>1, PatchFacts, AddedPatchPlaced
  <2>3. IndexSound' /\ LastInv'
    BY <1>1, <1>g DEF AppendPatch, feedVars, IndexSound, LastInv
  <2> QED  BY <1>2, <2>2, <2>3 DEF LinkInv
<1>h. ASSUME NEW name \in Names, NEW content \in Contents,
             NEW point \in Points \cup {NoPoint}, PatchFile(name, content, point)
      PROVE  LinkInv'
  <2>1. name \in DOMAIN index  BY <1>h DEF PatchFile
  <2>2. PatchPlaced'  BY <1>h, <2>1, PatchFacts, AddedPatchPlaced
  <2>3. IndexSound'  BY <1>1, <1>h DEF PatchFile, IndexSound
  <2>4. LastInv'  BY <1>h DEF PatchFile, LastInv
  <2> QED  BY <1>2, <2>2, <2>3, <2>4 DEF LinkInv
<1>i. ASSUME NEW name \in Names, NEW content \in Contents,
             NEW point \in Points \cup {NoPoint}, NewFile(name, content, point)
      PROVE  LinkInv'
  <2>1. IndexSound' /\ PatchPlaced'  BY <1>i, AcceptLinks DEF NewFile, Accept
  <2>2. LastInv'  BY <1>1, <1>i, AcceptFacts DEF NewFile, Accept, LastInv
  <2> QED  BY <1>2, <2>1, <2>2 DEF LinkInv
<1>j. ASSUME NEW name \in Names, NEW content \in Contents, Discard(name, content)
      PROVE  LinkInv'
  BY <1>3, <1>j DEF Discard, LastInv
<1>k. ASSUME NEW name \in Names, NEW content \in Contents,
             RenameFile(name, content)
      PROVE  LinkInv'
  <2>1. IndexSound' /\ PatchPlaced'  BY <1>k, AcceptLinks DEF RenameFile, Accept
  <2>2. LastInv'  BY <1>1, <1>k, AcceptFacts DEF RenameFile, Accept, LastInv
  <2> QED  BY <1>2, <2>1, <2>2 DEF LinkInv
<1> QED
  BY <1>a, <1>b, <1>c, <1>d, <1>e, <1>f, <1>g, <1>h, <1>i, <1>j, <1>k
  DEF Next, FeedUnnamed, FeedNamed

LEMMA LinkInit == Init => LinkInv
BY TypeInit DEF Init, EmptyMap, LinkInv, IndexSound, PatchPlaced, LastInv

\* Whatever is fed, a name in the index leads to a file that bears the name,
\* and every patch is queued under the name of the file it was meant for, but
\* for the files of a patch by name that missed its target.
THEOREM PatchesStayWithTheirFile == Spec => [](IndexSound /\ PatchFollowsItsFile)
<1>1. LinkInv => IndexSound /\ PatchFollowsItsFile
  BY DEF LinkInv, PatchPlaced, PatchFollowsItsFile
<1> QED  BY <1>1, LinkInit, LinkStep, PTL DEF Spec

-----------------------------------------------------------------------------
(***************************************************************************)
(* Unique names and the store, when no fed name looks like a renamed one.  *)
(***************************************************************************)

\* Every file is the one its name leads to.
NamesIndexed ==
  \A i \in DOMAIN files :
    files[i].name \in DOMAIN index /\ index[files[i].name] = i

\* A name in the index was fed, or made up for a version that is counted.
NamesKnown ==
  \A n \in DOMAIN index :
    n \in Names \/ \E m \in Names : \E k \in 1..Count(m) : n = Renamed(m, k)

NameInv == LinkInv /\ NamesIndexed /\ NamesKnown

\* The name a rename makes up is not in use: the heart of unique names.
LEMMA RenamedIsFresh ==
  ASSUME NoClash, NameInv, NEW name \in Names, items < MaxItems
  PROVE  Renamed(name, Count(name) + 1) \notin DOMAIN index
<1> DEFINE c == Count(name)
<1>1. NamesKnown /\ TypeOK  BY DEF NameInv, LinkInv, TypeInv
<1>2. c \in 0..items /\ items \in Nat /\ MaxItems \in Nat
  BY <1>1, CountType, FileManagerAssumption DEF TypeOK
<1>3. c + 1 \in 1..MaxItems  BY <1>2
<1>4. Renamed(name, c + 1) \notin Names  BY <1>3 DEF NoClash
<1>5. ASSUME NEW m \in Names, NEW k \in 1..Count(m),
             Renamed(name, c + 1) = Renamed(m, k)
      PROVE  FALSE
  <2>1. m = name /\ k = c + 1  BY <1>5 DEF Renamed
  <2>2. c + 1 \in 1..c  BY <2>1
  <2> QED  BY <1>2, <2>2
<1> QED  BY <1>1, <1>4, <1>5 DEF NamesKnown

\* Accepting a file under a fresh name keeps the files and names one to one.
LEMMA AcceptNames ==
  ASSUME NameInv, NEW name, NEW content, NEW point, name \notin DOMAIN index,
         files' = Append(files, Generated(name, content, point)),
         index' = Put(index, name, Len(files) + 1)
  PROVE  NamesIndexed'
<1>1. TypeOK /\ NamesIndexed  BY DEF NameInv, LinkInv, TypeInv
<1>2. /\ DOMAIN files = 1..Len(files) /\ Len(files) \in Nat
      /\ DOMAIN files' = 1..(Len(files) + 1)
      /\ \A i \in 1..Len(files) : files'[i] = files[i]
      /\ files'[Len(files) + 1].name = name
      /\ DOMAIN index' = DOMAIN index \cup {name}
      /\ \A n \in DOMAIN index' :
           index'[n] = IF n = name THEN Len(files) + 1 ELSE index[n]
  BY <1>1, AcceptFacts
<1> QED  BY <1>1, <1>2 DEF NamesIndexed

LEMMA NameStep == NoClash /\ NameInv /\ [Next]_vars => NameInv'
<1> SUFFICES ASSUME NoClash, NameInv, [Next]_vars PROVE NameInv'  OBVIOUS
<1>1. /\ LinkInv /\ TypeOK /\ NamesIndexed /\ NamesKnown
  BY DEF NameInv, LinkInv, TypeInv
<1>2. LinkInv'  BY <1>1, LinkStep
<1>3. ASSUME UNCHANGED <<files, index, count>>  PROVE NameInv'
  BY <1>1, <1>2, <1>3
  DEF NameInv, NamesIndexed, NamesKnown, Count, Get, Renamed
<1>i. ASSUME NEW name \in Names, NEW content \in Contents,
             NEW point \in Points \cup {NoPoint}, NewFile(name, content, point)
      PROVE  NameInv'
  <2>1. NamesIndexed'  BY <1>1, <1>i, AcceptNames DEF NewFile, Accept, NameInv
  <2>2. DOMAIN index' = DOMAIN index \cup {name} /\ count' = count
    BY <1>i DEF NewFile, Accept, Put
  <2>3. NamesKnown'  BY <1>1, <2>2 DEF NamesKnown, Count, Get, Renamed
  <2> QED  BY <1>2, <2>1, <2>3 DEF NameInv
<1>k. ASSUME NEW name \in Names, NEW content \in Contents,
             RenameFile(name, content)
      PROVE  NameInv'
  <2> DEFINE renamed == Renamed(name, Count(name) + 1)
  <2>1. items < MaxItems  BY <1>k DEF RenameFile, Accept, TakeItem
  <2>2. renamed \notin DOMAIN index  BY <2>1, RenamedIsFresh
  <2>3. NamesIndexed'  BY <1>1, <1>k, <2>2, AcceptNames DEF RenameFile, Accept
  <2>4. /\ DOMAIN index' = DOMAIN index \cup {renamed}
        /\ DOMAIN count' = DOMAIN count \cup {name}
        /\ \A n \in DOMAIN count' :
             count'[n] = IF n = name THEN Count(name) + 1 ELSE count[n]
    BY <1>k DEF RenameFile, Accept, Put
  <2>5. Count(name) \in Nat /\ Count(name)' = Count(name) + 1
    BY <1>1, <2>4, CountType DEF Count, Get, TypeOK
  <2>6. ASSUME NEW m \in Names, NEW k \in 1..Count(m)
        PROVE  k \in 1..Count(m)'
    <3>1. CASE m = name  BY <2>5, <3>1
    <3>2. CASE m # name  BY <2>4, <3>2 DEF Count, Get
    <3> QED  BY <3>1, <3>2
  <2>7. Count(name) + 1 \in 1..Count(name)'  BY <2>5
  <2>8. ASSUME NEW n \in DOMAIN index'
        PROVE  n \in Names \/ \E m \in Names : \E k \in 1..Count(m)' : n = Renamed(m, k)
    <3>1. CASE n = renamed  BY <2>7, <3>1
    <3>2. CASE n \in DOMAIN index  BY <1>1, <2>6, <3>2 DEF NamesKnown
    <3> QED  BY <2>4, <3>1, <3>2
  <2>9. NamesKnown'  BY <2>8 DEF NamesKnown, Renamed
  <2> QED  BY <1>2, <2>3, <2>9 DEF NameInv
<1>l. CASE \/ UNCHANGED vars \/ BeginFeed \/ EndFeed \/ BuildResponse
           \/ NoTarget \/ DiscardPatch
  BY <1>3, <1>l
  DEF vars, fmVars, BeginFeed, EndFeed, BuildResponse, NoTarget, DiscardPatch
<1>m. ASSUME NEW content \in Contents, NEW point \in Points \cup {NoPoint},
             AppendPatch(content, point)
      PROVE  NameInv'
  BY <1>3, <1>m DEF AppendPatch
<1>n. ASSUME NEW name \in Names, NEW content \in Contents,
             NEW point \in Points \cup {NoPoint},
             PatchFile(name, content, point) \/ Discard(name, content)
      PROVE  NameInv'
  BY <1>3, <1>n DEF PatchFile, Discard, fmVars
<1> QED
  BY <1>i, <1>k, <1>l, <1>m, <1>n, FileManagerAssumption
  DEF Next, FeedUnnamed, FeedNamed

LEMMA NameInit == Init => NameInv
BY LinkInit DEF Init, EmptyMap, NameInv, NamesIndexed, NamesKnown

\* When no fed name has the form of a renamed one, no two files of a response
\* have the same name, so Persist writes every path once.
THEOREM NamesAreUnique == NoClash => (Spec => []UniqueNames)
<1> SUFFICES ASSUME NoClash PROVE Spec => []UniqueNames  OBVIOUS
<1>1. NameInv => UniqueNames  BY DEF NameInv, NamesIndexed, UniqueNames
<1>2. NameInv /\ [Next]_vars => NameInv'  BY NameStep
<1> QED  BY <1>1, <1>2, NameInit, PTL DEF Spec

(***************************************************************************)
(* No accepted content is lost.  The index only gains names, what a name   *)
(* leads to keeps its content, and counts only grow: each version that was *)
(* found once is found for good.                                           *)
(***************************************************************************)

\* Whatever was accepted under a name, the name is in the index.
AcceptedIndexed == \A a \in accepted : a[1] \in DOMAIN index

KeptInv == NameInv /\ AcceptedIndexed /\ NothingLost

\* The key under which the index has the k-th version of a name.
VersionKey(name, k) == IF k = 0 THEN name ELSE Renamed(name, k)

\* Accepting a file under a fresh name leaves the others what they are.
LEMMA AcceptKeeps ==
  ASSUME TypeOK, NEW name, NEW content, NEW point, name \notin DOMAIN index,
         files' = Append(files, Generated(name, content, point)),
         index' = Put(index, name, Len(files) + 1)
  PROVE  /\ \A n \in DOMAIN index :
              /\ n \in DOMAIN index'
              /\ files'[index'[n]].content = files[index[n]].content
         /\ name \in DOMAIN index' /\ files'[index'[name]].content = content
<1>1. IndexOK  BY DEF TypeOK
<1>2. /\ Len(files) \in Nat
      /\ \A i \in 1..Len(files) : files'[i] = files[i]
      /\ files'[Len(files) + 1].content = content
      /\ DOMAIN index' = DOMAIN index \cup {name}
      /\ \A n \in DOMAIN index' :
           index'[n] = IF n = name THEN Len(files) + 1 ELSE index[n]
  BY AcceptFacts
<1> QED  BY <1>1, <1>2 DEF IndexOK

\* A step that accepts one pair, keeps what the index leads to and lowers no
\* count keeps everything, if it leaves the pair where it is found.
LEMMA KeepsAll ==
  ASSUME TypeInv, AcceptedIndexed, NothingLost, accepted \subseteq Names \X Contents,
         NEW name \in Names, NEW content,
         accepted' \subseteq accepted \cup {<<name, content>>},
         \A n \in DOMAIN index :
           /\ n \in DOMAIN index'
           /\ files'[index'[n]].content = files[index[n]].content,
         \A n \in Names : \A k \in 0..Count(n) : k \in 0..Count(n)',
         name \in DOMAIN index',
         \E k \in 0..Count(name)' :
           files'[index'[VersionKey(name, k)]].content = content
  PROVE  AcceptedIndexed' /\ NothingLost'
<1>1. VersionsIndexed /\ TypeOK  BY DEF TypeInv
<1>2. AcceptedIndexed'  BY DEF AcceptedIndexed
<1>3. ASSUME NEW a \in accepted'
      PROVE  \E k \in 0..Count(a[1])' : files'[index'[VersionKey(a[1], k)]].content = a[2]
  <2>1. CASE a = <<name, content>>  BY <2>1
  <2>2. CASE a \in accepted
    <3>1. a[1] \in Names /\ a[1] \in DOMAIN index  BY <2>2 DEF AcceptedIndexed
    <3>2. PICK k \in 0..Count(a[1]) : files[index[VersionKey(a[1], k)]].content = a[2]
      BY <2>2 DEF NothingLost, Version, VersionKey
    <3>3. k \in 0..Count(a[1])'  BY <3>1, <3>2
    <3>4. VersionKey(a[1], k) \in DOMAIN index
      BY <1>1, <3>1, CountType DEF VersionsIndexed, VersionKey
    <3> QED  BY <3>2, <3>3, <3>4
  <2> QED  BY <1>3, <2>1, <2>2
<1>4. NothingLost'  BY <1>3 DEF NothingLost, Version, VersionKey, Renamed
<1> QED  BY <1>2, <1>4

LEMMA KeptStep == NoClash /\ KeptInv /\ [Next]_vars => KeptInv'
<1> SUFFICES ASSUME NoClash, KeptInv, [Next]_vars PROVE KeptInv'  OBVIOUS
<1>1. /\ NameInv /\ TypeInv /\ TypeOK /\ VersionsIndexed
      /\ AcceptedIndexed /\ NothingLost /\ accepted \subseteq Names \X Contents
  BY DEF KeptInv, NameInv, LinkInv, TypeInv, TypeOK, FeedOK
<1>2. NameInv'  BY <1>1, NameStep
<1>3. ASSUME UNCHANGED <<files, index, count, accepted>>  PROVE KeptInv'
  BY <1>1, <1>2, <1>3
  DEF KeptInv, AcceptedIndexed, NothingLost, Version, Renamed, Count, Get
<1>i. ASSUME NEW name \in Names, NEW content \in Contents,
             NEW point \in Points \cup {NoPoint}, NewFile(name, content, point)
      PROVE  KeptInv'
  <2>1. /\ accepted' = accepted \cup {<<name, content>>} /\ count' = count
        /\ name \notin DOMAIN index
        /\ files' = Append(files, Generated(name, content, point))
        /\ index' = Put(index, name, Len(files) + 1)
    BY <1>i DEF NewFile, Accept
  <2>2. /\ \A n \in DOMAIN index :
             /\ n \in DOMAIN index'
             /\ files'[index'[n]].content = files[index[n]].content
        /\ name \in DOMAIN index' /\ files'[index'[name]].content = content
    BY <1>1, <2>1, AcceptKeeps
  <2>3. \A n : Count(n)' = Count(n)  BY <2>1 DEF Count, Get
  <2>4. 0 \in 0..Count(name)'  BY <1>1, <2>3, CountType DEF TypeOK
  <2>5. files'[index'[VersionKey(name, 0)]].content = content
    BY <2>2 DEF VersionKey
  <2>6. AcceptedIndexed' /\ NothingLost'
    BY <1>1, <2>1, <2>2, <2>3, <2>4, <2>5, KeepsAll
  <2> QED  BY <1>2, <2>6 DEF KeptInv
<1>j. ASSUME NEW name \in Names, NEW content \in Contents, Discard(name, content)
      PROVE  KeptInv'
  <2>1. /\ accepted' = accepted \cup {<<name, content>>}
        /\ files' = files /\ index' = index /\ count' = count
        /\ name \in DOMAIN index
    BY <1>j DEF Discard, fmVars
  <2>2. PICK k \in 0..Count(name) : files[Version(name, k)].content = content
    BY <1>j DEF Discard, SameContent
  <2>3. \A n : Count(n)' = Count(n)  BY <2>1 DEF Count, Get
  <2>4. files'[index'[VersionKey(name, k)]].content = content
    BY <2>1, <2>2 DEF Version, VersionKey
  <2>5. AcceptedIndexed' /\ NothingLost'
    BY <1>1, <2>1, <2>2, <2>3, <2>4, KeepsAll
  <2> QED  BY <1>2, <2>5 DEF KeptInv
<1>k. ASSUME NEW name \in Names, NEW content \in Contents,
             RenameFile(name, content)
      PROVE  KeptInv'
  <2> DEFINE renamed == Renamed(name, Count(name) + 1)
  <2>1. /\ accepted' = accepted \cup {<<name, content>>}
        /\ count' = Put(count, name, Count(name) + 1)
        /\ name \in DOMAIN index /\ items < MaxItems
        /\ files' = Append(files, Generated(renamed, content, NoPoint))
        /\ index' = Put(index, renamed, Len(files) + 1)
    BY <1>k DEF RenameFile, Accept, TakeItem
  <2>2. renamed \notin DOMAIN index  BY <1>1, <2>1, RenamedIsFresh
  <2>3. /\ \A n \in DOMAIN index :
             /\ n \in DOMAIN index'
             /\ files'[index'[n]].content = files[index[n]].content
        /\ files'[index'[renamed]].content = content
    <3> HIDE DEF renamed
    <3> QED  BY <1>1, <2>1, <2>2, AcceptKeeps
  <2>4. /\ Count(name)' = Count(name) + 1 /\ Count(name) \in Nat
        /\ \A n \in Names \ {name} : Count(n)' = Count(n)
    BY <1>1, <2>1, CountType DEF Count, Get, Put, TypeOK
  <2>5. ASSUME NEW n \in Names, NEW k \in 0..Count(n)  PROVE k \in 0..Count(n)'
    BY <2>4
  <2>6. Count(name) + 1 \in 0..Count(name)'  BY <2>4
  <2>7. VersionKey(name, Count(name) + 1) = renamed  BY <2>4 DEF VersionKey
  <2>8. files'[index'[VersionKey(name, Count(name) + 1)]].content = content
    BY <2>3, <2>7
  <2> HIDE DEF renamed
  <2>9. AcceptedIndexed' /\ NothingLost'
    BY <1>1, <2>1, <2>3, <2>5, <2>6, <2>8, KeepsAll
  <2> QED  BY <1>2, <2>9 DEF KeptInv
<1>l. CASE \/ UNCHANGED vars \/ BeginFeed \/ EndFeed \/ BuildResponse
           \/ NoTarget \/ DiscardPatch
  BY <1>3, <1>l
  DEF vars, fmVars, BeginFeed, EndFeed, BuildResponse, NoTarget, DiscardPatch
<1>m. ASSUME NEW content \in Contents, NEW point \in Points \cup {NoPoint},
             AppendPatch(content, point)
      PROVE  KeptInv'
  BY <1>3, <1>m DEF AppendPatch
<1>n. ASSUME NEW name \in Names, NEW content \in Contents,
             NEW point \in Points \cup {NoPoint}, PatchFile(name, content, point)
      PROVE  KeptInv'
  BY <1>3, <1>n DEF PatchFile
<1> QED
  BY <1>i, <1>j, <1>k, <1>l, <1>m, <1>n, FileManagerAssumption
  DEF Next, FeedUnnamed, FeedNamed

LEMMA KeptInit == Init => KeptInv
BY NameInit DEF Init, EmptyMap, KeptInv, AcceptedIndexed, NothingLost

\* When no fed name has the form of a renamed one, every content that was fed
\* under a name as a file is still that of one of the versions the index has
\* of the name, however often the name was repeated since.
THEOREM EverythingIsKept == NoClash => (Spec => []NothingLost)
<1> SUFFICES ASSUME NoClash PROVE Spec => []NothingLost  OBVIOUS
<1>1. KeptInv => NothingLost  BY DEF KeptInv
<1>2. KeptInv /\ [Next]_vars => KeptInv'  BY KeptStep
<1> QED  BY <1>1, <1>2, KeptInit, PTL DEF Spec

-----------------------------------------------------------------------------
(***************************************************************************)
(* What is inserted in a file is what was meant for it.                    *)
(***************************************************************************)

\* What the loop of BuildResponse has collected for a point after k patches.
Collects(text, list, point) ==
  text = [k \in 0..Len(list) |->
            IF k = 0 THEN <<>>
            ELSE IF list[k].item.point = point
                 THEN Append(text[k - 1], list[k].item.content)
                 ELSE text[k - 1]]

Collected(list, point) == (CHOOSE text : Collects(text, list, point))[Len(list)]

LEMMA CollectsIsDefined ==
  ASSUME NEW list \in Seq(Entry), NEW point
  PROVE  \E text : Collects(text, list, point)
<1> DEFINE K == Len(list)
           Do(x, k) == IF list[k].item.point = point
                       THEN Append(x, list[k].item.content) ELSE x
           Fold(f, k) == f = [i \in 0..k |-> IF i = 0 THEN <<>> ELSE Do(f[i - 1], i)]
           T == {k \in 0..K : ~ \E f : Fold(f, k)}
           R == OpToRel(<, Nat)
<1>1. K \in Nat  OBVIOUS
<1>2. \A x, y \in Nat : y < x => <<y, x>> \in R  BY DEF OpToRel
<1>3. IsWellFoundedOn(R, Nat)  BY NatLessThanWellFounded
<1> HIDE DEF R, Do, K
<1>4. T = {}
  <2> SUFFICES ASSUME T # {} PROVE FALSE  OBVIOUS
  <2>1. T \subseteq Nat  BY <1>1
  <2>2. PICK k \in T : \A y \in T : ~ (<<y, k>> \in R)
    <3> HIDE DEF T
    <3> QED  BY <1>3, <2>1, WFMin
  <2>3. k # 0
    <3>1. Fold([i \in 0..0 |-> <<>>], 0)  OBVIOUS
    <3> QED  BY <2>2, <3>1
  <2>4. k - 1 \in 0..K /\ k - 1 < k /\ k \in Nat  BY <1>1, <2>1, <2>2, <2>3
  <2>5. k - 1 \notin T  BY <1>2, <2>1, <2>2, <2>4
  <2>6. PICK g : Fold(g, k - 1)  BY <2>4, <2>5
  <2> DEFINE h == [i \in 0..k |-> IF i < k THEN g[i] ELSE Do(g[i - 1], i)]
  <2>7. \A i \in 0..(k - 1) : g[i] = IF i = 0 THEN <<>> ELSE Do(g[i - 1], i)
    BY <2>6
  <2>8. ASSUME NEW i \in 0..k
        PROVE  h[i] = IF i = 0 THEN <<>> ELSE Do(h[i - 1], i)
    <3>1. CASE i = 0
      <4>1. 0 \in 0..(k - 1) /\ i < k  BY <2>3, <2>4, <3>1
      <4> QED  BY <2>7, <3>1, <4>1
    <3>2. CASE i # 0
      <4>1. i - 1 \in 0..k /\ i - 1 < k  BY <2>4, <3>2
      <4>2. h[i - 1] = g[i - 1]  BY <4>1
      <4>3. CASE i < k
        <5>1. i \in 0..(k - 1)  BY <2>4, <4>3
        <5> QED  BY <2>7, <3>2, <4>2, <4>3, <5>1
      <4>4. CASE ~ (i < k)  BY <3>2, <4>2, <4>4
      <4> QED  BY <4>3, <4>4
    <3> QED  BY <3>1, <3>2
  <2>9. h = [i \in 0..k |-> IF i = 0 THEN <<>> ELSE Do(h[i - 1], i)]
    <3>1. h = [i \in 0..k |-> h[i]]  OBVIOUS
    <3> HIDE DEF h
    <3> QED  BY <2>8, <3>1
  <2> HIDE DEF h
  <2> QED  BY <2>2, <2>9
<1>5. K \in 0..K  BY <1>1
<1>6. \E f : Fold(f, K)  BY <1>4, <1>5
<1> QED  BY <1>6 DEF Collects, Do, K

\* The places of the point's patches among the first k of the list.
AtPoint(list, point, k) == {j \in 1..k : list[j].item.point = point}

\* One patch further there is one place more, or none.
LEMMA AtPointNext ==
  ASSUME NEW list, NEW point, NEW k \in Nat \ {0}
  PROVE  /\ IsFiniteSet(AtPoint(list, point, k - 1))
         /\ AtPoint(list, point, k)
              = IF list[k].item.point = point
                THEN AtPoint(list, point, k - 1) \cup {k}
                ELSE AtPoint(list, point, k - 1)
         /\ list[k].item.point = point =>
              Cardinality(AtPoint(list, point, k))
                = Cardinality(AtPoint(list, point, k - 1)) + 1
<1>1. 1..k = (1..(k - 1)) \cup {k} /\ k \notin 1..(k - 1)  OBVIOUS
<1>2. IsFiniteSet(1..(k - 1))  BY FS_Interval
<1>3. IsFiniteSet(AtPoint(list, point, k - 1))  BY <1>2, FS_Subset DEF AtPoint
<1>4. AtPoint(list, point, k)
        = IF list[k].item.point = point
          THEN AtPoint(list, point, k - 1) \cup {k}
          ELSE AtPoint(list, point, k - 1)
  BY <1>1 DEF AtPoint
<1>5. k \notin AtPoint(list, point, k - 1)  BY <1>1 DEF AtPoint
<1> QED  BY <1>3, <1>4, <1>5, FS_AddElement

\* The rank of a place among the places is a position in the text.
LEMMA RankBound ==
  ASSUME NEW list, NEW point, NEW k \in Nat, NEW j \in AtPoint(list, point, k)
  PROVE  /\ Cardinality(AtPoint(list, point, j)) \in Nat \ {0}
         /\ Cardinality(AtPoint(list, point, k)) \in Nat
         /\ Cardinality(AtPoint(list, point, j)) <= Cardinality(AtPoint(list, point, k))
<1>1. AtPoint(list, point, j) \subseteq AtPoint(list, point, k)  BY DEF AtPoint
<1>2. j \in AtPoint(list, point, j)  BY DEF AtPoint
<1>0. IsFiniteSet(1..k)  BY FS_Interval
<1>3. IsFiniteSet(AtPoint(list, point, k))  BY <1>0, FS_Subset DEF AtPoint
<1>4. IsFiniteSet(AtPoint(list, point, j))  BY <1>1, <1>3, FS_Subset
<1>5. /\ Cardinality(AtPoint(list, point, j)) \in Nat
      /\ Cardinality(AtPoint(list, point, k)) \in Nat
      /\ Cardinality(AtPoint(list, point, j)) <= Cardinality(AtPoint(list, point, k))
  BY <1>1, <1>3, <1>4, FS_CardinalityType, FS_Subset
<1>6. Cardinality(AtPoint(list, point, j)) # 0  BY <1>2, <1>4, FS_EmptySet
<1> QED  BY <1>5, <1>6

\* The loop collects the contents of the patches at the point, in their order,
\* and no others.
LEMMA CollectedFacts ==
  ASSUME NEW list \in Seq(Entry), NEW point
  PROVE  InOrder(Collected(list, point), list, point)
<1> DEFINE K == Len(list)
           text == CHOOSE t : Collects(t, list, point)
           At(k) == AtPoint(list, point, k)
           Fine(k) == /\ text[k] \in Seq(Contents)
                      /\ Len(text[k]) = Cardinality(At(k))
                      /\ \A j \in At(k) :
                           text[k][Cardinality(At(j))] = list[j].item.content
           T == {k \in 0..K : ~ Fine(k)}
           R == OpToRel(<, Nat)
<1>1. K \in Nat /\ \A k \in 1..K : list[k].item.content \in Contents
  <2>1. K \in Nat /\ \A k \in 1..K : list[k] \in Entry  OBVIOUS
  <2>2. \A x \in Entry : x.item.content \in Contents  BY DEF Entry
  <2> QED  BY <2>1, <2>2
<1>2. \A x, y \in Nat : y < x => <<y, x>> \in R  BY DEF OpToRel
<1>3. IsWellFoundedOn(R, Nat)  BY NatLessThanWellFounded
<1>4. Collects(text, list, point)  BY CollectsIsDefined
<1>h. HIDE DEF R, K, text
<1>5. \A k \in 0..K : text[k] = IF k = 0 THEN <<>>
                                ELSE IF list[k].item.point = point
                                     THEN Append(text[k - 1], list[k].item.content)
                                     ELSE text[k - 1]
  BY <1>4 DEF Collects, K
<1>6. Fine(0)
  <2>1. text[0] = <<>>  BY <1>1, <1>5
  <2>2. At(0) = {}  BY DEF AtPoint
  <2>3. Cardinality(At(0)) = 0  BY <2>2, FS_EmptySet
  <2> QED  BY <2>1, <2>2, <2>3
<1>7. T = {}
  <2> SUFFICES ASSUME T # {} PROVE FALSE  OBVIOUS
  <2>1. T \subseteq Nat  BY <1>1
  <2>2. PICK k \in T : \A y \in T : ~ (<<y, k>> \in R)
    <3> HIDE DEF T
    <3> QED  BY <1>3, <2>1, WFMin
  <2>3. k # 0  BY <1>6, <2>2
  <2>4. k - 1 \in 0..K /\ k - 1 < k /\ k \in 1..K /\ k \in 0..K /\ k \in Nat \ {0}
        /\ k - 1 \in Nat
    BY <1>1, <2>1, <2>2, <2>3
  <2>5. k - 1 \notin T  BY <1>2, <2>1, <2>2, <2>4
  <2>6. Fine(k - 1)  BY <2>4, <2>5
  <2> DEFINE x == text[k - 1]
             e == list[k].item.content
             c == Cardinality(At(k - 1))
  <2>7. CASE list[k].item.point = point
    <3>1. text[k] = Append(x, e) /\ e \in Contents /\ x \in Seq(Contents)
      BY <1>1, <1>5, <2>3, <2>4, <2>6, <2>7
    <3>2. At(k) = At(k - 1) \cup {k} /\ Cardinality(At(k)) = c + 1
      BY <2>4, <2>7, AtPointNext
    <3>3. Len(x) = c /\ \A j \in At(k - 1) : x[Cardinality(At(j))] = list[j].item.content
      BY <2>6
    <3>4. \A j \in At(k - 1) : Cardinality(At(j)) \in 1..c
      <4>1. SUFFICES ASSUME NEW j \in At(k - 1)  PROVE Cardinality(At(j)) \in 1..c
        OBVIOUS
      <4>2. /\ Cardinality(At(j)) \in Nat \ {0} /\ c \in Nat
            /\ Cardinality(At(j)) <= c
        BY <2>4, <4>1, RankBound
      <4> HIDE DEF c, At
      <4> QED  BY <4>2
    <3> HIDE DEF x, e, c, At
    <3>5. /\ text[k] \in Seq(Contents) /\ Len(text[k]) = c + 1
          /\ text[k][c + 1] = e
          /\ \A m \in 1..c : text[k][m] = x[m]
      BY <3>1, <3>3
    <3>6. ASSUME NEW j \in At(k)
          PROVE  text[k][Cardinality(At(j))] = list[j].item.content
      <4>1. CASE j = k  BY <3>2, <3>5, <4>1 DEF e
      <4>2. CASE j \in At(k - 1)  BY <3>3, <3>4, <3>5, <4>2
      <4> QED  BY <3>2, <4>1, <4>2
    <3> QED  BY <2>2, <3>2, <3>5, <3>6
  <2>8. CASE list[k].item.point # point
    <3>1. text[k] = x  BY <1>5, <2>3, <2>4, <2>8
    <3>2. At(k) = At(k - 1)  BY <2>4, <2>8, AtPointNext
    <3> QED  BY <2>2, <2>6, <3>1, <3>2
  <2> QED  BY <2>7, <2>8
<1>8. K \in 0..K  BY <1>1
<1>9. Fine(K)  BY <1>7, <1>8
<1>10. Collected(list, point) = text[K]  BY DEF Collected, text, K
<1> QED  BY <1>9, <1>10 DEF InOrder, AtPoint, K

\* The response is what BuildResponse made of the files and patches as they are.
BuiltInv ==
  phase = "built" =>
    response = [i \in DOMAIN files |->
      [name |-> files[i].name,
       content |-> files[i].content,
       inserted |-> [p \in Markers[files[i].content] |->
                       Collected(Get(patch, files[i].name, <<>>), p)]]]

LEMMA SplicedIsCollected ==
  \A name, p : Spliced(name, p) = Collected(Get(patch, name, <<>>), p)
BY DEF Spliced, Collected, Collects

LEMMA BuiltStep == BuiltInv /\ [Next]_vars => BuiltInv'
<1> SUFFICES ASSUME BuiltInv, [Next]_vars, phase' = "built"  PROVE BuiltInv'
  BY DEF BuiltInv
<1>1. CASE BuildResponse
  <2>1. UNCHANGED <<files, patch>>  BY <1>1 DEF BuildResponse, fmVars
  <2>2. response' = [i \in DOMAIN files |->
          [name |-> files[i].name,
           content |-> files[i].content,
           inserted |-> [p \in Markers[files[i].content] |->
                           Collected(Get(patch, files[i].name, <<>>), p)]]]
    BY <1>1, SplicedIsCollected DEF BuildResponse
  <2> QED  BY <2>1, <2>2 DEF BuiltInv
<1>2. CASE UNCHANGED vars
  BY <1>2 DEF vars, BuiltInv
<1>3. CASE BeginFeed \/ EndFeed
  BY <1>3 DEF BeginFeed, EndFeed
<1>4. CASE FeedUnnamed
  BY <1>4 DEF FeedUnnamed, NoTarget, DiscardPatch, AppendPatch, TakeItem, feedVars
<1>5. CASE FeedNamed
  BY <1>5, SMTT(30) DEF FeedNamed, NewFile, PatchFile, Discard, RenameFile, Accept
<1> QED  BY <1>1, <1>2, <1>3, <1>4, <1>5 DEF Next

\* What was fed for a file is what is queued under its name, entry by entry.
MeantInv ==
  \A i \in DOMAIN files \ astray :
    Get(meant, i, <<>>) = Get(patch, files[i].name, <<>>)

\* A new file has no patches yet, neither meant for it nor under its name.
LEMMA AcceptMeant ==
  ASSUME NameInv, MeantInv, NEW fed, NEW name, NEW content, NEW point,
         name \notin DOMAIN index, Accept(fed, name, content, point), patch' = patch
  PROVE  MeantInv'
<1>1. /\ TypeOK /\ PatchOK /\ MeantOK /\ UNCHANGED <<meant, astray, patch>>
      /\ files' = Append(files, Generated(name, content, point))
      /\ index' = Put(index, name, Len(files) + 1)
  BY DEF NameInv, LinkInv, TypeInv, TypeOK, Accept
<1>2. /\ DOMAIN files = 1..Len(files) /\ Len(files) \in Nat
      /\ DOMAIN files' = 1..(Len(files) + 1)
      /\ \A i \in 1..Len(files) : files'[i] = files[i]
      /\ files'[Len(files) + 1].name = name
  BY <1>1, AcceptFacts
<1>3. Get(meant, Len(files) + 1, <<>>) = <<>>  BY <1>1, <1>2 DEF MeantOK, Get
<1>4. Get(patch, name, <<>>) = <<>>  BY <1>1 DEF PatchOK, Get
<1> QED  BY <1>1, <1>2, <1>3, <1>4 DEF MeantInv, Get

\* A patch joins the queue of its file and that of the name.  They are queues
\* of one file, or of two that are astray.
LEMMA PatchMeant ==
  ASSUME NameInv, MeantInv, NEW name \in DOMAIN index, NEW content \in Contents,
         NEW point \in Points \cup {NoPoint},
         \/ AppendPatch(content, point) /\ name = last
         \/ name \in Names /\ PatchFile(name, content, point)
  PROVE  MeantInv'
<1>1. LinkInv /\ TypeOK /\ PatchOK /\ MeantOK /\ NamesIndexed
  BY DEF NameInv, LinkInv, TypeInv, TypeOK
<1>2. PICK item : \E for \in 1..Len(files) :
        /\ [item |-> item, for |-> for] \in Entry
        /\ for = index[name] \/ {for, index[name]} \subseteq astray'
        /\ astray \subseteq astray' /\ UNCHANGED <<files, index>>
        /\ patch' = AddedPatch(name, item, for) /\ meant' = Meant(item, for)
  BY <1>1, PatchFacts
<1>3. PICK for \in 1..Len(files) :
        /\ [item |-> item, for |-> for] \in Entry
        /\ for = index[name] \/ {for, index[name]} \subseteq astray'
        /\ astray \subseteq astray' /\ UNCHANGED <<files, index>>
        /\ patch' = AddedPatch(name, item, for) /\ meant' = Meant(item, for)
  BY <1>2
<1> DEFINE e == [item |-> item, for |-> for]
<1>4. /\ patch' = Queued(patch, name, e) /\ meant' = Queued(meant, for, e)
      /\ e \in Entry
  BY <1>3 DEF AddedPatch, Meant
<1> HIDE DEF e
<1>5. \A n : Get(patch', n, <<>>) = IF n = name THEN Append(Get(patch, name, <<>>), e)
                                   ELSE Get(patch, n, <<>>)
  BY <1>4, QueuedGet
<1>6. \A i : Get(meant', i, <<>>) = IF i = for THEN Append(Get(meant, for, <<>>), e)
                                   ELSE Get(meant, i, <<>>)
  BY <1>4, QueuedGet
<1>7. ASSUME NEW i \in DOMAIN files', i \notin astray'
      PROVE  Get(meant', i, <<>>) = Get(patch', files'[i].name, <<>>)
  <2>1. /\ i \in DOMAIN files \ astray /\ files' = files
        /\ index[files[i].name] = i
    BY <1>1, <1>3, <1>7 DEF NamesIndexed
  <2>2. Get(meant, i, <<>>) = Get(patch, files[i].name, <<>>)
    BY <2>1 DEF MeantInv
  <2>3. CASE files[i].name = name
    <3>1. i = for  BY <1>3, <1>7, <2>1, <2>3
    <3> QED  BY <1>5, <1>6, <2>1, <2>2, <2>3, <3>1
  <2>4. CASE files[i].name # name
    <3>1. i # for
      <4>1. files[index[name]].name = name  BY <1>1 DEF LinkInv, IndexSound
      <4> QED  BY <1>3, <1>7, <2>1, <2>4, <4>1
    <3> QED  BY <1>5, <1>6, <2>1, <2>2, <2>4, <3>1
  <2> QED  BY <2>3, <2>4
<1> QED  BY <1>7 DEF MeantInv, Get

LEMMA MeantStep == NoClash /\ NameInv /\ MeantInv /\ [Next]_vars => MeantInv'
<1> SUFFICES ASSUME NoClash, NameInv, MeantInv, [Next]_vars PROVE MeantInv'
  OBVIOUS
<1>1. ASSUME UNCHANGED <<files, patch, meant, astray>>  PROVE MeantInv'
  BY <1>1 DEF MeantInv, Get
<1>2. CASE \/ UNCHANGED vars \/ BeginFeed \/ EndFeed \/ BuildResponse
           \/ NoTarget \/ DiscardPatch
  BY <1>1, <1>2
  DEF vars, fmVars, meantVars, BeginFeed, EndFeed, BuildResponse, NoTarget,
      DiscardPatch
<1>3. ASSUME NEW content \in Contents, NEW point \in Points \cup {NoPoint},
             AppendPatch(content, point)
      PROVE  MeantInv'
  <2>1. last \in DOMAIN index
    BY <1>3 DEF AppendPatch, NameInv, LinkInv, TypeInv, TypeOK, FeedOK
  <2> QED  BY <1>3, <2>1, PatchMeant
<1>4. ASSUME NEW name \in Names, NEW content \in Contents,
             NEW point \in Points \cup {NoPoint}, PatchFile(name, content, point)
      PROVE  MeantInv'
  BY <1>4, PatchMeant DEF PatchFile
<1>5. ASSUME NEW name \in Names, NEW content \in Contents,
             NEW point \in Points \cup {NoPoint}, NewFile(name, content, point)
      PROVE  MeantInv'
  BY <1>5, AcceptMeant DEF NewFile
<1>6. ASSUME NEW name \in Names, NEW content \in Contents, Discard(name, content)
      PROVE  MeantInv'
  BY <1>1, <1>6 DEF Discard, fmVars
<1>7. ASSUME NEW name \in Names, NEW content \in Contents,
             RenameFile(name, content)
      PROVE  MeantInv'
  <2>1. items < MaxItems  BY <1>7 DEF RenameFile, TakeItem
  <2>2. Renamed(name, Count(name) + 1) \notin DOMAIN index
    BY <2>1, RenamedIsFresh
  <2> QED  BY <1>7, <2>2, AcceptMeant DEF RenameFile
<1> QED
  BY <1>2, <1>3, <1>4, <1>5, <1>6, <1>7, FileManagerAssumption
  DEF Next, FeedUnnamed, FeedNamed

\* The texts at a file's points are those of the patches meant for it, in order.
LEMMA BuiltAsMeant == NameInv /\ MeantInv /\ BuiltInv => InsertedAsMeant
<1> SUFFICES ASSUME NameInv, MeantInv, BuiltInv, phase = "built",
                    NEW i \in DOMAIN response \ astray,
                    NEW p \in Markers[response[i].content]
             PROVE  InOrder(response[i].inserted[p], Get(meant, i, <<>>), p)
  BY DEF InsertedAsMeant
<1>1. MeantOK  BY DEF NameInv, LinkInv, TypeInv, TypeOK
<1>2. /\ i \in DOMAIN files \ astray /\ p \in Markers[files[i].content]
      /\ response[i].inserted[p] = Collected(Get(patch, files[i].name, <<>>), p)
  BY DEF BuiltInv
<1>3. Get(meant, i, <<>>) = Get(patch, files[i].name, <<>>)
  BY <1>2 DEF MeantInv
<1>4. Get(meant, i, <<>>) \in Seq(Entry)  BY <1>1 DEF MeantOK, Get
<1> QED  BY <1>2, <1>3, <1>4, CollectedFacts

\* When no fed name has the form of a renamed one, the texts that BuildResponse
\* inserts at a point of a file are those of the patches fed for this file and
\* this point: each of them, in the order it was fed, and none of another
\* file.  Only of the two files of a patch by name whose target was renamed or
\* dropped (file_manager.go:69) nothing is said.
THEOREM PatchesEndUpAsMeant == NoClash => (Spec => []InsertedAsMeant)
<1> SUFFICES ASSUME NoClash PROVE Spec => []InsertedAsMeant  OBVIOUS
<1>1. NameInv /\ [Next]_vars => NameInv'  BY NameStep
<1>2. NameInv /\ MeantInv /\ [Next]_vars => MeantInv'  BY MeantStep
<1>3. Init => BuiltInv /\ MeantInv  BY DEF Init, EmptyMap, BuiltInv, MeantInv
<1> QED
  BY <1>1, <1>2, <1>3, NameInit, BuiltStep, BuiltAsMeant, PTL DEF Spec

-----------------------------------------------------------------------------
\* A file accepted under a fresh name is one more binding of the store.
LEMMA AcceptAddsFile ==
  ASSUME NameInv, NEW name, NEW content, NEW point, name \notin DOMAIN index,
         files' = Append(files, Generated(name, content, point)),
         index' = Put(index, name, Len(files) + 1), patch' = patch
  PROVE  Store!AddFile
<1> DEFINE before == [n \in DOMAIN index |-> files[index[n]].content]
           after == [n \in DOMAIN index' |-> files'[index'[n]].content]
<1>1. TypeOK /\ IndexOK  BY DEF NameInv, LinkInv, TypeInv, TypeOK
<1>2. /\ Len(files) \in Nat
      /\ \A i \in 1..Len(files) : files'[i] = files[i]
      /\ files'[Len(files) + 1].content = content
      /\ DOMAIN index' = DOMAIN index \cup {name}
      /\ \A n \in DOMAIN index' :
           index'[n] = IF n = name THEN Len(files) + 1 ELSE index[n]
  BY <1>1, AcceptFacts
<1>3. /\ DOMAIN after = DOMAIN before \cup {name}
      /\ after[name] = content
  BY <1>2
<1>4. ASSUME NEW n \in DOMAIN index  PROVE after[n] = before[n]
  <2>1. index'[n] = index[n] /\ index[n] \in 1..Len(files)
    BY <1>1, <1>2 DEF IndexOK
  <2> QED  BY <1>2, <2>1
<1>5. after = Store!Put(before, name, after[name])
  BY <1>3, <1>4 DEF Store!Put
<1>6. name \in DOMAIN after \ DOMAIN before  BY <1>3
<1> QED  BY <1>5, <1>6 DEF Store!AddFile

\* A queued patch is one more element of the list of a file of the store.
LEMMA PatchAddsPatch ==
  ASSUME TypeOK, NEW name \in DOMAIN index, NEW item, NEW for,
         patch' = AddedPatch(name, item, for), UNCHANGED <<files, index>>
  PROVE  Store!AddPatch
<1> DEFINE e == [item |-> item, for |-> for]
           q == Get(patch, name, <<>>)
<1>1. q \in Seq(Entry)  BY DEF TypeOK, PatchOK, Get
<1>2. patch'[name] = Append(q, e) /\ name \in DOMAIN patch'
  BY DEF AddedPatch, Queued, Put
<1>3. Append(q, e)[Len(Append(q, e))] = e  BY <1>1
<1>4. patch' = Store!Put(patch, name, Append(Store!Get(patch, name, <<>>), e))
  BY DEF AddedPatch, Queued, Put, Get, Store!Put, Store!Get
<1> HIDE DEF e
<1>5. e \in {patch'[name][Len(patch'[name])]}  BY <1>2, <1>3
<1> QED  BY <1>2, <1>4, <1>5 DEF Store!AddPatch

\* Without clashing names the file manager implements FileStore: no accepted
\* file is ever replaced, and no patch is queued for a name without a file.
THEOREM ImplementsStore == NoClash => (Spec => GrowsOnly)
<1> SUFFICES ASSUME NoClash PROVE Spec => Store!StoreSpec  BY DEF GrowsOnly
<1>1. Init => Store!StoreInit
  BY DEF Init, Store!StoreInit, EmptyMap, Store!EmptyMap
<1>2. NameInv /\ [Next]_vars => [Store!StoreNext]_(Store!storeVars)
  <2> SUFFICES ASSUME NameInv, [Next]_vars
               PROVE  Store!StoreNext \/ UNCHANGED Store!storeVars
    OBVIOUS
  <2>1. TypeOK /\ IndexOK /\ FeedOK  BY DEF NameInv, LinkInv, TypeInv, TypeOK
  <2>2. ASSUME UNCHANGED fmVars  PROVE UNCHANGED Store!storeVars
    BY <2>2 DEF fmVars, Store!storeVars
  <2>3. CASE \/ UNCHANGED vars \/ BeginFeed \/ EndFeed \/ BuildResponse
             \/ NoTarget \/ DiscardPatch
    <3>1. UNCHANGED fmVars
      BY <2>3 DEF vars, fmVars, BeginFeed, EndFeed, BuildResponse, NoTarget,
                  DiscardPatch
    <3> QED  BY <2>2, <3>1
  <2>4. ASSUME NEW content \in Contents, NEW point \in Points \cup {NoPoint},
               AppendPatch(content, point)
        PROVE  Store!AddPatch
    <3>1. last \in DOMAIN index  BY <2>1, <2>4 DEF AppendPatch, FeedOK
    <3> QED  BY <2>1, <2>4, <3>1, PatchAddsPatch DEF AppendPatch
  <2>5. ASSUME NEW name \in Names, NEW content \in Contents,
               NEW point \in Points \cup {NoPoint},
               PatchFile(name, content, point)
        PROVE  Store!AddPatch
    BY <2>1, <2>5, PatchAddsPatch DEF PatchFile
  <2>6. ASSUME NEW name \in Names, NEW content \in Contents,
               NEW point \in Points \cup {NoPoint}, NewFile(name, content, point)
        PROVE  Store!AddFile
    BY <2>6, AcceptAddsFile DEF NewFile, Accept
  <2>7. ASSUME NEW name \in Names, NEW content \in Contents,
               Discard(name, content)
        PROVE  UNCHANGED Store!storeVars
    BY <2>2, <2>7 DEF Discard
  <2>8. ASSUME NEW name \in Names, NEW content \in Contents,
               RenameFile(name, content)
        PROVE  Store!AddFile
    <3>1. items < MaxItems  BY <2>8 DEF RenameFile, Accept, TakeItem
    <3>2. Renamed(name, Count(name) + 1) \notin DOMAIN index
      BY <3>1, RenamedIsFresh
    <3> QED  BY <2>8, <3>2, AcceptAddsFile DEF RenameFile, Accept
  <2> QED
    BY <2>3, <2>4, <2>5, <2>6, <2>7, <2>8, FileManagerAssumption
    DEF Next, FeedUnnamed, FeedNamed, Store!StoreNext
<1>3. NameInv /\ [Next]_vars => NameInv'  BY NameStep
<1> QED  BY <1>1, <1>2, <1>3, NameInit, PTL DEF Spec, Store!StoreSpec
=============================================================================
