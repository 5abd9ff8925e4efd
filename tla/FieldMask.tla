----------------------------- MODULE FieldMask -----------------------------
(***************************************************************************)
(* Field masks (fieldmask/mask.go, path.go, storage.go, serdes.go): a list *)
(* of paths over a struct is turned into a tree that generated code asks,  *)
(* field by field and element by element, what to read and write.  Masks   *)
(* travel between programs as JSON, through two caches that never forget.  *)
(*                                                                         *)
(* A path is a sequence of segments: sep is ".", "[" or "{", elems what is *)
(* written after it (a field, or indices, or keys; Star for all of them).  *)
(* Types are what unwrapDesc leaves of a descriptor: typedefs are gone.    *)
(***************************************************************************)
EXTENDS Integers, Sequences, FiniteSets, Functions, SequencesExt, TLC

CONSTANTS Star,        \* the segment element "*"
          FieldsOf,    \* for each struct name, its fields in order: [id, type]
          RootType,    \* the type the paths start at
          PathLists,   \* the lists of paths a program may ask for
          Leaves,      \* the places of scalar values: sequences of ids and keys
          Refs,        \* the pointers to masks in use in the two programs
          Makers       \* those that get their mask from paths

-----------------------------------------------------------------------------
(* The tree.  all is empty or holds the mask under "*".  kids stands for fdMask, intMask and strMask: a mask uses the  *)
(* one of its type, and the map exists exactly when it has an entry, for    *)
(* nothing is ever deleted from it.  A child is the zero mask (typ Invalid) *)
(* after a reset.                                                           *)

NoKids == <<>>
Nil == [typ |-> "Nil", isAll |-> FALSE, black |-> FALSE, all |-> <<>>, kids |-> NoKids]
Bad == [Nil EXCEPT !.typ = "Error"]

newFieldMask(ft, black) ==
    [typ |-> ft, isAll |-> FALSE, black |-> black, all |-> <<>>, kids |-> NoKids]

Exist(m) == m.typ \notin {"Nil", "Invalid"}

All(m) == m.typ \in {"Struct", "List", "StrMap", "IntMap"} => m.isAll

assign(m, ft, black) == [m EXCEPT !.typ = ft, !.isAll = FALSE, !.black = black]

\* The children of a reset mask are reset too; what it has under * stays.
RECURSIVE reset(_)
resetKids(kids) == [k \in DOMAIN kids |-> reset(kids[k])]
reset(m) == [m EXCEPT !.typ = "Invalid", !.isAll = FALSE, !.kids = resetKids(m.kids)]

\* Mutant: a slot that is there is made anew.
SetAnew(m, k, ft) == newFieldMask(ft, m.black)

\* The slot of a child, made or revived as a mask of type ft.
SetIfNotExist(m, k, ft) ==
    IF k \notin DOMAIN m.kids THEN newFieldMask(ft, m.black)
    ELSE IF m.kids[k].typ = "Invalid" THEN assign(m.kids[k], ft, m.black)
    ELSE m.kids[k]

setAll(m, ft) ==
    IF m.all = <<>> THEN newFieldMask(ft, m.black)
    ELSE IF m.all[1].typ = "Invalid" THEN assign(m.all[1], ft, m.black)
    ELSE m.all[1]

WithKid(m, k, kid) == [m EXCEPT !.kids = (k :> kid) @@ @]

-----------------------------------------------------------------------------
(* Adding a path                                                            *)

\* A map whose keys are neither integers nor strings counts as a scalar.
switchFt(d) == IF d.kind = "OtherMap" THEN "Scalar" ELSE d.kind

IsMap(d) == d.kind \in {"StrMap", "IntMap", "OtherMap"}

Stars(seg) == Star \in Range(seg.elems)

\* A literal is refused where * is settled, from before or by this segment.
Conflicts(m, seg) ==
    \E i \in DOMAIN seg.elems :
        /\ seg.elems[i] # Star
        /\ (All(m) \/ \E j \in 1 .. i - 1 : seg.elems[j] = Star)

\* The segment is written for a container of this type and mask.
Fits(m, seg, d) ==
    /\ m.typ # "Nil"
    /\ CASE seg.sep = "." -> /\ d.kind = "Struct" /\ m.typ = "Struct"
                             /\ ~ All(m)
                             /\ IF Stars(seg) THEN FieldsOf[d.name] # <<>>
                                ELSE \E f \in Range(FieldsOf[d.name]) : f.id = seg.elems[1]
         [] seg.sep = "[" -> d.kind = "List" /\ m.typ = "List"
         [] seg.sep = "{" -> IsMap(d) /\ m.typ \in {"IntMap", "StrMap", "Scalar"}
    /\ ~ Conflicts(m, seg)

\* The type below the segment; below a * of a struct it stays the struct.
Below(seg, d, k) ==
    IF seg.sep # "." THEN d.of
    ELSE IF k = Star THEN d
    ELSE (CHOOSE f \in Range(FieldsOf[d.name]) : f.id = k).type

\* The type given to the mask below; * of a struct takes the first field's.
MaskTypeBelow(seg, d, k) ==
    IF seg.sep = "." /\ k = Star THEN switchFt(FieldsOf[d.name][1].type)
    ELSE switchFt(Below(seg, d, k))

RECURSIVE AddPath(_, _, _)
AddPath(m, path, d) ==
    LET seg == Head(path)
        next(slot, k) == AddPath(slot, Tail(path), Below(seg, d, k))
        everywhere ==
            LET below == next(setAll(m, MaskTypeBelow(seg, d, Star)), Star)
            IN  IF below = Bad THEN Bad
                ELSE [m EXCEPT !.kids = resetKids(@), !.isAll = TRUE, !.all = <<below>>]
        one(acc, k) ==
            IF acc = Bad THEN Bad
            ELSE LET kid == next(SetIfNotExist(acc, k, MaskTypeBelow(seg, d, k)), k)
                 IN  IF kid = Bad THEN Bad ELSE WithKid(acc, k, kid)
    IN  IF path = <<>> THEN [m EXCEPT !.isAll = TRUE]
        ELSE IF ~ Fits(m, seg, d) THEN Bad
        ELSE IF Stars(seg) THEN everywhere
        ELSE FoldLeft(one, m, seg.elems)

\* NewFieldMask: the paths are added one after the other; the first that
\* does not fit loses the whole mask.  "$" gives the mask its type.
Add(m, path) ==
    IF m = Bad THEN Bad
    ELSE AddPath([m EXCEPT !.typ = switchFt(RootType)], path, RootType)

Build(black, paths) == FoldLeft(Add, newFieldMask("Invalid", black), paths)

-----------------------------------------------------------------------------
(* Asking a mask                                                            *)

hasChild(m) == m.typ # "Invalid" /\ (m.all # <<>> \/ DOMAIN m.kids # {})

under(m) == IF m.all = <<>> THEN Nil ELSE m.all[1]

\* Mutant: in a black list every child of the mask is refused.
LookupStrict(m, k) ==
    LET fm == IF m.isAll THEN under(m) ELSE IF k \in DOMAIN m.kids THEN m.kids[k] ELSE Nil
    IN  [fm |-> fm, ok |-> ~ Exist(m) \/ (IF m.black THEN fm = Nil ELSE m.isAll \/ fm # Nil)]

\* Field, Int and Str: the mask below, and whether to go there.
Lookup(m, k) ==
    IF ~ Exist(m) THEN [fm |-> Nil, ok |-> TRUE]
    ELSE IF m.isAll THEN [fm |-> under(m), ok |-> m.black => hasChild(m)]
    ELSE LET fm == IF k \in DOMAIN m.kids /\ Exist(m.kids[k]) THEN m.kids[k] ELSE Nil
         IN  [fm |-> fm,
              ok |-> IF m.black THEN fm = Nil \/ hasChild(fm) ELSE fm # Nil]

\* Generated code goes down to a value only while every answer is yes.
RECURSIVE Passes(_, _)
Passes(m, place) ==
    \/ place = <<>>
    \/ /\ Lookup(m, Head(place)).ok
       /\ Passes(Lookup(m, Head(place)).fm, Tail(place))

RECURSIVE PathInMask(_, _, _)

\* Mutant: below an element the mask of all elements is taken.
PathInMaskOfAll(m, path, d) ==
    \/ path = <<>> \/ m.typ = "Nil"
    \/ LET seg == Head(path)
       IN  /\ seg.sep = "." => m.typ = "Struct"
           /\ \A e \in Range(seg.elems) : Lookup(m, e).ok
           /\ PathInMask(IF seg.sep = "." THEN Lookup(m, seg.elems[1]).fm ELSE under(m),
                         Tail(path), Below(seg, d, seg.elems[1]))

\* GetPath: of a * the code asks whether all are in the mask.
PathInMask(m, path, d) ==
    LET seg == Head(path)
        k == Last(seg.elems)
        asked(e) == IF Stars(seg) THEN All(m) ELSE Lookup(m, e).ok
        \* the mask of the last element stands for all of them
        below == IF seg.sep # "." /\ All(m) THEN under(m) ELSE Lookup(m, k).fm
    IN  \/ path = <<>>
        \/ ~ Exist(m) /\ m.typ = "Nil"
        \/ /\ CASE seg.sep = "." -> d.kind = "Struct" /\ m.typ = "Struct"
                [] seg.sep = "[" -> d.kind = "List" /\ m.typ = "List"
                [] seg.sep = "{" -> IsMap(d) /\ m.typ \in {"IntMap", "StrMap", "Scalar"}
           /\ \/ seg.sep # "." /\ All(m)
              \/ \A e \in Range(seg.elems) : asked(e)
           /\ PathInMask(below, Tail(path), Below(seg, d, k))

\* The path that names one place.
RECURSIVE PathFrom(_, _)
PathFrom(place, d) ==
    IF place = <<>> THEN <<>>
    ELSE LET seg == [sep |-> CASE d.kind = "Struct" -> "." [] d.kind = "List" -> "[" [] OTHER -> "{",
                     elems |-> <<Head(place)>>]
         IN  <<seg>> \o PathFrom(Tail(place), Below(seg, d, Head(place)))

PathOf(place) == PathFrom(place, RootType)

-----------------------------------------------------------------------------
(* JSON                                                                     *)

RECURSIVE Json(_)

\* Mutant: the mask under a * is not written.
JsonFlat(m) ==
    [typ |-> m.typ, black |-> m.black,
     children |-> [k \in {c \in DOMAIN m.kids : ~ All(m) /\ Exist(m.kids[c])} |-> Json(m.kids[k])]]

\* marshalRec: a child without a type is left out, and so is a * that has
\* nothing below it.
Json(m) ==
    [typ |-> m.typ, black |-> m.black,
     children |->
        IF All(m) THEN IF Exist(under(m)) THEN Star :> Json(under(m)) ELSE NoKids
        ELSE [k \in {c \in DOMAIN m.kids : Exist(m.kids[c])} |-> Json(m.kids[k])]]

\* TransferFrom: what is read is put into the mask that is there.
RECURSIVE TransferFrom(_, _)
TransferFrom(m, j) ==
    LET typed == [m EXCEPT !.typ = j.typ, !.black = j.black]
        one(acc, k) ==
            IF acc = Bad THEN Bad
            ELSE LET kid == TransferFrom(SetIfNotExist(acc, k, j.children[k].typ), j.children[k])
                 IN  IF kid = Bad THEN Bad ELSE WithKid(acc, k, kid)
    IN  IF j.typ = "Invalid" THEN Bad
        ELSE IF DOMAIN j.children = {} THEN [typed EXCEPT !.isAll = TRUE]
        ELSE IF Star \in DOMAIN j.children
        THEN [typed EXCEPT !.isAll = TRUE,
                           !.all = <<TransferFrom(newFieldMask("Invalid", FALSE), j.children[Star])>>]
        ELSE FoldLeft(one, typed, SetToSeq(DOMAIN j.children))

-----------------------------------------------------------------------------
(* Two programs and their caches                                            *)

VARIABLES mask,      \* the mask behind each pointer, Nil where there is none
          meant,     \* the lists of paths each mask was made for (ghost)
          fm2json,   \* the cache of Marshal, by pointer
          json2fm,   \* the cache of Unmarshal, by text
          wire       \* the last text that was sent, {} before

vars == <<mask, meant, fm2json, json2fm, wire>>

Init ==
    /\ mask = [r \in Refs |-> Nil]
    /\ meant = [r \in Refs |-> {}]
    /\ fm2json = NoKids
    /\ json2fm = NoKids
    /\ wire = {}

\* NewFieldMask; a list that is refused leaves no mask.
New(r) ==
    \E black \in BOOLEAN, paths \in PathLists :
        LET m == Build(black, paths)
        IN  /\ mask[r] = Nil
            /\ m # Bad
            /\ mask' = [mask EXCEPT ![r] = m]
            /\ meant' = [meant EXCEPT ![r] = {[black |-> black, paths |-> paths]}]
            /\ UNCHANGED <<fm2json, json2fm, wire>>

\* The text of a pointer is made once.
Marshal(r) ==
    /\ mask[r] # Nil
    /\ LET text == IF r \in DOMAIN fm2json THEN fm2json[r] ELSE Json(mask[r])
       IN  /\ wire' = {[text |-> text, from |-> meant[r]]}
           /\ fm2json' = (r :> text) @@ fm2json
    /\ UNCHANGED <<mask, meant, json2fm>>

\* A text that was read before gives the mask that was made for it then.
Unmarshal(r) ==
    \E w \in wire :
        /\ mask[r] = Nil
        /\ w.text \notin DOMAIN json2fm
        /\ LET m == TransferFrom(newFieldMask("Invalid", FALSE), w.text)
           IN  /\ m # Bad
               /\ mask' = [mask EXCEPT ![r] = m]
               /\ meant' = [meant EXCEPT ![r] = w.from]
               /\ json2fm' = (w.text :> r) @@ json2fm
        /\ UNCHANGED <<fm2json, wire>>

UnmarshalAgain ==
    \E w \in wire :
        /\ w.text \in DOMAIN json2fm
        /\ meant' = [meant EXCEPT ![json2fm[w.text]] = @ \cup w.from]
        /\ UNCHANGED <<mask, fm2json, json2fm, wire>>

Next ==
    \/ \E r \in Makers : New(r)
    \/ \E r \in Refs : Marshal(r) \/ Unmarshal(r)
    \/ UnmarshalAgain

Spec == Init /\ [][Next]_vars

-----------------------------------------------------------------------------
(* What a list of paths means                                               *)

\* One path for every choice of an index or key in each segment.
Singles(path) ==
    {[i \in DOMAIN path |-> [path[i] EXCEPT !.elems = <<c[i]>>]] :
        c \in {f \in [DOMAIN path -> UNION {Range(path[i].elems) : i \in DOMAIN path}] :
                \A i \in DOMAIN path : f[i] \in Range(path[i].elems)}}

\* A later path with a * takes the place of what was listed where it stands.
Replaces(q, p) ==
    \E i \in DOMAIN p \cap DOMAIN q :
        /\ SubSeq(p, 1, i - 1) = SubSeq(q, 1, i - 1)
        /\ Stars(q[i]) /\ ~ Stars(p[i])

Kept(paths) ==
    UNION {{p \in Singles(paths[i]) :
                \A j \in i + 1 .. Len(paths) : \A q \in Singles(paths[j]) : ~ Replaces(q, p)} :
           i \in DOMAIN paths}

Covers(p, place) ==
    /\ Len(p) =< Len(place)
    /\ \A i \in DOMAIN p : Stars(p[i]) \/ p[i].elems[1] = place[i]

Covered(paths, place) == \E p \in Kept(paths) : Covers(p, place)

\* One path leads through the end of another.
Nested(paths) == \E p, q \in Kept(paths) : p # q /\ IsPrefix(p, q)

EndsInStar(paths) == \E p \in Kept(paths) : p # <<>> /\ Stars(Last(p))

Wishes(black) ==
    {w \in [r : Refs, for : UNION {meant[r] : r \in Refs}] :
        /\ w.for \in meant[w.r]
        /\ w.for.black = black /\ w.for.paths # <<>>}

\* A white list passes the values under its paths and no others, in the
\* program that made it and in the one that read it.  Lists with a path that
\* leads through the end of another are left out: see the README.
WhiteListIsUnion ==
    \A w \in Wishes(FALSE) :
        ~ Nested(w.for.paths) =>
            \A place \in Leaves : Passes(mask[w.r], place) = Covered(w.for.paths, place)

\* A black list rejects the values under its complete paths and no others.
\* A path that ends in * rejects what is inside the elements only, and lists
\* with one are left out too.
BlackListIsComplement ==
    \A w \in Wishes(TRUE) :
        ~ Nested(w.for.paths) /\ ~ EndsInStar(w.for.paths) =>
            \A place \in Leaves : Passes(mask[w.r], place) # Covered(w.for.paths, place)

\* What Marshal writes of a mask, Unmarshal reads as a mask that passes the
\* same values, whatever the order of its paths.  The mask of no path has no
\* type, and its text is refused; of a nested black list the text leaves out
\* the children that make its end pass (see the README).
RoundTripKeeps ==
    \A r \in Refs :
        (Exist(mask[r]) /\ \A w \in meant[r] : w.black => ~ Nested(w.paths)) =>
            LET read == TransferFrom(newFieldMask("Invalid", FALSE), Json(mask[r]))
            IN  \A place \in Leaves : Passes(read, place) = Passes(mask[r], place)

\* PathInMask answers for one value what the generated code will do with it,
\* unless a * stands for the fields of a struct: its mask has the type of the
\* first field.
AskAgreesWithUse ==
    \A r \in Refs :
        /\ Exist(mask[r])
        /\ \A w \in meant[r] : \A p \in Kept(w.paths) : \A i \in DOMAIN p :
                p[i].sep = "." => ~ Stars(p[i])
        => \A place \in Leaves :
               PathInMask(mask[r], PathOf(place), RootType) = Passes(mask[r], place)

=============================================================================
