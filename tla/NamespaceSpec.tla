---------------------------- MODULE NamespaceSpec ----------------------------
(***************************************************************************)
(* One namespace and whoever asks it for names, in any order.              *)
(***************************************************************************)
EXTENDS Namespace

CONSTANTS
  Wanted,  \* names that are asked for
  Ids      \* IDs that ask for them

ASSUME IdsAreFinite == IsFiniteSet(Ids) /\ IsFiniteSet(Wanted)

VARIABLES
  ns,    \* the namespace
  given  \* what Add has answered, by request

vars == <<ns, given>>

Requests == Wanted \X Ids

Init == ns = NewNamespace /\ given = GM!EmptyMap

AskToAdd(name, id) ==
  /\ ns' = Add(ns, name, id)
  /\ given' = GM!Put(given, <<name, id>>, AddedName(ns, name, id))

AskToReserve(name, id) ==
  /\ ns' = Reserve(ns, name, id)
  /\ UNCHANGED given

Next == \E name \in Wanted, id \in Ids :
          AskToAdd(name, id) \/ AskToReserve(name, id)

Spec == Init /\ [][Next]_vars
-----------------------------------------------------------------------------
(***************************************************************************)
(* Type invariant: name2id holds finitely many names, each for one of the  *)
(* IDs, and only requests have been answered.                              *)
(***************************************************************************)
TypeOK ==
  /\ DOMAIN ns = {"name2id", "id2name"}
  /\ IsFiniteSet(DOMAIN ns.name2id)
  /\ \A name \in DOMAIN ns.name2id : ns.name2id[name] \in Ids
  /\ DOMAIN ns.id2name \subseteq Ids
  /\ DOMAIN given \subseteq Requests

(***************************************************************************)
(* The name that Get returns for an ID is that ID's: ID gives it back.     *)
(* Reserve and Add write the two maps without looking at what they drop,   *)
(* so this rests on no name ever changing hands.                           *)
(***************************************************************************)
GetThenId ==
  \A id \in DOMAIN ns.id2name :
    /\ ns.id2name[id] \in DOMAIN ns.name2id
    /\ ns.name2id[ns.id2name[id]] = id

(***************************************************************************)
(* Two IDs never have one name, however their calls were interleaved and   *)
(* whatever names they asked for.                                          *)
(***************************************************************************)
OwnersDiffer ==
  \A r, s \in DOMAIN given : given[r] = given[s] => r[2] = s[2]

(***************************************************************************)
(* Add is stable: an ID that asks again for the name it once asked for     *)
(* gets the answer it got then, whatever was added in between.  The code   *)
(* generator relies on it: it builds the scope of a struct in two passes   *)
(* over its fields.                                                        *)
(***************************************************************************)
SameAnswer ==
  \A r \in DOMAIN given : AddedName(ns, r[1], r[2]) = given[r]

(***************************************************************************)
(* A step never takes a name from its ID.                                  *)
(***************************************************************************)
KeepsNames ==
  \A name \in DOMAIN ns.name2id :
    name \in DOMAIN ns'.name2id /\ ns'.name2id[name] = ns.name2id[name]

NamesAreKept == [][KeepsNames]_vars
=============================================================================
