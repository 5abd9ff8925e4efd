------------------------------ MODULE Namespace ------------------------------
(***************************************************************************)
(* pkg/namespace: a two-way map of IDs to names that renames a name when   *)
(* another ID has it.  A namespace is a value; the scopes and the import   *)
(* managers of the Go backend keep theirs in a variable.                   *)
(***************************************************************************)
EXTENDS FiniteSets, Renaming

CONSTANT Rename(_, _)  \* Rename(name, cnt): what is tried after cnt failures

GM == INSTANCE GoMap

NewNamespace == [name2id |-> GM!EmptyMap, id2name |-> GM!EmptyMap]

\* Get; none is the empty string.
NameFor(ns, id, none) == GM!Get(ns.id2name, id, none)

\* The two assignments that end Reserve and Add.
Claim(ns, name, id) == [name2id |-> GM!Put(ns.name2id, name, id),
                        id2name |-> GM!Put(ns.id2name, id, name)]

IsFree(ns, name) == name \notin DOMAIN ns.name2id

Reserve(ns, name, id) == IF IsFree(ns, name) THEN Claim(ns, name, id) ELSE ns

\* Another ID has the name, so that Add must look further.
IsForeign(ns, name, id) == ~IsFree(ns, name) /\ ns.name2id[name] # id

Candidate(name, cnt) == IF cnt = 0 THEN name ELSE Rename(name, cnt)

\* Some candidate is left after as many failures as there are names.
Tries(ns) == 0 .. Cardinality(DOMAIN ns.name2id)

\* Mutant: the loop looks only at whether the name is taken.
FirstFree(ns, name, id, cnt) ==
  /\ IsFree(ns, Candidate(name, cnt))
  /\ \A c \in 0 .. (cnt - 1) : ~IsFree(ns, Candidate(name, c))

\* Mutant: the loop renames once and does not look the new name up.
FirstOrRenamed(ns, name, id, cnt) ==
  cnt = IF IsForeign(ns, name, id) THEN 1 ELSE 0

FirstFit(ns, name, id, cnt) ==
  /\ ~IsForeign(ns, Candidate(name, cnt), id)
  /\ \A c \in 0 .. (cnt - 1) : IsForeign(ns, Candidate(name, c), id)

AddedName(ns, name, id) ==
  Candidate(name, CHOOSE cnt \in Tries(ns) : FirstFit(ns, name, id, cnt))

Add(ns, name, id) == Claim(ns, AddedName(ns, name, id), id)
=============================================================================
