------------------------------ MODULE FileStore ------------------------------
(***************************************************************************)
(* What thriftgo's file manager promises to the backend and the plugins    *)
(* that feed it: a store from file names to contents, and a list of        *)
(* patches for every name.  Both only grow.  A file that was accepted is   *)
(* never replaced whatever is fed later, and a patch is only ever accepted *)
(* for a name the store has.                                               *)
(***************************************************************************)
EXTENDS Sequences, GoMap

VARIABLES store,     \* file name -> content
          patches    \* file name -> sequence of patches

storeVars == <<store, patches>>

StoreInit ==
  /\ store = EmptyMap
  /\ patches = EmptyMap

\* A file is accepted under a name that no file has yet.
AddFile ==
  /\ \E name \in DOMAIN store' \ DOMAIN store :
        store' = Put(store, name, store'[name])
  /\ UNCHANGED patches

\* A patch is queued behind the earlier patches of a file that exists.
AddPatch ==
  /\ \E name \in DOMAIN patches' \cap DOMAIN store :
        \E p \in {patches'[name][Len(patches'[name])]} :
          patches' = Put(patches, name, Append(Get(patches, name, <<>>), p))
  /\ UNCHANGED store

StoreNext == AddFile \/ AddPatch

StoreSpec == StoreInit /\ [][StoreNext]_storeVars
=============================================================================
