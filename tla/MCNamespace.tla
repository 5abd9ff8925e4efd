---------------------------- MODULE MCNamespace ----------------------------
(***************************************************************************)
(* Small instances of NamespaceSpec.  Names are sequences of tokens; one   *)
(* of the names that is asked for is the renamed form of another.          *)
(***************************************************************************)
EXTENDS NamespaceSpec, TLC

CONSTANTS i, j, k

MCIds == {i, j, k}
MCWanted == {<<"a">>, <<"a", "_">>, <<"a", "_", "_">>}
IdsAreAlike == Permutations(MCIds)
=============================================================================
