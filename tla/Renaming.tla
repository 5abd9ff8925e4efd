------------------------------ MODULE Renaming ------------------------------
(***************************************************************************)
(* The rename functions of pkg/namespace, for names that are sequences of  *)
(* tokens.                                                                 *)
(***************************************************************************)
EXTENDS Naturals, Sequences

UnderscoreSuffix(name, cnt) == name \o [i \in 1 .. cnt |-> "_"]

NumberSuffix(name, cnt) == name \o <<cnt>>
=============================================================================
