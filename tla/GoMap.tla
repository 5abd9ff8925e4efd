-------------------------------- MODULE GoMap --------------------------------
(***************************************************************************)
(* Go's built-in map as a function with a finite domain.  Reading a key    *)
(* that is absent yields the zero value of the element type, which the     *)
(* reader names; writing a key adds it or replaces its value.              *)
(***************************************************************************)

EmptyMap == [k \in {} |-> k]

Get(m, k, zero) == IF k \in DOMAIN m THEN m[k] ELSE zero

Put(m, k, v) == [x \in DOMAIN m \cup {k} |-> IF x = k THEN v ELSE m[x]]
=============================================================================
