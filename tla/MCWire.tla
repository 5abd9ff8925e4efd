------------------------------- MODULE MCWire -------------------------------
(***************************************************************************)
(* Every struct as new, with each of its members alone and with all.       *)
(***************************************************************************)
EXTENDS Wire

\* The least that is ever sent: a descriptor has all it must have.
RECURSIVE Least(_)
Least(T) ==
    [n \in Names(T) |-> LET t == Types[T][n]
                        IN  IF t.tid = STRUCT /\ n \in Required(T) THEN <<Least(t.of)>> ELSE New[T][n]]

Other(t) == IF t.tid = STRUCT THEN <<Least(t.of)>> ELSE ZeroOf(t)

RECURSIVE Full(_, _), Of(_, _)

\* A value of type t, the structs in it set to this depth.
Of(t, depth) ==
    CASE IsPtr(t) -> <<Of([tid |-> t.tid], depth)>>
      [] t = Bool -> TRUE
      [] t \in {I16, I32} -> -2
      [] t = I64 -> 70000
      [] t = Double -> <<192, 9, 33, 251, 84, 68, 45, 24>>
      [] t = String -> <<206, 12, 0>>
      [] t.tid = STRUCT -> IF depth = 0 THEN <<Least(t.of)>> ELSE <<Full(t.of, depth - 1)>>
      [] t.tid = LIST -> <<<<Of(t.value, depth), Other(t.value)>>>>
      [] t.tid = MAP -> <<{<<Of(t.key, depth), Of(t.value, depth)>>, <<Other(t.key), Other(t.value)>>}>>

Full(T, depth) ==
    [n \in Names(T) |->
        IF Types[T][n].tid = LIST /\ depth = 0 THEN <<<<>>>> ELSE Of(Types[T][n], depth)]
One(T, n, depth) == [Least(T) EXCEPT ![n] = Of(Types[T][n], depth)]

MCValues ==
    [T \in DOMAIN Structs |-> {Least(T), Full(T, 1)} \union {One(T, n, 1) : n \in Names(T)}]
MCSkewed == [T \in DOMAIN Structs |-> {Full(T, 1)}]
MCLong ==
    [T \in DOMAIN Structs |->
        IF T \in {"Request", "Response", "Generated", "TypeDescriptor", "FieldDescriptor"}
        THEN {One(T, n, 1) : n \in Names(T)} ELSE {}]
=============================================================================
