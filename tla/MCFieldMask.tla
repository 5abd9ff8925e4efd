---------------------------- MODULE MCFieldMask ----------------------------
(***************************************************************************)
(* A struct with a scalar, a struct, a list of structs, a map with integer *)
(* keys and one with keys of another kind; every list of at most three of  *)
(* the paths below, in every order, as a white and as a black list.        *)
(***************************************************************************)
EXTENDS FieldMask

S == "Sub"
Scalar == [kind |-> "Scalar"]
Struct(name) == [kind |-> "Struct", name |-> name]
Of(kind, type) == [kind |-> kind, of |-> type]

MCRootType == Struct("Root")

MCFieldsOf ==
    [name \in {"Root", S} |->
        IF name = S
        THEN <<[id |-> 1, type |-> Scalar], [id |-> 2, type |-> Scalar]>>
        ELSE <<[id |-> 1, type |-> Scalar],
               [id |-> 2, type |-> Struct(S)],
               [id |-> 3, type |-> Of("List", Struct(S))],
               [id |-> 4, type |-> Of("IntMap", Scalar)],
               [id |-> 5, type |-> Of("OtherMap", Scalar)]>>]

MCLeaves ==
    {<<1>>} \cup {<<2, f>> : f \in 1 .. 2} \cup {<<3, i, f>> : i \in 0 .. 1, f \in 1 .. 2}
        \cup {<<4, k>> : k \in 7 .. 8} \cup {<<5, 0>>}

Field(id) == [sep |-> ".", elems |-> <<id>>]
Index(ids) == [sep |-> "[", elems |-> ids]
Key(ids) == [sep |-> "{", elems |-> ids]

\* The last four are refused, the last two wherever they stand.
MCPaths ==
    {<<Field(1)>>, <<Field(2)>>, <<Field(2), Field(1)>>, <<Field(2), Field(Star)>>,
     <<Field(3), Index(<<0>>), Field(2)>>, <<Field(3), Index(<<0, 1>>)>>,
     <<Field(3), Index(<<Star>>), Field(1)>>, <<Field(3)>>,
     <<Field(4), Key(<<7>>)>>, <<Field(4), Key(<<Star>>)>>,
     <<Field(5), Key(<<Star>>)>>, <<Field(Star)>>,
     <<Field(5), Key(<<7>>)>>, <<Field(3), Index(<<Star, 1>>)>>}

MCPathLists == UNION {[1 .. n -> MCPaths] : n \in 0 .. 3}

=============================================================================
