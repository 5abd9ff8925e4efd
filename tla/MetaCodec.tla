----------------------------- MODULE MetaCodec -----------------------------
(***************************************************************************)
(* extension/meta: writing and reading a struct by reflection over its     *)
(* registered meta data (register.go, bootstrap.go).  The descriptors of   *)
(* the reflection registry travel this way only; the syntax tree and the   *)
(* plugin protocol are registered as well.                                 *)
(***************************************************************************)
EXTENDS FastCodec

\* RegisterStruct: the meta data of StructLike end before its last member.
Registered(T) == IF T = "StructLike" THEN SubSeq(Structs[T], 1, 5) ELSE Structs[T]
Category(T) == IF T = "ConstTypedValue" THEN "union" ELSE "struct"

IsZero(t, v) == v = ZeroOf(t)

\* countFields: how many members are set matters in a union only.
countFields(T, v) ==
    \/ Category(T) # "union"
    \/ v = Nil
    \/ Cardinality({n \in Names(T) : ~IsZero(Types[T][n], v[1][n])}) = 1

\* The error, or the panic on a member without meta data, that ends the
\* writing leaves this mark among the bytes.
Broken == <<-1>>

RECURSIVE WriteStruct(_, _, _), WriteValue(_, _, _)

\* Mutant: no member that is zero is written.
writeFieldSet(T, f, v, side) ==
    IF f \notin ToSet(Registered(T)) THEN Broken
    ELSE IF <<T, f.name>> \in side.lacks \/ IsZero(f.type, v) THEN <<>>
    ELSE WriteFieldBegin(f.type.tid, f.id) \o WriteValue(f.type, v, side)

writeField(T, f, v, side) ==
    IF f \notin ToSet(Registered(T)) THEN Broken
    ELSE IF <<T, f.name>> \in side.lacks THEN <<>>
    ELSE IF f.requiredness = "optional" /\ IsZero(f.type, v) THEN <<>>
    ELSE WriteFieldBegin(f.type.tid, f.id) \o WriteValue(f.type, v, side)

WriteStruct(T, v, side) ==
    IF ~countFields(T, v) THEN Broken
    ELSE IF v = Nil THEN WriteFieldStop
    ELSE FlattenSeq([i \in DOMAIN Structs[T] |->
             writeField(T, Structs[T][i], v[1][Structs[T][i].name], side)])
         \o WriteFieldStop

WriteValue(t, v, side) ==
    CASE t.tid = STRUCT -> WriteStruct(t.of, v, side)
      [] IsPtr(t) -> WriteValue([tid |-> t.tid], v[1], side)
      [] t = Bool -> WriteBool(v)
      [] t = I16 -> WriteI16(v)
      [] t = I32 -> WriteI32(v)
      [] t = I64 -> WriteI64(v)
      [] t = Double -> v
      [] t = String -> WriteString(v)
      [] t.tid = LIST ->
            LET s == IF v = Nil THEN <<>> ELSE v[1]
            IN  WriteListBegin(t.value.tid, Len(s))
                \o FlattenSeq([i \in DOMAIN s |-> WriteValue(t.value, s[i], side)])
      [] t.tid = MAP ->
            LET s == IF v = Nil THEN <<>> ELSE Entries(v[1], side)
            IN  WriteMapBegin(t.key.tid, t.value.tid, Len(s))
                \o FlattenSeq([i \in DOMAIN s |->
                        WriteValue(t.key, s[i][1], side) \o WriteValue(t.value, s[i][2], side)])

requiredFields(T, side) ==
    {f.name : f \in {g \in ToSet(Registered(T)) :
                        g.requiredness = "required" /\ <<T, g.name>> \notin side.lacks}}

\* The registered members with this id and type: there is at most one.
findField(T, id, tid, side) ==
    {f \in ToSet(Registered(T)) : f.id = id /\ f.type.tid = tid /\ <<T, f.name>> \notin side.lacks}

RECURSIVE ReadStruct(_, _, _, _, _, _), ReadValue(_, _, _, _), ReadElements(_, _, _, _, _, _)

ReadElements(ts, b, p, size, read, side) ==
    IF size = 0 THEN Done(p, read)
    ELSE Then(ReadValue(ts[1], b, p, side), LAMBDA r :
             ReadElements(Append(Tail(ts), ts[1]), b, r.at, size - 1, Append(read, r.is), side))

ReadValue(t, b, p, side) ==
    CASE t.tid = STRUCT -> ReadStruct(t.of, New[t.of], b, p, requiredFields(t.of, side), side)
      [] IsPtr(t) -> Then(ReadValue([tid |-> t.tid], b, p, side), LAMBDA r : Done(r.at, <<r.is>>))
      [] t = Bool -> ReadBool(b, p)
      [] t = I16 -> ReadI16(b, p)
      [] t = I32 -> ReadI32(b, p)
      [] t = I64 -> ReadI64(b, p)
      [] t = Double -> ReadDouble(b, p)
      [] t = String -> ReadString(b, p)
      [] t.tid = LIST ->
            Then(ReadListBegin(b, p), LAMBDA l :
                Then(ReadElements(<<t.value>>, b, l.at, l.size, <<>>, side), LAMBDA r :
                    Done(r.at, <<r.is>>)))
      [] t.tid = MAP ->
            Then(ReadMapBegin(b, p), LAMBDA m :
                Then(ReadElements(<<t.key, t.value>>, b, m.at, m.size, <<>>, side), LAMBDA r :
                    Done(r.at, <<Pairs(r.is)>>)))

\* The members are read into v; absent are the required ones not yet met.
ReadStruct(T, v, b, p, absent, side) ==
    Then(ReadFieldBegin(b, p), LAMBDA f :
        IF f.tid = STOP THEN IF absent = {} THEN Done(f.at, <<v>>) ELSE Failed
        ELSE IF findField(T, f.id, f.tid, side) = {}
        THEN Then(Skip(b, f.at, f.tid), LAMBDA s : ReadStruct(T, v, b, s.at, absent, side))
        ELSE LET m == CHOOSE x \in findField(T, f.id, f.tid, side) : TRUE
             IN  Then(ReadValue(m.type, b, f.at, side), LAMBDA r :
                     ReadStruct(T, [v EXCEPT ![m.name] = r.is], b, r.at, absent \ {m.name}, side)))

\* bootstrap.go.
Refused == <<>>
Marshal(T, v, side) ==
    LET b == WriteStruct(T, <<v>>, side) IN IF Contains(b, Broken[1]) THEN Refused ELSE b
Unmarshal(T, b, side) == ReadStruct(T, New[T], b, 1, requiredFields(T, side), side)
=============================================================================
