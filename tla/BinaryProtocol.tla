--------------------------- MODULE BinaryProtocol ---------------------------
(***************************************************************************)
(* The binary protocol of extension/meta/binary_protocol.go; the functions *)
(* of the runtime library that the generated code of k-AST.go calls do the *)
(* same.  A write is the bytes it appends.  A read of bytes b at p gives   *)
(* what it is and where it ends; it ends at 0 when it fails.               *)
(***************************************************************************)
EXTENDS Integers, Sequences, SequencesExt, Structs

DefaultMaxDepth == 64

RECURSIVE BigEndian(_, _)
BigEndian(width, n) == IF width = 0 THEN <<>> ELSE Append(BigEndian(width - 1, n \div 256), n % 256)

WriteByte(n) == <<n>>
WriteBool(v) == WriteByte(IF v THEN 1 ELSE 0)
WriteI16(n) == BigEndian(2, n)
WriteI32(n) == BigEndian(4, n)
WriteI64(n) == BigEndian(8, n)
WriteString(s) == WriteI32(Len(s)) \o s
WriteFieldBegin(tid, id) == WriteByte(tid) \o WriteI16(id)
WriteFieldStop == WriteByte(STOP)
WriteListBegin(tid, size) == WriteByte(tid) \o WriteI32(size)
WriteMapBegin(ktid, vtid, size) == WriteByte(ktid) \o WriteByte(vtid) \o WriteI32(size)

Failed == [at |-> 0]
Done(at, is) == [at |-> at, is |-> is]
Then(r, Use(_)) == IF r.at = 0 THEN Failed ELSE Use(r)

\* io.ReadFull.
Raw(b, p, n) == IF p + n - 1 <= Len(b) THEN Done(p + n, SubSeq(b, p, p + n - 1)) ELSE Failed
Signed(bytes) ==
    FoldLeft(LAMBDA n, byte : n * 256 + byte,
             IF bytes[1] < 128 THEN bytes[1] ELSE bytes[1] - 256, Tail(bytes))
ReadInt(b, p, width) == Then(Raw(b, p, width), LAMBDA r : Done(r.at, Signed(r.is)))

\* Mutant: at the end of the bytes the buffer still holds a zero.
ReadTypeIDOrStop(b, p) == IF p > Len(b) THEN Done(p, STOP) ELSE Done(p + 1, b[p])

ReadTypeID(b, p) == IF p > Len(b) THEN Failed ELSE Done(p + 1, b[p])
ReadBool(b, p) == IF p > Len(b) THEN Failed ELSE Done(p + 1, b[p] = 1)
ReadI16(b, p) == ReadInt(b, p, 2)
ReadI32(b, p) == ReadInt(b, p, 4)
ReadI64(b, p) == ReadInt(b, p, 8)
ReadDouble(b, p) == Raw(b, p, 8)
ReadLength(b, p) == Then(ReadI32(b, p), LAMBDA n : IF n.is < 0 THEN Failed ELSE n)
ReadString(b, p) == Then(ReadLength(b, p), LAMBDA n : Raw(b, n.at, n.is))

ReadFieldBegin(b, p) ==
    Then(ReadTypeID(b, p), LAMBDA t :
        IF t.is = STOP THEN [at |-> t.at, tid |-> STOP, id |-> 0]
        ELSE Then(ReadI16(b, t.at), LAMBDA i : [at |-> i.at, tid |-> t.is, id |-> i.is]))

\* A reader uses the types of the elements only to skip them.
ReadListBegin(b, p) ==
    Then(ReadTypeID(b, p), LAMBDA t :
        Then(ReadLength(b, t.at), LAMBDA n : [at |-> n.at, tids |-> <<t.is>>, size |-> n.is]))
ReadMapBegin(b, p) ==
    Then(ReadTypeID(b, p), LAMBDA t :
        Then(ReadListBegin(b, t.at), LAMBDA l :
            [at |-> l.at, tids |-> <<t.is>> \o l.tids, size |-> 2 * l.size]))

RECURSIVE SkipType(_, _, _, _), SkipFields(_, _, _), SkipElements(_, _, _, _, _)

SkipFields(b, p, depth) ==
    Then(ReadFieldBegin(b, p), LAMBDA f :
        IF f.tid = STOP THEN f
        ELSE Then(SkipType(b, f.at, f.tid, depth), LAMBDA s : SkipFields(b, s.at, depth)))

\* Mutant: the values of a map are skipped as its keys.
SkipElementsAlike(b, p, tids, n, depth) ==
    IF n = 0 THEN [at |-> p]
    ELSE Then(SkipType(b, p, tids[1], depth), LAMBDA s : SkipElements(b, s.at, tids, n - 1, depth))

\* n elements of these types in turn.
SkipElements(b, p, tids, n, depth) ==
    IF n = 0 THEN [at |-> p]
    ELSE Then(SkipType(b, p, tids[1], depth), LAMBDA s :
             SkipElements(b, s.at, Append(Tail(tids), tids[1]), n - 1, depth))

SkipType(b, p, tid, depth) ==
    CASE depth <= 0 -> Failed
      [] depth > 0 /\ tid \in {BOOL, BYTE} -> ReadTypeID(b, p)
      [] depth > 0 /\ tid = I16_ -> ReadI16(b, p)
      [] depth > 0 /\ tid = I32_ -> ReadI32(b, p)
      [] depth > 0 /\ tid \in {I64_, DOUBLE} -> Raw(b, p, 8)
      [] depth > 0 /\ tid = STRING_ -> ReadString(b, p)
      [] depth > 0 /\ tid = STRUCT -> SkipFields(b, p, depth - 1)
      [] depth > 0 /\ tid \in {SET, LIST} ->
            Then(ReadListBegin(b, p), LAMBDA l : SkipElements(b, l.at, l.tids, l.size, depth - 1))
      [] depth > 0 /\ tid = MAP ->
            Then(ReadMapBegin(b, p), LAMBDA m : SkipElements(b, m.at, m.tids, m.size, depth - 1))
      [] OTHER -> Failed

Skip(b, p, tid) == SkipType(b, p, tid, DefaultMaxDepth)
=============================================================================
