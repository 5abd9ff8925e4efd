-------------------------------- MODULE Wire --------------------------------
(***************************************************************************)
(* A struct on its way from one process to another: thriftgo's request to  *)
(* a plugin, the plugin's response, the descriptor that generated code     *)
(* registers at run time.  One end writes it with one of the two codecs,   *)
(* the bytes may be cut where a writer that was killed stopped, the other  *)
(* end reads it.  One of the ends may be of a version that does not know   *)
(* one of the members.                                                     *)
(***************************************************************************)
EXTENDS MetaCodec

CONSTANTS
    Values,         \* Values[T]: the values of struct T that are sent.
    Skewed,         \* Those that are sent between versions.
    Long            \* Those that may be cut short.

VARIABLES
    sent,           \* <<>>, or what was sent and how.
    data,           \* The bytes that are there.
    got             \* <<>>, or what the reader made of them.

vars == <<sent, data, got>>

Codecs == {"fast", "meta"}
HasFast(T) == T \in DOMAIN FastReads
Side(lacks, backwards) == [lacks |-> lacks, backwards |-> backwards]
IsOptional(T, n) == \E m \in ToSet(Structs[T]) : m.name = n /\ m.requiredness = "optional"
Required(T) == {m.name : m \in {x \in ToSet(Structs[T]) : x.requiredness = "required"}}
Lacks(T) == {{}} \union {{<<T, n>>} : n \in Names(T)}

Encode(codec, T, v, side) ==
    IF codec = "fast" THEN FastAppend(T, <<v>>, side) ELSE Marshal(T, v, side)

Decode(codec, T, b, side) ==
    IF codec = "fast" THEN FastRead(T, New[T], b, 1, {}, side) ELSE Unmarshal(T, b, side)

Init == sent = <<>> /\ data = <<>> /\ got = <<>>

\* One end sends v; what is refused leaves no bytes.
Write(T, v, codec, side) ==
    /\ sent = <<>>
    /\ codec = "fast" => HasFast(T)
    /\ side.lacks = {} \/ (v \in Skewed[T] /\ ~side.backwards)
    /\ sent' = <<[type |-> T, value |-> v, codec |-> codec, side |-> side, cut |-> FALSE]>>
    /\ data' = Encode(codec, T, v, side)
    /\ UNCHANGED got

\* The writer was killed, or the pipe closed, after n bytes.
Cut(n) ==
    /\ sent # <<>> /\ got = <<>>
    /\ ~sent[1].cut
    /\ sent[1].side = Side({}, FALSE)
    /\ sent[1].value \in Long[sent[1].type]
    /\ sent' = <<[sent[1] EXCEPT !.cut = TRUE]>>
    /\ data' = SubSeq(data, 1, n)
    /\ UNCHANGED got

Read(codec, lacks) ==
    /\ sent # <<>> /\ got = <<>>
    /\ data # Refused \/ sent[1].cut
    /\ codec = "fast" => HasFast(sent[1].type)
    /\ lacks = {} \/ (sent[1].side.lacks = {} /\ ~sent[1].cut /\ sent[1].value \in Skewed[sent[1].type])
    /\ got' = <<[codec |-> codec, lacks |-> lacks,
                 read |-> Decode(codec, sent[1].type, data, Side(lacks, FALSE))]>>
    /\ UNCHANGED <<sent, data>>

Next ==
    \/ \E T \in DOMAIN Values : \E v \in Values[T], codec \in Codecs, lacks \in Lacks(T),
          backwards \in BOOLEAN : Write(T, v, codec, Side(lacks, backwards))
    \/ \E n \in 0 .. Len(data) - 1 : Cut(n)
    \/ sent # <<>> /\ \E codec \in Codecs, lacks \in Lacks(sent[1].type) : Read(codec, lacks)

Spec == Init /\ [][Next]_vars

------------------------------------------------------------------------------
\* What a reader has of v when one end lacks these members: nil lists and maps
\* are empty ones there and a nil struct is a new one, unless the member is
\* optional.  Nobody sends Expandable.
RECURSIVE Arrives(_, _, _), ArrivesMember(_, _, _)

ArrivesMember(t, v, lacks) ==
    CASE t.tid = STRUCT -> IF v = Nil THEN <<New[t.of]>> ELSE <<Arrives(t.of, v[1], lacks)>>
      [] t.tid = LIST ->
            IF v = Nil THEN <<<<>>>>
            ELSE <<[i \in DOMAIN v[1] |-> ArrivesMember(t.value, v[1][i], lacks)]>>
      [] t.tid = MAP ->
            IF v = Nil THEN <<{}>>
            ELSE <<{<<ArrivesMember(t.key, e[1], lacks), ArrivesMember(t.value, e[2], lacks)>> : e \in v[1]}>>
      [] OTHER -> v

Arrives(T, v, lacks) ==
    [n \in Names(T) |->
        IF <<T, n>> \in lacks \union {<<"StructLike", "Expandable">>} THEN New[T][n]
        ELSE IF IsOptional(T, n) /\ IsZero(Types[T][n], v[n]) THEN ZeroOf(Types[T][n])
        ELSE ArrivesMember(Types[T][n], v[n], lacks)]

\* The reader has what was sent.
\* Codecs that disagree on a type or an id lose a member without a word.
ArrivesAsSent ==
    got # <<>> /\ ~sent[1].cut /\ sent[1].side.lacks = {} /\ got[1].lacks = {} =>
        /\ got[1].read.at = Len(data) + 1
        /\ got[1].read.is = <<Arrives(sent[1].type, sent[1].value, {})>>

\* What reflection can write: its unions have one member, and no struct in it
\* has a member that is not registered.
RECURSIVE Writable(_, _)
Writable(t, v) ==
    CASE t.tid = STRUCT ->
            v = Nil \/ /\ t.of # "StructLike"
                       /\ t.of = "ConstTypedValue" =>
                              Cardinality({n \in Names(t.of) : v[1][n] # Nil}) = 1
                       /\ \A n \in Names(t.of) : Writable(Types[t.of][n], v[1][n])
      [] t.tid = LIST -> v = Nil \/ \A i \in DOMAIN v[1] : Writable(t.value, v[1][i])
      [] t.tid = MAP -> v = Nil \/ \A e \in v[1] : Writable(t.key, e[1]) /\ Writable(t.value, e[2])
      [] OTHER -> TRUE

\* What one codec writes is what the other writes, byte by byte.
\* BLength, which makes the room for it, is its length, and reflection gives
\* up on what it cannot write only.
OneFormat ==
    sent # <<>> /\ got = <<>> /\ ~sent[1].cut =>
        LET s == sent[1]
        IN  IF s.codec = "fast"
            THEN s.side.lacks = {} => BLength(s.type, <<s.value>>) = Len(data)
            ELSE /\ HasFast(s.type) => data \in {Encode("fast", s.type, s.value, s.side), Refused}
                 /\ s.side = Side({}, FALSE) => (data = Refused) = ~Writable(S(s.type), <<s.value>>)

\* No part of a message passes for a message.
\* A plugin that is killed in the middle of its response must not be believed.
CutsAreRefused == got # <<>> /\ sent[1].cut => got[1].read.at = 0

\* A member that one end does not know is all that the other one misses.
\* The reader refuses the message if the member is required, and steps over
\* an unknown one to its very end.
OtherVersionsAgree ==
    got # <<>> /\ ~sent[1].cut =>
        LET lacks == sent[1].side.lacks \union got[1].lacks
            read == got[1].read
        IN  IF \E m \in sent[1].side.lacks : m[2] \in Required(m[1]) THEN read.at = 0
            ELSE read.at # 0 /\ read.is = <<Arrives(sent[1].type, sent[1].value, lacks)>>
=============================================================================
