------------------------------ MODULE IdlText ------------------------------
(***************************************************************************)
(* An IDL that grows, one header or definition at a time, and is read each *)
(* time.  How a text is laid out, and what it says, is the reference here: *)
(* it is written from the words of the language, not from the parser.      *)
(***************************************************************************)
EXTENDS IdlParser

CONSTANTS Headers,      \* what may stand before the definitions
          Definitions,  \* what may be defined
          Neighbours,   \* those of them that may stand beside any other
          MaxEntries    \* bound on the headers and definitions of a text

VARIABLES written,   \* the headers and definitions so far
          text,      \* as they stand in the file
          read       \* the syntax tree of the text

vars == <<written, text, read>>

-----------------------------------------------------------------------------
(* Layout                                                                   *)

Words(ss) == FlattenSeq(Each(ss, LAMBDA w : IF w = <<>> THEN <<>> ELSE w \o <<" ">>))
ListOf(ss, sep) == Words([i \in DOMAIN ss |-> IF i = Len(ss) THEN ss[i] ELSE ss[i] \o sep])
Quote(s) == <<"dq">> \o Each(s, LAMBDA c : c) \o <<"dq">>
Line(comments) == FlattenSeq(Each(comments, LAMBDA c : c \o <<"\n">>))

LayAnnotations(as) ==
    IF as = <<>> THEN <<>>
    ELSE <<"(">> \o ListOf(Each(as, LAMBDA a : Words(<<a.key, <<"=">>, Quote(a.value)>>)), <<",">>)
            \o <<")">>

RECURSIVE LayType(_)
LayType(type) ==
    Words(<<type.name,
            IF type.value = <<>> THEN <<>>
            ELSE <<"<">> \o (IF type.key = <<>> THEN <<>> ELSE LayType(type.key[1]) \o <<",">>)
                    \o LayType(type.value[1]) \o <<">">>,
            LayAnnotations(type.annotations)>>)

LayInt(i) == IF i < 0 THEN <<"-", DigitChars[1 - i]>> ELSE <<DigitChars[1 + i]>>
Digits2(i, base) == <<DigitChars[1 + (i \div base)], DigitChars[1 + (i % base)]>>

\* A number from 10 on is octal, from 64 on hexadecimal; the id of a field is
\* decimal, also with a 0 before it.
LayNumber(i) ==
    IF i < 10 THEN LayInt(i) ELSE IF i < 64 THEN <<"0">> \o Digits2(i, 8) ELSE <<"0x">> \o Digits2(i, 16)
LayId(i) == IF i < 10 THEN LayInt(i) ELSE <<"0">> \o Digits2(i, 10)

RECURSIVE LayValue(_)
LayValue(v) ==
    CASE v[1] \in {"Double", "Identifier"} -> v[2]
      [] v[1] = "Int" -> LayNumber(v[2])
      [] v[1] = "Literal" -> Quote(v[2])
      [] v[1] = "List" -> <<"[">> \o ListOf(Each(v[2], LAMBDA e : LayValue(e)), <<",">>) \o <<"]">>
      [] v[1] = "Map" ->
            <<"{">> \o ListOf(Each(v[2], LAMBDA e : LayValue(e[1]) \o <<":">> \o LayValue(e[2])), <<",">>)
                \o <<"}">>

\* sep ends the entry, after is a comment behind it on the line.
LayField(f) ==
    Line(f.before)
        \o Words(<<IF f.id = NOTSET THEN <<>> ELSE LayId(f.id) \o <<":">>,
                   IF f.requiredness = "default" THEN <<>> ELSE <<f.requiredness>>,
                   LayType(f.type), f.name,
                   IF f.default = <<>> THEN <<>> ELSE <<"=">> \o LayValue(f.default[1]),
                   LayAnnotations(f.annotations), f.sep>>)
        \o Line(f.after) \o <<"\n">>

LayFields(fs) == FlattenSeq(Each(fs, LAMBDA f : LayField(f)))

LayEnumValue(v) ==
    Line(v.before)
        \o Words(<<v.name, IF v.value = NOTSET THEN <<>> ELSE <<"=">> \o LayNumber(v.value),
                   LayAnnotations(v.annotations), v.sep>>)
        \o Line(v.after) \o <<"\n">>

LayFunction(f) ==
    Line(f.before)
        \o Words(<<IF f.oneway THEN <<"oneway">> ELSE <<>>, LayType(f.result), f.name, <<"(">>,
                   LayFields(f.arguments), <<")">>,
                   IF f.throws = <<>> THEN <<>> ELSE <<"throws", "(">> \o LayFields(f.throws) \o <<")">>,
                   LayAnnotations(f.annotations), f.sep>>)
        \o <<"\n">>

Keyword == [Const |-> "const", Typedef |-> "typedef", Enum |-> "enum", Service |-> "service",
            Struct |-> "struct", Union |-> "union", Exception |-> "exception"]

LayDefinition(d) ==
    LET is == d.is
        body == CASE d.kind = "Const" -> Words(<<LayType(is.type), is.name, <<"=">>, LayValue(is.value)>>)
                  [] d.kind = "Typedef" -> Words(<<LayType(is.type), is.name>>)
                  [] d.kind = "Enum" ->
                        Words(<<is.name, <<"{", "\n">>>>)
                            \o FlattenSeq(Each(is.values, LAMBDA v : LayEnumValue(v))) \o <<"}">>
                  [] d.kind = "Service" ->
                        Words(<<is.name, IF is.extends = <<>> THEN <<>> ELSE <<"extends", " ">> \o is.extends,
                                <<"{", "\n">>>>)
                            \o FlattenSeq(Each(is.functions, LAMBDA f : LayFunction(f))) \o <<"}">>
                  [] OTHER -> Words(<<is.name, <<"{", "\n">>>>) \o LayFields(is.fields) \o <<"}">>
    IN  Line(d.before) \o Words(<<<<Keyword[d.kind]>>, body, LayAnnotations(d.annotations)>>)
            \o Line(d.after) \o <<"\n">>

LayHeader(h) ==
    CASE h.kind = "Include" -> Words(<<<<"include">>, Quote(h.name)>>) \o <<"\n">>
      [] h.kind = "CppInclude" -> Words(<<<<"cpp_include">>, Quote(h.name)>>) \o <<"\n">>
      [] h.kind = "Namespace" ->
            Words(<<<<"namespace">>, h.language, h.name, LayAnnotations(h.annotations)>>) \o <<"\n">>

-----------------------------------------------------------------------------
(* What a text says                                                         *)

Without(r, fields) == [k \in DOMAIN r \ fields |-> r[k]]
Comments(e) == [c \in DOMAIN e |-> IF e[c][1] = "#" THEN <<"//">> \o Tail(e[c]) ELSE e[c]]
With(e, fields) == [comments |-> Comments(IF e.before # <<>> THEN e.before ELSE e.after)]
                        @@ Without(e, {"before", "after", "sep"})

SaysAnnotations(as) ==
    LET keys == FoldLeft(LAMBDA ks, a : IF a.key \in Range(ks) THEN ks ELSE Append(ks, a.key), <<>>, as)
    IN  Each(keys, LAMBDA k : [key |-> k,
                               values |-> Each(SelectSeq(as, LAMBDA a : a.key = k), LAMBDA a : a.value)])

RECURSIVE SaysType(_)
SaysType(type) == [type EXCEPT !.annotations = SaysAnnotations(@),
                               !.key = Each(@, LAMBDA k : SaysType(k)),
                               !.value = Each(@, LAMBDA v : SaysType(v))]

\* An entry without a number follows the last one with a number.
Counted(given, i, first) ==
    LET set == {j \in 1 .. i : given[j] # NOTSET}
    IN  IF set = {} THEN first + i - 1
        ELSE LET j == CHOOSE j \in set : \A k \in set : k <= j IN given[j] + i - j

SaysFields(fs) ==
    [i \in DOMAIN fs |->
        [With(fs[i], {}) EXCEPT !.id = Counted(Each(fs, LAMBDA f : f.id), i, 1),
                                !.type = SaysType(@),
                                !.annotations = SaysAnnotations(@)]]

SaysValues(vs) ==
    [i \in DOMAIN vs |->
        [With(vs[i], {}) EXCEPT !.value = Counted(Each(vs, LAMBDA v : v.value), i, 0),
                                !.annotations = SaysAnnotations(@)]]

SaysFunction(f) ==
    [With(f, {}) EXCEPT !.result = SaysType(@), !.arguments = SaysFields(@),
                        !.throws = Each(SaysFields(@), LAMBDA x : [x EXCEPT !.requiredness = "optional"]),
                        !.annotations = SaysAnnotations(@)]

SaysDefinition(d) ==
    [kind |-> d.kind,
     is |-> CASE d.kind \in {"Const", "Typedef"} -> [d.is EXCEPT !.type = SaysType(@)]
              [] d.kind = "Enum" -> [d.is EXCEPT !.values = SaysValues(@)]
              [] d.kind = "Service" -> [d.is EXCEPT !.functions = Each(@, LAMBDA f : SaysFunction(f))]
              [] OTHER -> [d.is EXCEPT !.fields = SaysFields(@)],
     annotations |-> SaysAnnotations(d.annotations),
     expandable |-> d.kind = "Struct" /\ \E a \in Range(d.annotations) : a.key = <<"expandable">>,
     comments |-> Comments(d.before)]

-----------------------------------------------------------------------------
(* Writing                                                                  *)

Init ==
    /\ written = [headers |-> <<>>, definitions |-> <<>>]
    /\ text = <<>>
    /\ read = Empty

Put(pieces) ==
    /\ text' = text \o pieces
    /\ read' = parse(text')

Room == Len(written.headers) + Len(written.definitions) < MaxEntries

WriteHeader ==
    \E h \in Headers :
        /\ written.definitions = <<>>
        /\ Room
        /\ written' = [written EXCEPT !.headers = Append(@, h)]
        /\ Put(LayHeader(h))

WriteDefinition ==
    \E d \in Definitions :
        /\ Room
        /\ d \in Neighbours \/ Range(written.definitions) \subseteq Neighbours
        /\ written' = [written EXCEPT !.definitions = Append(@, d)]
        /\ Put(LayDefinition(d))

Next == WriteHeader \/ WriteDefinition

Spec == Init /\ [][Next]_vars

-----------------------------------------------------------------------------
(* Properties                                                               *)

HeadersOf(kind) == SelectSeq(written.headers, LAMBDA h : h.kind = kind)

\* The headers are read as they are written: every include once, the others
\* in their order.
HeadersAsWritten ==
    LET names == Each(HeadersOf("Include"), LAMBDA h : h.name)
    IN  /\ read # Refused
        /\ read.includes = FoldLeft(LAMBDA ns, n : IF n \in Range(ns) THEN ns ELSE Append(ns, n), <<>>, names)
        /\ read.cppIncludes = Each(HeadersOf("CppInclude"), LAMBDA h : h.name)
        /\ read.namespaces =
              Each(HeadersOf("Namespace"),
                   LAMBDA h : [Without(h, {"kind"}) EXCEPT !.annotations = SaysAnnotations(@)])

\* Whatever stands before and after it, and however it is laid out, each
\* definition is read as it is written, with the fields, numbers, values,
\* annotations and comments that are its own.
DefinitionsAsWritten ==
    /\ read # Refused
    /\ read.definitions = Each(written.definitions, LAMBDA d : SaysDefinition(d))

=============================================================================
