----------------------------- MODULE IdlParser -----------------------------
(***************************************************************************)
(* parser/parser.go, from the tree of the generated parser to the syntax   *)
(* tree of an IDL.  A list of nodes stands for a node and those after it   *)
(* (next), up for its children.                                            *)
(***************************************************************************)
EXTENDS ThriftGrammar, Functions, SequencesExt

NOTSET == -999999

Refused == [refused |-> TRUE]

Of(rule, nodes) == SelectSeq(nodes, LAMBDA n : n.rule = rule)
Has(rule, nodes) == Of(rule, nodes) # <<>>
One(rule, nodes) == Of(rule, nodes)[1]
Each(nodes, F(_)) == [i \in DOMAIN nodes |-> F(nodes[i])]

\* The nodes from the first of a rule on.
RECURSIVE From(_, _)
From(rule, nodes) == IF Head(nodes).rule = rule THEN nodes ELSE From(rule, Tail(nodes))

-----------------------------------------------------------------------------
(* Texts and numbers                                                        *)

\* A backslash before the quote that opened the text is dropped.
RECURSIVE Unescaped(_, _)
Unescaped(s, quote) ==
    IF Len(s) < 2 THEN s
    ELSE IF s[1] = "bs" /\ s[2] = "bs" THEN SubSeq(s, 1, 2) \o Unescaped(SubSeq(s, 3, Len(s)), quote)
    ELSE IF s[1] = "bs" /\ s[2] = quote THEN <<quote>> \o Unescaped(SubSeq(s, 3, Len(s)), quote)
    ELSE <<s[1]>> \o Unescaped(Tail(s), quote)

\* The first text in the nodes, in those below a node before the node itself
\* and in those after it when it has none.
RECURSIVE pegText(_, _)
pegText(nodes, t) ==
    IF nodes = <<>> THEN <<>>
    ELSE LET n == Head(nodes)
             below == pegText(n.up, t)
         IN  IF below # <<>> THEN below
             ELSE IF n.rule = "PegText"
             THEN Unescaped(SubSeq(t, n.begin, n.end), IF n.begin > 1 THEN t[n.begin - 1] ELSE "\n")
             ELSE pegText(Tail(nodes), t)

TextOf(rule, nodes, t) == pegText(From(rule, nodes), t)

\* The letters of a hexadecimal number are pieces of their own; every other
\* piece is a digit of no base.
Numerals == [i \in DOMAIN DigitChars |-> {DigitChars[i]}]
                \o <<{"a", "A"}, {"b", "B"}, {"c", "C"}, {"d", "D"}, {"e", "E"}, {"f", "F"}>>
ValueOf(d) == Cardinality({v \in 1 .. 16 : \A i \in 1 .. v : d \notin Numerals[i]})

IllFormed == -888888
Number(s, base) ==
    IF s # <<>> /\ \A d \in Range(s) : ValueOf(d) < base
    THEN FoldLeft(LAMBDA n, d : base * n + ValueOf(d), 0, s) ELSE IllFormed

Unsigned(s) == IF s[1] \in {"+", "-"} THEN Tail(s) ELSE s
WithSign(s, n) == IF s[1] = "-" /\ n # IllFormed THEN 0 - n ELSE n
OrZero(n) == IF n = IllFormed THEN 0 ELSE n

\* strconv.ParseInt(s, 0, 64): a 0 before other digits makes a number octal.
\* Numbers that need more than 64 bits are left out.
ParseInt(s) ==
    LET u == Unsigned(s)
    IN  WithSign(s, CASE u[1] = "0x" -> Number(Tail(u), 16)
                      [] u[1] = "0o" \/ (u[1] = "0" /\ Len(u) > 1) -> Number(Tail(u), 8)
                      [] OTHER -> Number(u, 10))

\* strconv.Atoi knows base 10 only; parseField ignores its error, takes the 0.
Atoi(s) == OrZero(WithSign(s, Number(Unsigned(s), 10)))

\* parseReservedComments and parseReservedEndLineComments: the comments below
\* the node, each with "//" for its "#".
CommentText(n, t) ==
    LET text == SubSeq(t, n.up[1].begin, n.up[1].end)
    IN  IF text[1] = "#" THEN <<"//">> \o Tail(text) ELSE text

parseReservedComments(n, t) ==
    Each(Of("Comment", n.up[1].up), LAMBDA c : CommentText(c, t))

CommentsAt(rule, nodes, t) ==
    IF Has(rule, nodes) THEN parseReservedComments(One(rule, nodes), t) ELSE <<>>

-----------------------------------------------------------------------------
(* Annotations, types and values                                            *)

parseAnnotation(n, t) ==
    [key |-> TextOf("Identifier", n.up, t), value |-> TextOf("Literal", n.up, t)]

\* Annotations.Append: the values of one key are kept together.
Append_(as, a) ==
    IF \E i \in DOMAIN as : as[i].key = a.key
    THEN [i \in DOMAIN as |->
            IF as[i].key = a.key THEN [as[i] EXCEPT !.values = Append(@, a.value)] ELSE as[i]]
    ELSE Append(as, [key |-> a.key, values |-> <<a.value>>])

parseAnnotations(nodes, t) ==
    IF Has("Annotations", nodes)
    THEN FoldLeft(Append_, <<>>,
                  Each(Of("Annotation", One("Annotations", nodes).up), LAMBDA n : parseAnnotation(n, t)))
    ELSE <<>>

NoType == <<>>
CppTypeOf(nodes, t) == IF Has("CppType", nodes) THEN pegText(One("CppType", nodes).up, t) ELSE <<>>

RECURSIVE parseFieldType(_, _)
parseContainerType(n, t) ==
    LET c == n.up[1]
        types == Each(Of("FieldType", c.up), LAMBDA f : parseFieldType(f, t))
    IN  [name |-> <<CASE c.rule = "MapType" -> "map" [] c.rule = "SetType" -> "set"
                      [] c.rule = "ListType" -> "list">>,
         key |-> IF c.rule = "MapType" THEN <<types[1]>> ELSE NoType,
         value |-> <<types[Len(types)]>>,
         cpp |-> CppTypeOf(c.up, t), annotations |-> <<>>]
parseFieldType(n, t) ==
    LET type == IF n.up[1].rule = "ContainerType" THEN parseContainerType(n.up[1], t)
                ELSE [name |-> pegText(n.up, t), key |-> NoType, value |-> NoType,
                      cpp |-> <<>>, annotations |-> <<>>]
    IN  [type EXCEPT !.annotations = parseAnnotations(n.up, t)]

TypeAt(nodes, t) == parseFieldType(One("FieldType", nodes), t)

\* A value is a pair of its type and what it is.
RECURSIVE parseConstValue(_, _)
parseConstValue(n, t) ==
    LET v == n.up[1]
        parts == Each(Of("ConstValue", v.up), LAMBDA c : parseConstValue(c, t))
        text == pegText(n.up, t)
    IN  CASE v.rule = "DoubleConstant" -> <<"Double", text>>
          [] v.rule = "IntConstant" -> <<"Int", ParseInt(text)>>
          [] v.rule = "Literal" -> <<"Literal", text>>
          [] v.rule = "Identifier" -> <<"Identifier", text>>
          [] v.rule = "ConstList" -> <<"List", parts>>
          [] v.rule = "ConstMap" ->
                <<"Map", [i \in 1 .. Len(parts) \div 2 |-> <<parts[2 * i - 1], parts[2 * i]>>]>>

\* parseConstValue fails, and parse with it, at a number that is none.
RECURSIVE NoNumber(_, _)
NoNumber(nodes, t) ==
    \E n \in Range(nodes) :
        \/ /\ n.rule = "ConstValue" /\ n.up[1].rule = "IntConstant"
           /\ ParseInt(pegText(n.up, t)) = IllFormed
        \/ NoNumber(n.up, t)

ValueAt(nodes, t) ==
    IF Has("ConstValue", nodes) THEN <<parseConstValue(One("ConstValue", nodes), t)>> ELSE <<>>

-----------------------------------------------------------------------------
(* Fields, functions and definitions                                        *)

parseField(n, t) ==
    LET before == CommentsAt("ReservedComments", n.up, t)
    IN  [id |-> IF Has("FieldId", n.up) THEN Atoi(TextOf("FieldId", n.up, t)) ELSE NOTSET,
         requiredness |-> IF Has("FieldReq", n.up) THEN TextOf("FieldReq", n.up, t)[1] ELSE "default",
         type |-> TypeAt(n.up, t),
         name |-> TextOf("Identifier", n.up, t),
         default |-> ValueAt(n.up, t),
         annotations |-> parseAnnotations(n.up, t),
         comments |-> IF before # <<>> THEN before
                      ELSE CommentsAt("ReservedEndLineComments", n.up, t)]

\* A field without an id gets the one after the field before it.
addField(fields, f) ==
    Append(fields, IF f.id # NOTSET THEN f
                   ELSE [f EXCEPT !.id = IF fields = <<>> THEN 1 ELSE Last(fields).id + 1])

FieldsOf(nodes, t) ==
    FoldLeft(addField, <<>>, Each(Of("Field", nodes), LAMBDA n : parseField(n, t)))

parseThrows(nodes, t) ==
    IF Has("Throws", nodes)
    THEN Each(FieldsOf(One("Throws", nodes).up, t), LAMBDA f : [f EXCEPT !.requiredness = "optional"])
    ELSE <<>>

VoidType == [name |-> <<"void">>, key |-> NoType, value |-> NoType, cpp |-> <<>>, annotations |-> <<>>]

parseFunction(n, t) ==
    LET result == One("FunctionType", n.up).up
    IN  [oneway |-> Has("ONEWAY", n.up),
         result |-> IF Has("VOID", result) THEN VoidType ELSE TypeAt(result, t),
         name |-> TextOf("Identifier", n.up, t),
         arguments |-> FieldsOf(n.up, t),
         throws |-> parseThrows(n.up, t),
         annotations |-> parseAnnotations(n.up, t),
         comments |-> CommentsAt("ReservedComments", n.up, t)]

parseService(nodes, t) ==
    [name |-> TextOf("Identifier", nodes, t),
     extends |-> IF Has("EXTENDS_", nodes) THEN TextOf("EXTENDS_", nodes, t) ELSE <<>>,
     functions |-> Each(Of("Function", nodes), LAMBDA n : parseFunction(n, t))]

\* parseStruct, parseUnion and parseException.
parseStructLike(nodes, t) == [name |-> TextOf("Identifier", nodes, t), fields |-> FieldsOf(nodes, t)]

\* What belongs to one value of an enum: from its name to the next name.
ValueNodes(nodes, i) ==
    LET names == {j \in i + 1 .. Len(nodes) : nodes[j].rule \in {"Identifier", "ReservedComments", "RWING"}}
    IN  SubSeq(nodes, i, (CHOOSE j \in names : \A k \in names : j <= k) - 1)

\* A value without a number gets the one after the value before it.
addEnumValue(values, v) ==
    Append(values, IF v.value # NOTSET THEN v
                   ELSE [v EXCEPT !.value = IF values = <<>> THEN 0 ELSE Last(values).value + 1])

parseEnum(nodes, t) ==
    LET named == {i \in DOMAIN nodes : i > 2 /\ nodes[i].rule = "Identifier"}
        value(i) ==
            LET own == ValueNodes(nodes, i)
                before == IF nodes[i - 1].rule = "ReservedComments"
                          THEN parseReservedComments(nodes[i - 1], t) ELSE <<>>
            IN  [name |-> pegText(<<nodes[i]>>, t),
                 value |-> IF Has("EQUAL", own) THEN OrZero(ParseInt(TextOf("IntConstant", own, t)))
                          ELSE NOTSET,
                 annotations |-> parseAnnotations(own, t),
                 comments |-> IF before # <<>> THEN before
                              ELSE CommentsAt("ReservedEndLineComments", own, t)]
    IN  [name |-> TextOf("Identifier", nodes, t),
         values |-> FoldLeft(addEnumValue, <<>>,
                             Each(SetToSortSeq(named, <), value))]

parseTypedef(nodes, t) == [name |-> TextOf("Identifier", nodes, t), type |-> TypeAt(nodes, t)]

parseConst(nodes, t) ==
    [name |-> TextOf("Identifier", nodes, t), type |-> TypeAt(nodes, t), value |-> ValueAt(nodes, t)[1]]

Kinds == {"Const", "Typedef", "Enum", "Service", "Struct", "Union", "Exception"}

parseDefinition(n, t) ==
    LET d == SelectSeq(n.up, LAMBDA c : c.rule \in Kinds)[1]
    IN  [kind |-> d.rule,
         is |-> CASE d.rule = "Const" -> parseConst(d.up, t)
                  [] d.rule = "Typedef" -> parseTypedef(d.up, t)
                  [] d.rule = "Enum" -> parseEnum(d.up, t)
                  [] d.rule = "Service" -> parseService(d.up, t)
                  [] OTHER -> parseStructLike(d.up, t),
         annotations |-> parseAnnotations(n.up, t),
         expandable |-> d.rule = "Struct" /\ \E a \in Range(parseAnnotations(n.up, t)) : a.key = <<"expandable">>,
         comments |-> CommentsAt("ReservedComments", n.up, t)]

parseNamespace(n, t) ==
    [language |-> pegText(One("NamespaceScope", n.up).up, t),
     name |-> TextOf("Identifier", n.up, t),
     annotations |-> parseAnnotations(n.up, t)]

\* Mutant: an include is listed as often as it is written.
parseIncludeAgain(includes, n, t) == Append(includes, pegText(n.up, t))

\* An include that is there already, or has no name, adds nothing.
parseInclude(includes, n, t) ==
    LET name == pegText(n.up, t)
    IN  IF name = <<>> \/ name \in Range(includes) THEN includes ELSE Append(includes, name)

parseHeader(ast, n, t) ==
    LET h == SelectSeq(n.up, LAMBDA c : c.rule \in {"Include", "CppInclude", "Namespace"})[1]
    IN  CASE h.rule = "Include" -> [ast EXCEPT !.includes = parseInclude(@, h, t)]
          [] h.rule = "CppInclude" -> [ast EXCEPT !.cppIncludes = Append(@, pegText(h.up, t))]
          [] h.rule = "Namespace" -> [ast EXCEPT !.namespaces = Append(@, parseNamespace(h, t))]

Empty == [includes |-> <<>>, cppIncludes |-> <<>>, namespaces |-> <<>>, definitions |-> <<>>]

\* parseString: the whole text is a document, or it is refused; so is one with
\* nothing in it, which leaves no node for the document, and one with a constant
\* that is not a number.
parse(t) ==
    LET m == Match(Rules, R("Document"), t, 1)
        root == m.up[1].up
        headed == FoldLeft(LAMBDA ast, n : parseHeader(ast, n, t), Empty, Of("Header", root))
    IN  IF m.up = <<>> THEN Refused
        ELSE IF NoNumber(root, t) THEN Refused
        ELSE [headed EXCEPT !.definitions =
                 Each(Of("Definition", root), LAMBDA n : parseDefinition(n, t))]

=============================================================================
