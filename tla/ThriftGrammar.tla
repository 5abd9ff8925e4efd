---------------------------- MODULE ThriftGrammar ----------------------------
(***************************************************************************)
(* The grammar of the IDL, rule by rule as the generated parser has it     *)
(* (parser/thrift.peg.go).  The file thrift.peg beside it differs: there   *)
(* a struct takes its annotations itself, and parseStruct would drop them. *)
(*                                                                         *)
(* A piece is a letter, or a word of letters that some rule or name needs, *)
(* a digit, a sign, "0x", "0o", "\n" for the end of a line, "dq", "sq" and *)
(* "bs" for the quotes and the backslash.                                  *)
(***************************************************************************)
EXTENDS Peg, FiniteSets

CONSTANT Letters       \* the pieces made of letters

DigitChars == <<"0", "1", "2", "3", "4", "5", "6", "7", "8", "9">>
Digits == {DigitChars[i] : i \in DOMAIN DigitChars}
Breaks == {"\n"}

-----------------------------------------------------------------------------
(* Characters and space                                                     *)

Letter == T(Letters)
LetterOrDigit == T(Letters \union Digits \union {"$"})
Digit == T(Digits)

Indent == T({" "})
CarriageReturnLineFeed == T(Breaks)
Space == Some(Alt(<<R("Indent"), R("CarriageReturnLineFeed")>>))
LongComment == Seq_(<<T({"/*"}), Many(Seq_(<<Not(T({"*/"})), Dot>>)), T({"*/"})>>)
LineComment == Seq_(<<T({"//"}), Many(Seq_(<<Not(T(Breaks)), Dot>>))>>)
UnixComment == Seq_(<<T({"#"}), Many(Seq_(<<Not(T(Breaks)), Dot>>))>>)
Comment == Alt(<<R("LongComment"), R("LineComment"), R("UnixComment")>>)
Skip == Many(Alt(<<R("Space"), R("Comment")>>))
SkipLine == Many(Alt(<<R("Indent"), R("Comment")>>))
ReservedComments == R("Skip")

ReservedEndLineComments == R("SkipLine")

-----------------------------------------------------------------------------
(* Words and signs                                                          *)

Indents == Many(R("Indent"))

\* A word ends where no letter or digit follows; a dot may.
WordEnd == Seq_(<<Not(R("LetterOrDigit")), Indents>>)
Word(w) == Seq_(<<R("Skip"), T({w}), WordEnd>>)
TypeWord(w) == Seq_(<<R("Skip"), Text(T({w})), WordEnd>>)
Sign(c) == Seq_(<<R("Skip"), T({c}), Indents>>)

BOOL == TypeWord("bool")
BYTE == TypeWord("byte")
I8 == TypeWord("i8")
I16 == TypeWord("i16")
I32 == TypeWord("i32")
I64 == TypeWord("i64")
DOUBLE == TypeWord("double")
STRING_ == TypeWord("string")
BINARY == TypeWord("binary")
CONST == Word("const")
ONEWAY == Word("oneway")
TYPEDEF == Word("typedef")
MAP == Word("map")
SET == Word("set")
LIST == Word("list")
VOID == Word("void")
THROWS == Word("throws")
EXCEPTION == Word("exception")
EXTENDS_ == Word("extends")
SERVICE == Word("service")
STRUCT == Word("struct")
UNION_ == Word("union")
ENUM == Word("enum")
INCLUDE == Word("include")
CPPINCLUDE == Word("cpp_include")
NAMESPACE == Word("namespace")
CPPTYPE == Word("cpp_type")
LBRK == Sign("[")
RBRK == Sign("]")
LWING == Sign("{")
RWING == Sign("}")
EQUAL == Sign("=")
LPOINT == Sign("<")
RPOINT == Sign(">")
COMMA == Sign(",")
LPAR == Sign("(")
RPAR == Sign(")")
COLON == Sign(":")

Identifier == Seq_(<<R("Skip"),
                     Text(Seq_(<<R("Letter"), Many(Alt(<<R("Letter"), R("Digit"), T({"."})>>))>>)),
                     Indents>>)
ListSeparator == Seq_(<<R("Skip"), T({",", ";"}), Indents>>)

EscapeLiteralChar == Seq_(<<T({"bs"}), T({"dq", "sq"})>>)
Quoted(q) == Seq_(<<R("Skip"), T({q}),
                    Text(Many(Alt(<<R("EscapeLiteralChar"), Seq_(<<Not(T({q})), Dot>>)>>))),
                    T({q}), Indents>>)
Literal == Alt(<<Quoted("dq"), Quoted("sq")>>)

Signed == Opt(T({"+", "-"}))
IntConstant ==
    Seq_(<<R("Skip"),
           Text(Alt(<<Seq_(<<T({"0x"}), Some(T(Digits \union Letters))>>),
                      Seq_(<<T({"0o"}), Some(R("Digit"))>>),
                      Seq_(<<Signed, Some(R("Digit"))>>)>>)),
           Indents>>)
Exponent == Seq_(<<T({"e", "E"}), R("IntConstant")>>)
DoubleConstant ==
    Seq_(<<R("Skip"),
           Text(Seq_(<<Signed,
                       Alt(<<Seq_(<<Many(R("Digit")), T({"."}), Some(R("Digit")), Opt(R("Exponent"))>>),
                             Seq_(<<Some(R("Digit")), R("Exponent")>>)>>)>>)),
           Indents>>)

-----------------------------------------------------------------------------
(* Values, types and annotations                                            *)

Separated(e) == Seq_(<<e, Opt(R("ListSeparator"))>>)

ConstList == Seq_(<<R("LBRK"), Many(Separated(R("ConstValue"))), R("RBRK")>>)
ConstMap == Seq_(<<R("LWING"),
                   Many(Separated(Seq_(<<R("ConstValue"), R("COLON"), R("ConstValue")>>))),
                   R("RWING")>>)

ConstValue == Alt(<<R("DoubleConstant"), R("IntConstant"), R("Literal"), R("Identifier"),
                    R("ConstList"), R("ConstMap")>>)

Annotation == Separated(Seq_(<<R("Identifier"), R("EQUAL"), R("Literal")>>))
Annotations == Seq_(<<R("LPAR"), Many(R("Annotation")), R("RPAR")>>)

CppType == Seq_(<<R("CPPTYPE"), R("Literal")>>)
ListType == Seq_(<<R("LIST"), R("LPOINT"), R("FieldType"), R("RPOINT"), Opt(R("CppType"))>>)
SetType == Seq_(<<R("SET"), Opt(R("CppType")), R("LPOINT"), R("FieldType"), R("RPOINT")>>)
MapType == Seq_(<<R("MAP"), Opt(R("CppType")), R("LPOINT"), R("FieldType"), R("COMMA"),
                  R("FieldType"), R("RPOINT")>>)
ContainerType == Alt(<<R("MapType"), R("SetType"), R("ListType")>>)
BaseType == Alt(<<R("BOOL"), R("BYTE"), R("I8"), R("I16"), R("I32"), R("I64"), R("DOUBLE"),
                  R("STRING_"), R("BINARY")>>)
\* Mutant: a name is tried before the words of the language.
NamesFirst == Seq_(<<Alt(<<R("Identifier"), R("ContainerType"), R("BaseType")>>),
                     Opt(R("Annotations"))>>)

FieldType == Seq_(<<Alt(<<R("ContainerType"), R("BaseType"), R("Identifier")>>),
                    Opt(R("Annotations"))>>)

-----------------------------------------------------------------------------
(* Definitions                                                              *)

FieldId == Seq_(<<R("Skip"), R("IntConstant"), R("COLON"), Indents>>)

\* Nothing says that the word ends here.
FieldReq == Seq_(<<R("Skip"), Text(T({"required", "optional"})), Indents>>)

Field == Seq_(<<R("ReservedComments"), R("Skip"), Opt(R("FieldId")), Opt(R("FieldReq")),
                R("FieldType"), R("Identifier"),
                Opt(Seq_(<<R("EQUAL"), R("ConstValue")>>)), Opt(R("Annotations")),
                Opt(R("ListSeparator")), R("ReservedEndLineComments"), R("SkipLine")>>)

Throws == Seq_(<<R("THROWS"), R("LPAR"), Many(R("Field")), R("RPAR")>>)
FunctionType == Alt(<<R("VOID"), R("FieldType")>>)
Function == Seq_(<<R("ReservedComments"), R("Skip"), Opt(R("ONEWAY")), R("FunctionType"),
                   R("Identifier"), R("LPAR"), Many(R("Field")), R("RPAR"), Opt(R("Throws")),
                   Opt(R("Annotations")), Opt(R("ListSeparator")), R("SkipLine")>>)

Struct == Seq_(<<R("STRUCT"), R("Identifier"), R("LWING"), Many(R("Field")), R("RWING")>>)
Union == Seq_(<<R("UNION_"), R("Identifier"), R("LWING"), Many(R("Field")), R("RWING")>>)
Exception == Seq_(<<R("EXCEPTION"), R("Identifier"), R("LWING"), Many(R("Field")), R("RWING")>>)
Service == Seq_(<<R("SERVICE"), R("Identifier"), Opt(Seq_(<<R("EXTENDS_"), R("Identifier")>>)),
                  R("LWING"), Many(R("Function")), R("RWING")>>)

EnumValue == Seq_(<<R("ReservedComments"), R("Identifier"),
                    Opt(Seq_(<<R("EQUAL"), R("IntConstant")>>)), Opt(R("Annotations")),
                    Opt(R("ListSeparator")), R("ReservedEndLineComments"), R("SkipLine")>>)
Enum == Seq_(<<R("ENUM"), R("Identifier"), R("LWING"), Many(EnumValue), R("RWING")>>)

Typedef == Seq_(<<R("TYPEDEF"), R("FieldType"), R("Identifier")>>)
Const == Seq_(<<R("CONST"), R("FieldType"), R("Identifier"), R("EQUAL"), R("ConstValue"),
                Opt(R("ListSeparator"))>>)

Definition ==
    Seq_(<<R("ReservedComments"), R("Skip"),
           Alt(<<R("Const"), R("Typedef"), R("Enum"), R("Service"), R("Struct"), R("Union"),
                 R("Exception")>>),
           Opt(R("Annotations")), R("SkipLine")>>)

NamespaceScope == Alt(<<Seq_(<<R("Skip"), Text(T({"*"})), Indents>>), R("Identifier")>>)
Namespace == Seq_(<<R("NAMESPACE"), R("NamespaceScope"), R("Identifier"), Opt(R("Annotations"))>>)
CppInclude == Seq_(<<R("CPPINCLUDE"), R("Literal")>>)
Include == Seq_(<<R("INCLUDE"), R("Literal")>>)
Header == Seq_(<<R("Skip"), Alt(<<R("Include"), R("CppInclude"), R("Namespace")>>), R("SkipLine")>>)
Document == Seq_(<<Many(R("Header")), Many(R("Definition")), R("Skip"), Not(Dot)>>)

Rules ==
    [Document |-> Document, Header |-> Header, Include |-> Include, CppInclude |->
     CppInclude, Namespace |-> Namespace, NamespaceScope |-> NamespaceScope, Definition |->
     Definition, Const |-> Const, Typedef |-> Typedef, Enum |-> Enum, Service |-> Service,
     Struct |-> Struct, Union |-> Union, Exception |-> Exception, Field |-> Field, FieldId
     |-> FieldId, FieldReq |-> FieldReq, Function |-> Function, FunctionType |->
     FunctionType, Throws |-> Throws, FieldType |-> FieldType, BaseType |-> BaseType,
     ContainerType |-> ContainerType, MapType |-> MapType, SetType |-> SetType, ListType |->
     ListType, CppType |-> CppType, ConstValue |-> ConstValue, IntConstant |-> IntConstant,
     DoubleConstant |-> DoubleConstant, Exponent |-> Exponent, Annotations |-> Annotations,
     Annotation |-> Annotation, ConstList |-> ConstList, ConstMap |-> ConstMap,
     EscapeLiteralChar |-> EscapeLiteralChar, Literal |-> Literal, Identifier |->
     Identifier, ListSeparator |-> ListSeparator, Letter |-> Letter, LetterOrDigit |->
     LetterOrDigit, Digit |-> Digit, ReservedComments |-> ReservedComments,
     ReservedEndLineComments |-> ReservedEndLineComments, Skip |-> Skip, SkipLine |->
     SkipLine, Space |-> Space, Indent |-> Indent, CarriageReturnLineFeed |->
     CarriageReturnLineFeed, Comment |-> Comment, LongComment |-> LongComment, LineComment
     |-> LineComment, UnixComment |-> UnixComment, BOOL |-> BOOL, BYTE |-> BYTE, I8 |-> I8,
     I16 |-> I16, I32 |-> I32, I64 |-> I64, DOUBLE |-> DOUBLE, STRING_ |-> STRING_, BINARY |->
     BINARY, CONST |-> CONST, ONEWAY |-> ONEWAY, TYPEDEF |-> TYPEDEF, MAP |-> MAP, SET |->
     SET, LIST |-> LIST, VOID |-> VOID, THROWS |-> THROWS, EXCEPTION |-> EXCEPTION, EXTENDS_
     |-> EXTENDS_, SERVICE |-> SERVICE, STRUCT |-> STRUCT, UNION_ |-> UNION_, ENUM |-> ENUM,
     INCLUDE |-> INCLUDE, CPPINCLUDE |-> CPPINCLUDE, NAMESPACE |-> NAMESPACE, CPPTYPE |->
     CPPTYPE, LBRK |-> LBRK, RBRK |-> RBRK, LWING |-> LWING, RWING |-> RWING, EQUAL |->
     EQUAL, LPOINT |-> LPOINT, RPOINT |-> RPOINT, COMMA |-> COMMA, LPAR |-> LPAR, RPAR |->
     RPAR, COLON |-> COLON]

=============================================================================
