-------------------------------- MODULE Naming --------------------------------
(***************************************************************************)
(* How a name of an IDL becomes a Go identifier in the default style,      *)
(* without initialisms.  Names are sequences of tokens, such as            *)
(* <<"foo", "_", "args">>; the letter case of a token is what Upper and    *)
(* Lower say, and tokens they leave out have no lower or upper case form.  *)
(***************************************************************************)
EXTENDS Renaming, SequencesExt

CONSTANTS Upper, Lower  \* map tokens to their form in the other case

NS == INSTANCE Namespace WITH Rename <- UnderscoreSuffix

\* Identify makes each word start in upper case; where a word is empty, an
\* underscore stays.
StartsWord(raw, i) == i = 1 \/ raw[i - 1] = "_"

Piece(raw, i) ==
  IF raw[i] = "_" THEN IF StartsWord(raw, i) THEN <<"_">> ELSE <<>>
  ELSE IF StartsWord(raw, i) /\ raw[i] \in DOMAIN Upper THEN <<Upper[raw[i]]>>
  ELSE <<raw[i]>>

Identify(raw) ==
  FlattenSeq([i \in DOMAIN raw |-> Piece(raw, i)])
    \o (IF raw # <<>> /\ Last(raw) = "_" THEN <<"_">> ELSE <<>>)

\* Scope.identify, with the compatible_names option or without it.
Identified(raw, compatible) ==
  LET go == Identify(raw)
      clashes == Head(go) = "New" \/ Last(go) \in {"Args", "Result"}
  IN  IF compatible /\ clashes THEN go \o <<"_">> ELSE go

LowerFirstRune(go) ==
  IF Head(go) \in DOMAIN Lower THEN <<Lower[Head(go)]>> \o Tail(go) ELSE go

\* The ID of a name of the IDL; the generator's own IDs have another prefix.
Plain(raw) == <<"", raw>>
===============================================================================
