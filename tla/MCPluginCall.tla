----------------------------- MODULE MCPluginCall ----------------------------
(***************************************************************************)
(* Names main, x and y, and one with a directory; two directories below    *)
(* the working directory, one of them searched because of an option.  A    *)
(* file may be spelled with an absolute path.                              *)
(***************************************************************************)
EXTENDS PluginCall

MCDirs  == {".", "d", "i"}
MCNames == {"main", "x", "y", "d/x", "/y"}
MCPaths == {"main", "x", "y", "d/x", "d/y", "i/y", "other"}

MCJoin == [p \in MCDirs \X MCNames |->
  CASE p[1] = "."                    -> p[2]
    [] p = <<"d", "x">>              -> "d/x"
    [] p = <<"d", "y">>              -> "d/y"
    [] p = <<"i", "y">>              -> "i/y"
    [] OTHER                         -> "other"]
MCIncludeDirs == <<"i">>
MCSpellings == MCPaths \union {"/y"}
MCNorm == [s \in MCSpellings |-> IF s = "/y" THEN "y" ELSE s]
MCDirOf == [p \in MCPaths |->
  IF p \in {"d/x", "d/y"} THEN "d" ELSE IF p = "i/y" THEN "i" ELSE "."]

Rel == MCNames \ {"/y"}
Lists == {<<>>} \union [1 .. 1 -> Rel] \union [1 .. 2 -> Rel]

\* Up to two includes in the main IDL and in x, up to one in the others, and
\* one y or two.
MCSources ==
  { [p \in {"main", "x", "y", "/y"} |-> IF p = "main" THEN m ELSE <<>>] : m \in [1 .. 2 -> MCNames] } \union
  { [p \in {"main", "/y"} |-> IF p = "main" THEN <<"/y">> ELSE <<>>] } \union
  { [p \in {"main", "x", "y"} |-> IF p = "main" THEN m ELSE IF p = "x" THEN x ELSE y] :
      m \in Lists, x \in Lists \union {Broken}, y \in {<<>>, <<"x">>, <<"main">>, <<"y">>} } \union
  { [p \in {"main", "d/x", "d/y", "i/y"} |->
       CASE p = "main" -> m [] p = "d/x" -> x [] p = "d/y" -> <<"d/x">> [] OTHER -> y] :
      m \in Lists, x \in Lists, y \in {<<>>, Broken} }
=============================================================================
