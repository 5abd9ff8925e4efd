---------------------------- MODULE MCFileManager ----------------------------
(***************************************************************************)
(* Small instances of FileManager.  A fed name is a model value, or a pair *)
(* <<n, k>> when it has the form of a renamed n.                           *)
(***************************************************************************)
EXTENDS FileManager, TLC

CONSTANTS a, b, x, y, z, p

MCContents == {x, y, z}
MCPoints == {p}
\* x has the insertion point; y and z have none.
MCMarkers == [c \in MCContents |-> IF c = x THEN {p} ELSE {}]

\* Two source names that no renaming can produce.
PlainNames == {a, b}

\* The plain names are interchangeable, and so are the texts without markers.
PlainSymmetry == Permutations({a, b}) \cup Permutations({y, z})
=============================================================================
