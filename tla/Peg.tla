-------------------------------- MODULE Peg --------------------------------
(***************************************************************************)
(* The engine of the generated parser (parser/thrift.peg.go): parsing      *)
(* expressions as data and what the generated function of a rule does with *)
(* them.  An alternative is final once it has matched, a repetition takes  *)
(* all it can, and a rule that fails leaves position and tokens where they *)
(* were.  The text is a sequence of pieces: a word, a digit, a sign.       *)
(***************************************************************************)
EXTENDS Integers, Sequences

R(name) == [op |-> "rule", of |-> name]
Seq_(es) == [op |-> "seq", of |-> es]
Alt(es) == [op |-> "alt", of |-> es]
Many(e) == [op |-> "many", of |-> e]
Not(e) == [op |-> "not", of |-> e]
Text(e) == [op |-> "text", of |-> e]
T(pieces) == [op |-> "piece", of |-> pieces]
Dot == [op |-> "any"]

Some(e) == Seq_(<<e, Many(e)>>)
Opt(e) == Alt(<<e, Seq_(<<>>)>>)

Fail == [at |-> 0, up |-> <<>>]

\* add, and what AST makes of the tokens: one that is empty has no node.
Node(rule, from, m) ==
    IF m.at = from THEN m
    ELSE [at |-> m.at, up |-> <<[rule |-> rule, begin |-> from, end |-> m.at - 1, up |-> m.up]>>]

\* The match of e in text t from position p, with the expressions g of the
\* rules: the position after it (0 when it fails) and the nodes in order.
RECURSIVE Match(_, _, _, _), MatchSeq(_, _, _, _), MatchAlt(_, _, _, _)

MatchSeq(g, es, t, p) ==
    IF es = <<>> THEN [at |-> p, up |-> <<>>]
    ELSE LET first == Match(g, Head(es), t, p)
             rest == MatchSeq(g, Tail(es), t, first.at)
         IN  IF first.at = 0 THEN Fail
             ELSE IF rest.at = 0 THEN Fail
             ELSE [at |-> rest.at, up |-> first.up \o rest.up]

MatchAlt(g, es, t, p) ==
    IF es = <<>> THEN Fail
    ELSE LET first == Match(g, Head(es), t, p)
         IN  IF first.at # 0 THEN first ELSE MatchAlt(g, Tail(es), t, p)

Match(g, e, t, p) ==
    CASE e.op = "piece" -> IF p <= Len(t) /\ t[p] \in e.of THEN [at |-> p + 1, up |-> <<>>] ELSE Fail
      [] e.op = "any" -> IF p <= Len(t) THEN [at |-> p + 1, up |-> <<>>] ELSE Fail
      [] e.op = "seq" -> MatchSeq(g, e.of, t, p)
      [] e.op = "alt" -> MatchAlt(g, e.of, t, p)
      [] e.op = "not" -> IF Match(g, e.of, t, p).at = 0 THEN [at |-> p, up |-> <<>>] ELSE Fail
      [] e.op = "many" -> LET first == Match(g, e.of, t, p)
                          IN  IF first.at \in {0, p} THEN [at |-> p, up |-> <<>>]
                              ELSE LET rest == Match(g, e, t, first.at)
                                   IN  [at |-> rest.at, up |-> first.up \o rest.up]
      [] e.op \in {"rule", "text"} ->
            LET m == Match(g, IF e.op = "rule" THEN g[e.of] ELSE e.of, t, p)
            IN  IF m.at = 0 THEN Fail
                ELSE Node(IF e.op = "rule" THEN e.of ELSE "PegText", p, m)

=============================================================================
