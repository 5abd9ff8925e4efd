------------------------------- MODULE MCTrimmer ------------------------------
(***************************************************************************)
(* A main IDL "r" that includes "a" and "b", and "a" may include "b".  One *)
(* family of inputs varies the types, another the services.                *)
(***************************************************************************)
EXTENDS Trimmer, TLC

T(d, k, n) == [idl |-> d, kind |-> k, name |-> n]
St(d, n)   == T(d, "struct", n)
Td(d)      == T(d, "typedef", "T")
Opts(ms, force, go) == [methods |-> ms, force |-> force, goNames |-> go]

Doc(inc, structs, pres, t, consts, enums, order, services) ==
  [includes |-> inc, structs |-> structs, preserved |-> pres,
   typedefs |-> IF t = <<T("none", "none", "none")>> THEN <<>> ELSE ("T" :> t),
   consts |-> consts, enums |-> enums, order |-> order, services |-> services]

OneService(types) ==
  ("S" :> [fns |-> ("f" :> types), base |-> NoBase])

XY(x, y) == ("X" :> x) @@ ("Y" :> y)
None == <<T("none", "none", "none")>>

\* Types: of the field of structs, of aliases, constants and a function.
TypeInputs ==
  { [idl |-> ("r" :> Doc(<<"a", "b">>, ("X" :> rx), rp, rt, rc, {}, <<"S">>, OneService(f)))
          @@ ("a" :> Doc(ai, XY(ax, <<St("", "X")>>), {}, at, <<>>, ae, <<>>, <<>>))
          @@ ("b" :> Doc(<<>>, XY(<<>>, <<St("", "X")>>), bp, None, <<>>, {}, <<>>, <<>>)),
     opts |-> Opts({}, force, FALSE)] :
      rx \in {<<>>, <<St("", "X"), St("a", "X")>>, <<St("b", "Y")>>},
      rp \in {{}, {"X"}},
      rt \in {None, <<St("a", "X")>>, <<St("", "X"), St("b", "X")>>},
      rc \in {<<>>, <<St("b", "X")>>},
      ai \in {<<>>, <<"b">>},
      ax \in {<<>>, <<St("", "Y")>>, <<St("b", "Y")>>},
      at \in {None, <<St("", "Y")>>, <<St("b", "Y")>>},
      ae \in {{}, {"E"}},
      bp \in {{}, {"Y"}},
      f \in {<<>>, <<St("", "X")>>, <<Td("")>>, <<Td("a")>>, <<St("b", "X"), T("a", "enum", "E")>>},
      force \in BOOLEAN }

Base0(d, n) == [idl |-> d, name |-> n]
Method(s, n) == [svc |-> s, name |-> n, any |-> n = ".*"]
Fs(d, s) == IF s = "f" THEN ("f" :> <<St(d, "X")>>) ELSE
            IF s = "fx" THEN ("fx" :> <<St(d, "Y")>>) ELSE
            IF s = "both" THEN ("f" :> <<St(d, "X")>>) @@ ("fx" :> <<St(d, "Y")>>) ELSE <<>>

\* Services: S and U in the main IDL, B and C in a, A in b.
ServiceInputs ==
  { [idl |-> ("r" :> Doc(<<"a", "b">>, XY(<<>>, <<>>), {}, None, <<>>, {}, order,
                         ("S" :> [fns |-> Fs("", sf), base |-> sb])
                           @@ ("U" :> [fns |-> Fs("a", uf), base |-> ub])))
          @@ ("a" :> Doc(<<"b">>, XY(<<>>, <<>>), {}, None, <<>>, {}, <<"B", "C">>,
                         ("B" :> [fns |-> Fs("", bf), base |-> bb])
                           @@ ("C" :> [fns |-> Fs("", "fx"), base |-> NoBase])))
          @@ ("b" :> Doc(<<>>, XY(<<>>, <<>>), {}, None, <<>>, {}, <<"A">>,
                         ("A" :> [fns |-> Fs("", af), base |-> NoBase]))),
     opts |-> Opts(ms, FALSE, go)] :
      order \in {<<"S", "U">>, <<"U", "S">>},
      sf \in {"none", "fx"}, sb \in {Base0("", "U"), Base0("a", "B"), NoBase},
      uf \in {"none", "both"}, ub \in {Base0("a", "B"), Base0("b", "A"), NoBase},
      bf \in {"none", "f"}, bb \in {NoBase, Base0("", "C"), Base0("b", "A")},
      af \in {"f", "both"},
      ms \in {{}, {Method("S", "f")}, {Method("", "f")}, {Method("U", ".*")},
              {Method("S", "Fx"), Method("U", "f")}},
      go \in BOOLEAN }

MCInputs == {i \in TypeInputs : IsAST(i.idl)} \union ServiceInputs
MCNames == {"f", "fx", "F", "Fx"}
MCPartOf == [p \in (MCNames \union {".*"}) \X MCNames |-> p[1] = p[2] \/ p \in {<<"f", "fx">>, <<"F", "Fx">>}]
MCGoName == [n \in MCNames |-> IF n = "f" THEN "F" ELSE IF n = "fx" THEN "Fx" ELSE n]
=============================================================================
