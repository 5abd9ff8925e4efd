---------------------------- MODULE GeneratorProofs --------------------------
(***************************************************************************)
(* What holds of Generator for all backends, commands and numbers of       *)
(* calls: what is persisted for a target was made by exactly those the     *)
(* command names, in order and with their own options, although the list   *)
(* of plugins is never emptied.  The argument: the plugins of the current  *)
(* command are always the last of the list, and the loop over the list     *)
(* can only reach its end when there is nothing before them.               *)
(***************************************************************************)
EXTENDS Generator, WellFoundedInduction, TLAPS

-----------------------------------------------------------------------------
(***************************************************************************)
(* Operators.                                                              *)
(***************************************************************************)

LEMMA Elements ==
  ASSUME NEW S, NEW s \in Seq(S)
  PROVE  /\ Len(s) \in Nat /\ DOMAIN s = 1..Len(s)
         /\ \A i \in 1..Len(s) : s[i] \in S
OBVIOUS

LEMMA Joined ==
  \A S : \A x, y, z \in Seq(S) :
    /\ x \o y \o z \in Seq(S)
    /\ Len(x \o y \o z) = Len(x) + Len(y) + Len(z)
    /\ \A i \in 1..Len(x) : (x \o y \o z)[i] = x[i]
    /\ \A i \in 1..Len(y) : (x \o y \o z)[Len(x) + i] = y[i]
    /\ \A i \in 1..Len(z) : (x \o y \o z)[Len(x) + Len(y) + i] = z[i]
<1> TAKE S
<1> TAKE x, y, z \in Seq(S)
<1>1. /\ x \o y \in Seq(S) /\ Len(x \o y) = Len(x) + Len(y)
      /\ \A i \in 1..Len(x) : (x \o y)[i] = x[i]
      /\ \A i \in 1..Len(y) : (x \o y)[Len(x) + i] = y[i]
  OBVIOUS
<1> DEFINE xy == x \o y
<1>2. xy \in Seq(S)  BY <1>1
<1> HIDE DEF xy
<1>3. /\ xy \o z \in Seq(S) /\ Len(xy \o z) = Len(xy) + Len(z)
      /\ \A i \in 1..Len(xy) : (xy \o z)[i] = xy[i]
      /\ \A i \in 1..Len(z) : (xy \o z)[Len(xy) + i] = z[i]
  BY <1>2
<1> QED  BY <1>1, <1>3 DEF xy

LEMMA Front ==
  ASSUME NEW S, NEW s \in Seq(S), NEW k \in 0..Len(s)
  PROVE  /\ SubSeq(s, 1, k) \in Seq(S) /\ Len(SubSeq(s, 1, k)) = k
         /\ \A i \in 1..k : SubSeq(s, 1, k)[i] = s[i]
OBVIOUS

\* Two sequences that agree in the first place, the next m and the next n.
LEMMA Pieces ==
  ASSUME NEW S, NEW a \in Seq(S), NEW b \in Seq(S), NEW m \in Nat, NEW n \in Nat,
         Len(a) = 1 + m + n, Len(b) = 1 + m + n, a[1] = b[1],
         \A i \in 1..m : a[1 + i] = b[1 + i],
         \A i \in 1..n : a[1 + m + i] = b[1 + m + i]
  PROVE  a = b
<1>1. ASSUME NEW i \in 1..(1 + m + n)  PROVE a[i] = b[i]
  <2>1. CASE i = 1  BY <2>1
  <2>2. CASE i \in 2..(1 + m)
    <3>1. i - 1 \in 1..m /\ 1 + (i - 1) = i  BY <2>2
    <3> QED  BY <3>1
  <2>3. CASE i \in (2 + m)..(1 + m + n)
    <3>1. i - 1 - m \in 1..n /\ 1 + m + (i - 1 - m) = i  BY <2>3
    <3> QED  BY <3>1
  <2> QED  BY <2>1, <2>2, <2>3
<1> QED  BY <1>1

\* A backend that is found has the name that was looked for.
LEMMA FoundByName ==
  ASSUME NEW bs \in Seq(Backends), NEW name, GetBackend(bs, name) # None
  PROVE  GetBackend(bs, name) \in Backends /\ Name[GetBackend(bs, name)] = name
<1> DEFINE T == {i \in DOMAIN bs : Name[bs[i]] = name}
           R == OpToRel(<, Nat)
<1>1. T # {} /\ T \subseteq Nat  BY DEF GetBackend
<1>2. \A x, y \in Nat : y < x => <<y, x>> \in R
  BY DEF OpToRel
<1> HIDE DEF R
<1>3. IsWellFoundedOn(R, Nat)  BY NatLessThanWellFounded DEF R
<1> HIDE DEF T
<1>4. PICK x \in T : \A y \in T : ~ (<<y, x>> \in R)
  BY <1>1, <1>3, WFMin
<1>5. ASSUME NEW y \in T  PROVE x <= y
  <2>1. x \in Nat /\ y \in Nat  BY <1>1
  <2>2. ~ (y < x)  BY <2>1, <1>2, <1>4
  <2> QED  BY <2>1, <2>2
<1>6. \E i \in DOMAIN bs :
        /\ Name[bs[i]] = name
        /\ \A k \in DOMAIN bs : Name[bs[k]] = name => i <= k
  BY <1>5 DEF T
<1> DEFINE P(i) == /\ Name[bs[i]] = name
                   /\ \A k \in DOMAIN bs : Name[bs[k]] = name => i <= k
           c == CHOOSE i \in DOMAIN bs : P(i)
<1>7. c \in DOMAIN bs /\ P(c)  BY <1>6
<1>8. GetBackend(bs, name) = bs[c]  BY <1>1 DEF GetBackend, T
<1> QED  BY <1>7, <1>8

\* The names of descriptions, and those of the first k of them.
LEMMA NamesFact ==
  ASSUME NEW c \in Commands
  PROVE  /\ Names(c.plugins) \in Seq(STRING)
         /\ Len(Names(c.plugins)) = Len(c.plugins)
         /\ \A i \in 1..Len(c.plugins) : Names(c.plugins)[i] = c.plugins[i].name
<1> DEFINE ds == c.plugins
<1>1. ds \in Seq(Desc)  BY GeneratorAssumption
<1> HIDE DEF ds
<1>2. /\ Len(ds) \in Nat /\ DOMAIN ds = 1..Len(ds)
      /\ \A i \in 1..Len(ds) : ds[i] \in Desc
  BY <1>1, Elements
<1>3. Names(ds) = [i \in 1..Len(ds) |-> ds[i].name]  BY <1>2 DEF Names
<1>4. \A i \in 1..Len(ds) : ds[i].name \in STRING  BY <1>2 DEF Desc
<1>5. Names(ds) \in Seq(STRING) /\ Len(Names(ds)) = Len(ds)
  BY <1>2, <1>3, <1>4
<1> QED  BY <1>2, <1>3, <1>5 DEF ds

LEMMA PreparedFact ==
  ASSUME command \in Commands, plugins \in Seq(STRING),
         NEW k \in 0..Len(command.plugins)
  PROVE  /\ Prepared(k) \in Seq(STRING)
         /\ Len(Prepared(k)) = Len(plugins) + k
         /\ \A i \in 1..k :
              Prepared(k)[Len(plugins) + i] = command.plugins[i].name
<1> DEFINE ns == Names(command.plugins)
           sub == SubSeq(ns, 1, k)
<1>1. /\ ns \in Seq(STRING) /\ Len(ns) = Len(command.plugins)
      /\ \A i \in 1..Len(ns) : ns[i] = command.plugins[i].name
  BY NamesFact
<1> HIDE DEF ns
<1>2. Len(ns) \in Nat /\ k \in 0..Len(ns)  BY <1>1
<1>3. /\ sub \in Seq(STRING) /\ Len(sub) = k
      /\ \A i \in 1..k : sub[i] = ns[i]
  BY <1>1, <1>2, Front
<1> HIDE DEF sub
<1>4. Prepared(k) = plugins \o sub  BY DEF Prepared, sub, ns
<1>5. \A i \in 1..k : (plugins \o sub)[Len(plugins) + i] = sub[i]
  BY <1>3
<1>6. /\ plugins \o sub \in Seq(STRING)
      /\ Len(plugins \o sub) = Len(plugins) + Len(sub)
  BY <1>3
<1>7. \A i \in 1..k : i \in 1..Len(ns)  BY <1>2
<1> QED  BY <1>1, <1>3, <1>4, <1>5, <1>6, <1>7

-----------------------------------------------------------------------------
(***************************************************************************)
(* The inductive invariant.                                                *)
(***************************************************************************)

\* A target that has come further than its start has a backend, whose
\* post-processor was taken over.
WorkInv ==
  phase \in {"prepare", "backend", "sdk", "plugins"} =>
    /\ Be # None /\ pp = Be
    /\ phase \in {"prepare", "backend"} => items = <<>>

\* The plugins of the command are the last in the list.
LastInv ==
  phase \in {"backend", "sdk", "plugins"} =>
    LET before == Len(plugins) - Len(command.plugins) IN
      /\ before >= 0
      /\ \A i \in 1..Len(command.plugins) :
           plugins[before + i] = command.plugins[i].name

\* The items are those of the backend, of m SDK plugins, and of the first n
\* plugins of the list.
Fed(its, k, m, list, n) ==
  /\ Len(its) = 1 + m + n
  /\ its[1].by = command.targets[k].lang /\ its[1].opts = command.targets[k].opts
  /\ \A i \in 1..m : /\ its[1 + i].by = command.sdk[i].name
                     /\ its[1 + i].opts = command.sdk[i].opts
  /\ \A i \in 1..n : /\ its[1 + m + i].by = list[i]
                     /\ its[1 + m + i].opts = command.plugins[i].opts

\* What has been fed in the loops is what they have run through.
ItemsInv ==
  /\ phase = "sdk" => Fed(items, turn, pos - 1, plugins, 0)
  /\ phase = "plugins" =>
       /\ pos <= Len(command.plugins) + 1
       /\ Fed(items, turn, Len(command.sdk), plugins, pos - 1)

\* One output for every target before the current one.
OutputInv ==
  /\ OutputsAsAsked /\ ResultIsRight
  /\ phase # "idle" => Len(outputs) = turn - 1 /\ result = "none"

\* Nothing was prepared before the first target of the process.
FirstInv ==
  /\ calls = 0 => plugins = <<>> /\ result = "none"
  /\ calls <= 1 /\ turn <= 1 /\ phase \in {"target", "prepare"} => plugins = <<>>
  /\ calls <= 1 /\ turn <= 1 /\ phase \in {"backend", "sdk", "plugins"} =>
       Len(plugins) = Len(command.plugins)
  /\ FirstTargetIsSafe

IInv == TypeOK /\ WorkInv /\ LastInv /\ ItemsInv /\ OutputInv /\ FirstInv

\* A complete run of the loops has fed what the target asks for.
LEMMA Complete ==
  ASSUME command \in Commands, NEW k \in DOMAIN command.targets,
         NEW its \in Seq(Contribution),
         Fed(its, k, Len(command.sdk), Names(command.plugins), Len(command.plugins))
  PROVE  Made(its) = AskedFor(k)
<1> DEFINE Any == [by : STRING, opts : SUBSET STRING]
           F(i) == [by |-> command.sdk[i].name, opts |-> command.sdk[i].opts]
           G(i) == [by |-> command.plugins[i].name, opts |-> command.plugins[i].opts]
           H    == [by |-> command.targets[k].lang, opts |-> command.targets[k].opts]
           ns == Len(command.sdk)
           np == Len(command.plugins)
           s == [i \in 1..ns |-> F(i)]
           p == [i \in 1..np |-> G(i)]
           a == <<H>>
<1>1. ns \in Nat /\ DOMAIN command.sdk = 1..ns /\ \A i \in 1..ns : F(i) \in Any
  <2>1. command.sdk \in Seq(Desc)  BY GeneratorAssumption
  <2>2. ns \in Nat /\ DOMAIN command.sdk = 1..ns /\ \A i \in 1..ns : command.sdk[i] \in Desc
    BY <2>1, Elements
  <2> QED  BY <2>2 DEF Desc
<1>2. np \in Nat /\ DOMAIN command.plugins = 1..np /\ \A i \in 1..np : G(i) \in Any
  <2>1. command.plugins \in Seq(Desc)  BY GeneratorAssumption
  <2>2. np \in Nat /\ DOMAIN command.plugins = 1..np /\ \A i \in 1..np : command.plugins[i] \in Desc
    BY <2>1, Elements
  <2> QED  BY <2>2 DEF Desc
<1>3. H \in Any
  <2>1. command.targets \in Seq(LangSpec)  BY GeneratorAssumption
  <2>2. command.targets[k] \in LangSpec  BY <2>1, Elements
  <2> QED  BY <2>2 DEF LangSpec
<1>4. AskedFor(k) = a \o s \o p  BY <1>1, <1>2 DEF AskedFor
<1>5. /\ \A i \in 1..ns : F(i) = [by |-> its[1 + i].by, opts |-> its[1 + i].opts]
      /\ \A i \in 1..np : G(i) = [by |-> its[1 + ns + i].by, opts |-> its[1 + ns + i].opts]
      /\ H = [by |-> its[1].by, opts |-> its[1].opts]
  BY <1>2, NamesFact DEF Fed
<1>6. /\ Len(its) = 1 + ns + np /\ Len(its) \in Nat /\ DOMAIN its = 1..Len(its)
      /\ \A i \in 1..Len(its) : its[i] \in Contribution
  BY Elements DEF Fed
<1>7. /\ Made(its) \in Seq(Any) /\ Len(Made(its)) = 1 + ns + np
      /\ \A i \in 1..Len(its) : Made(its)[i] = [by |-> its[i].by, opts |-> its[i].opts]
  <2>1. \A i \in 1..Len(its) : [by |-> its[i].by, opts |-> its[i].opts] \in Any
    BY <1>6 DEF Contribution
  <2> DEFINE E(i) == [by |-> its[i].by, opts |-> its[i].opts]
             made == [i \in 1..Len(its) |-> E(i)]
  <2>2. Made(its) = made  BY <1>6 DEF Made
  <2>3. Len(its) \in Nat /\ \A i \in 1..Len(its) : E(i) \in Any
    BY <1>6, <2>1
  <2> HIDE DEF E, Any
  <2>4. made \in Seq(Any) /\ Len(made) = Len(its) /\ \A i \in 1..Len(its) : made[i] = E(i)
    BY <2>3
  <2> HIDE DEF made
  <2>5. Len(made) = 1 + ns + np  BY <2>4, <1>6
  <2> QED  BY <2>2, <2>4, <2>5 DEF E
<1> HIDE DEF Any, F, G, H, ns, np
<1>8. s \in Seq(Any) /\ Len(s) = ns /\ \A i \in 1..ns : s[i] = F(i)  BY <1>1
<1>9. p \in Seq(Any) /\ Len(p) = np /\ \A i \in 1..np : p[i] = G(i)  BY <1>2
<1>10. a \in Seq(Any) /\ Len(a) = 1 /\ a[1] = H  BY <1>3
<1> HIDE DEF s, p, a
<1> DEFINE all == a \o s \o p
<1>11. /\ all \in Seq(Any) /\ Len(all) = 1 + ns + np
       /\ all[1] = H
       /\ \A i \in 1..ns : all[1 + i] = F(i)
       /\ \A i \in 1..np : all[1 + ns + i] = G(i)
  <2>1. /\ all \in Seq(Any) /\ Len(all) = Len(a) + Len(s) + Len(p)
        /\ \A i \in 1..Len(a) : all[i] = a[i]
        /\ \A i \in 1..Len(s) : all[Len(a) + i] = s[i]
        /\ \A i \in 1..Len(p) : all[Len(a) + Len(s) + i] = p[i]
    <3>1. a \in Seq(Any) /\ s \in Seq(Any) /\ p \in Seq(Any)
      BY <1>8, <1>9, <1>10
    <3>2. /\ a \o s \o p \in Seq(Any)
          /\ Len(a \o s \o p) = Len(a) + Len(s) + Len(p)
          /\ \A i \in 1..Len(a) : (a \o s \o p)[i] = a[i]
          /\ \A i \in 1..Len(s) : (a \o s \o p)[Len(a) + i] = s[i]
          /\ \A i \in 1..Len(p) : (a \o s \o p)[Len(a) + Len(s) + i] = p[i]
      BY ONLY <3>1, Joined, SMTT(60)
    <3> QED  BY <3>2
  <2> HIDE DEF all
  <2>2. 1 \in 1..Len(a)  BY <1>10
  <2>3. all[1] = H  BY <2>1, <2>2, <1>10
  <2>4. Len(all) = 1 + ns + np  BY <2>1, <1>8, <1>9, <1>10
  <2>5. \A i \in 1..ns : all[1 + i] = F(i)  BY <2>1, <1>8, <1>10
  <2>6. \A i \in 1..np : all[1 + ns + i] = G(i)
    BY <2>1, <1>8, <1>9, <1>10
  <2> QED  BY <2>1, <2>3, <2>4, <2>5, <2>6
<1> HIDE DEF all
<1>12. 1 \in 1..Len(its) /\ \A i \in 1..ns : 1 + i \in 1..Len(its)
  BY <1>1, <1>2, <1>6
<1>13. \A i \in 1..np : 1 + ns + i \in 1..Len(its)
  BY <1>1, <1>2, <1>6
<1>14. Made(its) = all
  <2> DEFINE made == Made(its)
  <2>1. made[1] = all[1]  BY <1>5, <1>7, <1>11, <1>12
  <2>2. \A i \in 1..ns : made[1 + i] = all[1 + i]  BY <1>5, <1>7, <1>11, <1>12
  <2>3. \A i \in 1..np : made[1 + ns + i] = all[1 + ns + i]
    BY <1>5, <1>7, <1>11, <1>13
  <2>4. /\ ns \in Nat /\ np \in Nat /\ made \in Seq(Any) /\ all \in Seq(Any)
        /\ Len(made) = 1 + ns + np /\ Len(all) = 1 + ns + np
    BY <1>1, <1>2, <1>7, <1>11
  <2> HIDE DEF made
  <2>5. made = all  BY <2>1, <2>2, <2>3, <2>4, Pieces
  <2> QED  BY <2>5 DEF made
<1> QED  BY <1>4, <1>14 DEF all

-----------------------------------------------------------------------------
(***************************************************************************)
(* The invariant holds initially and is preserved by every action.         *)
(***************************************************************************)

LEMMA InitInv == Init => IInv
<1> SUFFICES ASSUME Init PROVE IInv  OBVIOUS
<1> USE GeneratorAssumption DEF Init
<1>1. TypeOK  BY DEF TypeOK
<1>2. OutputInv  BY DEF OutputInv, OutputsAsAsked, ResultIsRight
<1>3. FirstInv  BY DEF FirstInv, FirstTargetIsSafe
<1> QED  BY <1>1, <1>2, <1>3 DEF IInv, WorkInv, LastInv, ItemsInv

LEMMA CommandFact ==
  ASSUME command \in Commands
  PROVE  /\ Len(command.plugins) \in Nat /\ Len(command.sdk) \in Nat
         /\ Len(command.targets) \in Nat \ {0}
         /\ DOMAIN command.targets = 1..Len(command.targets)
         /\ \A k \in DOMAIN command.targets : command.targets[k] \in LangSpec
         /\ \A i \in 1..Len(command.sdk) : command.sdk[i] \in Desc
         /\ \A i \in 1..Len(command.plugins) : command.plugins[i] \in Desc
<1>1. /\ command.targets \in Seq(LangSpec) /\ command.targets # <<>>
      /\ command.plugins \in Seq(Desc) /\ command.sdk \in Seq(Desc)
  BY GeneratorAssumption
<1>2. Len(command.targets) # 0  BY <1>1
<1> QED  BY <1>1, <1>2, Elements

\* What the invariant says about where a command is.
LEMMA Busy ==
  ASSUME IInv, phase # "idle"
  PROVE  /\ command \in Commands /\ calls \in 1..MaxCalls
         /\ turn \in 1..Len(command.targets)
         /\ Len(outputs) = turn - 1 /\ result = "none"
<1>1. command \in Commands /\ calls \in 1..MaxCalls /\ turn \in DOMAIN command.targets
  BY GeneratorAssumption DEF IInv, TypeOK
<1> QED  BY <1>1, CommandFact DEF IInv, OutputInv

LEMMA RegisterInv ==
  ASSUME IInv, NEW b \in Backends, RegisterBackend(b)  PROVE IInv'
<1> USE DEF RegisterBackend, generator, invocation
<1>1. TypeOK'  BY DEF IInv, TypeOK
<1>2. (WorkInv /\ LastInv /\ ItemsInv)'  BY DEF WorkInv, LastInv, ItemsInv
<1>3. FirstInv'  BY DEF IInv, FirstInv, FirstTargetIsSafe
<1>4. OutputInv'
  BY DEF IInv, OutputInv, OutputsAsAsked, ResultIsRight, AskedFor
<1> QED  BY <1>1, <1>2, <1>3, <1>4 DEF IInv

LEMMA InvokeInv ==
  ASSUME IInv, NEW c \in Commands, InvokeThriftgo(c)  PROVE IInv'
<1> USE DEF InvokeThriftgo, generator, invocation
<1>1. 1 \in DOMAIN c.targets
  <2>1. c.targets \in Seq(LangSpec) /\ c.targets # <<>>  BY GeneratorAssumption
  <2> QED  BY <2>1
<1>2. calls \in Nat /\ calls' \in 1..MaxCalls
  BY GeneratorAssumption DEF IInv, TypeOK
<1>3. TypeOK'
  <2>1. /\ command' \in Commands /\ turn' \in DOMAIN command'.targets
        /\ calls' \in 0..MaxCalls /\ calls' > 0
    BY <1>1, <1>2
  <2>2. phase' = "target" /\ ast' \subseteq Idl /\ outputs' \in Seq(Output)
    OBVIOUS
  <2>3. /\ UNCHANGED <<backends, plugins, pp, broken, pos, items>>
        /\ result' = "none"
    OBVIOUS
  <2> HIDE DEF InvokeThriftgo
  <2> QED  BY <2>1, <2>2, <2>3 DEF IInv, TypeOK
<1>4. (WorkInv /\ LastInv /\ ItemsInv)'  BY DEF WorkInv, LastInv, ItemsInv
<1>5. FirstInv'
  BY <1>2 DEF IInv, FirstInv, FirstTargetIsSafe
<1>6. OutputInv'
  BY DEF OutputInv, OutputsAsAsked, ResultIsRight
<1> QED  BY <1>3, <1>4, <1>5, <1>6 DEF IInv

\* A step that ends the command with an error, and leaves its outputs alone.
LEMMA FailInv ==
  ASSUME IInv, phase # "idle", Fail,
         UNCHANGED <<backends, calls, command, ast, outputs>>,
         plugins' \in Seq(STRING), pp' \in Backends \cup {None},
         broken' \subseteq Backends, items' \in Seq(Contribution)
  PROVE  IInv'
<1> USE DEF Fail
<1>1. TypeOK'  BY DEF IInv, TypeOK
<1>2. (WorkInv /\ LastInv /\ ItemsInv)'  BY DEF WorkInv, LastInv, ItemsInv
<1>3. FirstInv'
  BY Busy DEF FirstInv, FirstTargetIsSafe
<1>4. OutputsAsAsked'
  BY DEF IInv, OutputInv, OutputsAsAsked, AskedFor
<1>5. ResultIsRight'
  BY Busy DEF ResultIsRight
<1> QED  BY <1>1, <1>2, <1>3, <1>4, <1>5 DEF IInv, OutputInv

\* A step inside a target: outputs and result stay.
LEMMA InsideInv ==
  ASSUME IInv, phase # "idle", phase' # "idle",
         UNCHANGED <<backends, calls, command, turn, outputs, result>>
  PROVE  OutputInv' /\ FirstTargetIsSafe'
<1>1. OutputsAsAsked'
  BY DEF IInv, OutputInv, OutputsAsAsked, AskedFor
<1>2. ResultIsRight'  BY Busy DEF ResultIsRight
<1>3. FirstTargetIsSafe'  BY Busy DEF FirstTargetIsSafe
<1> QED  BY <1>1, <1>2, <1>3, Busy DEF OutputInv

LEMMA StartInv == ASSUME IInv, StartTarget PROVE IInv'
<1> USE DEF StartTarget, NewFileManager, PostProcessor, generator
<1>1. CASE Be = None
  <2>1. /\ plugins' \in Seq(STRING) /\ pp' \in Backends \cup {None}
        /\ broken' \subseteq Backends /\ items' \in Seq(Contribution)
    BY <1>1 DEF IInv, TypeOK
  <2> QED  BY <1>1, <2>1, FailInv
<1>2. CASE Be # None
  <2>1. Be \in Backends
    BY <1>2, FoundByName DEF Be, IInv, TypeOK
  <2>2. TypeOK'  BY <1>2, <2>1 DEF IInv, TypeOK
  <2>3. WorkInv'  BY <1>2 DEF WorkInv, Be, Target
  <2>4. LastInv' /\ ItemsInv'  BY <1>2 DEF LastInv, ItemsInv
  <2>5. OutputInv' /\ FirstTargetIsSafe'  BY <1>2, InsideInv
  <2>6. FirstInv'  BY <1>2, <2>5 DEF IInv, FirstInv
  <2> QED  BY <2>2, <2>3, <2>4, <2>5, <2>6 DEF IInv
<1> QED  BY <1>1, <1>2

LEMMA PrepareInv == ASSUME IInv, PreparePlugins PROVE IInv'
<1> USE DEF PreparePlugins
<1>1. PICK k \in 0..Len(command.plugins) :
        /\ plugins' = Prepared(k)
        /\ IF k < Len(command.plugins)
           THEN Fail
           ELSE phase' = "backend" /\ UNCHANGED <<turn, result>>
  OBVIOUS
<1>2. command \in Commands /\ Len(command.plugins) \in Nat
  BY Busy, CommandFact
<1>3. plugins \in Seq(STRING)  BY DEF IInv, TypeOK
<1>4. /\ plugins' \in Seq(STRING) /\ Len(plugins') = Len(plugins) + k
      /\ \A i \in 1..k : plugins'[Len(plugins) + i] = command.plugins[i].name
  BY <1>1, <1>2, <1>3, PreparedFact
<1>5. CASE k < Len(command.plugins)
  <2>1. /\ pp' \in Backends \cup {None}
        /\ broken' \subseteq Backends /\ items' \in Seq(Contribution)
    BY DEF IInv, TypeOK
  <2> QED  BY <1>1, <1>4, <1>5, <2>1, FailInv
<1>6. CASE ~ (k < Len(command.plugins))
  <2>1. k = Len(command.plugins)  BY <1>2, <1>6
  <2>2. phase' = "backend" /\ UNCHANGED <<turn, result>>  BY <1>1, <1>6
  <2>3. TypeOK'  BY <1>4, <2>2 DEF IInv, TypeOK
  <2>4. WorkInv'  BY <2>2 DEF IInv, WorkInv, Be, Target
  <2>5. Len(plugins) \in Nat  BY <1>3
  <2>6. LastInv'
    <3>1. Len(plugins') - Len(command.plugins) = Len(plugins)
      BY <1>4, <2>1, <2>5, <1>2
    <3> QED  BY <1>4, <2>1, <2>5, <3>1, SMTT(30) DEF LastInv
  <2>7. ItemsInv'  BY <2>2 DEF ItemsInv
  <2>8. OutputInv' /\ FirstTargetIsSafe'  BY <2>2, InsideInv
  <2>9. FirstInv'
    <3>1. calls <= 1 /\ turn <= 1 => Len(plugins') = Len(command.plugins)
      <4>1. calls <= 1 /\ turn <= 1 => plugins = <<>>  BY DEF IInv, FirstInv
      <4> QED  BY <4>1, <1>4, <2>1, <1>2
    <3> QED  BY <3>1, <2>2, <2>8, Busy DEF FirstInv
  <2> QED  BY <2>3, <2>4, <2>6, <2>7, <2>8, <2>9 DEF IInv
<1> QED  BY <1>5, <1>6

LEMMA BackendFailsInv == ASSUME IInv, BackendFails PROVE IInv'
<1> USE DEF BackendFails
<1>1. Be \in Backends
  BY FoundByName DEF IInv, WorkInv, TypeOK, Be
<1>2. /\ plugins' \in Seq(STRING) /\ pp' \in Backends \cup {None}
      /\ broken' \subseteq Backends /\ items' \in Seq(Contribution)
  BY <1>1 DEF IInv, TypeOK
<1> QED  BY <1>2, FailInv

\* Feeding one more contribution.
LEMMA OneMore ==
  ASSUME NEW its \in Seq(Contribution), NEW c \in Contribution
  PROVE  /\ Append(its, c) \in Seq(Contribution)
         /\ Len(its) \in Nat /\ Len(Append(its, c)) = Len(its) + 1
         /\ Append(its, c)[Len(its) + 1] = c
         /\ \A i \in 1..Len(its) : Append(its, c)[i] = its[i]
OBVIOUS

LEMMA BackendGeneratesInv == ASSUME IInv, BackendGenerates PROVE IInv'
<1> USE DEF BackendGenerates, generator
<1> DEFINE c == [by |-> Name[Be], opts |-> Target.opts, saw |-> ast']
<1>1. Be \in Backends /\ Name[Be] = Target.lang
  BY FoundByName DEF IInv, WorkInv, TypeOK, Be
<1>2. /\ command \in Commands /\ turn \in DOMAIN command.targets
      /\ Target \in LangSpec /\ Len(command.sdk) \in Nat
  BY Busy, CommandFact DEF Target
<1>3. ast' \subseteq Idl  BY DEF Left, IInv, TypeOK
<1>4. c \in Contribution  BY <1>1, <1>2, <1>3 DEF Contribution, LangSpec
<1>5. items = <<>>  BY DEF IInv, WorkInv
<1>6. items' = <<c>> /\ items' \in Seq(Contribution)
  BY <1>4, <1>5
<1> HIDE DEF c
<1>7. TypeOK'  BY <1>2, <1>3, <1>6 DEF IInv, TypeOK
<1>8. WorkInv' /\ LastInv'
  BY DEF IInv, WorkInv, LastInv, Be, Target
<1>9. ItemsInv'
  <2>1. Len(items') = 1 /\ items'[1] = c  BY <1>6
  <2>2. c.by = command.targets[turn].lang /\ c.opts = command.targets[turn].opts
    BY <1>1 DEF c, Target
  <2>3. Fed(items, turn, pos - 1, plugins, 0)'
    BY <2>1, <2>2 DEF Fed
  <2> QED  BY <2>3 DEF ItemsInv
<1>10. OutputInv' /\ FirstTargetIsSafe'  BY InsideInv
<1>11. FirstInv'  BY <1>10 DEF IInv, FirstInv
<1> QED  BY <1>7, <1>8, <1>9, <1>10, <1>11 DEF IInv

LEMMA SdkPluginInv == ASSUME IInv, RunSdkPlugin PROVE IInv'
<1> USE DEF RunSdkPlugin, generator
<1> DEFINE d == command.sdk[pos]
           c == [by |-> d.name, opts |-> d.opts, saw |-> ast]
<1>1. /\ command \in Commands /\ turn \in DOMAIN command.targets
      /\ Len(command.sdk) \in Nat /\ pos \in 1..Len(command.sdk) /\ d \in Desc
  <2>1. command \in Commands /\ Len(command.sdk) \in Nat /\ turn \in DOMAIN command.targets
    BY Busy, CommandFact
  <2>2. pos \in 1..Len(command.sdk)  BY <2>1 DEF IInv, TypeOK
  <2> QED  BY <2>1, <2>2, CommandFact
<1>2. items \in Seq(Contribution)  BY DEF IInv, TypeOK
<1>3. CASE Fail /\ UNCHANGED <<items, pos>>
  <2>1. /\ plugins' \in Seq(STRING) /\ pp' \in Backends \cup {None}
        /\ broken' \subseteq Backends /\ items' \in Seq(Contribution)
    BY <1>3 DEF IInv, TypeOK
  <2> QED  BY <1>3, <2>1, FailInv
<1>4. CASE /\ items' = Append(items, c) /\ pos' = pos + 1
           /\ UNCHANGED <<phase, turn, result>>
  <2>1. c \in Contribution  BY <1>1 DEF Contribution, Desc, IInv, TypeOK
  <2>2. c.by = d.name /\ c.opts = d.opts  OBVIOUS
  <2> HIDE DEF c
  <2>3. /\ items' \in Seq(Contribution) /\ Len(items) \in Nat
        /\ Len(items') = Len(items) + 1 /\ items'[Len(items) + 1] = c
        /\ \A i \in 1..Len(items) : items'[i] = items[i]
    BY <1>2, <1>4, <2>1, OneMore
  <2>4. TypeOK'
    <3>1. pos' \in 1..(Len(command.sdk) + 1)  BY <1>1, <1>4
    <3> QED  BY <1>4, <2>3, <3>1 DEF IInv, TypeOK
  <2>5. WorkInv' /\ LastInv'
    BY <1>4 DEF IInv, WorkInv, LastInv, Be, Target
  <2>6. Fed(items, turn, pos - 1, plugins, 0)
    BY DEF IInv, ItemsInv
  <2>7. Fed(items', turn, pos, plugins, 0)
    <3>1. Len(items) = pos /\ pos \in Nat /\ Len(items') = 1 + pos + 0
      BY <1>1, <2>3, <2>6 DEF Fed
    <3>2. \A i \in 1..pos : items'[i] = items[i]  BY <2>3, <3>1
    <3>3. items'[1] = items[1]  BY <1>1, <3>2
    <3>4. ASSUME NEW i \in 1..pos
          PROVE  /\ items'[1 + i].by = command.sdk[i].name
                 /\ items'[1 + i].opts = command.sdk[i].opts
      <4>1. CASE i = pos  BY <4>1, <2>2, <2>3, <3>1
      <4>2. CASE i # pos
        <5>1. i \in 1..(pos - 1) /\ 1 + i \in 1..pos  BY <4>2, <3>1
        <5> QED  BY <5>1, <3>2, <2>6 DEF Fed
      <4> QED  BY <4>1, <4>2
    <3> QED  BY <3>1, <3>3, <3>4, <2>6 DEF Fed
  <2>8. ItemsInv'
    <3>1. pos' - 1 = pos  BY <1>1, <1>4
    <3>2. Fed(items', turn, pos' - 1, plugins, 0)  BY <2>7, <3>1
    <3> QED  BY <1>4, <3>2 DEF ItemsInv, Fed
  <2>9. OutputInv' /\ FirstTargetIsSafe'  BY <1>4, InsideInv
  <2>10. FirstInv'  BY <1>4, <2>9 DEF IInv, FirstInv
  <2> QED  BY <2>4, <2>5, <2>8, <2>9, <2>10 DEF IInv
<1> QED  BY <1>3, <1>4

LEMMA EndSdkInv == ASSUME IInv, EndSdkPlugins PROVE IInv'
<1> USE DEF EndSdkPlugins, generator, invocation
<1>1. /\ command \in Commands /\ Len(command.sdk) \in Nat
      /\ Len(command.plugins) \in Nat /\ plugins \in Seq(STRING)
  BY Busy, CommandFact DEF IInv, TypeOK
<1>2. pos = Len(command.sdk) + 1  BY <1>1 DEF IInv, TypeOK
<1>3. TypeOK'
  <2>1. pos' \in 1..(Len(plugins) + 1)  BY <1>1
  <2> QED  BY <2>1 DEF IInv, TypeOK
<1>4. WorkInv' /\ LastInv'
  BY DEF IInv, WorkInv, LastInv, Be, Target
<1>5. ItemsInv'
  <2>1. Fed(items, turn, pos - 1, plugins, 0)  BY DEF IInv, ItemsInv
  <2>2. pos - 1 = Len(command.sdk)  BY <1>1, <1>2
  <2>3. Fed(items, turn, Len(command.sdk), plugins, 0)  BY <2>1, <2>2
  <2>4. pos' <= Len(command.plugins) + 1 /\ pos' - 1 = 0  BY <1>1
  <2> QED  BY <2>3, <2>4 DEF ItemsInv, Fed
<1>6. OutputInv' /\ FirstTargetIsSafe'  BY InsideInv
<1>7. FirstInv'  BY <1>6 DEF IInv, FirstInv
<1> QED  BY <1>3, <1>4, <1>5, <1>6, <1>7 DEF IInv

LEMMA RunPluginInv == ASSUME IInv, RunPlugin PROVE IInv'
<1> USE DEF RunPlugin, generator
<1> DEFINE d == command.plugins[pos]
           c == [by |-> plugins[pos], opts |-> PluginOptions(pos), saw |-> ast]
           m == Len(command.sdk)
<1>1. /\ command \in Commands /\ turn \in DOMAIN command.targets /\ m \in Nat
      /\ Len(command.plugins) \in Nat /\ plugins \in Seq(STRING) /\ Len(plugins) \in Nat
      /\ pos \in 1..Len(plugins) /\ pos \in 1..Len(command.plugins) /\ d \in Desc
  <2>1. /\ command \in Commands /\ turn \in DOMAIN command.targets /\ m \in Nat
        /\ Len(command.plugins) \in Nat
    BY Busy, CommandFact
  <2>2. plugins \in Seq(STRING) /\ Len(plugins) \in Nat  BY DEF IInv, TypeOK
  <2>3. pos \in 1..(Len(plugins) + 1)  BY DEF IInv, TypeOK
  <2>4. pos \in 1..Len(plugins) /\ pos \in 1..Len(command.plugins)
    BY <2>1, <2>2, <2>3
  <2> QED  BY <2>1, <2>2, <2>4, CommandFact
<1>2. items \in Seq(Contribution)  BY DEF IInv, TypeOK
<1>3. CASE Fail /\ UNCHANGED <<items, pos>>
  <2>1. /\ plugins' \in Seq(STRING) /\ pp' \in Backends \cup {None}
        /\ broken' \subseteq Backends /\ items' \in Seq(Contribution)
    BY <1>3 DEF IInv, TypeOK
  <2> QED  BY <1>3, <2>1, FailInv
<1>4. CASE /\ items' = Append(items, c) /\ pos' = pos + 1
           /\ UNCHANGED <<phase, turn, result>>
  <2>1. c \in Contribution
    <3>1. plugins[pos] \in STRING  BY <1>1
    <3> QED  BY <1>1, <3>1 DEF Contribution, Desc, PluginOptions, IInv, TypeOK
  <2>2. c.by = plugins[pos] /\ c.opts = d.opts  BY DEF PluginOptions
  <2> HIDE DEF c
  <2>3. /\ items' \in Seq(Contribution) /\ Len(items) \in Nat
        /\ Len(items') = Len(items) + 1 /\ items'[Len(items) + 1] = c
        /\ \A i \in 1..Len(items) : items'[i] = items[i]
    BY <1>2, <1>4, <2>1, OneMore
  <2>4. TypeOK'
    <3>1. pos' \in 1..(Len(plugins) + 1)  BY <1>1, <1>4
    <3> QED  BY <1>4, <2>3, <3>1 DEF IInv, TypeOK
  <2>5. WorkInv' /\ LastInv'
    BY <1>4 DEF IInv, WorkInv, LastInv, Be, Target
  <2>6. Fed(items, turn, m, plugins, pos - 1)
    BY DEF IInv, ItemsInv
  <2>7. Fed(items', turn, m, plugins, pos)
    <3>1. Len(items) = m + pos /\ Len(items') = 1 + m + pos /\ pos \in Nat
      BY <1>1, <2>3, <2>6 DEF Fed
    <3> HIDE DEF m, d
    <3>2. \A i \in 1..(m + pos) : items'[i] = items[i]  BY <2>3, <3>1
    <3>3. items'[1] = items[1]
      <4>1. 1 \in 1..(m + pos)  BY <1>1
      <4> QED  BY <4>1, <3>2
    <3>4. ASSUME NEW i \in 1..m
          PROVE  /\ items'[1 + i].by = command.sdk[i].name
                 /\ items'[1 + i].opts = command.sdk[i].opts
      <4>1. 1 + i \in 1..(m + pos)  BY <1>1
      <4> QED  BY <4>1, <3>2, <2>6 DEF Fed
    <3>5. ASSUME NEW i \in 1..pos
          PROVE  /\ items'[1 + m + i].by = plugins[i]
                 /\ items'[1 + m + i].opts = command.plugins[i].opts
      <4>1. CASE i = pos
        <5>1. 1 + m + i = Len(items) + 1  BY <4>1, <3>1, <1>1
        <5> QED  BY <4>1, <5>1, <2>2, <2>3 DEF d
      <4>2. CASE i # pos
        <5>1. i \in 1..(pos - 1) /\ 1 + m + i \in 1..(m + pos)
          BY <4>2, <3>1, <1>1
        <5> QED  BY <5>1, <3>2, <2>6 DEF Fed
      <4> QED  BY <4>1, <4>2
    <3> QED  BY <3>1, <3>3, <3>4, <3>5, <2>6 DEF Fed
  <2>8. ItemsInv'
    <3>1. pos' - 1 = pos /\ pos' <= Len(command.plugins) + 1  BY <1>1, <1>4
    <3>2. Fed(items', turn, m, plugins, pos' - 1)  BY <2>7, <3>1
    <3> QED  BY <1>4, <3>1, <3>2 DEF ItemsInv, Fed
  <2>9. OutputInv' /\ FirstTargetIsSafe'  BY <1>4, InsideInv
  <2>10. FirstInv'  BY <1>4, <2>9 DEF IInv, FirstInv
  <2> QED  BY <2>4, <2>5, <2>8, <2>9, <2>10 DEF IInv
<1> QED  BY <1>3, <1>4

LEMMA PanicInv == ASSUME IInv, PluginPanics PROVE IInv'
<1> USE DEF PluginPanics, generator, invocation
<1>1. TypeOK'  BY DEF IInv, TypeOK
<1>2. (WorkInv /\ LastInv /\ ItemsInv)'  BY DEF WorkInv, LastInv, ItemsInv
<1>3. FirstInv'
  <2>1. /\ Len(plugins) \in Nat /\ Len(command.plugins) \in Nat /\ pos \in Int
        /\ calls \in 1..MaxCalls /\ turn \in 1..Len(command.targets)
    BY Busy, CommandFact, SMTT(30) DEF IInv, TypeOK
  <2>2. Len(plugins) # Len(command.plugins)  BY <2>1
  <2>3. ~ (calls <= 1 /\ turn <= 1)  BY <2>2 DEF IInv, FirstInv
  <2>4. FirstTargetIsSafe'
    BY <2>1, <2>3, GeneratorAssumption, Busy, CommandFact DEF FirstTargetIsSafe
  <2> QED  BY <2>1, <2>4, GeneratorAssumption DEF FirstInv
<1>4. OutputsAsAsked'
  BY DEF IInv, OutputInv, OutputsAsAsked, AskedFor
<1>5. ResultIsRight'  BY Busy DEF ResultIsRight
<1> QED  BY <1>1, <1>2, <1>3, <1>4, <1>5 DEF IInv, OutputInv

LEMMA PersistFailsInv == ASSUME IInv, PersistFails PROVE IInv'
<1> USE DEF PersistFails, generator
<1>1. /\ plugins' \in Seq(STRING) /\ pp' \in Backends \cup {None}
      /\ broken' \subseteq Backends /\ items' \in Seq(Contribution)
  BY DEF IInv, TypeOK
<1> QED  BY <1>1, FailInv

\* The loop over the list is done, so nothing was before the plugins of the
\* command, and the items are those of a complete run.
LEMMA LoopDone ==
  ASSUME IInv, phase = "plugins", pos > Len(plugins)
  PROVE  Made(items) = AskedFor(turn)
<1> DEFINE np == Len(command.plugins)
<1>1. /\ command \in Commands /\ turn \in DOMAIN command.targets /\ np \in Nat
      /\ Len(plugins) \in Nat /\ pos \in 1..(Len(plugins) + 1)
      /\ items \in Seq(Contribution)
  BY Busy, CommandFact DEF IInv, TypeOK
<1>2. pos <= np + 1 /\ Fed(items, turn, Len(command.sdk), plugins, pos - 1)
  BY DEF IInv, ItemsInv
<1>3. /\ Len(plugins) - np >= 0
      /\ \A i \in 1..np : plugins[(Len(plugins) - np) + i] = command.plugins[i].name
  BY DEF IInv, LastInv
<1>4. Len(plugins) - np = 0 /\ pos - 1 = np  BY <1>1, <1>2, <1>3
<1>5. \A i \in 1..np : plugins[i] = Names(command.plugins)[i]
  <2>1. \A i \in 1..np : plugins[i] = command.plugins[i].name
    <3>1. \A i \in 1..np : (Len(plugins) - np) + i = i  BY <1>4
    <3> QED  BY <1>3, <3>1
  <2> QED  BY <1>1, <2>1, NamesFact
<1>6. Fed(items, turn, Len(command.sdk), Names(command.plugins), np)
  BY <1>2, <1>4, <1>5 DEF Fed
<1> QED  BY <1>1, <1>6, Complete

LEMMA PersistInv == ASSUME IInv, PersistTarget PROVE IInv'
<1> USE DEF PersistTarget, generator
<1> DEFINE o == [items |-> items, pp |-> pp]
<1>1. pp \in Backends /\ Name[pp] = command.targets[turn].lang
  BY FoundByName DEF IInv, WorkInv, TypeOK, Be, Target
<1>2. /\ items \in Seq(Contribution) /\ outputs \in Seq(Output)
      /\ turn \in 1..Len(command.targets) /\ Len(command.targets) \in Nat
      /\ DOMAIN command.targets = 1..Len(command.targets)
      /\ Len(outputs) = turn - 1 /\ result = "none"
      /\ calls \in 1..MaxCalls /\ command \in Commands
  BY Busy, CommandFact DEF IInv, TypeOK
<1>3. o \in Output /\ o.items = items /\ o.pp = pp
  BY <1>1, <1>2 DEF Output
<1>4. Made(items) = AskedFor(turn)  BY LoopDone
<1> HIDE DEF o
<1>5. /\ outputs' \in Seq(Output) /\ Len(outputs') = turn
      /\ DOMAIN outputs' = 1..turn /\ DOMAIN outputs = 1..(turn - 1)
      /\ outputs'[turn] = o /\ \A k \in 1..(turn - 1) : outputs'[k] = outputs[k]
  BY <1>2, <1>3 DEF o
<1>6. \/ /\ turn < Len(command.targets)
         /\ phase' = "target" /\ turn' = turn + 1 /\ result' = result
      \/ /\ turn = Len(command.targets)
         /\ phase' = "idle" /\ result' = "nil" /\ turn' = turn
  BY <1>2
<1>7. TypeOK'
  <2>1. phase' # "idle" => turn' \in DOMAIN command.targets  BY <1>2, <1>6
  <2>2. calls' > 0  BY <1>2, GeneratorAssumption
  <2> QED  BY <1>5, <1>6, <2>1, <2>2 DEF IInv, TypeOK
<1>8. (WorkInv /\ LastInv /\ ItemsInv)'
  BY <1>6 DEF WorkInv, LastInv, ItemsInv
<1>9. OutputsAsAsked'
  <2> SUFFICES ASSUME NEW k \in 1..turn
               PROVE  /\ Made(outputs'[k].items) = AskedFor(k)
                      /\ Name[outputs'[k].pp] = command.targets[k].lang
    BY <1>5 DEF OutputsAsAsked, AskedFor
  <2>1. CASE k = turn  BY <2>1, <1>1, <1>3, <1>4, <1>5
  <2>2. CASE k # turn
    <3>1. k \in 1..(turn - 1)  BY <2>2, <1>2
    <3> QED  BY <3>1, <1>5 DEF IInv, OutputInv, OutputsAsAsked
  <2> QED  BY <2>1, <2>2
<1>10. ResultIsRight' /\ (phase' # "idle" => Len(outputs') = turn' - 1 /\ result' = "none")
  BY <1>2, <1>5, <1>6 DEF ResultIsRight
<1>11. FirstInv'
  BY <1>2, <1>6, GeneratorAssumption, SMTT(30) DEF FirstInv, FirstTargetIsSafe
<1> QED  BY <1>7, <1>8, <1>9, <1>10, <1>11 DEF IInv, OutputInv

LEMMA StepInv == IInv /\ [Next]_vars => IInv'
<1> SUFFICES ASSUME IInv, [Next]_vars PROVE IInv'  OBVIOUS
<1>1. CASE \E b \in Backends : RegisterBackend(b)  BY <1>1, RegisterInv
<1>2. CASE \E c \in Commands : InvokeThriftgo(c)  BY <1>2, InvokeInv
<1>3. CASE Step
  BY <1>3, StartInv, PrepareInv, BackendFailsInv, BackendGeneratesInv,
     SdkPluginInv, EndSdkInv, RunPluginInv, PanicInv, PersistInv,
     PersistFailsInv
  DEF Step
<1>4. CASE UNCHANGED vars
  <2> USE <1>4 DEF vars
  <2>1. TypeOK'  BY DEF IInv, TypeOK
  <2>2. (WorkInv /\ LastInv)'  BY DEF IInv, WorkInv, LastInv, Be, Target
  <2>3. ItemsInv'  BY DEF IInv, ItemsInv, Fed
  <2>4. OutputInv'
    BY DEF IInv, OutputInv, OutputsAsAsked, ResultIsRight, AskedFor
  <2>5. FirstInv'  BY DEF IInv, FirstInv, FirstTargetIsSafe
  <2> QED  BY <2>1, <2>2, <2>3, <2>4, <2>5 DEF IInv
<1> QED  BY <1>1, <1>2, <1>3, <1>4 DEF Next

-----------------------------------------------------------------------------
(***************************************************************************)
(* The theorems.                                                           *)
(***************************************************************************)

\* The generator and the command it works on are always well formed: a target
\* in work is one of the command's, and the loops stay inside their lists.
THEOREM TypeCorrect == Spec => []TypeOK
<1>1. IInv => TypeOK  BY DEF IInv
<1> QED  BY <1>1, InitInv, StepInv, PTL DEF Spec

\* Whatever earlier targets and commands have left in the generator, what
\* Persist writes for a target was made by exactly those that were asked to,
\* and post-processed by the backend of the language; and a command that
\* reports success has persisted all of its targets.
THEOREM OnlyTheAskedIsPersisted == Spec => [](OutputsAsAsked /\ ResultIsRight)
<1>1. IInv => OutputsAsAsked /\ ResultIsRight  BY DEF IInv, OutputInv
<1> QED  BY <1>1, InitInv, StepInv, PTL DEF Spec

\* The index into the plugin descriptions is always good for the first target
\* of a process: only a later one can panic.
THEOREM FirstTargetNeverPanics == Spec => []FirstTargetIsSafe
<1>1. IInv => FirstTargetIsSafe  BY DEF IInv, FirstInv
<1> QED  BY <1>1, InitInv, StepInv, PTL DEF Spec

-----------------------------------------------------------------------------
(***************************************************************************)
(* What the contributors of a target have seen.                            *)
(***************************************************************************)

\* The targets of the command whose backend has been at the AST.
Served == IF phase \in {"target", "prepare", "backend"} THEN turn - 1 ELSE turn

\* The AST lacks what these targets have taken, and the items of the target in
\* work were all made from it.
AstInv ==
  /\ phase # "idle" => ast = Idl \ Taken(Served)
  /\ phase \in {"sdk", "plugins"} => \A i \in DOMAIN items : items[i].saw = ast
  /\ calls = 0 => outputs = <<>>
  /\ SawWhatIsLeft

SawInv == IInv /\ AstInv

\* What one more target takes is what its backend does not leave.
LEMMA TakenByNext ==
  ASSUME turn \in Nat \ {0}, ast = Idl \ Taken(turn - 1)
  PROVE  Left(Be, Target.opts) = Idl \ Taken(turn)
<1> DEFINE Takes(j, part) ==
             /\ GetBackend(backends, command.targets[j].lang) \in GoFamily
             /\ \/ part = "unused types" /\ "trim_idl" \in command.targets[j].opts
                \/ part = "streaming functions"
                   /\ "thrift_streaming" \notin command.targets[j].opts
<1>1. \A part \in Idl : part \in Taken(turn)
                          <=> part \in Taken(turn - 1) \/ Takes(turn, part)
  <2>1. 1..turn = (1..(turn - 1)) \cup {turn}  OBVIOUS
  <2>2. \A k, part : part \in Taken(k)
                       <=> part \in Idl /\ \E j \in 1..k : Takes(j, part)
    BY DEF Taken
  <2> HIDE DEF Takes
  <2> QED  BY <2>1, <2>2
<1>2. \A part \in ast : part \in Left(Be, Target.opts) <=> ~ Takes(turn, part)
  BY DEF Left, Be, Target, Idl
<1>3. Left(Be, Target.opts) \subseteq ast  BY DEF Left
<1> HIDE DEF Takes
<1> QED  BY <1>1, <1>2, <1>3

\* A step inside a target, or out of it, that persists nothing.
LEMMA SawInside ==
  ASSUME AstInv, UNCHANGED <<backends, calls, command, outputs>>,
         phase' # "idle" => ast' = Idl \ Taken(Served'),
         phase' \in {"sdk", "plugins"} => \A i \in DOMAIN items' : items'[i].saw = ast'
  PROVE  AstInv'
<1>0. \A k : Taken(k)' = Taken(k)  BY DEF Taken
<1>1. SawWhatIsLeft'  BY <1>0 DEF AstInv, SawWhatIsLeft
<1>2. Taken(Served)' = Taken(Served')  BY DEF Taken
<1> QED  BY <1>1, <1>2 DEF AstInv

\* One more item, made from the AST as it is.
LEMMA OneMoreSaw ==
  ASSUME items \in Seq(Contribution), NEW c \in Contribution, c.saw = ast,
         \A i \in DOMAIN items : items[i].saw = ast
  PROVE  \A i \in DOMAIN Append(items, c) : Append(items, c)[i].saw = ast
OBVIOUS

LEMMA SawStep == SawInv /\ [Next]_vars => SawInv'
<1> SUFFICES ASSUME SawInv, [Next]_vars PROVE AstInv'
  BY StepInv DEF SawInv
<1>1. IInv /\ AstInv /\ TypeOK  BY DEF SawInv, IInv
<1>2. phase # "idle" => /\ command \in Commands /\ turn \in Nat \ {0}
                        /\ turn \in DOMAIN command.targets
  BY <1>1, Busy, CommandFact
<1>3. items \in Seq(Contribution)  BY <1>1 DEF TypeOK
\* A target is left without an output.
<1>4. ASSUME phase' = "idle", UNCHANGED <<backends, calls, command, outputs>>
      PROVE  AstInv'
  BY <1>1, <1>4, SawInside
<1>a. ASSUME NEW b \in Backends, RegisterBackend(b)  PROVE AstInv'
  BY <1>1, <1>a DEF RegisterBackend, invocation, AstInv, SawWhatIsLeft
<1>b. ASSUME NEW c \in Commands, InvokeThriftgo(c)  PROVE AstInv'
  <2>1. /\ phase' = "target" /\ turn' = 1 /\ ast' = Idl /\ outputs' = <<>>
    BY <1>b DEF InvokeThriftgo
  <2>2. Served' = 0  BY <2>1 DEF Served
  <2>3. Taken(Served)' = {}  BY <2>2 DEF Taken
  <2> QED  BY <2>1, <2>3 DEF AstInv, SawWhatIsLeft
<1>c. CASE StartTarget
  <2>1. phase = "target" /\ UNCHANGED <<backends, calls, command, ast, outputs>>
    BY <1>c DEF StartTarget
  <2>2. phase' = "idle" \/ (phase' = "prepare" /\ turn' = turn)
    BY <1>c DEF StartTarget, Fail
  <2>3. phase' # "idle" => ast' = Idl \ Taken(Served')
    BY <1>1, <2>1, <2>2 DEF AstInv, Served
  <2> QED  BY <1>1, <2>1, <2>2, <2>3, SawInside
<1>d. CASE PreparePlugins
  <2>1. phase = "prepare" /\ UNCHANGED <<backends, calls, command, ast, outputs>>
    BY <1>d DEF PreparePlugins
  <2>2. phase' = "idle" \/ (phase' = "backend" /\ turn' = turn)
    BY <1>d DEF PreparePlugins, Fail
  <2>3. phase' # "idle" => ast' = Idl \ Taken(Served')
    BY <1>1, <2>1, <2>2 DEF AstInv, Served
  <2> QED  BY <1>1, <2>1, <2>2, <2>3, SawInside
<1>e. CASE BackendFails \/ PluginPanics \/ PersistFails
  BY <1>4, <1>e
  DEF BackendFails, PluginPanics, PersistFails, Fail, generator, invocation
<1>f. CASE BackendGenerates
  <2> DEFINE c == [by |-> Name[Be], opts |-> Target.opts, saw |-> ast']
  <2>1. /\ phase = "backend" /\ phase' = "sdk"
        /\ UNCHANGED <<backends, calls, command, turn, outputs>>
        /\ ast' = Left(Be, Target.opts) /\ items' = Append(items, c)
    BY <1>f DEF BackendGenerates, generator
  <2>2. ast' = Idl \ Taken(Served')
    BY <1>1, <1>2, <2>1, TakenByNext DEF AstInv, Served
  <2>3. items = <<>> /\ c.saw = ast'  BY <1>1, <2>1 DEF IInv, WorkInv
  <2> HIDE DEF c
  <2>4. \A i \in DOMAIN items' : items'[i].saw = ast'
    BY <2>1, <2>3
  <2> QED  BY <1>1, <2>1, <2>2, <2>4, SawInside
\* An item of a plugin, made from the AST as the backend left it.
<1>5. ASSUME NEW c \in Contribution, c.saw = ast, items' = Append(items, c),
             phase \in {"sdk", "plugins"},
             UNCHANGED <<backends, calls, command, phase, turn, ast, outputs>>
      PROVE  AstInv'
  <2>1. \A i \in DOMAIN items' : items'[i].saw = ast'
    BY <1>1, <1>3, <1>5, OneMoreSaw DEF AstInv
  <2>2. ast' = Idl \ Taken(Served')
    BY <1>1, <1>5 DEF AstInv, Served
  <2> QED  BY <1>1, <1>5, <2>1, <2>2, SawInside
<1>g. CASE RunSdkPlugin
  <2> DEFINE d == command.sdk[pos]
             c == [by |-> d.name, opts |-> d.opts, saw |-> ast]
  <2>1. phase = "sdk" /\ pos \in 1..Len(command.sdk)
        /\ UNCHANGED <<backends, calls, command, ast, outputs>>
    BY <1>1, <1>2, <1>g, CommandFact DEF RunSdkPlugin, TypeOK, generator
  <2>2. d \in Desc  BY <1>2, <2>1, CommandFact
  <2>3. c \in Contribution /\ c.saw = ast
    BY <1>1, <2>2 DEF Contribution, Desc, TypeOK
  <2>4. \/ items' = Append(items, c) /\ UNCHANGED <<phase, turn>>
        \/ phase' = "idle"
    BY <1>g DEF RunSdkPlugin, Fail
  <2> HIDE DEF c, d
  <2> QED  BY <1>4, <1>5, <2>1, <2>3, <2>4
<1>h. CASE EndSdkPlugins
  <2>1. /\ phase = "sdk" /\ phase' = "plugins"
        /\ UNCHANGED <<backends, calls, command, turn, ast, items, outputs>>
    BY <1>h DEF EndSdkPlugins, generator, invocation
  <2>2. ast' = Idl \ Taken(Served')  BY <1>1, <2>1 DEF AstInv, Served
  <2> QED  BY <1>1, <2>1, <2>2, SawInside DEF AstInv
<1>i. CASE RunPlugin
  <2> DEFINE d == command.plugins[pos]
             c == [by |-> plugins[pos], opts |-> d.opts, saw |-> ast]
  <2>1. /\ phase = "plugins" /\ pos \in 1..Len(plugins)
        /\ pos \in 1..Len(command.plugins)
        /\ UNCHANGED <<backends, calls, command, ast, outputs>>
    <3>1. /\ Len(command.plugins) \in Nat /\ Len(plugins) \in Nat
          /\ pos \in 1..(Len(plugins) + 1)
      BY <1>1, <1>2, <1>i, CommandFact DEF RunPlugin, TypeOK
    <3> QED  BY <1>i, <3>1 DEF RunPlugin, generator
  <2>2. d \in Desc /\ plugins[pos] \in STRING
    BY <1>1, <1>2, <2>1, CommandFact DEF TypeOK
  <2>3. c \in Contribution /\ c.saw = ast
    BY <1>1, <2>2 DEF Contribution, Desc, TypeOK
  <2>4. \/ items' = Append(items, c) /\ UNCHANGED <<phase, turn>>
        \/ phase' = "idle"
    BY <1>i DEF RunPlugin, Fail, PluginOptions
  <2> HIDE DEF c, d
  <2> QED  BY <1>4, <1>5, <2>1, <2>3, <2>4
<1>j. CASE PersistTarget
  <2> DEFINE o == [items |-> items, pp |-> pp]
  <2>1. /\ phase = "plugins" /\ outputs' = Append(outputs, o) /\ o.items = items
        /\ UNCHANGED <<backends, calls, command, ast, items>>
        /\ \/ phase' = "target" /\ turn' = turn + 1
           \/ phase' = "idle"
    BY <1>j DEF PersistTarget, generator
  <2>2. outputs \in Seq(Output) /\ Len(outputs) = turn - 1
    BY <1>1, <2>1 DEF TypeOK, IInv, OutputInv
  <2>3. o \in Output
    BY <1>1, <1>3, <2>1 DEF Output, IInv, WorkInv, TypeOK
  <2> HIDE DEF o
  <2>4. /\ DOMAIN outputs' = 1..turn /\ DOMAIN outputs = 1..(turn - 1)
        /\ outputs'[turn] = o /\ \A k \in 1..(turn - 1) : outputs'[k] = outputs[k]
    BY <1>2, <2>1, <2>2, <2>3
  <2>5. ast = Idl \ Taken(turn) /\ \A i \in DOMAIN items : items[i].saw = ast
    BY <1>1, <2>1 DEF AstInv, Served
  <2>6. \A k : Taken(k)' = Taken(k)  BY <2>1 DEF Taken
  <2>7. ASSUME NEW k \in DOMAIN outputs', NEW i \in DOMAIN outputs'[k].items
        PROVE  outputs'[k].items[i].saw = Idl \ Taken(k)
    <3>1. CASE k = turn  BY <2>1, <2>4, <2>5, <2>7, <3>1
    <3>2. CASE k # turn
      <4>1. k \in DOMAIN outputs /\ outputs'[k] = outputs[k]
        BY <1>2, <2>1, <2>4, <3>2
      <4> QED  BY <1>1, <2>7, <4>1 DEF AstInv, SawWhatIsLeft
    <3> QED  BY <3>1, <3>2
  <2>8. SawWhatIsLeft'  BY <2>6, <2>7 DEF SawWhatIsLeft
  <2>9. phase' # "idle" => Served' = turn  BY <1>2, <2>1 DEF Served
  <2>10. phase' # "idle" => ast' = Idl \ Taken(Served)'
    BY <2>1, <2>5, <2>9 DEF Taken
  <2>11. calls' # 0  BY <1>1, <2>1, Busy
  <2> QED  BY <2>1, <2>8, <2>10, <2>11 DEF AstInv
<1>k. CASE UNCHANGED vars
  <2>1. UNCHANGED <<backends, calls, command, phase, turn, ast, items, outputs>>
    BY <1>k DEF vars
  <2>2. Served' = Served  BY <2>1 DEF Served
  <2> QED  BY <1>1, <2>1, <2>2, SawInside DEF AstInv
<1> QED
  BY <1>a, <1>b, <1>c, <1>d, <1>e, <1>f, <1>g, <1>h, <1>i, <1>j, <1>k
  DEF Next, Step

LEMMA SawInit == Init => SawInv
BY InitInv DEF Init, SawInv, AstInv, SawWhatIsLeft

\* Whatever the targets are and in whichever order, and whatever happened in
\* earlier commands: backend, SDK plugins and plugins of a target have worked
\* on the AST as the Go targets of this command up to theirs have left it.
THEOREM AllSeeTheSameAst == Spec => []SawWhatIsLeft
<1>1. SawInv => SawWhatIsLeft  BY DEF SawInv, AstInv
<1> QED  BY <1>1, SawInit, SawStep, PTL DEF Spec
=============================================================================
