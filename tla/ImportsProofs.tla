---------------------------- MODULE ImportsProofs ----------------------------
(***************************************************************************)
(* What holds of Imports for all libraries, IDLs, replacements and         *)
(* documents for which the names can work out at all: one name is one      *)
(* package, and what the code names is imported under that name.  The      *)
(* argument: the namespace stays a bijection between the names it has      *)
(* given and the paths they stand for, an answer stays the first fit, so   *)
(* that a path asked for again gets the name it has, and no name changes   *)
(* hands.                                                                  *)
(***************************************************************************)
EXTENDS Imports, FiniteSetTheorems, WellFoundedInduction, TLAPS

-----------------------------------------------------------------------------
(***************************************************************************)
(* The namespace of an import manager.                                     *)
(***************************************************************************)
NP == INSTANCE NamespaceProofs
        WITH Rename <- ZeroIndexed, Wanted <- {}, Ids <- {},
             ns <- imports, given <- EmptyMap

\* The operators of the two instances are the same.
LEMMA SameOperators ==
  /\ \A S : NP!IsFiniteSet(S) <=> IsFiniteSet(S)
  /\ \A S : NP!Cardinality(S) = Cardinality(S)
  /\ \A S : NS!Cardinality(S) = Cardinality(S)
BY DEF NP!IsFiniteSet, IsFiniteSet, NP!Cardinality, NS!Cardinality, Cardinality

\* The suffixes that init's rename function makes differ for one name.
LEMMA SuffixesApart ==
  ASSUME NEW name \in Seq(STRING)
  PROVE  NP!RenamesApart(name)
<1> DEFINE T == STRING \cup Nat
           C(n) == NP!Candidate(name, n)
<1>1. name \in Seq(T) /\ Len(name) \in Nat  OBVIOUS
<1>2. ASSUME NEW n \in Nat, n # 0
      PROVE  Len(C(n)) = Len(name) + 1 /\ C(n)[Len(name) + 1] = n - 1
  <2>1. C(n) = name \o <<n - 1>>  BY <1>2 DEF NP!Candidate, ZeroIndexed
  <2>2. n - 1 \in T  BY <1>2
  <2>3. <<n - 1>> \in Seq(T) /\ Len(<<n - 1>>) = 1 /\ <<n - 1>>[1] = n - 1  BY <2>2
  <2> HIDE DEF T, C
  <2> QED  BY <1>1, <2>1, <2>3
<1>3. C(0) = name  BY DEF NP!Candidate
<1> HIDE DEF T
<1>4. ASSUME NEW c \in Nat, NEW d \in Nat, C(c) = C(d)  PROVE c = d
  <2> HIDE DEF C
  <2> QED  BY <1>1, <1>2, <1>3, <1>4
<1> QED  BY <1>4 DEF NP!RenamesApart

\* What Add answers is the first candidate that is nobody else's.
LEMMA AddedIsFirstFit ==
  ASSUME NEW n, IsFiniteSet(DOMAIN n.name2id), NEW name \in Seq(STRING), NEW id
  PROVE  \E cnt \in Nat : /\ NS!AddedName(n, name, id) = NS!Candidate(name, cnt)
                          /\ NS!FirstFit(n, name, id, cnt)
<1> DEFINE c == CHOOSE cnt \in NS!Tries(n) : NS!FirstFit(n, name, id, cnt)
<1>1. NP!IsFiniteSet(DOMAIN n.name2id) /\ NP!IsFiniteSet({})
  BY SameOperators, FS_EmptySet
<1>2. NP!RenamesApart(name)  BY SuffixesApart
<1>3. \E cnt \in NP!Tries(n) : NP!FirstFit(n, name, id, cnt)
  BY <1>1, <1>2, NP!SomeFit
<1>4. \E cnt \in NS!Tries(n) : NS!FirstFit(n, name, id, cnt)
  BY <1>3, SameOperators
  DEF NP!Tries, NS!Tries, NP!FirstFit, NS!FirstFit, NP!IsForeign, NS!IsForeign,
      NP!IsFree, NS!IsFree, NP!Candidate, NS!Candidate
<1>5. c \in NS!Tries(n) /\ NS!FirstFit(n, name, id, c)  BY <1>4
<1>6. NS!Tries(n) \subseteq Nat
  BY SameOperators, FS_CardinalityType DEF NS!Tries
<1>7. NS!AddedName(n, name, id) = NS!Candidate(name, c)  BY DEF NS!AddedName
<1> QED  BY <1>5, <1>6, <1>7

\* There is one first fit.
LEMMA FitIsOne ==
  ASSUME NEW n, NEW name, NEW id, NEW c \in Nat, NEW d \in Nat,
         NS!FirstFit(n, name, id, c), NS!FirstFit(n, name, id, d)
  PROVE  c = d
<1>1. ~ (c < d)  BY DEF NS!FirstFit
<1>2. ~ (d < c)  BY DEF NS!FirstFit
<1> QED  BY <1>1, <1>2

\* <<name, path>>: what the manager is asked to add under a replacement r.
PathOf(r, path) == Get(r, path, path)
Wants(r) == {<<lib, PathOf(r, StdPath[lib])>> : lib \in Std}
              \cup {<<Pkg[idl], PathOf(r, Path[idl])>> : idl \in Idls}

\* A path is asked for under one name.
OneName(W) == \A v, w \in W : v[2] = w[2] => v[1] = w[1]

\* The name of p is the first fit for the name p is asked for with.
FirstFor(n, W, p) ==
  \E w \in W : \E cnt \in Nat :
    /\ w[2] = p /\ n.id2name[p] = NS!Candidate(w[1], cnt)
    /\ \A c \in 0 .. (cnt - 1) : NS!IsForeign(n, NS!Candidate(w[1], c), p)

\* The names and the paths are one to one.
NsInv(n, W) ==
  /\ IsFiniteSet(DOMAIN n.name2id)
  /\ \A p \in DOMAIN n.id2name : /\ n.id2name[p] \in DOMAIN n.name2id
                                 /\ n.name2id[n.id2name[p]] = p
                                 /\ FirstFor(n, W, p)
  /\ \A m \in DOMAIN n.name2id : /\ n.name2id[m] \in DOMAIN n.id2name
                                 /\ n.id2name[n.name2id[m]] = m

\* No name changes hands.
Kept(n, k) ==
  \A m \in DOMAIN n.name2id : m \in DOMAIN k.name2id /\ k.name2id[m] = n.name2id[m]

LEMMA KeptOn == \A a, b, c : Kept(a, b) /\ Kept(b, c) => Kept(a, c)
BY DEF Kept

LEMMA ClaimFacts ==
  ASSUME NEW n, NEW name, NEW id
  PROVE  LET k == NS!Claim(n, name, id) IN
         /\ DOMAIN k.name2id = DOMAIN n.name2id \cup {name}
         /\ k.name2id[name] = id
         /\ \A m \in DOMAIN n.name2id \ {name} : k.name2id[m] = n.name2id[m]
         /\ DOMAIN k.id2name = DOMAIN n.id2name \cup {id}
         /\ k.id2name[id] = name
         /\ \A i \in DOMAIN n.id2name \ {id} : k.id2name[i] = n.id2name[i]
BY DEF NS!Claim, NS!GM!Put

\* Adding what is wanted keeps the bijection and every name; a path that has a
\* name keeps it.
LEMMA AddKeeps ==
  ASSUME NEW W, OneName(W), \A w \in W : w[1] \in Seq(STRING),
         NEW n, NsInv(n, W), NEW w \in W,
         NEW k, k = NS!Add(n, w[1], w[2])
  PROVE  /\ NsInv(k, W) /\ Kept(n, k) /\ w[2] \in DOMAIN k.id2name
         /\ k.id2name[w[2]] = NS!AddedName(n, w[1], w[2])
         /\ w[2] \in DOMAIN n.id2name => k.id2name[w[2]] = n.id2name[w[2]]
<1> DEFINE name == w[1]
           p == w[2]
           a == NS!AddedName(n, name, p)
<1>1. PICK cnt \in Nat : a = NS!Candidate(name, cnt) /\ NS!FirstFit(n, name, p, cnt)
  BY AddedIsFirstFit DEF NsInv
<1>2. ~NS!IsForeign(n, a, p)  BY <1>1 DEF NS!FirstFit
<1>3. /\ DOMAIN k.name2id = DOMAIN n.name2id \cup {a}
      /\ k.name2id[a] = p
      /\ \A m \in DOMAIN n.name2id \ {a} : k.name2id[m] = n.name2id[m]
      /\ DOMAIN k.id2name = DOMAIN n.id2name \cup {p}
      /\ k.id2name[p] = a
      /\ \A i \in DOMAIN n.id2name \ {p} : k.id2name[i] = n.id2name[i]
  <2>1. k = NS!Claim(n, a, p)  BY DEF NS!Add
  <2> HIDE DEF a, p
  <2> QED  BY <2>1, ClaimFacts
<1>h. HIDE DEF a
<1>4. Kept(n, k)
  BY <1>2, <1>3 DEF Kept, NS!IsForeign, NS!IsFree
<1>5. p \in DOMAIN n.id2name => a = n.id2name[p]
  <2> SUFFICES ASSUME p \in DOMAIN n.id2name PROVE a = n.id2name[p]  OBVIOUS
  <2>1. PICK v \in W, d \in Nat :
          /\ v[2] = p /\ n.id2name[p] = NS!Candidate(v[1], d)
          /\ \A c \in 0 .. (d - 1) : NS!IsForeign(n, NS!Candidate(v[1], c), p)
    BY DEF NsInv, FirstFor
  <2>2. v[1] = name  BY <2>1 DEF OneName
  <2>3. ~NS!IsForeign(n, n.id2name[p], p)  BY DEF NsInv, NS!IsForeign
  <2>4. NS!FirstFit(n, name, p, d)  BY <2>1, <2>2, <2>3 DEF NS!FirstFit
  <2>5. d = cnt  BY <1>1, <2>4, FitIsOne
  <2> QED  BY <1>1, <2>1, <2>2, <2>5
\* A name that was there stands for a path that has it.
<1>6. a \in DOMAIN n.name2id => p \in DOMAIN n.id2name
  BY <1>2 DEF NS!IsForeign, NS!IsFree, NsInv
<1>7. \A m, i : NS!IsForeign(n, m, i) => NS!IsForeign(k, m, i)
  BY <1>4 DEF Kept, NS!IsForeign, NS!IsFree
<1>8. ASSUME NEW i \in DOMAIN k.id2name
      PROVE  /\ k.id2name[i] \in DOMAIN k.name2id
             /\ k.name2id[k.id2name[i]] = i
             /\ FirstFor(k, W, i)
  <2>1. CASE i = p
    <3>1. \A c \in 0 .. (cnt - 1) : NS!IsForeign(k, NS!Candidate(name, c), p)
      BY <1>1, <1>7 DEF NS!FirstFit
    <3>2. FirstFor(k, W, p)  BY <1>1, <1>3, <3>1 DEF FirstFor
    <3> QED  BY <1>3, <2>1, <3>2
  <2>2. CASE i # p
    <3>1. i \in DOMAIN n.id2name /\ k.id2name[i] = n.id2name[i]
      BY <1>3, <1>8, <2>2
    <3>2. /\ n.id2name[i] \in DOMAIN n.name2id /\ n.name2id[n.id2name[i]] = i
          /\ FirstFor(n, W, i)
      BY <3>1 DEF NsInv
    <3>3. FirstFor(k, W, i)  BY <1>7, <3>1, <3>2 DEF FirstFor
    <3> QED  BY <1>4, <3>1, <3>2, <3>3 DEF Kept
  <2> QED  BY <2>1, <2>2
<1>9. ASSUME NEW m \in DOMAIN k.name2id
      PROVE  k.name2id[m] \in DOMAIN k.id2name /\ k.id2name[k.name2id[m]] = m
  <2>1. CASE m = a  BY <1>3, <2>1
  <2>2. CASE m # a
    <3>1. /\ m \in DOMAIN n.name2id /\ k.name2id[m] = n.name2id[m]
          /\ n.name2id[m] \in DOMAIN n.id2name /\ n.id2name[n.name2id[m]] = m
      BY <1>3, <1>9, <2>2 DEF NsInv
    <3>2. n.name2id[m] # p  BY <1>5, <2>2, <3>1
    <3> QED  BY <1>3, <3>1, <3>2
  <2> QED  BY <2>1, <2>2
<1>10. IsFiniteSet(DOMAIN k.name2id)
  <2>1. IsFiniteSet(DOMAIN n.name2id)  BY DEF NsInv
  <2>2. IsFiniteSet(DOMAIN n.name2id \cup {a})  BY ONLY <2>1, FS_AddElement
  <2> QED  BY <1>3, <2>2
<1>11. NsInv(k, W)  BY <1>8, <1>9, <1>10 DEF NsInv
<1> QED  BY <1>3, <1>4, <1>5, <1>11 DEF a

\* A loop that adds what q lists, one after the other.
Loop(f, n, K, q) ==
  f = [k \in 0 .. K |-> IF k = 0 THEN n ELSE NS!Add(f[k - 1], q[k][1], q[k][2])]

LEMMA LoopIsDefined ==
  ASSUME NEW K \in Nat, NEW q, NEW n
  PROVE  \E f : Loop(f, n, K, q)
<1> DEFINE Do(x, k) == NS!Add(x, q[k][1], q[k][2])
           Fold(f, k) == f = [i \in 0 .. k |-> IF i = 0 THEN n ELSE Do(f[i - 1], i)]
           T == {k \in 0 .. K : ~ \E f : Fold(f, k)}
           R == OpToRel(<, Nat)
<1>1. \A x, y \in Nat : y < x => <<y, x>> \in R  BY DEF OpToRel
<1>2. IsWellFoundedOn(R, Nat)  BY NatLessThanWellFounded
<1> HIDE DEF R, Do
<1>3. T = {}
  <2> SUFFICES ASSUME T # {} PROVE FALSE  OBVIOUS
  <2>1. T \subseteq Nat  OBVIOUS
  <2>2. PICK k \in T : \A y \in T : ~ (<<y, k>> \in R)
    <3> HIDE DEF T
    <3> QED  BY <1>2, <2>1, WFMin
  <2>3. k # 0
    <3>1. Fold([i \in 0 .. 0 |-> n], 0)  OBVIOUS
    <3> QED  BY <2>2, <3>1
  <2>4. k - 1 \in 0 .. K /\ k - 1 < k /\ k \in Nat  BY <2>1, <2>2, <2>3
  <2>5. k - 1 \notin T  BY <1>1, <2>1, <2>2, <2>4
  <2>6. PICK g : Fold(g, k - 1)  BY <2>4, <2>5
  <2> DEFINE h == [i \in 0 .. k |-> IF i < k THEN g[i] ELSE Do(g[i - 1], i)]
  <2>7. \A i \in 0 .. (k - 1) : g[i] = IF i = 0 THEN n ELSE Do(g[i - 1], i)
    BY <2>6
  <2>8. ASSUME NEW i \in 0 .. k
        PROVE  h[i] = IF i = 0 THEN n ELSE Do(h[i - 1], i)
    <3>1. CASE i = 0
      <4>1. 0 \in 0 .. (k - 1) /\ i < k  BY <2>3, <2>4, <3>1
      <4> QED  BY <2>7, <3>1, <4>1
    <3>2. CASE i # 0
      <4>1. i - 1 \in 0 .. k /\ i - 1 < k  BY <2>4, <3>2
      <4>2. h[i - 1] = g[i - 1]  BY <4>1
      <4>3. CASE i < k
        <5>1. i \in 0 .. (k - 1)  BY <2>4, <4>3
        <5> QED  BY <2>7, <3>2, <4>2, <4>3, <5>1
      <4>4. CASE ~ (i < k)  BY <3>2, <4>2, <4>4
      <4> QED  BY <4>3, <4>4
    <3> QED  BY <3>1, <3>2
  <2>9. h = [i \in 0 .. k |-> IF i = 0 THEN n ELSE Do(h[i - 1], i)]
    <3>1. h = [i \in 0 .. k |-> h[i]]  OBVIOUS
    <3> HIDE DEF h
    <3> QED  BY <2>8, <3>1
  <2> HIDE DEF h
  <2> QED  BY <2>2, <2>9
<1>4. K \in 0 .. K  OBVIOUS
<1>5. \E f : Fold(f, K)  BY <1>3, <1>4
<1> QED  BY <1>5 DEF Loop, Do

\* Such a loop keeps the bijection and every name.
LEMMA LoopKeeps ==
  ASSUME NEW W, OneName(W), \A w \in W : w[1] \in Seq(STRING),
         NEW n, NsInv(n, W), NEW K \in Nat, NEW q, \A k \in 1 .. K : q[k] \in W,
         NEW f, Loop(f, n, K, q)
  PROVE  NsInv(f[K], W) /\ Kept(n, f[K])
<1> DEFINE T == {k \in 0 .. K : ~ (NsInv(f[k], W) /\ Kept(n, f[k]))}
           R == OpToRel(<, Nat)
<1>1. \A x, y \in Nat : y < x => <<y, x>> \in R  BY DEF OpToRel
<1>2. IsWellFoundedOn(R, Nat)  BY NatLessThanWellFounded
<1>3. /\ f[0] = n
      /\ \A k \in 1 .. K : f[k] = NS!Add(f[k - 1], q[k][1], q[k][2])
  <2>1. \A k \in 0 .. K :
          f[k] = IF k = 0 THEN n ELSE NS!Add(f[k - 1], q[k][1], q[k][2])
    BY DEF Loop
  <2> QED  BY <2>1
<1> HIDE DEF R
<1>4. T = {}
  <2> SUFFICES ASSUME T # {} PROVE FALSE  OBVIOUS
  <2>1. T \subseteq Nat  OBVIOUS
  <2>2. PICK k \in T : \A y \in T : ~ (<<y, k>> \in R)
    <3> HIDE DEF T
    <3> QED  BY <1>2, <2>1, WFMin
  <2>3. k # 0  BY <1>3, <2>2 DEF Kept
  <2>4. k - 1 \in 0 .. K /\ k - 1 < k /\ k \in 1 .. K  BY <2>1, <2>2, <2>3
  <2>5. k - 1 \notin T  BY <1>1, <2>1, <2>2, <2>4
  <2>6. NsInv(f[k - 1], W) /\ Kept(n, f[k - 1])  BY <2>4, <2>5
  <2>7. NsInv(f[k], W) /\ Kept(f[k - 1], f[k])
    <3> DEFINE w == q[k]
               x == f[k - 1]
               y == f[k]
    <3>1. w \in W /\ y = NS!Add(x, w[1], w[2]) /\ NsInv(x, W)
      BY <1>3, <2>4, <2>6
    <3> HIDE DEF w, x, y
    <3>2. NsInv(y, W) /\ Kept(x, y)  BY <3>1, AddKeeps
    <3> QED  BY <3>2 DEF x, y
  <2>8. Kept(n, f[k])  BY <2>6, <2>7, KeptOn
  <2> QED  BY <2>2, <2>7, <2>8
<1>5. K \in 0 .. K  OBVIOUS
<1> QED  BY <1>4, <1>5
-----------------------------------------------------------------------------
(***************************************************************************)
(* The libraries come first, and each gets its own name.                   *)
(***************************************************************************)
LibsOnly(n, r) ==
  /\ IsFiniteSet(DOMAIN n.name2id)
  /\ \A m \in DOMAIN n.name2id : m \in Std /\ n.name2id[m] = PathOf(r, StdPath[m])

LEMMA LibIsItself ==
  ASSUME NEW r, NEW n, LibsOnly(n, r), NEW lib \in Std,
         NEW k, k = NS!Add(n, lib, PathOf(r, StdPath[lib]))
  PROVE  /\ LibsOnly(k, r)
         /\ DOMAIN k.name2id = DOMAIN n.name2id \cup {lib}
<1> DEFINE p == PathOf(r, StdPath[lib])
           a == NS!AddedName(n, lib, p)
<1>1. lib \in Seq(STRING)  BY ImportsAssumption
<1>2. IsFiniteSet(DOMAIN n.name2id)  BY DEF LibsOnly
<1>3. PICK cnt \in Nat : a = NS!Candidate(lib, cnt) /\ NS!FirstFit(n, lib, p, cnt)
  BY <1>1, <1>2, AddedIsFirstFit
<1>4. ~NS!IsForeign(n, lib, p)  BY DEF LibsOnly, NS!IsForeign, NS!IsFree
<1>5. NS!Candidate(lib, 0) = lib  BY DEF NS!Candidate
<1>6. NS!FirstFit(n, lib, p, 0)  BY <1>4, <1>5 DEF NS!FirstFit
<1>7. a = lib  BY <1>3, <1>5, <1>6, FitIsOne
<1>8. k = NS!Claim(n, lib, p)  BY <1>7 DEF NS!Add
<1> HIDE DEF p, a
<1>9. /\ DOMAIN k.name2id = DOMAIN n.name2id \cup {lib}
      /\ k.name2id[lib] = p
      /\ \A m \in DOMAIN n.name2id \ {lib} : k.name2id[m] = n.name2id[m]
  BY <1>8, ClaimFacts
<1>10. IsFiniteSet(DOMAIN n.name2id \cup {lib})  BY ONLY <1>2, FS_AddElement
<1> QED  BY <1>9, <1>10 DEF LibsOnly, p

LEMMA LibsLoop ==
  ASSUME NEW r, NEW K \in Nat, NEW order \in [1 .. K -> Std], NEW q,
         \A k \in 1 .. K : q[k] = <<order[k], PathOf(r, StdPath[order[k]])>>,
         NEW f, Loop(f, NS!NewNamespace, K, q)
  PROVE  LibsOnly(f[K], r) /\ \A i \in 1 .. K : order[i] \in DOMAIN f[K].name2id
<1> DEFINE Fine(k) == LibsOnly(f[k], r) /\ \A i \in 1 .. k : order[i] \in DOMAIN f[k].name2id
           T == {k \in 0 .. K : ~ Fine(k)}
           R == OpToRel(<, Nat)
<1>1. \A x, y \in Nat : y < x => <<y, x>> \in R  BY DEF OpToRel
<1>2. IsWellFoundedOn(R, Nat)  BY NatLessThanWellFounded
<1>3. /\ f[0] = NS!NewNamespace
      /\ \A k \in 1 .. K : f[k] = NS!Add(f[k - 1], q[k][1], q[k][2])
  <2>1. \A k \in 0 .. K :
          f[k] = IF k = 0 THEN NS!NewNamespace ELSE NS!Add(f[k - 1], q[k][1], q[k][2])
    BY DEF Loop
  <2> QED  BY <2>1
<1> HIDE DEF R
<1>4. Fine(0)
  <2>1. DOMAIN f[0].name2id = {}  BY <1>3 DEF NS!NewNamespace, NS!GM!EmptyMap
  <2> QED  BY <2>1, FS_EmptySet DEF LibsOnly
<1>5. T = {}
  <2> SUFFICES ASSUME T # {} PROVE FALSE  OBVIOUS
  <2>1. T \subseteq Nat  OBVIOUS
  <2>2. PICK k \in T : \A y \in T : ~ (<<y, k>> \in R)
    <3> HIDE DEF T
    <3> QED  BY <1>2, <2>1, WFMin
  <2>3. k # 0  BY <1>4, <2>2
  <2>4. k - 1 \in 0 .. K /\ k - 1 < k /\ k \in 1 .. K  BY <2>1, <2>2, <2>3
  <2>5. k - 1 \notin T  BY <1>1, <2>1, <2>2, <2>4
  <2>6. Fine(k - 1)  BY <2>4, <2>5
  <2> DEFINE x == f[k - 1]
             y == f[k]
             lib == order[k]
  <2>7. lib \in Std /\ y = NS!Add(x, lib, PathOf(r, StdPath[lib])) /\ LibsOnly(x, r)
    <3>1. q[k] = <<lib, PathOf(r, StdPath[lib])>> /\ lib \in Std  BY <2>4
    <3>2. q[k][1] = lib /\ q[k][2] = PathOf(r, StdPath[lib])  BY <3>1
    <3>3. y = NS!Add(x, q[k][1], q[k][2])  BY <1>3, <2>4
    <3> QED  BY <2>6, <3>1, <3>2, <3>3
  <2>8. LibsOnly(y, r) /\ DOMAIN y.name2id = DOMAIN x.name2id \cup {lib}
    <3> HIDE DEF x, y, lib
    <3> QED  BY <2>7, LibIsItself
  <2>9. \A i \in 1 .. k : order[i] \in DOMAIN y.name2id
    <3>1. \A i \in 1 .. k : i \in 1 .. (k - 1) \/ i = k  BY <2>4
    <3> QED  BY <2>6, <2>8, <3>1
  <2> QED  BY <2>2, <2>8, <2>9
<1>6. K \in 0 .. K  OBVIOUS
<1> QED  BY <1>5, <1>6

\* A manager without names is one to one.
LEMMA NewIsOneToOne == ASSUME NEW W PROVE NsInv(NS!NewNamespace, W)
<1>1. DOMAIN NS!NewNamespace.name2id = {} /\ DOMAIN NS!NewNamespace.id2name = {}
  BY DEF NS!NewNamespace, NS!GM!EmptyMap
<1> QED  BY <1>1, FS_EmptySet DEF NsInv
-----------------------------------------------------------------------------
(***************************************************************************)
(* What must be said of the inputs.                                        *)
(***************************************************************************)

\* Whatever is replaced, a path is imported under one name: no two libraries
\* share a path, and IDLs that do are in one Go package.
OnePackagePerPath == \A r \in Replacements : OneName(Wants(r))

\* What comes with an expanded field has in Go the name its IDL gives it, and
\* nobody else can be given that name.
NestedStandOut ==
  \A r \in Replacements : \A d \in Documents : \A idl \in d.nested :
    /\ RefName[idl] = Pkg[idl]
    /\ \A w \in Wants(r) : \A c \in Nat :
         NS!Candidate(w[1], c) = Pkg[idl] => w[2] = PathOf(r, Path[idl])

\* The name a use is written with is that of the package it means.
Owns(n, use) == use[1] \in DOMAIN n.name2id /\ n.name2id[use[1]] = use[2]

\* The libraries and all that the code names are in the manager.
OwnInv ==
  /\ replace \in Replacements /\ doc \in Documents
  /\ NsInv(imports, Wants(replace))
  /\ todo # "init" =>
       \A lib \in Std : /\ lib \in DOMAIN imports.name2id
                        /\ imports.name2id[lib] = Replaced(StdPath[lib])
  /\ \A u \in code : Owns(imports, u)

LEMMA WantsFacts ==
  ASSUME NEW r
  PROVE  /\ \A w \in Wants(r) : w[1] \in Seq(STRING)
         /\ \A lib \in Std : <<lib, PathOf(r, StdPath[lib])>> \in Wants(r)
         /\ \A idl \in Idls : <<Pkg[idl], PathOf(r, Path[idl])>> \in Wants(r)
BY ImportsAssumption DEF Wants

LEMMA DocumentFacts ==
  ASSUME doc \in Documents
  PROVE  /\ doc.includes \in Seq(Idls)
         /\ doc.expanded \subseteq Idls /\ doc.types \subseteq Idls
         /\ doc.values \subseteq Idls /\ doc.nested \subseteq Idls
BY ImportsAssumption

\* Names that are kept keep what is known of libraries and uses.
LEMMA OwnKept ==
  ASSUME OwnInv, todo # "init", UNCHANGED <<replace, doc>>,
         NsInv(imports', Wants(replace)), Kept(imports, imports'),
         \A u \in code' : u \in code \/ Owns(imports', u)
  PROVE  OwnInv'
BY DEF OwnInv, Owns, Kept, Replaced, Wants, PathOf

\* What includeIDL answers: the path's name, old or new.
LEMMA IncludedFacts ==
  ASSUME OnePackagePerPath, OwnInv, NEW idl \in Idls
  PROVE  LET inc == IncludedAs(idl)
             path == Replaced(Path[idl])
         IN  /\ NsInv(inc.ns, Wants(replace)) /\ Kept(imports, inc.ns)
             /\ path \in DOMAIN inc.ns.id2name /\ inc.name = inc.ns.id2name[path]
<1> DEFINE inc == IncludedAs(idl)
           path == Replaced(Path[idl])
           known == NS!NameFor(imports, path, <<>>)
           w == <<Pkg[idl], path>>
           new == NS!Add(imports, w[1], w[2])
           W == Wants(replace)
<1>1. /\ NsInv(imports, W) /\ OneName(W) /\ w \in W /\ \A v \in W : v[1] \in Seq(STRING)
  BY WantsFacts DEF OwnInv, OnePackagePerPath, Replaced, PathOf
<1>2. /\ NsInv(new, W) /\ Kept(imports, new) /\ path \in DOMAIN new.id2name
  <2>1. w[2] = path  OBVIOUS
  <2> HIDE DEF w, W, path
  <2>2. NsInv(new, W) /\ Kept(imports, new) /\ w[2] \in DOMAIN new.id2name
    BY <1>1, AddKeeps
  <2> QED  BY <2>1, <2>2
<1>3. CASE known # <<>>
  <2>1. inc = [name |-> known, ns |-> imports]  BY <1>3 DEF IncludedAs
  <2>2. path \in DOMAIN imports.id2name /\ known = imports.id2name[path]
    BY <1>3 DEF NS!NameFor, NS!GM!Get
  <2> QED  BY <1>1, <2>1, <2>2 DEF Kept
<1>4. CASE known = <<>>
  <2>1. inc = [name |-> NS!NameFor(new, path, <<>>), ns |-> new]
    BY <1>4 DEF IncludedAs, Include, AddPath
  <2> HIDE DEF new
  <2> QED  BY <1>2, <2>1 DEF NS!NameFor, NS!GM!Get
<1> QED  BY <1>3, <1>4

\* That name is the first candidate for the package's own that was to be had.
LEMMA IncludedIsFirst ==
  ASSUME OnePackagePerPath, OwnInv, NEW idl \in Idls
  PROVE  LET inc == IncludedAs(idl)
             path == Replaced(Path[idl])
         IN  \E cnt \in Nat :
               /\ inc.name = NS!Candidate(Pkg[idl], cnt)
               /\ \A c \in 0 .. (cnt - 1) :
                    NS!IsForeign(inc.ns, NS!Candidate(Pkg[idl], c), path)
<1> DEFINE inc == IncludedAs(idl)
           path == Replaced(Path[idl])
           W == Wants(replace)
           w == <<Pkg[idl], path>>
           n == inc.ns
<1>1. /\ NsInv(n, W) /\ path \in DOMAIN n.id2name /\ inc.name = n.id2name[path]
  BY IncludedFacts
<1>2. OneName(W) /\ w \in W /\ w[1] = Pkg[idl] /\ w[2] = path
  BY WantsFacts DEF OwnInv, OnePackagePerPath, Replaced, PathOf
<1> HIDE DEF n, path, W, w
<1>3. PICK v \in W, cnt \in Nat :
        /\ v[2] = path /\ n.id2name[path] = NS!Candidate(v[1], cnt)
        /\ \A c \in 0 .. (cnt - 1) : NS!IsForeign(n, NS!Candidate(v[1], c), path)
  BY <1>1 DEF NsInv, FirstFor
<1>4. v[1] = Pkg[idl]  BY <1>2, <1>3 DEF OneName
<1> QED  BY <1>1, <1>3, <1>4 DEF n, path

\* The package of an expanded field's type has the name the field uses.
LEMMA NestedHasItsName ==
  ASSUME NestedStandOut, OnePackagePerPath, OwnInv, NEW idl \in doc.nested, idl \in Idls
  PROVE  IncludedAs(idl).name = RefName[idl]
<1> DEFINE inc == IncludedAs(idl)
           path == Replaced(Path[idl])
           W == Wants(replace)
           n == inc.ns
<1>1. NsInv(n, W)  BY IncludedFacts
<1>2. /\ RefName[idl] = Pkg[idl]
      /\ \A w \in W : \A c \in Nat : NS!Candidate(w[1], c) = Pkg[idl] => w[2] = path
  BY DEF NestedStandOut, OwnInv, Replaced, PathOf
<1>3. PICK cnt \in Nat :
        /\ inc.name = NS!Candidate(Pkg[idl], cnt)
        /\ \A c \in 0 .. (cnt - 1) : NS!IsForeign(n, NS!Candidate(Pkg[idl], c), path)
  BY IncludedIsFirst
<1> HIDE DEF n, path, W, inc
<1>4. NS!Candidate(Pkg[idl], 0) = Pkg[idl]  BY DEF NS!Candidate
<1>5. ~NS!IsForeign(n, Pkg[idl], path)
  <2> SUFFICES ASSUME Pkg[idl] \in DOMAIN n.name2id, n.name2id[Pkg[idl]] # path
               PROVE  FALSE
    BY DEF NS!IsForeign, NS!IsFree
  <2> DEFINE q == n.name2id[Pkg[idl]]
  <2>1. q \in DOMAIN n.id2name /\ n.id2name[q] = Pkg[idl]  BY <1>1 DEF NsInv
  <2> HIDE DEF q
  <2>2. PICK w \in W, c \in Nat : w[2] = q /\ n.id2name[q] = NS!Candidate(w[1], c)
    BY <1>1, <2>1 DEF NsInv, FirstFor
  <2>3. w[2] = path  BY <1>2, <2>1, <2>2
  <2> QED  BY <2>2, <2>3 DEF q
<1>6. cnt = 0
  <2> SUFFICES ASSUME cnt # 0 PROVE FALSE  OBVIOUS
  <2>1. 0 \in 0 .. (cnt - 1)  OBVIOUS
  <2> QED  BY <1>3, <1>4, <1>5, <2>1
<1> QED  BY <1>2, <1>3, <1>4, <1>6 DEF inc

\* The libraries, in any order.
LEMMA InitOwns ==
  ASSUME OwnInv, OnePackagePerPath, InitImports, code = {}
  PROVE  OwnInv'
<1> USE DEF InitImports
<1>1. PICK order \in Orders :
        imports' = LET ns[n \in 0 .. Len(order)] ==
                         IF n = 0 THEN NS!NewNamespace
                         ELSE AddPath(ns[n - 1], order[n], StdPath[order[n]])
                   IN  ns[Len(order)]
  OBVIOUS
<1> DEFINE K == Cardinality(Std)
           q == [k \in 1 .. K |-> <<order[k], PathOf(replace, StdPath[order[k]])>>]
           start == NS!NewNamespace
           W == Wants(replace)
<1>2. /\ K \in Nat /\ order \in [1 .. K -> Std] /\ Len(order) = K
      /\ \A lib \in Std : \E k \in 1 .. K : order[k] = lib
  <2>1. K \in Nat  BY ImportsAssumption, FS_CardinalityType
  <2>2. order \in [1 .. K -> Std] /\ \A lib \in Std : \E k \in DOMAIN order : order[k] = lib
    BY DEF Orders
  <2>3. order \in Seq(Std) /\ Len(order) = K
    <3> HIDE DEF K
    <3> QED  BY <2>1, <2>2
  <2> QED  BY <2>1, <2>2, <2>3
<1>3. \A k \in 1 .. K : /\ q[k] = <<order[k], PathOf(replace, StdPath[order[k]])>>
                        /\ q[k][1] = order[k]
                        /\ q[k][2] = Replaced(StdPath[order[k]])
  BY DEF Replaced, PathOf
<1>h. HIDE DEF K, q
<1>4. ASSUME NEW k \in 1 .. K  PROVE q[k] \in W
  <2>1. order[k] \in Std  BY <1>2
  <2> QED  BY <1>3, <2>1, WantsFacts
<1> DEFINE Made(f) == f = [n \in 0 .. Len(order) |->
                             IF n = 0 THEN start
                             ELSE AddPath(f[n - 1], order[n], StdPath[order[n]])]
<1>5. \A f : Loop(f, start, K, q) <=> Made(f)
  <2>1. ASSUME NEW x, NEW n \in 0 .. K, n # 0
        PROVE  NS!Add(x, q[n][1], q[n][2]) = AddPath(x, order[n], StdPath[order[n]])
    BY <1>2, <1>3, <2>1, SMTT(30) DEF AddPath
  <2>2. ASSUME NEW f
        PROVE  [k \in 0 .. K |-> IF k = 0 THEN start ELSE NS!Add(f[k - 1], q[k][1], q[k][2])]
               = [n \in 0 .. Len(order) |->
                     IF n = 0 THEN start
                     ELSE AddPath(f[n - 1], order[n], StdPath[order[n]])]
    BY <1>2, <2>1
  <2> QED  BY <2>2 DEF Loop
<1>6. \E f : Made(f)  BY <1>2, <1>5, LoopIsDefined
<1>7. PICK f : Made(f) /\ imports' = f[K]
  <2> DEFINE g == CHOOSE f : Made(f)
  <2>1. Made(g)  BY <1>6
  <2>2. imports' = g[Len(order)]  BY <1>1
  <2> QED  BY <1>2, <2>1, <2>2
<1>8. Loop(f, start, K, q)  BY <1>5, <1>7
<1>h2. HIDE DEF Made, start
<1>9. OneName(W) /\ \A w \in W : w[1] \in Seq(STRING)
  BY WantsFacts DEF OwnInv, OnePackagePerPath
<1>10. NsInv(start, W)  BY NewIsOneToOne DEF start
<1>11. NsInv(imports', W)
  <2> HIDE DEF W
  <2> QED  BY <1>2, <1>4, <1>7, <1>8, <1>9, <1>10, LoopKeeps
<1>12. LibsOnly(imports', replace) /\ \A k \in 1 .. K : order[k] \in DOMAIN imports'.name2id
  <2>1. Loop(f, NS!NewNamespace, K, q)  BY <1>8 DEF start
  <2>2. \A k \in 1 .. K : q[k] = <<order[k], PathOf(replace, StdPath[order[k]])>>
    BY <1>3
  <2>3. K \in Nat /\ order \in [1 .. K -> Std]  BY <1>2
  <2>4. LibsOnly(f[K], replace) /\ \A k \in 1 .. K : order[k] \in DOMAIN f[K].name2id
    BY ONLY <2>1, <2>2, <2>3, LibsLoop
  <2> QED  BY <1>7, <2>4
<1>13. \A lib \in Std : /\ lib \in DOMAIN imports'.name2id
                        /\ imports'.name2id[lib] = Replaced(StdPath[lib])
  BY <1>2, <1>12 DEF LibsOnly, Replaced, PathOf
<1>14. UNCHANGED <<replace, doc, code>>  OBVIOUS
<1> HIDE DEF InitImports
<1> QED  BY <1>11, <1>13, <1>14 DEF OwnInv, Replaced, Wants, PathOf

\* The IDLs of the include list.
LEMMA IncludesOwn ==
  ASSUME OwnInv, OnePackagePerPath, BuildIncludes
  PROVE  OwnInv'
<1> DEFINE K == Len(doc.includes)
           q == [k \in 1 .. K |-> <<Pkg[doc.includes[k]], Replaced(Path[doc.includes[k]])>>]
           W == Wants(replace)
           Made(f) == f = [n \in 0 .. K |->
                             IF n = 0 THEN imports
                             ELSE Include(f[n - 1], doc.includes[n])]
           g == CHOOSE f : Made(f)
<1>1. /\ imports' = g[K] /\ todo = "include"
      /\ UNCHANGED <<replace, doc, code>>
  BY DEF BuildIncludes
<1>2. K \in Nat /\ \A k \in 1 .. K : doc.includes[k] \in Idls
  <2>1. doc.includes \in Seq(Idls)  BY DocumentFacts DEF OwnInv
  <2> QED  BY <2>1
<1>3. \A k \in 1 .. K : /\ q[k] = <<Pkg[doc.includes[k]], Replaced(Path[doc.includes[k]])>>
                        /\ q[k][1] = Pkg[doc.includes[k]]
                        /\ q[k][2] = Replaced(Path[doc.includes[k]])
  OBVIOUS
<1>h. HIDE DEF K, q, g, Made
<1>4. \A k \in 1 .. K : q[k] \in W
  BY <1>2, <1>3, WantsFacts DEF Replaced, PathOf
<1>5. \A f : Loop(f, imports, K, q) <=> Made(f)
  <2>1. ASSUME NEW x, NEW n \in 0 .. K, n # 0
        PROVE  NS!Add(x, q[n][1], q[n][2]) = Include(x, doc.includes[n])
    BY <1>2, <1>3, <2>1 DEF Include, AddPath
  <2>2. ASSUME NEW f
        PROVE  [k \in 0 .. K |-> IF k = 0 THEN imports ELSE NS!Add(f[k - 1], q[k][1], q[k][2])]
               = [n \in 0 .. K |->
                     IF n = 0 THEN imports ELSE Include(f[n - 1], doc.includes[n])]
    BY <1>2, <2>1
  <2> QED  BY <2>2 DEF Loop, Made
<1>6. \E f : Made(f)  BY <1>2, <1>5, LoopIsDefined
<1>7. Loop(g, imports, K, q)  BY <1>5, <1>6 DEF g
<1>8. OneName(W) /\ NsInv(imports, W) /\ \A w \in W : w[1] \in Seq(STRING)
  BY WantsFacts DEF OwnInv, OnePackagePerPath
<1>9. NsInv(imports', W) /\ Kept(imports, imports')
  <2> HIDE DEF W
  <2> QED  BY <1>1, <1>2, <1>4, <1>7, <1>8, LoopKeeps
<1>10. todo # "init" /\ \A u \in code' : u \in code  BY <1>1
<1> QED  BY <1>1, <1>9, <1>10, OwnKept

\* A reference of the root to another package.
LEMMA ReferenceOwns ==
  ASSUME OwnInv, OnePackagePerPath, NEW idl \in Idls, ResolveReference(idl)
  PROVE  OwnInv'
<1> DEFINE inc == IncludedAs(idl)
           path == Replaced(Path[idl])
<1>1. /\ NsInv(inc.ns, Wants(replace)) /\ Kept(imports, inc.ns)
      /\ path \in DOMAIN inc.ns.id2name /\ inc.name = inc.ns.id2name[path]
  BY IncludedFacts
<1>2. /\ imports' = inc.ns /\ code' = code \cup {<<inc.name, path>>}
      /\ todo = "resolve" /\ UNCHANGED <<replace, doc>>
  BY DEF ResolveReference
<1> HIDE DEF inc, path
<1>3. inc.name \in DOMAIN inc.ns.name2id /\ inc.ns.name2id[inc.name] = path
  BY <1>1 DEF NsInv
<1>4. \A u \in code' : u \in code \/ Owns(imports', u)
  BY <1>2, <1>3 DEF Owns
<1> QED  BY <1>1, <1>2, <1>4, OwnKept

\* A type that comes with an expanded field.
LEMMA ExpandedOwns ==
  ASSUME OwnInv, OnePackagePerPath, NestedStandOut, NEW idl \in Idls,
         ResolveExpanded(idl)
  PROVE  OwnInv' /\ IncludedAs(idl).name = RefName[idl]
<1> DEFINE inc == IncludedAs(idl)
           path == Replaced(Path[idl])
<1>1. /\ NsInv(inc.ns, Wants(replace)) /\ Kept(imports, inc.ns)
      /\ path \in DOMAIN inc.ns.id2name /\ inc.name = inc.ns.id2name[path]
  BY IncludedFacts
<1>2. /\ imports' = inc.ns /\ code' = code \cup {<<RefName[idl], path>>}
      /\ todo = "resolve" /\ idl \in doc.nested /\ UNCHANGED <<replace, doc>>
  BY DEF ResolveExpanded
<1>3. inc.name = RefName[idl]  BY <1>2, NestedHasItsName
<1> HIDE DEF inc, path
<1>4. RefName[idl] \in DOMAIN inc.ns.name2id /\ inc.ns.name2id[RefName[idl]] = path
  BY <1>1, <1>3 DEF NsInv
<1>5. \A u \in code' : u \in code \/ Owns(imports', u)
  BY <1>2, <1>4 DEF Owns
<1> QED  BY <1>1, <1>2, <1>3, <1>5, OwnKept DEF inc

\* Nothing is named in the code before the references are resolved.
NoCodeYet == todo \in {"init", "include", "unused"} => code = {}

LEMMA OwnStep ==
  OnePackagePerPath /\ NestedStandOut /\ OwnInv /\ NoCodeYet /\ [Next]_vars
    => OwnInv' /\ NoCodeYet'
<1> SUFFICES ASSUME OnePackagePerPath, NestedStandOut, OwnInv, NoCodeYet, [Next]_vars
             PROVE  OwnInv' /\ NoCodeYet'
  OBVIOUS
\* A step that leaves the manager alone, and names no more than libraries.
<1>1. ASSUME UNCHANGED <<replace, doc, imports>>, todo # "init",
             \A u \in code' : u \in code \/ Owns(imports', u)
      PROVE  OwnInv'
  BY <1>1, OwnKept DEF OwnInv, Kept
<1>a. CASE InitImports
  BY <1>a, InitOwns DEF InitImports, NoCodeYet
<1>b. CASE BuildIncludes
  BY <1>b, IncludesOwn DEF BuildIncludes, NoCodeYet
<1>c. CASE CheckUnused
  BY <1>1, <1>c DEF CheckUnused, NoCodeYet
<1>d. ASSUME NEW idl \in Idls, ResolveReference(idl)  PROVE OwnInv' /\ NoCodeYet'
  BY <1>d, ReferenceOwns DEF ResolveReference, NoCodeYet
<1>e. ASSUME NEW idl \in Idls, ResolveExpanded(idl)  PROVE OwnInv' /\ NoCodeYet'
  BY <1>e, ExpandedOwns DEF ResolveExpanded, NoCodeYet
<1>f. CASE ScopeIsBuilt
  BY <1>1, <1>f DEF ScopeIsBuilt, NoCodeYet
<1>g. ASSUME NEW lib \in Std, UseStdLibrary(lib)  PROVE OwnInv' /\ NoCodeYet'
  <2>1. /\ UNCHANGED <<replace, doc, imports, todo>> /\ todo = "render"
        /\ code' = code \cup {<<lib, Replaced(StdPath[lib])>>}
    BY <1>g DEF UseStdLibrary
  <2>2. lib \in DOMAIN imports.name2id /\ imports.name2id[lib] = Replaced(StdPath[lib])
    BY <2>1 DEF OwnInv
  <2> QED  BY <1>1, <2>1, <2>2 DEF NoCodeYet, Owns
<1>h. CASE ResolveImports
  BY <1>1, <1>h DEF ResolveImports, NoCodeYet
<1>i. CASE UNCHANGED vars
  BY <1>i DEF vars, OwnInv, Owns, NoCodeYet, Replaced
<1> QED  BY <1>a, <1>b, <1>c, <1>d, <1>e, <1>f, <1>g, <1>h, <1>i DEF Next

LEMMA OwnInit == Init => OwnInv /\ NoCodeYet
BY NewIsOneToOne DEF Init, OwnInv, NoCodeYet

\* Whatever the libraries, the IDLs and the order they come in, one name of the
\* generated code is one package: for inputs that import a path under one name
\* and whose expanded fields need no package that had to be renamed.
THEOREM OneNameIsOnePackage ==
  OnePackagePerPath /\ NestedStandOut => (Spec => []OneNameOnePackage)
<1> SUFFICES ASSUME OnePackagePerPath, NestedStandOut
             PROVE  Spec => []OneNameOnePackage
  OBVIOUS
<1>1. OwnInv => OneNameOnePackage  BY DEF OwnInv, Owns, OneNameOnePackage
<1>2. OwnInv /\ NoCodeYet /\ [Next]_vars => OwnInv' /\ NoCodeYet'  BY OwnStep
<1> QED  BY <1>1, <1>2, OwnInit, PTL DEF Spec
-----------------------------------------------------------------------------
(***************************************************************************)
(* What the code names is imported.                                        *)
(***************************************************************************)

\* No IDL has the import path of a standard library.
LibrariesApart ==
  \A r \in Replacements : \A lib \in Std : \A idl \in Idls :
    PathOf(r, StdPath[lib]) # PathOf(r, Path[idl])

\* The names that are marked unused: of IDLs that fields were expanded from, and
\* no type refers to.
Dropped(d) == {RefName[idl] : idl \in d.expanded}
                \ {RefName[idl] : idl \in d.types \cup d.nested}

\* No type or value is written with such a name.
DroppedAreUnused ==
  \A d \in Documents : \A name \in Dropped(d) : \A idl \in d.types \cup d.values :
    \A c \in Nat : NS!Candidate(Pkg[idl], c) # name

\* What the code names was not marked unused, or is not any longer.
UsedInv ==
  /\ todo = "unused" => notUsed \subseteq Std
  /\ todo = "include" => notUsed \subseteq Std
  /\ todo = "resolve" => notUsed \subseteq Std \cup Dropped(doc)
  /\ \A u \in code : u[1] \notin notUsed /\ u[2] \in Paths

LEMMA ReplacedArePaths ==
  ASSUME replace \in Replacements
  PROVE  /\ \A lib \in Std : Replaced(StdPath[lib]) \in Paths
         /\ \A idl \in Idls : Replaced(Path[idl]) \in Paths
BY DEF Paths, Replaced, Get

\* The name that a type or a value is written with is not among the unused.
LEMMA ReferenceIsUsed ==
  ASSUME OnePackagePerPath, LibrariesApart, DroppedAreUnused, OwnInv,
         todo # "init", NEW idl \in Idls, idl \in doc.types \cup doc.values
  PROVE  IncludedAs(idl).name \notin Std \cup Dropped(doc)
<1> DEFINE inc == IncludedAs(idl)
           path == Replaced(Path[idl])
<1>1. /\ NsInv(inc.ns, Wants(replace)) /\ Kept(imports, inc.ns)
      /\ path \in DOMAIN inc.ns.id2name /\ inc.name = inc.ns.id2name[path]
  BY IncludedFacts
<1>2. PICK cnt \in Nat : inc.name = NS!Candidate(Pkg[idl], cnt)
  BY IncludedIsFirst
<1>3. inc.name \notin Dropped(doc)
  BY <1>2 DEF DroppedAreUnused, OwnInv
<1>4. inc.ns.name2id[inc.name] = path  BY <1>1 DEF NsInv
<1>5. ASSUME inc.name \in Std  PROVE FALSE
  <2>1. /\ inc.name \in DOMAIN imports.name2id
        /\ imports.name2id[inc.name] = Replaced(StdPath[inc.name])
    BY <1>5 DEF OwnInv
  <2>2. Replaced(StdPath[inc.name]) = path
    <3> HIDE DEF inc, path
    <3> QED  BY <1>1, <1>4, <2>1 DEF Kept
  <2>3. Replaced(StdPath[inc.name]) # path
    BY <1>5 DEF LibrariesApart, OwnInv, Replaced, PathOf
  <2> QED  BY <2>2, <2>3
<1> QED  BY <1>3, <1>5

\* The lines that ResolveImports yields.
LEMMA LinesAreRight ==
  ASSUME OwnInv, UsedInv, ResolveImports, NEW u \in code
  PROVE  u[2] \in DOMAIN lines' /\ lines'[u[2]] = u[1]
<1>1. /\ u[1] \in DOMAIN imports.name2id /\ imports.name2id[u[1]] = u[2]
      /\ u[1] \notin notUsed /\ u[2] \in Paths
  BY DEF OwnInv, Owns, UsedInv
<1>2. NamesOf(u[2]) = {u[1]}
  <2>1. u[1] \in NamesOf(u[2])  BY <1>1 DEF NamesOf
  <2>2. ASSUME NEW m \in NamesOf(u[2])  PROVE m = u[1]
    <3>1. m \in DOMAIN imports.name2id /\ imports.name2id[m] = u[2]
      BY <2>2 DEF NamesOf
    <3> QED  BY <1>1, <3>1 DEF OwnInv, NsInv
  <2> QED  BY <2>1, <2>2
<1> DEFINE paths == {path \in Paths : NamesOf(path) # {}}
<1>3. PICK chosen \in SUBSET UNION {NamesOf(path) : path \in paths} :
        /\ \A path \in paths : Cardinality(chosen \cap NamesOf(path)) = 1
        /\ lines' = [path \in paths |-> CHOOSE name \in chosen \cap NamesOf(path) : TRUE]
  BY DEF ResolveImports
<1>4. u[2] \in paths  BY <1>1, <1>2
<1> HIDE DEF paths
<1>5. Cardinality(chosen \cap NamesOf(u[2])) = 1
      /\ lines'[u[2]] = CHOOSE name \in chosen \cap NamesOf(u[2]) : TRUE
  BY <1>3, <1>4
<1>6. chosen \cap NamesOf(u[2]) # {}  BY <1>5, FS_EmptySet
<1>7. chosen \cap NamesOf(u[2]) = {u[1]}  BY <1>2, <1>6
<1> QED  BY <1>3, <1>4, <1>5, <1>7

UseInv == OwnInv /\ NoCodeYet /\ UsedInv /\ EveryUseIsImported

NamesWorkOut ==
  /\ OnePackagePerPath /\ NestedStandOut
  /\ LibrariesApart /\ DroppedAreUnused

LEMMA UseStep == NamesWorkOut /\ UseInv /\ [Next]_vars => UseInv'
<1> SUFFICES ASSUME NamesWorkOut, UseInv, [Next]_vars
             PROVE  UsedInv' /\ EveryUseIsImported'
  BY OwnStep DEF UseInv, NamesWorkOut
<1>1. /\ OnePackagePerPath /\ NestedStandOut /\ LibrariesApart /\ DroppedAreUnused
      /\ OwnInv /\ NoCodeYet /\ UsedInv /\ EveryUseIsImported
      /\ replace \in Replacements /\ doc \in Documents
  BY DEF UseInv, NamesWorkOut, OwnInv
<1>a. CASE InitImports
  BY <1>1, <1>a DEF InitImports, NoCodeYet, UsedInv, EveryUseIsImported
<1>b. CASE BuildIncludes
  BY <1>1, <1>b DEF BuildIncludes, NoCodeYet, UsedInv, EveryUseIsImported
<1>c. CASE CheckUnused
  BY <1>1, <1>c DEF CheckUnused, NoCodeYet, UsedInv, EveryUseIsImported, Dropped
<1>d. ASSUME NEW idl \in Idls, ResolveReference(idl)
      PROVE  UsedInv' /\ EveryUseIsImported'
  <2>1. /\ code' = code \cup {<<IncludedAs(idl).name, Replaced(Path[idl])>>}
        /\ todo = "resolve" /\ idl \in doc.types \cup doc.values
        /\ UNCHANGED <<replace, doc, notUsed, todo, lines>>
    BY <1>d DEF ResolveReference
  <2>2. IncludedAs(idl).name \notin Std \cup Dropped(doc)
    BY <1>1, <2>1, ReferenceIsUsed
  <2>3. Replaced(Path[idl]) \in Paths  BY <1>1, ReplacedArePaths
  <2> QED  BY <1>1, <2>1, <2>2, <2>3 DEF UsedInv, EveryUseIsImported
<1>e. ASSUME NEW idl \in Idls, ResolveExpanded(idl)
      PROVE  UsedInv' /\ EveryUseIsImported'
  <2>1. /\ code' = code \cup {<<RefName[idl], Replaced(Path[idl])>>}
        /\ todo = "resolve"
        /\ notUsed' = notUsed \ {IncludedAs(idl).name}
        /\ UNCHANGED <<replace, doc, todo, lines>>
    BY <1>e DEF ResolveExpanded
  <2>2. IncludedAs(idl).name = RefName[idl]  BY <1>1, <1>e, ExpandedOwns
  <2>3. Replaced(Path[idl]) \in Paths  BY <1>1, ReplacedArePaths
  <2> QED  BY <1>1, <2>1, <2>2, <2>3 DEF UsedInv, EveryUseIsImported
<1>f. CASE ScopeIsBuilt
  BY <1>1, <1>f DEF ScopeIsBuilt, UsedInv, EveryUseIsImported
<1>g. ASSUME NEW lib \in Std, UseStdLibrary(lib)
      PROVE  UsedInv' /\ EveryUseIsImported'
  <2>1. /\ UNCHANGED <<replace, doc, todo>> /\ todo = "render"
        /\ code' = code \cup {<<lib, Replaced(StdPath[lib])>>}
        /\ notUsed' = notUsed \ {lib}
    BY <1>g DEF UseStdLibrary
  <2>2. Replaced(StdPath[lib]) \in Paths  BY <1>1, ReplacedArePaths
  <2> QED  BY <1>1, <2>1, <2>2 DEF UsedInv, EveryUseIsImported
<1>h. CASE ResolveImports
  <2>1. /\ UNCHANGED <<replace, doc, notUsed, code>> /\ todo' = "done"
    BY <1>h DEF ResolveImports
  <2>2. \A u \in code : u[2] \in DOMAIN lines' /\ lines'[u[2]] = u[1]
    BY <1>1, <1>h, LinesAreRight
  <2> QED  BY <1>1, <2>1, <2>2 DEF UsedInv, EveryUseIsImported
<1>i. CASE UNCHANGED vars
  BY <1>1, <1>i DEF vars, UsedInv, EveryUseIsImported
<1> QED  BY <1>a, <1>b, <1>c, <1>d, <1>e, <1>f, <1>g, <1>h, <1>i DEF Next

LEMMA UseInit == Init => UseInv
BY OwnInit DEF Init, UseInv, UsedInv, EveryUseIsImported

\* What the generated code names has an import line, which gives it the name
\* the code uses, however the libraries are ordered and whoever wanted a name
\* first: if moreover no IDL has a library's path, and a package that only
\* expanded fields came from is named by no other type or value.
THEOREM EveryNameIsImported == NamesWorkOut => (Spec => []EveryUseIsImported)
<1> SUFFICES ASSUME NamesWorkOut PROVE Spec => []EveryUseIsImported  OBVIOUS
<1>1. UseInv => EveryUseIsImported  BY DEF UseInv
<1>2. UseInv /\ [Next]_vars => UseInv'  BY UseStep
<1> QED  BY <1>1, <1>2, UseInit, PTL DEF Spec
=============================================================================
