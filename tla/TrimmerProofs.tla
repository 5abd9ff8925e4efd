---------------------------- MODULE TrimmerProofs ----------------------------
(***************************************************************************)
(* What holds of Trimmer for every AST that resolves, with any number of   *)
(* IDLs, definitions and services and any options, the first time that a   *)
(* process trims it: what is left resolves, and nothing is left that could *)
(* be removed.  The second time the cache of kept parts is stale, and what *)
(* is left may not resolve.                                                *)
(***************************************************************************)
EXTENDS Trimmer, FiniteSetTheorems, WellFoundedInduction, TLAPS

-----------------------------------------------------------------------------
(***************************************************************************)
(* What Reach and Filtered compute.                                        *)
(***************************************************************************)
\* A set of numbers has a smallest one.
LEMMA LeastNumber ==
  ASSUME NEW T, T \subseteq Nat, T # {}
  PROVE  \E k \in T : \A l \in T : k <= l
<1> DEFINE R == OpToRel(<, Nat)
<1>1. \A x, y \in Nat : y < x => <<y, x>> \in R  BY DEF OpToRel
<1>2. IsWellFoundedOn(R, Nat)  BY NatLessThanWellFounded
<1>h. HIDE DEF R
<1>3. PICK k \in T : \A y \in T : ~ (<<y, k>> \in R)  BY <1>2, WFMin
<1>4. \A y \in T : ~ (y < k)  BY <1>1, <1>3
<1> QED  BY <1>3, <1>4

\* R[n] is what is reached in at most n steps.
IsLayers(R, start, next, last) ==
  R = [n \in 0 .. last |-> IF n = 0 THEN start ELSE Further(R[n - 1], next)]

\* There is such a function.
LEMMA LayersExist ==
  ASSUME NEW start, NEW next, NEW last \in Nat
  PROVE  \E R : IsLayers(R, start, next, last)
<1> DEFINE To(F, i) == IF i = 0 THEN start ELSE Further(F[i - 1], next)
           P(k) == \E F : \A i \in 0 .. k : F[i] = To(F, i)
           T == {k \in Nat : ~ P(k)}
<1>1. \A F, G, i : i = 0 \/ F[i - 1] = G[i - 1] => To(F, i) = To(G, i)  OBVIOUS
<1> HIDE DEF To
<1>2. T = {}
  <2> SUFFICES ASSUME T # {} PROVE FALSE  OBVIOUS
  <2>1. PICK k \in T : \A l \in T : k <= l
    <3>1. T \subseteq Nat  OBVIOUS
    <3> HIDE DEF T
    <3> QED  BY <3>1, LeastNumber
  <2>2. k \in Nat  BY <2>1
  <2>3. \E F : k # 0 => \A i \in 0 .. k - 1 : F[i] = To(F, i)
    <3>1. CASE k = 0  BY <3>1
    <3>2. CASE k # 0
      <4>1. k - 1 \in Nat /\ ~ (k <= k - 1)  BY <2>2, <3>2
      <4>2. P(k - 1)  BY <2>1, <4>1
      <4> QED  BY <4>2
    <3> QED  BY <3>1, <3>2
  <2>4. PICK F : k # 0 => \A i \in 0 .. k - 1 : F[i] = To(F, i)  BY <2>3
  <2> DEFINE g == [i \in 0 .. k |-> To(F, i)]
  <2>5. ASSUME NEW i \in 0 .. k PROVE g[i] = To(g, i)
    <3>1. g[i] = To(F, i)  OBVIOUS
    <3>2. i = 0 \/ g[i - 1] = F[i - 1]
      <4> SUFFICES ASSUME i # 0 PROVE g[i - 1] = F[i - 1]  OBVIOUS
      <4>1. PICK j : j = i - 1  OBVIOUS
      <4>2. j \in 0 .. k /\ j \in 0 .. k - 1 /\ k # 0  BY <2>2, <4>1
      <4>3. g[j] = To(F, j) /\ F[j] = To(F, j)  BY <2>4, <4>2
      <4> QED  BY <4>1, <4>3
    <3> QED  BY <1>1, <3>1, <3>2
  <2>6. P(k)
    <3> HIDE DEF g
    <3> QED  BY <2>5
  <2> QED  BY <2>1, <2>6
<1>3. PICK F : \A i \in 0 .. last : F[i] = To(F, i)
  <2>1. P(last)  BY <1>2
  <2> QED  BY <2>1
<1> DEFINE h == [i \in 0 .. last |-> F[i]]
<1>4. ASSUME NEW i \in 0 .. last PROVE h[i] = To(h, i)
  <2>1. h[i] = To(F, i)  BY <1>3
  <2>2. i = 0 \/ h[i - 1] = F[i - 1]
    <3>1. i # 0 => i - 1 \in 0 .. last  OBVIOUS
    <3> QED  BY <3>1
  <2> QED  BY <1>1, <2>1, <2>2
<1>5. h = [i \in 0 .. last |-> To(h, i)]
  <2>1. h = [i \in 0 .. last |-> h[i]]  OBVIOUS
  <2> HIDE DEF h
  <2>2. [i \in 0 .. last |-> h[i]] = [i \in 0 .. last |-> To(h, i)]  BY <1>4
  <2> QED  BY <2>1, <2>2
<1> HIDE DEF h
<1> QED  BY <1>5 DEF To, IsLayers

\* Reach is the smallest set that contains start and whose elements lead
\* nowhere else.
LEMMA ReachIs ==
  ASSUME NEW start, NEW next, IsFiniteSet(DOMAIN next)
  PROVE  /\ start \subseteq Reach(start, next)
         /\ \A x \in Reach(start, next) \intersect DOMAIN next : next[x] \subseteq Reach(start, next)
         /\ \A C : start \subseteq C /\ (\A x \in C \intersect DOMAIN next : next[x] \subseteq C)
                     => Reach(start, next) \subseteq C
<1>1. PICK D : D = DOMAIN next  OBVIOUS
<1>2. PICK last : last = Cardinality(D) + 1  OBVIOUS
<1>3. Cardinality(D) \in Nat /\ last \in Nat  BY <1>1, <1>2, FS_CardinalityType
<1>4. PICK R : R = CHOOSE f : IsLayers(f, start, next, last)  OBVIOUS
<1>5. IsLayers(R, start, next, last)
  <2>1. \E f : IsLayers(f, start, next, last)  BY <1>3, LayersExist
  <2> QED  BY <1>4, <2>1
<1>6. Reach(start, next) = R[last]  BY <1>1, <1>2, <1>4, Zenon DEF Reach, IsLayers
<1>7. R[0] = start /\ \A n \in 0 .. last : n # 0 => R[n] = Further(R[n - 1], next)
  <2>1. 0 \in 0 .. last  BY <1>3
  <2> QED  BY <1>5, <2>1 DEF IsLayers
<1> DEFINE Closed(S) == \A x \in S \intersect D : next[x] \subseteq S
           Fine(n) == /\ start \subseteq R[n]
                      /\ Closed(R[n]) \/ n <= Cardinality(R[n] \intersect D)
                      /\ \A C : start \subseteq C /\ Closed(C) => R[n] \subseteq C
           T == {n \in 0 .. last : ~ Fine(n)}
<1>8. T = {}
  <2> SUFFICES ASSUME T # {} PROVE FALSE  OBVIOUS
  <2>1. PICK k \in T : \A l \in T : k <= l
    <3>1. T \subseteq Nat  OBVIOUS
    <3> HIDE DEF T
    <3> QED  BY <3>1, LeastNumber
  <2>2. k \in 0 .. last /\ ~ Fine(k)  BY <2>1
  <2>3. k # 0
    <3> SUFFICES ASSUME k = 0 PROVE FALSE  OBVIOUS
    <3>1. IsFiniteSet(R[0] \intersect D)  BY <1>1, FS_Subset
    <3>2. 0 <= Cardinality(R[0] \intersect D)  BY <3>1, FS_CardinalityType
    <3>3. Fine(0)  BY <1>7, <3>2
    <3> QED  BY <2>2, <3>3
  <2>4. PICK j : j = k - 1  OBVIOUS
  <2>5. j \in 0 .. last /\ ~ (k <= j) /\ k = j + 1 /\ j \in Nat  BY <1>3, <2>2, <2>3, <2>4
  <2>6. Fine(j)  BY <2>1, <2>5
  <2>7. PICK A, B : A = R[j] /\ B = R[k]  OBVIOUS
  <2>8. B = A \union UNION {next[x] : x \in A \intersect D}
    BY <1>1, <1>7, <2>2, <2>3, <2>4, <2>7 DEF Further
  <2>9. start \subseteq B  BY <2>6, <2>7, <2>8
  <2>10. \A C : start \subseteq C /\ Closed(C) => B \subseteq C  BY <2>6, <2>7, <2>8
  <2>11. Closed(B) \/ k <= Cardinality(B \intersect D)
    <3>1. CASE Closed(A)
      <4>1. A = B  BY <2>8, <3>1
      <4> QED  BY <3>1, <4>1
    <3>2. CASE A \intersect D = B \intersect D  BY <2>8, <3>2
    <3>3. CASE ~ Closed(A) /\ A \intersect D # B \intersect D
      <4>1. j <= Cardinality(A \intersect D)  BY <2>6, <2>7, <3>3
      <4>2. A \intersect D \in SUBSET (B \intersect D) /\ IsFiniteSet(B \intersect D)  BY <1>1, <2>8, FS_Subset
      <4>3. PICK a, b : a = Cardinality(A \intersect D) /\ b = Cardinality(B \intersect D)  OBVIOUS
      <4>4. a <= b /\ (a = b => A \intersect D = B \intersect D) /\ a \in Nat /\ b \in Nat
        BY <4>2, <4>3, FS_Subset, FS_CardinalityType
      <4> QED  BY <2>5, <3>3, <4>1, <4>3, <4>4
    <3> QED  BY <3>1, <3>2, <3>3
  <2> QED  BY <2>2, <2>7, <2>9, <2>10, <2>11
<1>9. Fine(last)
  <2>1. last \in 0 .. last  BY <1>3
  <2> HIDE DEF Fine
  <2> QED  BY <1>8, <2>1
<1>10. Closed(R[last])
  <2>1. PICK c, d : c = Cardinality(R[last] \intersect D) /\ d = Cardinality(D)  OBVIOUS
  <2>2. c <= d /\ c \in Nat /\ d \in Nat
    <3>1. R[last] \intersect D \in SUBSET D  OBVIOUS
    <3> QED  BY <1>1, <2>1, <3>1, FS_Subset, FS_CardinalityType
  <2>3. ~ (last <= c)  BY <1>2, <2>1, <2>2
  <2> QED  BY <1>9, <2>1, <2>3
<1> QED  BY <1>1, <1>6, <1>9, <1>10

\* F[n] is what is left of the first n elements.
Kept(F, s, S, n) == IF s[n] \in S THEN Append(F[n - 1], s[n]) ELSE F[n - 1]

IsFiltering(F, s, S) == F = [n \in 0 .. Len(s) |-> IF n = 0 THEN <<>> ELSE Kept(F, s, S, n)]

\* There is such a function.
LEMMA FilteringExists ==
  ASSUME NEW s, NEW S, NEW last, last = Len(s), last \in Nat
  PROVE  \E F : IsFiltering(F, s, S)
<1> DEFINE To(F, i) == IF i = 0 THEN <<>> ELSE Kept(F, s, S, i)
           P(k) == \E F : \A i \in 0 .. k : F[i] = To(F, i)
           T == {k \in Nat : ~ P(k)}
<1>1. \A F, G, i : i = 0 \/ F[i - 1] = G[i - 1] => To(F, i) = To(G, i)  BY DEF Kept
<1> HIDE DEF To
<1>2. T = {}
  <2> SUFFICES ASSUME T # {} PROVE FALSE  OBVIOUS
  <2>1. PICK k \in T : \A l \in T : k <= l
    <3>1. T \subseteq Nat  OBVIOUS
    <3> HIDE DEF T
    <3> QED  BY <3>1, LeastNumber
  <2>2. k \in Nat  BY <2>1
  <2>3. \E F : k # 0 => \A i \in 0 .. k - 1 : F[i] = To(F, i)
    <3>1. CASE k = 0  BY <3>1
    <3>2. CASE k # 0
      <4>1. k - 1 \in Nat /\ ~ (k <= k - 1)  BY <2>2, <3>2
      <4>2. P(k - 1)  BY <2>1, <4>1
      <4> QED  BY <4>2
    <3> QED  BY <3>1, <3>2
  <2>4. PICK F : k # 0 => \A i \in 0 .. k - 1 : F[i] = To(F, i)  BY <2>3
  <2> DEFINE g == [i \in 0 .. k |-> To(F, i)]
  <2>5. ASSUME NEW i \in 0 .. k PROVE g[i] = To(g, i)
    <3>1. g[i] = To(F, i)  OBVIOUS
    <3>2. i = 0 \/ g[i - 1] = F[i - 1]
      <4> SUFFICES ASSUME i # 0 PROVE g[i - 1] = F[i - 1]  OBVIOUS
      <4>1. PICK j : j = i - 1  OBVIOUS
      <4>2. j \in 0 .. k /\ j \in 0 .. k - 1 /\ k # 0  BY <2>2, <4>1
      <4>3. g[j] = To(F, j) /\ F[j] = To(F, j)  BY <2>4, <4>2
      <4> QED  BY <4>1, <4>3
    <3> QED  BY <1>1, <3>1, <3>2
  <2>6. P(k)
    <3> HIDE DEF g
    <3> QED  BY <2>5
  <2> QED  BY <2>1, <2>6
<1>3. PICK F : \A i \in 0 .. last : F[i] = To(F, i)
  <2>1. P(last)  BY <1>2
  <2> QED  BY <2>1
<1> DEFINE h == [i \in 0 .. last |-> F[i]]
<1>4. ASSUME NEW i \in 0 .. last PROVE h[i] = To(h, i)
  <2>1. h[i] = To(F, i)  BY <1>3
  <2>2. i = 0 \/ h[i - 1] = F[i - 1]
    <3>1. i # 0 => i - 1 \in 0 .. last  OBVIOUS
    <3> QED  BY <3>1
  <2> QED  BY <1>1, <2>1, <2>2
<1>5. h = [i \in 0 .. last |-> To(h, i)]
  <2>1. h = [i \in 0 .. last |-> h[i]]  OBVIOUS
  <2> HIDE DEF h
  <2>2. [i \in 0 .. last |-> h[i]] = [i \in 0 .. last |-> To(h, i)]  BY <1>4
  <2> QED  BY <2>1, <2>2
<1> HIDE DEF h
<1> QED  BY <1>5 DEF To, IsFiltering

\* What Filtered leaves is what it shall leave.
LEMMA FilteredIs ==
  ASSUME NEW E, NEW s \in Seq(E), NEW S
  PROVE  Filtered(s, S) \in Seq(E) /\ ToSet(Filtered(s, S)) = ToSet(s) \intersect S
<1>1. PICK last : last = Len(s)  OBVIOUS
<1>2. last \in Nat /\ DOMAIN s = 1 .. last  BY <1>1
<1>3. PICK F : F = CHOOSE f : IsFiltering(f, s, S)  OBVIOUS
<1>4. IsFiltering(F, s, S)
  <2>1. \E f : IsFiltering(f, s, S)  BY <1>1, <1>2, FilteringExists
  <2> QED  BY <1>3, <2>1
<1>5. Filtered(s, S) = F[last]  BY <1>1, <1>3, Zenon DEF Filtered, IsFiltering, Kept
<1>6. F[0] = <<>> /\ \A n \in 0 .. last : n # 0 => F[n] = Kept(F, s, S, n)
  <2>1. 0 \in 0 .. last  BY <1>2
  <2> QED  BY <1>1, <1>4, <2>1 DEF IsFiltering
<1> DEFINE Fine(n) == F[n] \in Seq(E) /\ ToSet(F[n]) = {s[i] : i \in 1 .. n} \intersect S
           T == {n \in 0 .. last : ~ Fine(n)}
<1>7. T = {}
  <2> SUFFICES ASSUME T # {} PROVE FALSE  OBVIOUS
  <2>1. PICK k \in T : \A l \in T : k <= l
    <3>1. T \subseteq Nat  OBVIOUS
    <3> HIDE DEF T
    <3> QED  BY <3>1, LeastNumber
  <2>2. k \in 0 .. last /\ ~ Fine(k)  BY <2>1
  <2>3. k # 0
    <3> SUFFICES ASSUME k = 0 PROVE FALSE  OBVIOUS
    <3>1. F[0] \in Seq(E) /\ ToSet(F[0]) = {} /\ 1 .. 0 = {}  BY <1>6 DEF ToSet
    <3> QED  BY <2>2, <3>1
  <2>4. PICK j : j = k - 1  OBVIOUS
  <2>5. /\ j \in 0 .. last /\ ~ (k <= j) /\ k \in 1 .. last
        /\ 1 .. k = 1 .. j \union {k}
    BY <1>2, <2>2, <2>3, <2>4
  <2>6. Fine(j)  BY <2>1, <2>5
  <2>7. PICK r : r = F[j]  OBVIOUS
  <2>8. PICK x : x = s[k]  OBVIOUS
  <2>9. x \in E  BY <1>2, <2>5, <2>8
  <2>10. r \in Seq(E) /\ ToSet(r) = {s[i] : i \in 1 .. j} \intersect S  BY <2>6, <2>7
  <2>11. F[k] = IF x \in S THEN Append(r, x) ELSE r  BY <1>6, <2>2, <2>3, <2>4, <2>7, <2>8 DEF Kept
  <2>12. {s[i] : i \in 1 .. k} = {s[i] : i \in 1 .. j} \union {x}  BY <2>5, <2>8
  <2>13. ToSet(Append(r, x)) = ToSet(r) \union {x} /\ Append(r, x) \in Seq(E)
    <3>1. PICK n : n = Len(r)  OBVIOUS
    <3>2. n \in Nat /\ DOMAIN r = 1 .. n  BY <2>10, <3>1
    <3>3. /\ Append(r, x) \in Seq(E) /\ DOMAIN Append(r, x) = 1 .. n + 1
          /\ Append(r, x)[n + 1] = x /\ \A i \in 1 .. n : Append(r, x)[i] = r[i]
      BY <2>9, <2>10, <3>1, <3>2
    <3>4. 1 .. n + 1 = 1 .. n \union {n + 1}  BY <3>2
    <3> QED  BY <3>2, <3>3, <3>4 DEF ToSet
  <2> QED  BY <2>2, <2>10, <2>11, <2>12, <2>13
<1>8. Fine(last)
  <2>1. last \in 0 .. last  BY <1>2
  <2> HIDE DEF Fine
  <2> QED  BY <1>7, <2>1
<1> QED  BY <1>2, <1>5, <1>8 DEF ToSet
-----------------------------------------------------------------------------
(***************************************************************************)
(* The inductive invariant, with the marks, the cache, the services that   *)
(* are cut off and what is to be done as parameters.                       *)
(***************************************************************************)
\* What is marked has been followed.
Followed(m) ==
  /\ \A x \in m \intersect Definitions : Uses(x) \subseteq m
  /\ \A x \in Services : \A f \in Fns(x) : Fn(x, f) \in m => OfFunction(x, f) \subseteq m

\* The kept parts of the IDLs in K are marked.
KeptDone(m, K) ==
  /\ K \subseteq DOMAIN idl
  /\ \A d \in K : FixedPart(d) \subseteq m /\ \A n \in Preserved(d) : Struct(d, n) \in m

\* K and S together hold the main IDL and all that K includes.
Covered(K, S) == Root \in K \union S /\ \A d \in K : ToSet(idl[d].includes) \subseteq K \union S

\* Without methods a service is marked with all its functions.
WithFunctions(m) ==
  opts.methods = {} => \A x \in Services : Svc(x) \in m => \A f \in Fns(x) : Fn(x, f) \in m

HasBaseMarked(m, x) == Via(x[1], Base(x)) \subseteq m /\ Svc(BaseOf(x)) \in m

\* A service is marked with its base, or with methods it is cut off from it.
\* Without methods the base may still be to be marked, as S tells, and one in
\* the same IDL is not followed.
WithBase(m, e, S) ==
  \A x \in Services :
    Svc(x) \in m /\ Base(x) # NoBase =>
      IF opts.methods = {}
        THEN Base(x).idl # "" => Via(x[1], Base(x)) \subseteq m /\ (Svc(BaseOf(x)) \in m \/ BaseOf(x) \in S)
        ELSE x \in e \/ HasBaseMarked(m, x)

\* Without methods all services of the main IDL are marked.
RootMarked(m, e, S) ==
  opts.methods = {} =>
    e = {} /\ \A s \in DOMAIN idl[Root].services : Svc(<<Root, s>>) \in m \/ <<Root, s>> \in S

\* When services are marked.
WithServices(m, e, S) == WithFunctions(m) /\ WithBase(m, e, S) /\ RootMarked(m, e, S)

\* Before that.
NoServices(m) == \A x \in Services : Svc(x) \notin m /\ \A f \in Fns(x) : Fn(x, f) \notin m

\* When marking ends, bases that are not marked are cut off, but for those
\* that an included IDL declares itself.
BasesMarked(m) ==
  \A x \in Services :
    Svc(x) \in m /\ Base(x) # NoBase /\ (Base(x).idl # "" \/ x[1] = Root) => HasBaseMarked(m, x)

\* What NothingIsMissed says of the AST that is left.
Sound ==
  \A d \in Left :
    /\ \A t \in Types(idl[d]) : Resolves(idl, d, t)
    /\ \A s \in DOMAIN idl[d].services :
         LET b == idl[d].services[s].base IN
           b # NoBase /\ (b.idl # "" \/ d = Root) => HasBase(idl, d, b)

MarkedSoFar(m, K) == Followed(m) /\ KeptDone(m, K)

\* A process trims once.
Once ==
  \/ trims = 0 /\ phase \in {"idle", "kept parts", "services", "marked"} /\ IsAST(idl)
  \/ trims = 1 /\ phase \in {"swept", "idle"} /\ Sound

WhileKeeping ==
  /\ todo \in Seq(DOMAIN idl) /\ Covered(DOMAIN kept, ToSet(todo))
  /\ NoServices(marks) /\ ext = {}

WhileServing == todo \in Seq(Services) /\ WithServices(marks, ext, ToSet(todo))

IInv ==
  /\ Once
  /\ phase = "idle" /\ trims = 0 => DOMAIN kept = {}
  /\ phase \in {"kept parts", "services", "marked"} => MarkedSoFar(marks, DOMAIN kept)
  /\ phase = "kept parts" => WhileKeeping
  /\ phase \in {"services", "marked"} => Covered(DOMAIN kept, {})
  /\ phase = "services" => WhileServing
  /\ phase = "marked" => WithFunctions(marks) /\ BasesMarked(marks)
-----------------------------------------------------------------------------
(***************************************************************************)
(* An AST, and what marking reaches in it.                                 *)
(***************************************************************************)
\* The image of a finite set under a function.
LEMMA ImageIsFinite ==
  ASSUME NEW f, IsFiniteSet(DOMAIN f)
  PROVE  IsFiniteSet({f[x] : x \in DOMAIN f})
<1>1. PICK S : S = DOMAIN f  OBVIOUS
<1>2. PICK T : T = {f[x] : x \in DOMAIN f}  OBVIOUS
<1>3. PICK g : g = [x \in S |-> f[x]]  OBVIOUS
<1>4. g \in Surjection(S, T)  BY <1>1, <1>2, <1>3 DEF Surjection
<1> QED  BY <1>1, <1>2, <1>4, FS_Surjection

\* What has been made of the elements of finite sets, all together.
LEMMA UnionIsFinite ==
  ASSUME NEW f, IsFiniteSet(DOMAIN f), \A d \in DOMAIN f : IsFiniteSet(f[d])
  PROVE  IsFiniteSet(UNION {f[d] : d \in DOMAIN f})
<1>1. PICK S : S = {f[d] : d \in DOMAIN f}  OBVIOUS
<1>2. IsFiniteSet(S)  BY <1>1, ImageIsFinite
<1>3. \A T \in S : IsFiniteSet(T)  BY <1>1
<1> QED  BY <1>1, <1>2, <1>3, FS_UNION

\* What is known of an AST, IDL by IDL.
LEMMA ASTIs ==
  ASSUME IsAST(idl)
  PROVE  /\ Root \in DOMAIN idl /\ "" \notin DOMAIN idl /\ IsFiniteSet(DOMAIN idl)
         /\ \A d \in DOMAIN idl :
              /\ DOMAIN idl[d] = {"includes", "structs", "preserved", "typedefs", "consts", "enums", "order", "services"}
              /\ idl[d].includes \in Seq(DOMAIN idl)
              /\ idl[d].order \in Seq(DOMAIN idl[d].services) /\ ToSet(idl[d].order) = DOMAIN idl[d].services
              /\ idl[d].preserved \subseteq DOMAIN idl[d].structs
              /\ IsFiniteSet(DOMAIN idl[d].structs) /\ IsFiniteSet(DOMAIN idl[d].typedefs)
              /\ IsFiniteSet(DOMAIN idl[d].services)
              /\ \A t \in Types(idl[d]) : Resolves(idl, d, t)
              /\ \A s \in DOMAIN idl[d].services :
                   /\ DOMAIN idl[d].services[s] = {"fns", "base"}
                   /\ idl[d].services[s].base # NoBase => HasBase(idl, d, idl[d].services[s].base)
BY DEF IsAST

\* The names of the nodes of one IDL are as many as what they name.
LEMMA NodesAreFinite ==
  ASSUME NEW d, NEW kind, NEW S, IsFiniteSet(S)
  PROVE  IsFiniteSet({<<d, kind, n>> : n \in S}) /\ IsFiniteSet({<<d, n>> : n \in S})
<1>1. PICK f : f = [n \in S |-> <<d, kind, n>>]  OBVIOUS
<1>2. PICK g : g = [n \in S |-> <<d, n>>]  OBVIOUS
<1>3. IsFiniteSet({f[n] : n \in DOMAIN f}) /\ IsFiniteSet({g[n] : n \in DOMAIN g})
  BY <1>1, <1>2, ImageIsFinite
<1>4. {f[n] : n \in DOMAIN f} = {<<d, kind, n>> : n \in S} /\ {g[n] : n \in DOMAIN g} = {<<d, n>> : n \in S}
  BY <1>1, <1>2
<1> QED  BY <1>3, <1>4

\* There are finitely many nodes to follow.
LEMMA DefinitionsAreFinite ==
  ASSUME IsAST(idl)
  PROVE  IsFiniteSet(Definitions) /\ IsFiniteSet(Services)
<1>1. PICK f : f = [d \in DOMAIN idl |-> {Struct(d, n) : n \in DOMAIN idl[d].structs} \union
                                         {Alias(d, n) : n \in DOMAIN idl[d].typedefs}]  OBVIOUS
<1>2. PICK g : g = [d \in DOMAIN idl |-> {<<d, s>> : s \in DOMAIN idl[d].services}]  OBVIOUS
<1>3. ASSUME NEW d \in DOMAIN idl PROVE IsFiniteSet(f[d]) /\ IsFiniteSet(g[d])
  <2>1. IsFiniteSet({Struct(d, n) : n \in DOMAIN idl[d].structs})
    <3>1. IsFiniteSet(DOMAIN idl[d].structs)  BY ASTIs
    <3> QED  BY <3>1, NodesAreFinite, Zenon DEF Struct
  <2>2. IsFiniteSet({Alias(d, n) : n \in DOMAIN idl[d].typedefs})
    <3>1. IsFiniteSet(DOMAIN idl[d].typedefs)  BY ASTIs
    <3> QED  BY <3>1, NodesAreFinite, Zenon DEF Alias
  <2>3. IsFiniteSet({<<d, s>> : s \in DOMAIN idl[d].services})
    <3>1. IsFiniteSet(DOMAIN idl[d].services)  BY ASTIs
    <3> QED  BY <3>1, NodesAreFinite, Zenon
  <2>4. f[d] = {Struct(d, n) : n \in DOMAIN idl[d].structs} \union {Alias(d, n) : n \in DOMAIN idl[d].typedefs}
    BY <1>1
  <2>5. g[d] = {<<d, s>> : s \in DOMAIN idl[d].services}  BY <1>2
  <2>6. PICK A : A = {Struct(d, n) : n \in DOMAIN idl[d].structs}  OBVIOUS
  <2>7. PICK B : B = {Alias(d, n) : n \in DOMAIN idl[d].typedefs}  OBVIOUS
  <2>8. IsFiniteSet(A) /\ IsFiniteSet(B) /\ f[d] = A \union B  BY <2>1, <2>2, <2>4, <2>6, <2>7, Zenon
  <2>9. IsFiniteSet(f[d])  BY <2>8, FS_Union
  <2>10. IsFiniteSet(g[d])  BY <2>3, <2>5, Zenon
  <2> QED  BY <2>9, <2>10
<1>4. DOMAIN f = DOMAIN idl /\ DOMAIN g = DOMAIN idl /\ IsFiniteSet(DOMAIN idl)  BY <1>1, <1>2, ASTIs
<1>5. IsFiniteSet(UNION {f[d] : d \in DOMAIN f}) /\ IsFiniteSet(UNION {g[d] : d \in DOMAIN g})
  BY <1>3, <1>4, UnionIsFinite
<1>6. Definitions = UNION {f[d] : d \in DOMAIN f}  BY <1>1 DEF Definitions
<1>7. Services = UNION {g[d] : d \in DOMAIN g}  BY <1>2 DEF Services
<1> QED  BY <1>5, <1>6, <1>7

\* Mark adds what new leads to, and no more than that.
LEMMA MarkIs ==
  ASSUME IsAST(idl), NEW m, NEW new
  PROVE  /\ m \union new \subseteq Mark(m, new)
         /\ \A x \in Mark(m, new) \intersect Definitions : x \in m \/ Uses(x) \subseteq Mark(m, new)
         /\ \A C : m \union new \subseteq C /\ (\A x \in C \intersect Definitions : x \in m \/ Uses(x) \subseteq C)
                     => Mark(m, new) \subseteq C
<1>1. PICK next : next = [x \in Definitions \ m |-> Uses(x)]  OBVIOUS
<1>2. DOMAIN next = Definitions \ m /\ \A x \in DOMAIN next : next[x] = Uses(x)  BY <1>1
<1>3. IsFiniteSet(DOMAIN next)  BY <1>2, DefinitionsAreFinite, FS_Subset
<1>4. PICK R : R = Reach(new, next)  OBVIOUS
<1>5. Mark(m, new) = m \union R  BY <1>1, <1>4 DEF Mark
<1>6. /\ new \subseteq R
      /\ \A x \in R \intersect DOMAIN next : next[x] \subseteq R
      /\ \A C : new \subseteq C /\ (\A x \in C \intersect DOMAIN next : next[x] \subseteq C) => R \subseteq C
  BY <1>3, <1>4, ReachIs
<1> QED  BY <1>2, <1>5, <1>6

\* The nodes that types lead to.
Typed(x) == x[2] \in {"include", "struct", "typedef"}

\* Types lead to includes, struct-likes and aliases only.
LEMMA UsedAreTyped ==
  /\ \A d, ts : \A x \in UsedBy(d, ts) : Typed(x)
  /\ \A x : \A y \in Uses(x) : Typed(y)
<1>1. ASSUME NEW d, NEW ts, NEW x \in UsedBy(d, ts) PROVE Typed(x)
  <2>1. PICK t \in ts : x \in Via(d, t) \/ x \in Target(d, t)  BY DEF UsedBy
  <2>2. x \in Via(d, t) => x = Inc(d, t.idl)  BY DEF Via
  <2>3. x \in Target(d, t) => x = Struct(At(d, t), t.name) \/ x = Alias(d, t.name)  BY DEF Target
  <2>4. \A e, n : Typed(Inc(e, n)) /\ Typed(Struct(e, n)) /\ Typed(Alias(e, n))  BY DEF Typed, Inc, Struct, Alias
  <2> QED  BY <2>1, <2>2, <2>3, <2>4
<1> QED  BY <1>1 DEF Uses

\* Mark adds no services and no functions of its own.
LEMMA MarkAdds ==
  ASSUME IsAST(idl), NEW m, NEW new
  PROVE  \A x \in Mark(m, new) : x \in m \/ x \in new \/ Typed(x)
<1>1. PICK C : C = {x \in Mark(m, new) : x \in m \/ x \in new \/ Typed(x)}  OBVIOUS
<1>2. m \union new \subseteq C  BY <1>1, MarkIs
<1>3. ASSUME NEW x \in C \intersect Definitions PROVE x \in m \/ Uses(x) \subseteq C
  BY <1>1, MarkIs, UsedAreTyped
<1>4. Mark(m, new) \subseteq C  BY <1>2, <1>3, MarkIs
<1> QED  BY <1>1, <1>4

\* What is followed stays followed when functions are marked with their types.
LEMMA MarkFollows ==
  ASSUME IsAST(idl), NEW m, NEW new, Followed(m),
         \A x \in Services : \A f \in Fns(x) : Fn(x, f) \in new => OfFunction(x, f) \subseteq m \union new
  PROVE  Followed(Mark(m, new)) /\ m \union new \subseteq Mark(m, new)
<1>1. PICK n : n = Mark(m, new)  OBVIOUS
<1>2. m \union new \subseteq n  BY <1>1, MarkIs
<1>3. ASSUME NEW x \in n \intersect Definitions PROVE Uses(x) \subseteq n
  <2>1. x \in m \/ Uses(x) \subseteq n  BY <1>1, MarkIs
  <2> QED  BY <1>2, <2>1 DEF Followed
<1>4. ASSUME NEW x \in Services, NEW f \in Fns(x), Fn(x, f) \in n PROVE OfFunction(x, f) \subseteq n
  <2>1. ~ Typed(Fn(x, f))  BY DEF Typed, Fn
  <2>2. Fn(x, f) \in m \/ Fn(x, f) \in new  BY <1>1, <1>4, <2>1, MarkAdds
  <2> QED  BY <1>2, <2>2 DEF Followed
<1> QED  BY <1>1, <1>2, <1>3, <1>4 DEF Followed
-----------------------------------------------------------------------------
(***************************************************************************)
(* Steps that leave the AST alone.                                         *)
(***************************************************************************)
\* What depends on the AST and the options only.
LEMMA SameAST ==
  ASSUME idl' = idl, opts' = opts
  PROVE  /\ Definitions' = Definitions /\ Services' = Services
         /\ \A x : Uses(x)' = Uses(x) /\ Fns(x)' = Fns(x) /\ Base(x)' = Base(x) /\ BaseOf(x)' = BaseOf(x)
         /\ \A x, f : OfFunction(x, f)' = OfFunction(x, f)
         /\ \A d : FixedPart(d)' = FixedPart(d) /\ Preserved(d)' = Preserved(d)
<1>1. Definitions' = Definitions /\ Services' = Services  BY DEF Definitions, Services, Struct, Alias
<1>2. \A d, ts : UsedBy(d, ts)' = UsedBy(d, ts)  BY DEF UsedBy, Target, Via
<1>3. \A x : Uses(x)' = Uses(x)  BY <1>2 DEF Uses
<1>4. \A x : Fns(x)' = Fns(x) /\ Base(x)' = Base(x) /\ BaseOf(x)' = BaseOf(x)  BY DEF Fns, Base, BaseOf, Service
<1>5. \A x, f : OfFunction(x, f)' = OfFunction(x, f)  BY <1>2 DEF OfFunction, Service
<1>6. \A d : FixedPart(d)' = FixedPart(d) /\ Preserved(d)' = Preserved(d)  BY <1>2 DEF FixedPart, Preserved
<1> QED  BY <1>1, <1>3, <1>4, <1>5, <1>6

\* The parts of the invariant stay true of new marks m when the AST stays.
LEMMA MarkedSoFarOn ==
  ASSUME idl' = idl, opts' = opts, NEW m, m = marks', NEW K, K = DOMAIN kept', MarkedSoFar(m, K)
  PROVE  MarkedSoFar(marks, DOMAIN kept)'
<1>1. Followed(marks)'  BY SameAST DEF MarkedSoFar, Followed
<1>2. KeptDone(marks, DOMAIN kept)'  BY SameAST DEF MarkedSoFar, KeptDone
<1> QED  BY <1>1, <1>2 DEF MarkedSoFar

\* What the cache and the pending calls cover.
LEMMA CoveredOn ==
  ASSUME idl' = idl, NEW K, K = DOMAIN kept', NEW S, S = ToSet(todo)'
  PROVE  /\ Covered(K, S) => Covered(DOMAIN kept, ToSet(todo))'
         /\ Covered(K, {}) => Covered(DOMAIN kept, {})'
BY DEF Covered

\* No service is marked.
LEMMA NoServicesOn ==
  ASSUME idl' = idl, opts' = opts, NEW m, m = marks', NoServices(m)
  PROVE  NoServices(marks)'
BY SameAST DEF NoServices

\* Services are marked with functions and bases.
LEMMA WithServicesOn ==
  ASSUME idl' = idl, opts' = opts, NEW m, m = marks', NEW e, e = ext', NEW S, S = ToSet(todo)',
         WithServices(m, e, S)
  PROVE  WithServices(marks, ext, ToSet(todo))'
<1>1. WithFunctions(marks)'  BY SameAST DEF WithServices, WithFunctions
<1>2. WithBase(marks, ext, ToSet(todo))'  BY SameAST DEF WithServices, WithBase, HasBaseMarked
<1>3. RootMarked(marks, ext, ToSet(todo))'  BY DEF WithServices, RootMarked
<1> QED  BY <1>1, <1>2, <1>3 DEF WithServices
-----------------------------------------------------------------------------
(***************************************************************************)
(* Sequences and what is in them.                                          *)
(***************************************************************************)
\* A sequence is its head, then its tail.
LEMMA HeadAndTail ==
  ASSUME NEW E, NEW s \in Seq(E), s # <<>>
  PROVE  /\ Head(s) \in E /\ Head(s) \in ToSet(s) /\ Tail(s) \in Seq(E)
         /\ ToSet(s) = {Head(s)} \union ToSet(Tail(s))
<1>1. PICK n : n = Len(s)  OBVIOUS
<1>2. n \in Nat /\ n # 0 /\ DOMAIN s = 1 .. n /\ Head(s) = s[1] /\ s[1] \in E  BY <1>1
<1>3. PICK r : r = Tail(s)  OBVIOUS
<1>4. r \in Seq(E) /\ DOMAIN r = 1 .. n - 1 /\ \A i \in 1 .. n - 1 : r[i] = s[i + 1]  BY <1>1, <1>2, <1>3
<1>5. ASSUME NEW x \in ToSet(s) PROVE x = s[1] \/ x \in ToSet(r)
  <2>1. PICK i \in 1 .. n : s[i] = x  BY <1>2 DEF ToSet
  <2>2. PICK j : j = i - 1  OBVIOUS
  <2>3. i = 1 \/ (j \in 1 .. n - 1 /\ r[j] = x)  BY <1>2, <1>4, <2>1, <2>2
  <2> QED  BY <1>4, <2>1, <2>3 DEF ToSet
<1>6. ASSUME NEW x \in ToSet(r) PROVE x \in ToSet(s)
  <2>1. PICK i \in 1 .. n - 1 : r[i] = x  BY <1>4 DEF ToSet
  <2>2. i + 1 \in 1 .. n /\ s[i + 1] = x  BY <1>2, <1>4, <2>1
  <2> QED  BY <1>2, <2>2 DEF ToSet
<1>7. s[1] \in ToSet(s)  BY <1>2 DEF ToSet
<1> QED  BY <1>2, <1>3, <1>4, <1>5, <1>6, <1>7

\* What is in two sequences, one after the other.
LEMMA Joined ==
  ASSUME NEW E, NEW s \in Seq(E), NEW r \in Seq(E)
  PROVE  s \o r \in Seq(E) /\ ToSet(s \o r) = ToSet(s) \union ToSet(r)
<1>1. PICK m, n, j : m = Len(s) /\ n = Len(r) /\ j = s \o r  OBVIOUS
<1>2. /\ m \in Nat /\ n \in Nat /\ DOMAIN s = 1 .. m /\ DOMAIN r = 1 .. n /\ j \in Seq(E)
      /\ DOMAIN j = 1 .. m + n
      /\ \A i \in 1 .. m : j[i] = s[i]
      /\ \A i \in 1 .. n : j[m + i] = r[i]
  BY <1>1
<1>3. ASSUME NEW x \in ToSet(j) PROVE x \in ToSet(s) \/ x \in ToSet(r)
  <2>1. PICK i \in 1 .. m + n : j[i] = x  BY <1>2 DEF ToSet
  <2>2. PICK k : k = i - m  OBVIOUS
  <2>3. i \in 1 .. m \/ (k \in 1 .. n /\ m + k = i)  BY <1>2, <2>1, <2>2
  <2> QED  BY <1>2, <2>1, <2>3 DEF ToSet
<1>4. ASSUME NEW x \in ToSet(s) PROVE x \in ToSet(j)
  <2>1. PICK i \in 1 .. m : s[i] = x  BY <1>2 DEF ToSet
  <2>2. i \in 1 .. m + n /\ j[i] = x  BY <1>2, <2>1
  <2> QED  BY <1>2, <2>2 DEF ToSet
<1>5. ASSUME NEW x \in ToSet(r) PROVE x \in ToSet(j)
  <2>1. PICK i \in 1 .. n : r[i] = x  BY <1>2 DEF ToSet
  <2>2. m + i \in 1 .. m + n /\ j[m + i] = x  BY <1>2, <2>1
  <2> QED  BY <1>2, <2>2 DEF ToSet
<1> QED  BY <1>1, <1>2, <1>3, <1>4, <1>5

\* There is nothing in the empty sequence.
LEMMA NothingIn == ToSet(<<>>) = {}
BY DEF ToSet

\* A sequence of one.
LEMMA OneIn == ASSUME NEW E, NEW x \in E PROVE <<x>> \in Seq(E) /\ ToSet(<<x>>) = {x}
<1>1. <<x>> \in Seq(E) /\ DOMAIN <<x>> = {1} /\ <<x>>[1] = x  OBVIOUS
<1> QED  BY <1>1 DEF ToSet
-----------------------------------------------------------------------------
(***************************************************************************)
(* The steps of preProcess.                                                *)
(***************************************************************************)
\* Before markAST there is an AST, and nothing in the cache.
LEMMA InitStep == Init => IInv
<1> SUFFICES ASSUME Init PROVE IInv  OBVIOUS
<1>1. IsAST(idl)  BY TrimAssumption DEF Init
<1>2. DOMAIN kept = {}  BY DEF Init
<1> QED  BY <1>1, <1>2 DEF Init, IInv, Once

\* markAST begins with the main IDL to process and nothing in the cache.
LEMMA BeginStep == IInv /\ MaxTrims = 1 /\ Begin => IInv'
<1> SUFFICES ASSUME IInv, MaxTrims = 1, Begin PROVE IInv'  OBVIOUS
<1>0. /\ trims < 1 /\ phase = "idle"
      /\ idl' = idl /\ opts' = opts /\ kept' = kept /\ trims' = trims /\ phase' = "kept parts"
      /\ marks' = {} /\ ext' = {} /\ todo' = <<Root>>
  BY DEF Begin
<1>1. trims = 0 /\ trims' = 0 /\ IsAST(idl) /\ DOMAIN kept = {}
  <2>1. trims # 1
    <3>1. ~ (1 < 1)  OBVIOUS
    <3>2. trims < 1  BY <1>0
    <3> QED  BY ONLY <3>1, <3>2, Zenon
  <2>2. Once /\ (phase = "idle" /\ trims = 0 => DOMAIN kept = {})  BY DEF IInv
  <2>3. trims = 0 /\ IsAST(idl)  BY <2>1, <2>2 DEF Once
  <2> QED  BY <1>0, <2>2, <2>3
<1>2. IsAST(idl)'  BY <1>0, <1>1 DEF IsAST
<1>3. MarkedSoFar({}, {})  BY DEF MarkedSoFar, Followed, KeptDone
<1>4. PICK m, K, t : m = marks' /\ K = DOMAIN kept' /\ t = todo'  OBVIOUS
<1>5. m = {} /\ K = {} /\ t = <<Root>>  BY <1>0, <1>1, <1>4
<1>6. MarkedSoFar(marks, DOMAIN kept)'
  <2>1. MarkedSoFar(m, K)  BY <1>3, <1>5
  <2> QED  BY <1>0, <1>4, <2>1, MarkedSoFarOn
<1>7. Root \in DOMAIN idl  BY <1>1, ASTIs
<1>8. t \in Seq(DOMAIN idl) /\ ToSet(t) = {Root}  BY <1>5, <1>7, OneIn
<1>9. Covered(DOMAIN kept, ToSet(todo))'
  <2>1. Covered(K, ToSet(t))  BY <1>5, <1>8 DEF Covered
  <2> QED  BY <1>0, <1>4, <2>1, CoveredOn
<1>10. NoServices(marks)'  BY <1>0 DEF NoServices
<1> QED  BY <1>0, <1>1, <1>2, <1>4, <1>6, <1>8, <1>9, <1>10 DEF IInv, Once, WhileKeeping

\* In the steps of marking, what is known of the state.
LEMMA WhileMarking ==
  ASSUME IInv, phase \in {"kept parts", "services", "marked"}
  PROVE  trims = 0 /\ IsAST(idl) /\ MarkedSoFar(marks, DOMAIN kept)
BY DEF IInv, Once

\* While marks are made the AST stays what it was.
LEMMA StillOnce ==
  ASSUME IInv, phase \in {"kept parts", "services"}, idl' = idl, trims' = trims,
         phase' \in {"kept parts", "services"}
  PROVE  Once'
<1>1. trims = 0 /\ IsAST(idl)  BY WhileMarking
<1>2. IsAST(idl)'  BY <1>1 DEF IsAST
<1> QED  BY <1>1, <1>2 DEF Once

\* How the kinds of nodes are told apart.
LEMMA DefinitionIs ==
  /\ \A d \in DOMAIN idl : \A n \in DOMAIN idl[d].structs : Struct(d, n) \in Definitions
  /\ \A x \in Definitions : Typed(x) /\ x[2] # "include"
  /\ \A x \in Services : x = <<x[1], x[2]>> /\ x[1] \in DOMAIN idl /\ x[2] \in DOMAIN idl[x[1]].services
  /\ \A d \in DOMAIN idl : \A s \in DOMAIN idl[d].services : <<d, s>> \in Services
  /\ \A x : ~ Typed(Svc(x)) /\ \A f : ~ Typed(Fn(x, f))
<1>1. \A d \in DOMAIN idl : \A n \in DOMAIN idl[d].structs : Struct(d, n) \in Definitions  BY DEF Definitions
<1>2. ASSUME NEW x \in Definitions PROVE Typed(x) /\ x[2] # "include"
  <2>1. \E d, n : x = Struct(d, n) \/ x = Alias(d, n)  BY DEF Definitions
  <2> QED  BY <2>1 DEF Struct, Alias, Typed
<1>3. /\ \A x \in Services : x = <<x[1], x[2]>> /\ x[1] \in DOMAIN idl /\ x[2] \in DOMAIN idl[x[1]].services
      /\ \A d \in DOMAIN idl : \A s \in DOMAIN idl[d].services : <<d, s>> \in Services
  BY DEF Services
<1>4. \A x : ~ Typed(Svc(x)) /\ \A f : ~ Typed(Fn(x, f))  BY DEF Typed, Svc, Fn
<1> QED  BY <1>1, <1>2, <1>3, <1>4

\* What leads to another IDL is an include.
LEMMA ViaIs == \A d, t : \A x \in Via(d, t) : x = Inc(d, t.idl) /\ Typed(x) /\ x \notin Definitions
<1>1. \A d, t : \A x \in Via(d, t) : x = Inc(d, t.idl)  BY DEF Via
<1>2. \A d, e : Inc(d, e)[2] = "include"  BY DEF Inc
<1> QED  BY <1>1, <1>2, DefinitionIs DEF Typed

\* Nodes that are not services or functions lead to none.
LEMMA TypedMarks ==
  ASSUME IsAST(idl), NEW m, NEW new, Followed(m), \A x \in new : Typed(x)
  PROVE  /\ Followed(Mark(m, new)) /\ m \union new \subseteq Mark(m, new)
         /\ NoServices(m) => NoServices(Mark(m, new))
<1>1. \A x, f : Fn(x, f) \notin new  BY DefinitionIs
<1>2. Followed(Mark(m, new)) /\ m \union new \subseteq Mark(m, new)  BY <1>1, MarkFollows
<1>3. ASSUME NoServices(m) PROVE NoServices(Mark(m, new))
  BY <1>3, MarkAdds, DefinitionIs DEF NoServices
<1> QED  BY <1>2, <1>3

\* A call of preProcess marks the kept part and leaves the includes to do.
LEMMA PreProcessStep == IInv /\ PreProcess => IInv'
<1> SUFFICES ASSUME IInv, PreProcess PROVE IInv'  OBVIOUS
<1>1. /\ phase = "kept parts" /\ phase' = "kept parts" /\ todo # <<>> /\ trims' = trims
      /\ idl' = idl /\ opts' = opts /\ ext' = ext
      /\ todo' = idl[Head(todo)].includes \o Tail(todo)
  BY DEF PreProcess
<1>2. IsAST(idl) /\ MarkedSoFar(marks, DOMAIN kept) /\ WhileKeeping  BY <1>1, WhileMarking DEF IInv
<1>3. PICK d : d = Head(todo)  OBVIOUS
<1>4. PICK K, L, m, n : K = DOMAIN kept /\ L = DOMAIN kept' /\ m = marks /\ n = marks'  OBVIOUS
<1>5. PICK t : t = todo'  OBVIOUS
<1>6. d \in DOMAIN idl /\ Tail(todo) \in Seq(DOMAIN idl) /\ ToSet(todo) = {d} \union ToSet(Tail(todo))
  <2>1. todo \in Seq(DOMAIN idl)  BY <1>2 DEF WhileKeeping
  <2> QED  BY <1>1, <1>3, <2>1, HeadAndTail
<1>7. t \in Seq(DOMAIN idl) /\ ToSet(t) = ToSet(idl[d].includes) \union ToSet(Tail(todo))
  <2>1. idl[d].includes \in Seq(DOMAIN idl)  BY <1>2, <1>6, ASTIs
  <2>2. PICK a, b, E : a = idl[d].includes /\ b = Tail(todo) /\ E = DOMAIN idl  OBVIOUS
  <2>3. t = a \o b /\ a \in Seq(E) /\ b \in Seq(E)  BY <1>1, <1>3, <1>5, <1>6, <2>1, <2>2
  <2>4. t \in Seq(E) /\ ToSet(t) = ToSet(a) \union ToSet(b)  BY ONLY <2>3, Joined
  <2> QED  BY <2>2, <2>4
<1>8. Followed(m) /\ KeptDone(m, K) /\ NoServices(m) /\ Covered(K, ToSet(todo))
  BY <1>2, <1>4 DEF MarkedSoFar, WhileKeeping
<1>9. L = K \union {d} /\ Followed(n) /\ KeptDone(n, L) /\ NoServices(n)
  <2>1. CASE d \in K
    <3>1. marks' = marks /\ kept' = kept  BY <1>3, <1>4, <2>1 DEF PreProcess
    <3> QED  BY <1>4, <1>8, <2>1, <3>1
  <2>2. CASE d \notin K
    <3>1. KeptPart(d)  BY <1>3, <1>4, <2>2 DEF PreProcess
    <3>2. PICK a : a = Mark(m, FixedPart(d))  OBVIOUS
    <3>3. PICK new : new = {Struct(d, s) : s \in Fresh(d, a)}  OBVIOUS
    <3>4. n = Mark(a, new) /\ L = K \union {d}  BY <1>4, <3>1, <3>2, <3>3, Zenon DEF KeptPart
    <3>5. Followed(a) /\ m \union FixedPart(d) \subseteq a /\ NoServices(a)
      <4>1. \A x \in FixedPart(d) : Typed(x)  BY UsedAreTyped DEF FixedPart
      <4> QED  BY <1>2, <1>8, <3>2, <4>1, TypedMarks
    <3>6. Followed(n) /\ a \union new \subseteq n /\ NoServices(n)
      <4>1. \A x \in new : Typed(x)  BY <3>3 DEF Struct, Typed
      <4> QED  BY <1>2, <3>4, <3>5, <4>1, TypedMarks
    <3>7. \A s \in Preserved(d) : Struct(d, s) \in n  BY <3>3, <3>6 DEF Fresh
    <3>8. KeptDone(n, L)  BY <1>6, <1>8, <3>4, <3>5, <3>6, <3>7 DEF KeptDone
    <3> QED  BY <3>4, <3>6, <3>8
  <2> QED  BY <2>1, <2>2
<1>10. MarkedSoFar(marks, DOMAIN kept)'
  <2>1. MarkedSoFar(n, L)  BY <1>9 DEF MarkedSoFar
  <2> QED  BY <1>1, <1>4, <2>1, MarkedSoFarOn
<1>11. Covered(DOMAIN kept, ToSet(todo))'
  <2>1. Covered(L, ToSet(t))  BY <1>6, <1>7, <1>8, <1>9 DEF Covered
  <2> QED  BY <1>1, <1>4, <1>5, <2>1, CoveredOn
<1>12. NoServices(marks)'  BY <1>1, <1>4, <1>9, NoServicesOn
<1>13. WhileKeeping'  BY <1>1, <1>2, <1>5, <1>7, <1>11, <1>12 DEF WhileKeeping
<1>14. Once'  BY <1>1, StillOnce
<1> QED  BY <1>1, <1>10, <1>13, <1>14 DEF IInv

\* When all IDLs are processed, all that the main IDL includes is in the cache.
LEMMA PreProcessedStep == IInv /\ PreProcessed => IInv'
<1> SUFFICES ASSUME IInv, PreProcessed PROVE IInv'  OBVIOUS
<1>1. /\ phase = "kept parts" /\ phase' = "services" /\ todo = <<>> /\ trims' = trims
      /\ idl' = idl /\ opts' = opts /\ ext' = ext /\ kept' = kept
      /\ marks' = marks \union KeptIncludes
      /\ todo' = [n \in DOMAIN idl[Root].order |-> <<Root, idl[Root].order[n]>>]
  BY DEF PreProcessed
<1>2. IsAST(idl) /\ MarkedSoFar(marks, DOMAIN kept) /\ WhileKeeping  BY <1>1, WhileMarking DEF IInv
<1>3. PICK K, m, n, t, e : K = DOMAIN kept' /\ m = marks /\ n = marks' /\ t = todo' /\ e = ext'  OBVIOUS
<1>4. \A x \in KeptIncludes : x[2] = "include"  BY DEF KeptIncludes, Inc
<1>5. Followed(n) /\ KeptDone(n, K) /\ NoServices(n)
  <2>1. Followed(m) /\ KeptDone(m, K) /\ NoServices(m)  BY <1>1, <1>2, <1>3 DEF MarkedSoFar, WhileKeeping
  <2>2. n = m \union KeptIncludes  BY <1>1, <1>3
  <2>3. \A x \in KeptIncludes : x \notin Definitions /\ Typed(x)  BY <1>4, DefinitionIs DEF Typed
  <2>4. Followed(n)  BY <2>1, <2>2, <2>3, DefinitionIs DEF Followed
  <2>5. KeptDone(n, K)  BY <2>1, <2>2 DEF KeptDone
  <2>6. NoServices(n)  BY <2>1, <2>2, <2>3, DefinitionIs DEF NoServices
  <2> QED  BY <2>4, <2>5, <2>6
<1>6. t \in Seq(Services) /\ ToSet(t) = {<<Root, s>> : s \in DOMAIN idl[Root].services}
  <2>1. PICK o, k : o = idl[Root].order /\ k = Len(o)  OBVIOUS
  <2>2. Root \in DOMAIN idl /\ o \in Seq(DOMAIN idl[Root].services) /\ ToSet(o) = DOMAIN idl[Root].services
    BY <1>2, <2>1, ASTIs
  <2>3. k \in Nat /\ DOMAIN o = 1 .. k  BY <2>1, <2>2
  <2>4. t = [i \in 1 .. k |-> <<Root, o[i]>>]  BY <1>1, <1>3, <2>1, <2>3
  <2>5. \A i \in 1 .. k : t[i] \in Services  BY <2>2, <2>3, <2>4, DefinitionIs
  <2>6. t \in Seq(Services)  BY <2>3, <2>4, <2>5
  <2>7. ToSet(t) = {<<Root, s>> : s \in ToSet(o)}  BY <2>3, <2>4 DEF ToSet
  <2> QED  BY <2>2, <2>6, <2>7
<1>7. MarkedSoFar(marks, DOMAIN kept)'
  <2>1. MarkedSoFar(n, K)  BY <1>5 DEF MarkedSoFar
  <2> QED  BY <1>1, <1>3, <2>1, MarkedSoFarOn
<1>8. Covered(DOMAIN kept, {})'
  <2>1. Covered(K, {})  BY <1>1, <1>2, <1>3, NothingIn DEF WhileKeeping
  <2> QED  BY <1>1, <1>3, <2>1, CoveredOn
<1>9. WithServices(marks, ext, ToSet(todo))'
  <2>1. e = {}  BY <1>1, <1>2, <1>3 DEF WhileKeeping
  <2>2. WithServices(n, e, ToSet(t))
    BY <1>5, <1>6, <2>1 DEF NoServices, WithServices, WithFunctions, WithBase, RootMarked
  <2> QED  BY <1>1, <1>3, <2>2, WithServicesOn
<1>10. Services' = Services  BY <1>1, SameAST
<1>11. WhileServing'  BY <1>3, <1>6, <1>9, <1>10 DEF WhileServing
<1>12. Once'  BY <1>1, StillOnce
<1> QED  BY <1>1, <1>7, <1>8, <1>11, <1>12 DEF IInv

\* A service that is marked needs no call of markService.
LEMMA SkipServiceStep == IInv /\ SkipService => IInv'
<1> SUFFICES ASSUME IInv, SkipService PROVE IInv'  OBVIOUS
<1>1. /\ phase = "services" /\ phase' = "services" /\ todo # <<>> /\ trims' = trims
      /\ idl' = idl /\ opts' = opts /\ ext' = ext /\ kept' = kept /\ marks' = marks
      /\ todo' = Tail(todo) /\ Svc(Head(todo)) \in marks
  BY DEF SkipService
<1>2. /\ IsAST(idl) /\ MarkedSoFar(marks, DOMAIN kept) /\ Covered(DOMAIN kept, {}) /\ WhileServing
  BY <1>1, WhileMarking DEF IInv
<1>3. PICK K, m, t, e : K = DOMAIN kept' /\ m = marks' /\ t = todo' /\ e = ext'  OBVIOUS
<1>4. /\ t \in Seq(Services) /\ Head(todo) \in Services
      /\ ToSet(todo) = {Head(todo)} \union ToSet(t)
  BY <1>1, <1>2, <1>3, HeadAndTail DEF WhileServing
<1>5. WithServices(m, e, ToSet(t))
  <2>1. WithServices(m, e, ToSet(todo))  BY <1>1, <1>2, <1>3 DEF WhileServing
  <2>2. \A x \in ToSet(todo) : x \in ToSet(t) \/ Svc(x) \in m  BY <1>1, <1>3, <1>4
  <2>3. WithBase(m, e, ToSet(t))  BY <2>1, <2>2 DEF WithServices, WithBase
  <2>4. RootMarked(m, e, ToSet(t))  BY <2>1, <2>2 DEF WithServices, RootMarked
  <2> QED  BY <2>1, <2>3, <2>4 DEF WithServices
<1>6. WithServices(marks, ext, ToSet(todo))'  BY <1>1, <1>3, <1>5, WithServicesOn
<1>7. WhileServing'  BY <1>1, <1>3, <1>4, <1>6, SameAST DEF WhileServing
<1>8. MarkedSoFar(marks, DOMAIN kept)'  BY <1>1, <1>2, <1>3, MarkedSoFarOn
<1>9. Covered(DOMAIN kept, {})'  BY <1>1, <1>2, <1>3, CoveredOn
<1>10. Once'  BY <1>1, StillOnce
<1> QED  BY <1>1, <1>7, <1>8, <1>9, <1>10 DEF IInv
-----------------------------------------------------------------------------
(***************************************************************************)
(* markService.                                                            *)
(***************************************************************************)
\* A base is a service, of the IDL or of one that it includes.
LEMMA BaseIs ==
  ASSUME IsAST(idl), NEW x \in Services, Base(x) # NoBase
  PROVE  BaseOf(x) \in Services /\ Seen(idl, x[1], Base(x))
<1>1. x[1] \in DOMAIN idl /\ x[2] \in DOMAIN idl[x[1]].services  BY DefinitionIs
<1>2. HasBase(idl, x[1], Base(x))  BY <1>1, ASTIs DEF Base, Service
<1>3. At(x[1], Base(x)) \in DOMAIN idl
  <2>1. CASE Base(x).idl = ""  BY <1>1, <2>1 DEF At
  <2>2. CASE Base(x).idl # ""
    <3>1. Base(x).idl \in ToSet(idl[x[1]].includes)  BY <1>2, <2>2 DEF HasBase, Seen
    <3>2. idl[x[1]].includes \in Seq(DOMAIN idl)  BY <1>1, ASTIs
    <3>3. ToSet(idl[x[1]].includes) \subseteq DOMAIN idl  BY <3>2 DEF ToSet
    <3> QED  BY <2>2, <3>1, <3>3 DEF At
  <2> QED  BY <2>1, <2>2
<1> QED  BY <1>2, <1>3, DefinitionIs DEF BaseOf, HasBase

\* The bases of a service are all it extends, and what these extend.
LEMMA BasesAre ==
  ASSUME IsAST(idl), NEW x \in Services
  PROVE  /\ Bases(x) \subseteq Services /\ x \in Bases(x)
         /\ \A y \in Bases(x) : Base(y) # NoBase => BaseOf(y) \in Bases(x)
         /\ \A C : x \in C /\ (\A y \in C \intersect Services : Base(y) # NoBase => BaseOf(y) \in C)
                     => Bases(x) \subseteq C
<1>1. PICK next : next = [y \in Services |-> IF Base(y) = NoBase THEN {} ELSE {BaseOf(y)}]  OBVIOUS
<1>2. /\ DOMAIN next = Services
      /\ \A y \in Services : next[y] = IF Base(y) = NoBase THEN {} ELSE {BaseOf(y)}
  BY <1>1
<1>3. IsFiniteSet(DOMAIN next)  BY <1>2, DefinitionsAreFinite
<1>4. PICK R : R = Bases(x)  OBVIOUS
<1>5. R = Reach({x}, next)  BY <1>1, <1>4 DEF Bases
<1>6. /\ {x} \subseteq R
      /\ \A y \in R \intersect DOMAIN next : next[y] \subseteq R
      /\ \A C : {x} \subseteq C /\ (\A y \in C \intersect DOMAIN next : next[y] \subseteq C) => R \subseteq C
  BY <1>3, <1>5, ReachIs
<1>7. ASSUME NEW C, x \in C, \A y \in C \intersect Services : Base(y) # NoBase => BaseOf(y) \in C
      PROVE  R \subseteq C
  <2>1. \A y \in C \intersect DOMAIN next : next[y] \subseteq C  BY <1>2, <1>7
  <2> QED  BY <1>6, <1>7, <2>1
<1>8. R \subseteq Services  BY <1>7, BaseIs
<1>9. \A y \in R : Base(y) # NoBase => BaseOf(y) \in R
  <2> SUFFICES ASSUME NEW y \in R, Base(y) # NoBase PROVE BaseOf(y) \in R  OBVIOUS
  <2>1. next[y] = {BaseOf(y)} /\ next[y] \subseteq R  BY <1>2, <1>6, <1>8
  <2> QED  BY <2>1
<1> QED  BY <1>4, <1>6, <1>7, <1>8, <1>9

\* What is found from the base on is found from the service on.
LEMMA FoundBelow ==
  ASSUME IsAST(idl), NEW x \in Services, NEW y \in Services, Base(y) # NoBase, Found(x, BaseOf(y))
  PROVE  Found(x, y)
<1>1. BaseOf(y) \in Services  BY BaseIs
<1>2. BaseOf(y) \in Bases(y)  BY BasesAre
<1>3. \A z \in Bases(y) \intersect Services : Base(z) # NoBase => BaseOf(z) \in Bases(y)  BY BasesAre
<1>4. Bases(BaseOf(y)) \subseteq Bases(y)
  <2>1. PICK C : C = Bases(y)  OBVIOUS
  <2>2. BaseOf(y) \in C /\ \A z \in C \intersect Services : Base(z) # NoBase => BaseOf(z) \in C
    BY <1>2, <1>3, <2>1
  <2> QED  BY <1>1, <2>1, <2>2, BasesAre
<1> QED  BY <1>4 DEF Found

\* Nodes of different services and functions are different.
LEMMA NodesDiffer ==
  /\ \A x, y \in Services : Svc(x) = Svc(y) => x = y
  /\ \A x, y \in Services : \A f, g : Fn(x, f) = Fn(y, g) => x = y /\ f = g
  /\ \A x, y : \A f : Svc(x) # Fn(y, f)
<1>1. ASSUME NEW x \in Services, NEW y \in Services, Svc(x) = Svc(y) PROVE x = y
  <2>1. x[1] = y[1] /\ x[2] = y[2]  BY <1>1 DEF Svc
  <2>2. x = <<x[1], x[2]>> /\ y = <<y[1], y[2]>>  BY DefinitionIs
  <2> QED  BY <2>1, <2>2
<1>2. ASSUME NEW x \in Services, NEW y \in Services, NEW f, NEW g, Fn(x, f) = Fn(y, g) PROVE x = y /\ f = g
  <2>1. x[1] = y[1] /\ x[2] = y[2] /\ f = g  BY <1>2 DEF Fn
  <2>2. x = <<x[1], x[2]>> /\ y = <<y[1], y[2]>>  BY DefinitionIs
  <2> QED  BY <2>1, <2>2
<1>3. \A x, y : \A f : Svc(x) # Fn(y, f)
  <2>1. \A x, y : \A f : Svc(x)[2] = "service" /\ Fn(y, f)[2] = "function"  BY DEF Svc, Fn
  <2> QED  BY <2>1
<1> QED  BY <1>1, <1>2, <1>3

\* The services and functions among what OfService lists.
LEMMA OfServiceIs ==
  ASSUME NEW x \in Services, NEW fs
  PROVE  /\ Svc(x) \in OfService(x, fs)
         /\ \A f \in fs : Fn(x, f) \in OfService(x, fs) /\ OfFunction(x, f) \subseteq OfService(x, fs)
         /\ \A y \in Services : Svc(y) \in OfService(x, fs) => y = x
         /\ \A y \in Services : \A f : Fn(y, f) \in OfService(x, fs) => y = x /\ f \in fs
<1>1. Svc(x) \in OfService(x, fs)  BY DEF OfService
<1>2. \A f \in fs : Fn(x, f) \in OfService(x, fs) /\ OfFunction(x, f) \subseteq OfService(x, fs)
  BY DEF OfService, OfFunction
<1>3. \A z \in OfService(x, fs) : z = Svc(x) \/ Typed(z) \/ \E f \in fs : z = Fn(x, f)
  BY UsedAreTyped DEF OfService, OfFunction
<1>4. ASSUME NEW y \in Services, Svc(y) \in OfService(x, fs) PROVE y = x
  BY <1>3, <1>4, DefinitionIs, NodesDiffer
<1>5. ASSUME NEW y \in Services, NEW f, Fn(y, f) \in OfService(x, fs) PROVE y = x /\ f \in fs
  BY <1>3, <1>5, DefinitionIs, NodesDiffer
<1> QED  BY <1>1, <1>2, <1>4, <1>5

\* What traceExtendMethod marks: services in which or above which something is
\* found, with the include of their base.
LEMMA TracedIs ==
  ASSUME IsAST(idl), NEW x \in Services
  PROVE  /\ \A y \in Bases(x) : Found(x, y) => Svc(y) \in Traced(x) /\ Via(y[1], Base(y)) \subseteq Traced(x)
         /\ \A y \in Services : Svc(y) \in Traced(x) => y \in Bases(x) /\ Found(x, y)
         /\ \A y \in Services : \A f : Fn(y, f) \in Traced(x) => OfFunction(y, f) \subseteq Traced(x)
<1>1. \A y \in Bases(x) : Found(x, y) => OfService(y, Hits(x, y)) \union Via(y[1], Base(y)) \subseteq Traced(x)
  BY DEF Traced
<1>2. \A z \in Traced(x) : \E y \in Bases(x) : Found(x, y) /\ (z \in OfService(y, Hits(x, y)) \/ z \in Via(y[1], Base(y)))
  BY DEF Traced
<1>3. \A d, t : \A z \in Via(d, t) : Typed(z)  BY ViaIs
<1>4. Bases(x) \subseteq Services  BY BasesAre
<1>5. ASSUME NEW y \in Services, Svc(y) \in Traced(x) PROVE y \in Bases(x) /\ Found(x, y)
  BY <1>2, <1>3, <1>4, <1>5, DefinitionIs, OfServiceIs
<1>6. ASSUME NEW y \in Services, NEW f, Fn(y, f) \in Traced(x) PROVE OfFunction(y, f) \subseteq Traced(x)
  <2>1. PICK z \in Bases(x) : Found(x, z) /\ Fn(y, f) \in OfService(z, Hits(x, z))
    BY <1>2, <1>3, <1>6, DefinitionIs
  <2>2. z \in Services /\ z = y /\ f \in Hits(x, z)  BY <1>4, <2>1, OfServiceIs
  <2>3. OfFunction(z, f) \subseteq OfService(z, Hits(x, z))  BY <2>2, OfServiceIs
  <2> QED  BY <1>1, <2>1, <2>2, <2>3
<1> QED  BY <1>1, <1>4, <1>5, <1>6, OfServiceIs

\* What a service marks itself.
LEMMA OwnIs ==
  ASSUME NEW x \in Services
  PROVE  /\ opts.methods = {} => Svc(x) \in Own(x) /\ \A f \in Fns(x) : Fn(x, f) \in Own(x)
         /\ \A y \in Services : Svc(y) \in Own(x) => y = x
         /\ \A y \in Services : \A f : Fn(y, f) \in Own(x) => OfFunction(y, f) \subseteq Own(x)
<1>1. PICK fs : Own(x) = OfService(x, fs) \/ Own(x) = {}
  <2>1. PICK gs : gs = {f \in Fns(x) : \E p \in opts.methods : Chosen(p, x[2], NameOf(f))}  OBVIOUS
  <2>2. Own(x) = OfService(x, Fns(x)) \/ Own(x) = OfService(x, gs) \/ Own(x) = {}  BY <2>1, Zenon DEF Own
  <2> QED  BY <2>2
<1>2. \A y \in Services : Svc(y) \in Own(x) => y = x  BY <1>1, OfServiceIs
<1>3. ASSUME NEW y \in Services, NEW f, Fn(y, f) \in Own(x) PROVE OfFunction(y, f) \subseteq Own(x)
  BY <1>1, <1>3, OfServiceIs
<1>4. ASSUME opts.methods = {} PROVE Svc(x) \in Own(x) /\ \A f \in Fns(x) : Fn(x, f) \in Own(x)
  <2>1. Own(x) = OfService(x, Fns(x))  BY <1>4 DEF Own
  <2> QED  BY <2>1, OfServiceIs
<1> QED  BY <1>2, <1>3, <1>4

\* A service is marked with its functions and its base, or is cut off from it.
LEMMA MarkServiceStep == IInv /\ MarkService => IInv'
<1> SUFFICES ASSUME IInv, MarkService PROVE IInv'  OBVIOUS
<1>1. PICK x : x = Head(todo)  OBVIOUS
<1>2. /\ phase = "services" /\ phase' = "services" /\ todo # <<>> /\ trims' = trims
      /\ idl' = idl /\ opts' = opts /\ kept' = kept
      /\ Svc(x) \notin marks /\ marks' = MarkedBy(x)
      /\ ext' = IF Traces(x) THEN ext \union CutOff(x) ELSE ext
      /\ todo' = IF Base(x).idl # "" /\ Svc(x) \in marks' THEN <<BaseOf(x)>> \o Tail(todo) ELSE Tail(todo)
  BY <1>1 DEF MarkService
<1>3. IsAST(idl) /\ MarkedSoFar(marks, DOMAIN kept) /\ Covered(DOMAIN kept, {}) /\ WhileServing
  BY <1>2, WhileMarking DEF IInv
<1>4. PICK K, m, n, e, g, t : /\ K = DOMAIN kept' /\ m = marks /\ n = marks' /\ e = ext /\ g = ext'
                              /\ t = todo'  OBVIOUS
<1>5. PICK S, r : S = ToSet(todo) /\ r = Tail(todo)  OBVIOUS
<1>6. x \in Services /\ r \in Seq(Services) /\ S = {x} \union ToSet(r)
  BY <1>1, <1>2, <1>3, <1>5, HeadAndTail DEF WhileServing
<1>7. Followed(m) /\ KeptDone(m, K) /\ WithServices(m, e, S)
  BY <1>2, <1>3, <1>4, <1>5 DEF MarkedSoFar, WhileServing
<1>8. PICK new : new = Own(x) \union IF Traces(x) THEN Traced(x) ELSE {}  OBVIOUS
<1>9. PICK a : a = Mark(m, new)  OBVIOUS
<1>10. Svc(x) \notin m /\ n = IF Svc(x) \in a THEN a \union Via(x[1], Base(x)) ELSE a
  BY <1>2, <1>4, <1>8, <1>9, Zenon DEF MarkedBy
<1>11. \A y \in Services : \A f : Fn(y, f) \in new => OfFunction(y, f) \subseteq new
  BY <1>3, <1>6, <1>8, OwnIs, TracedIs
<1>12. Followed(a) /\ m \union new \subseteq a  BY <1>3, <1>7, <1>9, <1>11, MarkFollows
<1>13. \A z \in n : z \in m \/ z \in new \/ Typed(z)
  <2>1. \A z \in a : z \in m \/ z \in new \/ Typed(z)  BY <1>3, <1>9, MarkAdds
  <2>2. \A z \in Via(x[1], Base(x)) : Typed(z)  BY ViaIs
  <2> QED  BY <1>10, <2>1, <2>2
<1>14. m \subseteq n /\ new \subseteq n  BY <1>10, <1>12
<1>15. Followed(n)
  <2>1. a \subseteq n  BY <1>10
  <2>2. \A z \in Via(x[1], Base(x)) : z \notin Definitions /\ Typed(z)  BY ViaIs
  <2>3. \A z \in n : z \in a \/ (z \notin Definitions /\ Typed(z))  BY <1>10, <2>2
  <2>4. \A z \in n \intersect Definitions : Uses(z) \subseteq n  BY <1>12, <2>1, <2>3 DEF Followed
  <2>5. \A y \in Services : \A f \in Fns(y) : Fn(y, f) \in n => OfFunction(y, f) \subseteq n
    BY <1>12, <2>1, <2>3, DefinitionIs DEF Followed
  <2> QED  BY <2>4, <2>5 DEF Followed
<1>16. KeptDone(n, K)  BY <1>7, <1>14 DEF KeptDone
<1>17. \A y \in Services : Svc(y) \in n => Svc(y) \in m \/ Svc(y) \in new  BY <1>13, DefinitionIs
<1>18. Svc(x) \in n => Via(x[1], Base(x)) \subseteq n
  <2>1. ~ Typed(Svc(x)) /\ \A z \in Via(x[1], Base(x)) : Typed(z)
    BY ViaIs, DefinitionIs
  <2> QED  BY <1>10, <2>1
<1>19. /\ t \in Seq(Services) /\ ToSet(r) \subseteq ToSet(t)
       /\ Base(x).idl # "" /\ Svc(x) \in n => BaseOf(x) \in ToSet(t)
  <2>1. CASE Base(x).idl # "" /\ Svc(x) \in n
    <3>1. Base(x) # NoBase
      <4>1. NoBase.idl = ""  BY DEF NoBase
      <4> QED  BY <2>1, <4>1, Zenon
    <3>2. PICK b : b = BaseOf(x)  OBVIOUS
    <3>3. b \in Services  BY <1>3, <1>6, <3>1, <3>2, BaseIs
    <3>4. <<b>> \in Seq(Services) /\ ToSet(<<b>>) = {b}  BY <3>3, OneIn
    <3>5. PICK h : h = <<b>>  OBVIOUS
    <3>6. t = h \o r  BY <1>2, <1>4, <1>5, <2>1, <3>2, <3>5
    <3>7. h \in Seq(Services) /\ ToSet(h) = {b}  BY <3>4, <3>5
    <3>8. t \in Seq(Services) /\ ToSet(t) = ToSet(h) \union ToSet(r)  BY ONLY <1>6, <3>6, <3>7, Joined
    <3> QED  BY <3>2, <3>7, <3>8
  <2>2. CASE ~ (Base(x).idl # "" /\ Svc(x) \in n)
    <3>1. t = r  BY <1>2, <1>4, <1>5, <2>2
    <3> QED  BY <1>6, <2>2, <3>1
  <2> QED  BY <2>1, <2>2
<1>20. WithFunctions(n)
  <2> SUFFICES ASSUME opts.methods = {}, NEW y \in Services, Svc(y) \in n, NEW f \in Fns(y)
               PROVE  Fn(y, f) \in n
    BY DEF WithFunctions
  <2>1. CASE Svc(y) \in m  BY <1>7, <1>14, <2>1 DEF WithServices, WithFunctions
  <2>2. CASE Svc(y) \in new
    <3>1. new = Own(x)  BY <1>8 DEF Traces
    <3>2. y = x  BY <1>6, <2>2, <3>1, OwnIs
    <3> QED  BY <1>6, <1>14, <3>1, <3>2, OwnIs
  <2> QED  BY <1>17, <2>1, <2>2
<1>21. WithBase(n, g, ToSet(t))
  <2> SUFFICES ASSUME NEW y \in Services, Svc(y) \in n, Base(y) # NoBase
               PROVE  IF opts.methods = {}
                        THEN Base(y).idl # "" => /\ Via(y[1], Base(y)) \subseteq n
                                                 /\ Svc(BaseOf(y)) \in n \/ BaseOf(y) \in ToSet(t)
                        ELSE y \in g \/ HasBaseMarked(n, y)
    BY DEF WithBase
  <2>1. CASE opts.methods = {}
    <3> SUFFICES ASSUME Base(y).idl # ""
                 PROVE  /\ Via(y[1], Base(y)) \subseteq n
                        /\ Svc(BaseOf(y)) \in n \/ BaseOf(y) \in ToSet(t)
      BY <2>1
    <3>1. new = Own(x) /\ Svc(x) \in n  BY <1>6, <1>8, <1>14, <2>1, OwnIs DEF Traces
    <3>2. CASE Svc(y) \in m
      <4>1. Via(y[1], Base(y)) \subseteq m /\ (Svc(BaseOf(y)) \in m \/ BaseOf(y) \in S)
        BY <1>7, <2>1, <3>2 DEF WithServices, WithBase
      <4> QED  BY <1>6, <1>14, <1>19, <3>1, <4>1
    <3>3. CASE Svc(y) \in new
      <4>1. y = x  BY <1>6, <3>1, <3>3, OwnIs
      <4> QED  BY <1>18, <1>19, <3>1, <4>1
    <3> QED  BY <1>17, <3>2, <3>3
  <2>2. CASE opts.methods # {}
    <3>1. e \subseteq g  BY <1>2, <1>4
    <3>2. CASE Svc(y) \in m
      <4>1. y \in e \/ HasBaseMarked(m, y)  BY <1>7, <2>2, <3>2 DEF WithServices, WithBase
      <4> QED  BY <1>14, <2>2, <3>1, <4>1 DEF HasBaseMarked
    <3>3. CASE Svc(y) \in new
      <4>1. Traces(x) /\ y \in Bases(x)
        <5>1. CASE Svc(y) \in Own(x)
          <6>1. y = x  BY <1>6, <5>1, OwnIs
          <6> QED  BY <1>3, <1>6, <2>2, <6>1, BasesAre DEF Traces
        <5>2. CASE Svc(y) \notin Own(x)
          <6>1. Traces(x) /\ Svc(y) \in Traced(x)  BY <1>8, <3>3, <5>2
          <6> QED  BY <1>3, <1>6, <6>1, TracedIs
        <5> QED  BY <5>1, <5>2
      <4>2. CASE Found(x, BaseOf(y))
        <5>1. BaseOf(y) \in Bases(x)  BY <1>3, <1>6, <4>1, BasesAre
        <5>2. Svc(BaseOf(y)) \in Traced(x)  BY <1>3, <1>6, <4>2, <5>1, TracedIs
        <5>3. Found(x, y)  BY <1>3, <1>6, <4>2, FoundBelow
        <5>4. Via(y[1], Base(y)) \subseteq Traced(x)  BY <1>3, <1>6, <4>1, <5>3, TracedIs
        <5>5. Traced(x) \subseteq n  BY <1>8, <1>14, <4>1
        <5> QED  BY <2>2, <5>2, <5>4, <5>5 DEF HasBaseMarked
      <4>3. CASE ~ Found(x, BaseOf(y))
        <5>1. y \in CutOff(x)  BY <4>1, <4>3 DEF CutOff
        <5>2. y \in g  BY <1>2, <1>4, <4>1, <5>1
        <5> QED  BY <2>2, <5>2
      <4> QED  BY <4>2, <4>3
    <3> QED  BY <1>17, <3>2, <3>3
  <2> QED  BY <2>1, <2>2
<1>22. RootMarked(n, g, ToSet(t))
  <2> SUFFICES ASSUME opts.methods = {}
               PROVE  g = {} /\ \A s \in DOMAIN idl[Root].services :
                                  Svc(<<Root, s>>) \in n \/ <<Root, s>> \in ToSet(t)
    BY DEF RootMarked
  <2>1. e = {} /\ \A s \in DOMAIN idl[Root].services : Svc(<<Root, s>>) \in m \/ <<Root, s>> \in S
    BY <1>7 DEF WithServices, RootMarked
  <2>2. g = {}  BY <1>2, <1>4, <2>1 DEF Traces
  <2>3. Svc(x) \in n  BY <1>6, <1>8, <1>14, OwnIs
  <2> QED  BY <1>6, <1>14, <1>19, <2>1, <2>2, <2>3
<1>23. WithServices(marks, ext, ToSet(todo))'
  <2>1. WithServices(n, g, ToSet(t))  BY <1>20, <1>21, <1>22 DEF WithServices
  <2> QED  BY <1>2, <1>4, <2>1, WithServicesOn
<1>24. WhileServing'  BY <1>2, <1>4, <1>19, <1>23, SameAST DEF WhileServing
<1>25. MarkedSoFar(marks, DOMAIN kept)'
  <2>1. MarkedSoFar(n, K)  BY <1>15, <1>16 DEF MarkedSoFar
  <2> QED  BY <1>2, <1>4, <2>1, MarkedSoFarOn
<1>26. Covered(DOMAIN kept, {})'  BY <1>2, <1>3, <1>4, CoveredOn
<1>27. Once'  BY <1>2, StillOnce
<1> QED  BY <1>2, <1>24, <1>25, <1>26, <1>27 DEF IInv
-----------------------------------------------------------------------------
(***************************************************************************)
(* cleanServiceExtends.                                                    *)
(***************************************************************************)
\* It takes bases away and nothing else.
Cut(i, e) ==
  [d \in DOMAIN i |-> [i[d] EXCEPT !.services =
     [s \in DOMAIN @ |-> IF <<d, s>> \in e THEN [@[s] EXCEPT !.base = NoBase] ELSE @[s]]]]

IsCut(j, e) ==
  /\ DOMAIN j = DOMAIN idl
  /\ \A d \in DOMAIN idl :
       /\ DOMAIN j[d] = DOMAIN idl[d]
       /\ j[d].includes = idl[d].includes /\ j[d].structs = idl[d].structs
       /\ j[d].preserved = idl[d].preserved /\ j[d].typedefs = idl[d].typedefs
       /\ j[d].consts = idl[d].consts /\ j[d].enums = idl[d].enums /\ j[d].order = idl[d].order
       /\ DOMAIN j[d].services = DOMAIN idl[d].services
       /\ \A s \in DOMAIN idl[d].services :
            /\ DOMAIN j[d].services[s] = {"fns", "base"}
            /\ j[d].services[s].fns = idl[d].services[s].fns
            /\ j[d].services[s].base = IF <<d, s>> \in e THEN NoBase ELSE idl[d].services[s].base

\* What Cut makes of an AST, field by field.
LEMMA CutIs == ASSUME IsAST(idl), NEW e, NEW j, j = Cut(idl, e) PROVE IsCut(j, e)
<1>1. DOMAIN j = DOMAIN idl  BY DEF Cut
<1> SUFFICES ASSUME NEW d \in DOMAIN idl
             PROVE  /\ DOMAIN j[d] = DOMAIN idl[d]
                    /\ j[d].includes = idl[d].includes /\ j[d].structs = idl[d].structs
                    /\ j[d].preserved = idl[d].preserved /\ j[d].typedefs = idl[d].typedefs
                    /\ j[d].consts = idl[d].consts /\ j[d].enums = idl[d].enums /\ j[d].order = idl[d].order
                    /\ DOMAIN j[d].services = DOMAIN idl[d].services
                    /\ \A s \in DOMAIN idl[d].services :
                         /\ DOMAIN j[d].services[s] = {"fns", "base"}
                         /\ j[d].services[s].fns = idl[d].services[s].fns
                         /\ j[d].services[s].base = IF <<d, s>> \in e THEN NoBase ELSE idl[d].services[s].base
  BY <1>1 DEF IsCut
<1>2. PICK x, v : x = idl[d] /\ v = x.services  OBVIOUS
<1>3. PICK w : w = [s \in DOMAIN v |-> IF <<d, s>> \in e THEN [v[s] EXCEPT !.base = NoBase] ELSE v[s]]  OBVIOUS
<1>4. j[d] = [x EXCEPT !.services = w]  BY <1>2, <1>3 DEF Cut
<1>5. /\ DOMAIN x = {"includes", "structs", "preserved", "typedefs", "consts", "enums", "order", "services"}
      /\ \A s \in DOMAIN v : DOMAIN v[s] = {"fns", "base"}
  BY <1>2, ASTIs
<1>6. /\ DOMAIN j[d] = DOMAIN x /\ j[d].services = w
      /\ j[d].includes = x.includes /\ j[d].structs = x.structs /\ j[d].preserved = x.preserved
      /\ j[d].typedefs = x.typedefs /\ j[d].consts = x.consts /\ j[d].enums = x.enums /\ j[d].order = x.order
  BY <1>4, <1>5
<1>7. ASSUME NEW s \in DOMAIN v
      PROVE  /\ DOMAIN w[s] = {"fns", "base"} /\ w[s].fns = v[s].fns
             /\ w[s].base = IF <<d, s>> \in e THEN NoBase ELSE v[s].base
  <2>1. CASE <<d, s>> \in e
    <3>1. w[s] = [v[s] EXCEPT !.base = NoBase]  BY <1>3, <2>1
    <3> QED  BY <1>5, <2>1, <3>1
  <2>2. CASE <<d, s>> \notin e  BY <1>3, <1>5, <2>2
  <2> QED  BY <2>1, <2>2
<1> QED  BY <1>2, <1>3, <1>6, <1>7

\* The types of functions, one by one.
LEMMA FnTypesAre ==
  \A x, t : t \in FnTypes(x) <=>
    \E s \in DOMAIN x.services : \E f \in DOMAIN x.services[s].fns : t \in ToSet(x.services[s].fns[f])
<1> SUFFICES ASSUME NEW x, NEW t
             PROVE  t \in FnTypes(x) <=> \E s \in DOMAIN x.services : \E f \in DOMAIN x.services[s].fns :
                                           t \in ToSet(x.services[s].fns[f])
  OBVIOUS
<1>1. PICK g : g = [s \in DOMAIN x.services |-> UNION {ToSet(x.services[s].fns[f]) : f \in DOMAIN x.services[s].fns}]
  OBVIOUS
<1>2. FnTypes(x) = UNION {g[s] : s \in DOMAIN x.services}
  <2>1. \A s \in DOMAIN x.services : g[s] = UNION {ToSet(x.services[s].fns[f]) : f \in DOMAIN x.services[s].fns}
    BY <1>1
  <2>2. {g[s] : s \in DOMAIN x.services} =
        {UNION {ToSet(x.services[s].fns[f]) : f \in DOMAIN x.services[s].fns} : s \in DOMAIN x.services}
    BY <2>1, Zenon
  <2> QED  BY <2>2, Zenon DEF FnTypes
<1>3. \A s \in DOMAIN x.services :
        t \in g[s] <=> \E f \in DOMAIN x.services[s].fns : t \in ToSet(x.services[s].fns[f])
  BY <1>1
<1> QED  BY <1>2, <1>3

\* The types stay, and go on to resolve.
LEMMA CutKeepsTypes ==
  ASSUME IsAST(idl), NEW e, NEW j, IsCut(j, e), NEW d \in DOMAIN idl
  PROVE  /\ FixedTypes(j[d]) = FixedTypes(idl[d]) /\ Types(j[d]) = Types(idl[d])
         /\ \A t \in Types(idl[d]) : Resolves(j, d, t) /\ At(d, t) \in DOMAIN idl
         /\ \A b : HasBase(idl, d, b) => HasBase(j, d, b)
<1>1. ToSet(idl[d].includes) \subseteq DOMAIN idl
  <2>1. idl[d].includes \in Seq(DOMAIN idl)  BY ASTIs
  <2> QED  BY <2>1 DEF ToSet
<1>2. \A t : Seen(j, d, t) = Seen(idl, d, t) /\ (Seen(idl, d, t) => At(d, t) \in DOMAIN idl)
  BY <1>1 DEF IsCut, Seen, At
<1>3. FixedTypes(j[d]) = FixedTypes(idl[d]) /\ StructTypes(j[d]) = StructTypes(idl[d])
  BY DEF IsCut, FixedTypes, StructTypes
<1>4. FnTypes(j[d]) = FnTypes(idl[d])
  <2>1. DOMAIN j[d].services = DOMAIN idl[d].services  BY DEF IsCut
  <2>2. \A s \in DOMAIN idl[d].services : j[d].services[s].fns = idl[d].services[s].fns  BY DEF IsCut
  <2>3. \A t : t \in FnTypes(j[d]) <=> t \in FnTypes(idl[d])  BY ONLY <2>1, <2>2, FnTypesAre
  <2> QED  BY <2>3
<1>5. Types(j[d]) = Types(idl[d])  BY <1>3, <1>4 DEF Types
<1>6. ASSUME NEW t \in Types(idl[d]) PROVE Resolves(j, d, t) /\ At(d, t) \in DOMAIN idl
  <2>1. Resolves(idl, d, t)  BY ASTIs
  <2>2. Seen(j, d, t) /\ At(d, t) \in DOMAIN idl  BY <1>2, <2>1 DEF Resolves
  <2>3. Exists(j[At(d, t)], t)  BY <2>1, <2>2 DEF IsCut, Resolves, Exists
  <2> QED  BY <2>2, <2>3 DEF Resolves
<1>7. ASSUME NEW b, HasBase(idl, d, b) PROVE HasBase(j, d, b)
  <2>1. Seen(j, d, b) /\ At(d, b) \in DOMAIN idl  BY <1>2, <1>7 DEF HasBase
  <2> QED  BY <1>7, <2>1 DEF IsCut, HasBase
<1> QED  BY <1>3, <1>5, <1>6, <1>7

\* What is left is an AST.
LEMMA CutIsAST ==
  ASSUME IsAST(idl), NEW e, NEW j, IsCut(j, e)
  PROVE  IsAST(j)
<1>1. DOMAIN j = DOMAIN idl /\ Root \in DOMAIN j /\ "" \notin DOMAIN j /\ IsFiniteSet(DOMAIN j)
  BY ASTIs DEF IsCut
<1>2. ASSUME NEW d \in DOMAIN j
      PROVE  /\ DOMAIN j[d] = {"includes", "structs", "preserved", "typedefs", "consts", "enums", "order", "services"}
             /\ j[d].includes \in Seq(DOMAIN j)
             /\ j[d].order \in Seq(DOMAIN j[d].services) /\ ToSet(j[d].order) = DOMAIN j[d].services
             /\ j[d].preserved \subseteq DOMAIN j[d].structs
             /\ \A S \in {DOMAIN j[d].structs, DOMAIN j[d].typedefs, DOMAIN j[d].services} : IsFiniteSet(S)
  <2>1. d \in DOMAIN idl  BY <1>1
  <2>2. DOMAIN j[d] = DOMAIN idl[d] /\ DOMAIN j = DOMAIN idl
    BY <2>1 DEF IsCut
  <2>3. /\ j[d].structs = idl[d].structs /\ j[d].typedefs = idl[d].typedefs
        /\ j[d].preserved = idl[d].preserved /\ j[d].order = idl[d].order /\ j[d].includes = idl[d].includes
        /\ DOMAIN j[d].services = DOMAIN idl[d].services
    BY <2>1 DEF IsCut
  <2>4. /\ IsFiniteSet(DOMAIN idl[d].structs) /\ IsFiniteSet(DOMAIN idl[d].typedefs)
        /\ IsFiniteSet(DOMAIN idl[d].services)
    BY <2>1, ASTIs
  <2>5. \A S \in {DOMAIN j[d].structs, DOMAIN j[d].typedefs, DOMAIN j[d].services} : IsFiniteSet(S)
    BY <2>3, <2>4
  <2>6. DOMAIN idl[d] = {"includes", "structs", "preserved", "typedefs", "consts", "enums", "order", "services"}
    BY <2>1, ASTIs
  <2>7. /\ idl[d].includes \in Seq(DOMAIN idl)
        /\ idl[d].order \in Seq(DOMAIN idl[d].services) /\ ToSet(idl[d].order) = DOMAIN idl[d].services
        /\ idl[d].preserved \subseteq DOMAIN idl[d].structs
    BY <2>1, ASTIs
  <2> QED  BY <2>2, <2>3, <2>5, <2>6, <2>7
<1>3. ASSUME NEW d \in DOMAIN j PROVE \A t \in Types(j[d]) : Resolves(j, d, t)
  BY <1>1, CutKeepsTypes
<1>4. ASSUME NEW d \in DOMAIN j, NEW s \in DOMAIN j[d].services
      PROVE  /\ DOMAIN j[d].services[s] = {"fns", "base"}
             /\ j[d].services[s].base # NoBase => HasBase(j, d, j[d].services[s].base)
  <2>1. d \in DOMAIN idl /\ s \in DOMAIN idl[d].services  BY <1>1 DEF IsCut
  <2>2. DOMAIN j[d].services[s] = {"fns", "base"}  BY <2>1 DEF IsCut
  <2>3. ASSUME j[d].services[s].base # NoBase PROVE HasBase(j, d, j[d].services[s].base)
    <3>1. PICK b : b = idl[d].services[s].base  OBVIOUS
    <3>2. j[d].services[s].base = b /\ b # NoBase  BY <2>1, <2>3, <3>1 DEF IsCut
    <3>3. idl[d].services[s].base # NoBase => HasBase(idl, d, idl[d].services[s].base)  BY <2>1, ASTIs
    <3> QED  BY <2>1, <3>1, <3>2, <3>3, CutKeepsTypes
  <2> QED  BY <2>2, <2>3
<1> QED  BY <1>1, <1>2, <1>3, <1>4 DEF IsAST

\* What nodes lead to stays, but for bases.
LEMMA CutKeepsNodes ==
  ASSUME IsAST(idl), opts' = opts, NEW e, NEW j, j = idl', IsCut(j, e)
  PROVE  /\ Definitions' = Definitions /\ Services' = Services
         /\ \A x \in Definitions : Uses(x)' = Uses(x)
         /\ \A x \in Services : Fns(x)' = Fns(x) /\ Base(x)' = IF x \in e THEN NoBase ELSE Base(x)
         /\ \A x \in Services : \A f \in Fns(x) : OfFunction(x, f)' = OfFunction(x, f)
         /\ \A d \in DOMAIN idl : FixedPart(d)' = FixedPart(d) /\ Preserved(d)' = Preserved(d)
<1>1. /\ DOMAIN j = DOMAIN idl
      /\ \A d \in DOMAIN idl : /\ j[d].structs = idl[d].structs /\ j[d].typedefs = idl[d].typedefs
                               /\ j[d].preserved = idl[d].preserved /\ j[d].consts = idl[d].consts
                               /\ DOMAIN j[d].services = DOMAIN idl[d].services
  BY DEF IsCut
<1>2. Definitions' = Definitions
  <2>1. \A x : x \in Definitions <=> \E d \in DOMAIN idl :
          (\E n \in DOMAIN idl[d].structs : x = Struct(d, n)) \/ \E n \in DOMAIN idl[d].typedefs : x = Alias(d, n)
    BY DEF Definitions
  <2>2. \A x : x \in Definitions' <=> \E d \in DOMAIN j :
          (\E n \in DOMAIN j[d].structs : x = Struct(d, n)) \/ \E n \in DOMAIN j[d].typedefs : x = Alias(d, n)
    BY DEF Definitions, Struct, Alias
  <2>3. \A x : x \in Definitions' <=> x \in Definitions  BY <1>1, <2>1, <2>2
  <2> QED  BY <2>3
<1>3. Services' = Services
  <2>1. \A x : x \in Services <=> \E d \in DOMAIN idl : \E s \in DOMAIN idl[d].services : x = <<d, s>>
    BY DEF Services
  <2>2. \A x : x \in Services' <=> \E d \in DOMAIN j : \E s \in DOMAIN j[d].services : x = <<d, s>>
    BY DEF Services
  <2>3. \A x : x \in Services' <=> x \in Services  BY <1>1, <2>1, <2>2
  <2> QED  BY <2>3
<1>4. ASSUME NEW d \in DOMAIN idl, NEW ts, ts \subseteq Types(idl[d]) PROVE UsedBy(d, ts)' = UsedBy(d, ts)
  <2>1. \A t \in ts : At(d, t) \in DOMAIN idl  BY <1>4, CutKeepsTypes
  <2>2. \A t \in ts : j[At(d, t)].structs = idl[At(d, t)].structs  BY <1>1, <2>1
  <2>3. \A t \in ts : Target(d, t)' = Target(d, t)  BY <2>2 DEF Target, Struct, Alias
  <2>4. \A t : Via(d, t)' = Via(d, t)  BY DEF Via, Inc
  <2>5. UsedBy(d, ts)' = UNION {Via(d, t)' \union Target(d, t)' : t \in ts}  BY DEF UsedBy
  <2>6. \A x : x \in UsedBy(d, ts)' <=> x \in UsedBy(d, ts)  BY <2>3, <2>4, <2>5 DEF UsedBy
  <2> QED  BY <2>6
<1>5. ASSUME NEW x \in Definitions PROVE Uses(x)' = Uses(x)
  <2>1. PICK ts : ts = ToSet(IF x[2] = "struct" THEN idl[x[1]].structs[x[3]] ELSE idl[x[1]].typedefs[x[3]])  OBVIOUS
  <2>2. x[1] \in DOMAIN idl /\ ts \subseteq Types(idl[x[1]])
    <3>1. PICK d \in DOMAIN idl : \/ \E n \in DOMAIN idl[d].structs : x = Struct(d, n)
                                  \/ \E n \in DOMAIN idl[d].typedefs : x = Alias(d, n)
      BY DEF Definitions
    <3>2. CASE \E n \in DOMAIN idl[d].structs : x = Struct(d, n)
      <4>1. PICK n \in DOMAIN idl[d].structs : x = Struct(d, n)  BY <3>2
      <4>2. x[1] = d /\ ts = ToSet(idl[d].structs[n])  BY <2>1, <4>1 DEF Struct
      <4> QED  BY <4>2 DEF Types, StructTypes
    <3>3. CASE \E n \in DOMAIN idl[d].typedefs : x = Alias(d, n)
      <4>1. PICK n \in DOMAIN idl[d].typedefs : x = Alias(d, n)  BY <3>3
      <4>2. x[1] = d /\ ts = ToSet(idl[d].typedefs[n])  BY <2>1, <4>1 DEF Alias
      <4> QED  BY <4>2 DEF Types, FixedTypes
    <3> QED  BY <3>1, <3>2, <3>3
  <2>3. UsedBy(x[1], ts)' = UsedBy(x[1], ts)  BY <1>4, <2>2
  <2>4. j[x[1]].structs = idl[x[1]].structs /\ j[x[1]].typedefs = idl[x[1]].typedefs  BY <1>1, <2>2
  <2>5. Uses(x) = UsedBy(x[1], ts)  BY <2>1 DEF Uses
  <2>6. Uses(x)' = UsedBy(x[1], ts)'  BY <2>1, <2>4 DEF Uses
  <2> QED  BY <2>3, <2>5, <2>6
<1>6. ASSUME NEW x \in Services
      PROVE  /\ Fns(x)' = Fns(x) /\ Service(x).fns' = Service(x).fns
             /\ Base(x)' = IF x \in e THEN NoBase ELSE Base(x)
  <2>1. x = <<x[1], x[2]>> /\ x[1] \in DOMAIN idl /\ x[2] \in DOMAIN idl[x[1]].services  BY DefinitionIs
  <2>2. /\ j[x[1]].services[x[2]].fns = idl[x[1]].services[x[2]].fns
        /\ j[x[1]].services[x[2]].base =
             IF <<x[1], x[2]>> \in e THEN NoBase ELSE idl[x[1]].services[x[2]].base
    BY <2>1 DEF IsCut
  <2>3. Base(x)' = IF <<x[1], x[2]>> \in e THEN NoBase ELSE Base(x)  BY <2>2 DEF Base, Service
  <2> QED  BY <2>1, <2>2, <2>3 DEF Fns, Service
<1>7. ASSUME NEW x \in Services, NEW f \in Fns(x) PROVE OfFunction(x, f)' = OfFunction(x, f)
  <2>1. PICK ts : ts = ToSet(Service(x).fns[f])  OBVIOUS
  <2>2. x[1] \in DOMAIN idl /\ x[2] \in DOMAIN idl[x[1]].services  BY DefinitionIs
  <2>3. ts \subseteq Types(idl[x[1]])  BY <2>1, <2>2, FnTypesAre DEF Types, Fns, Service
  <2>4. UsedBy(x[1], ts)' = UsedBy(x[1], ts)  BY <1>4, <2>2, <2>3
  <2>5. OfFunction(x, f)' = {Fn(x, f)} \union UsedBy(x[1], ts)'  BY <1>6, <2>1 DEF OfFunction, Fn
  <2> QED  BY <2>1, <2>4, <2>5 DEF OfFunction
<1>8. ASSUME NEW d \in DOMAIN idl PROVE FixedPart(d)' = FixedPart(d) /\ Preserved(d)' = Preserved(d)
  <2>1. PICK ts : ts = FixedTypes(idl[d])  OBVIOUS
  <2>2. FixedTypes(j[d]) = ts /\ ts \subseteq Types(idl[d])  BY <2>1, CutKeepsTypes DEF Types
  <2>3. UsedBy(d, ts)' = UsedBy(d, ts)  BY <1>4, <2>2
  <2>4. FixedPart(d)' = UsedBy(d, ts)'  BY <2>2 DEF FixedPart
  <2>5. FixedPart(d) = UsedBy(d, ts)  BY <2>1 DEF FixedPart
  <2> QED  BY <1>1, <2>3, <2>4, <2>5 DEF Preserved
<1> QED  BY <1>2, <1>3, <1>5, <1>6, <1>7, <1>8

\* After cleanServiceExtends the bases of marked services are marked.
LEMMA CleanServiceExtendsStep == IInv /\ CleanServiceExtends => IInv'
<1> SUFFICES ASSUME IInv, CleanServiceExtends PROVE IInv'  OBVIOUS
<1>1. /\ phase = "services" /\ phase' = "marked" /\ todo = <<>> /\ trims' = trims
      /\ opts' = opts /\ kept' = kept /\ marks' = marks /\ ext' = ext /\ idl' = Cut(idl, ext)
  BY DEF CleanServiceExtends, Cut
<1>2. /\ trims = 0 /\ IsAST(idl) /\ MarkedSoFar(marks, DOMAIN kept) /\ Covered(DOMAIN kept, {})
      /\ WhileServing
  BY <1>1, WhileMarking DEF IInv
<1>3. PICK j, e, m, K : j = idl' /\ e = ext /\ m = marks /\ K = DOMAIN kept  OBVIOUS
<1>4. IsCut(j, e)  BY <1>1, <1>2, <1>3, CutIs
<1>5. IsAST(idl)'
  <2>1. IsAST(j)  BY <1>2, <1>4, CutIsAST
  <2> QED  BY <1>3, <2>1
<1>6. /\ Definitions' = Definitions /\ Services' = Services
      /\ \A x \in Definitions : Uses(x)' = Uses(x)
      /\ \A x \in Services : Fns(x)' = Fns(x) /\ Base(x)' = IF x \in e THEN NoBase ELSE Base(x)
      /\ \A x \in Services : \A f \in Fns(x) : OfFunction(x, f)' = OfFunction(x, f)
      /\ \A d \in DOMAIN idl : FixedPart(d)' = FixedPart(d) /\ Preserved(d)' = Preserved(d)
  BY <1>1, <1>2, <1>3, <1>4, CutKeepsNodes
<1>7. Followed(m) /\ KeptDone(m, K) /\ Covered(K, {}) /\ WithServices(m, e, {})
  BY <1>1, <1>2, <1>3, NothingIn DEF MarkedSoFar, WhileServing
<1>8. DOMAIN j = DOMAIN idl /\ \A d \in DOMAIN idl : j[d].includes = idl[d].includes  BY <1>4 DEF IsCut
<1>9. marks' = m /\ DOMAIN kept' = K  BY <1>1, <1>3
<1>10. Followed(marks)'  BY <1>6, <1>7, <1>9 DEF Followed, Fn
<1>11. KeptDone(marks, DOMAIN kept)'  BY <1>3, <1>6, <1>7, <1>8, <1>9 DEF KeptDone, Struct
<1>12. Covered(DOMAIN kept, {})'
  <2>1. K \subseteq DOMAIN idl  BY <1>7 DEF KeptDone
  <2> QED  BY <1>3, <1>7, <1>8, <1>9, <2>1 DEF Covered
<1>13. WithFunctions(marks)'  BY <1>1, <1>6, <1>7, <1>9 DEF WithServices, WithFunctions, Svc, Fn
<1>14. BasesMarked(marks)'
  <2> SUFFICES ASSUME NEW x \in Services, Svc(x) \in m, Base(x)' # NoBase, Base(x)'.idl # "" \/ x[1] = Root
               PROVE  HasBaseMarked(m, x)'
    BY <1>6, <1>9 DEF BasesMarked, Svc
  <2>1. x \notin e /\ Base(x)' = Base(x) /\ Base(x) # NoBase  BY <1>6
  <2>2. BaseOf(x)' = BaseOf(x)  BY <2>1 DEF BaseOf, At
  <2>3. HasBaseMarked(m, x)
    <3>1. CASE opts.methods # {}  BY <1>7, <2>1, <3>1 DEF WithServices, WithBase
    <3>2. CASE opts.methods = {} /\ Base(x).idl # ""
      BY <1>7, <2>1, <3>2 DEF WithServices, WithBase, HasBaseMarked
    <3>3. CASE opts.methods = {} /\ Base(x).idl = "" /\ x[1] = Root
      <4>1. BaseOf(x) \in Services  BY <1>2, <2>1, BaseIs
      <4>2. BaseOf(x) = <<Root, Base(x).name>>  BY <3>3 DEF BaseOf, At
      <4>3. Base(x).name \in DOMAIN idl[Root].services
        <5>1. PICK b, n : b = BaseOf(x) /\ n = Base(x).name  OBVIOUS
        <5>2. b = <<Root, n>> /\ b \in Services  BY <4>1, <4>2, <5>1
        <5>3. b[1] = Root /\ b[2] = n  BY ONLY <5>2
        <5> QED  BY <5>1, <5>2, <5>3, DefinitionIs
      <4>4. Svc(BaseOf(x)) \in m  BY <1>7, <3>3, <4>2, <4>3 DEF WithServices, RootMarked
      <4>5. Via(x[1], Base(x)) = {}  BY <3>3 DEF Via
      <4> QED  BY <4>4, <4>5 DEF HasBaseMarked
    <3> QED  BY <2>1, <3>1, <3>2, <3>3
  <2> QED  BY <2>1, <2>2, <2>3 DEF HasBaseMarked, Via, Inc, Svc
<1>15. MarkedSoFar(marks, DOMAIN kept)'  BY <1>10, <1>11 DEF MarkedSoFar
<1>16. Once'  BY <1>1, <1>2, <1>5 DEF Once
<1> QED  BY <1>1, <1>12, <1>13, <1>14, <1>15, <1>16 DEF IInv
-----------------------------------------------------------------------------
(***************************************************************************)
(* The sweep.                                                              *)
(***************************************************************************)
\* The sweep comes to IDLs that have been processed only, and to all that
\* their includes that are left lead to.
LEMMA VisitedIs ==
  ASSUME IsAST(idl), NEW K, K \subseteq DOMAIN idl, Covered(K, {})
  PROVE  /\ Root \in Visited /\ Visited \subseteq K
         /\ \A d \in Visited : IncludesLeft(d) \subseteq Visited
         /\ \A E : Root \in E /\ (\A d \in E \intersect DOMAIN idl : IncludesLeft(d) \subseteq E) => Visited \subseteq E
<1>1. PICK next : next = [d \in DOMAIN idl |-> IncludesLeft(d)]  OBVIOUS
<1>2. DOMAIN next = DOMAIN idl /\ IsFiniteSet(DOMAIN next) /\ \A d \in DOMAIN idl : next[d] = IncludesLeft(d)
  BY <1>1, ASTIs
<1>3. PICK V : V = Visited  OBVIOUS
<1>4. V = Reach({Root}, next)  BY <1>1, <1>3 DEF Visited
<1>5. /\ {Root} \subseteq V
      /\ \A d \in V \intersect DOMAIN next : next[d] \subseteq V
      /\ \A C : {Root} \subseteq C /\ (\A d \in C \intersect DOMAIN next : next[d] \subseteq C) => V \subseteq C
  BY <1>2, <1>4, ReachIs
<1>6. \A d : IncludesLeft(d) \subseteq ToSet(idl[d].includes)  BY DEF IncludesLeft
<1>7. Root \in K /\ \A d \in K : next[d] \subseteq K  BY <1>2, <1>6 DEF Covered
<1>8. V \subseteq K  BY <1>5, <1>7
<1>9. ASSUME NEW E, Root \in E, \A d \in E \intersect DOMAIN idl : IncludesLeft(d) \subseteq E PROVE V \subseteq E
  <2>1. \A d \in E \intersect DOMAIN next : next[d] \subseteq E  BY <1>2, <1>9
  <2> QED  BY <1>5, <1>9, <2>1
<1> QED  BY <1>2, <1>3, <1>5, <1>8, <1>9

\* What the sweep leaves of an IDL.
IsSwept(j, d) ==
  /\ ToSet(j[d].includes) = IncludesLeft(d)
  /\ j[d].typedefs = idl[d].typedefs /\ j[d].consts = idl[d].consts /\ j[d].enums = idl[d].enums
  /\ j[d].preserved = idl[d].preserved
  /\ DOMAIN j[d].structs = StructsLeft(d)
  /\ \A n \in StructsLeft(d) : j[d].structs[n] = idl[d].structs[n]
  /\ DOMAIN j[d].services = ServicesLeft(d)
  /\ \A s \in ServicesLeft(d) :
       /\ j[d].services[s].base = idl[d].services[s].base
       /\ DOMAIN j[d].services[s].fns = FnsLeft(<<d, s>>)
       /\ \A f \in FnsLeft(<<d, s>>) : j[d].services[s].fns[f] = idl[d].services[s].fns[f]

\* What the sweep makes of an IDL, field by field.
LEMMA SweptIs ==
  ASSUME IsAST(idl), NEW d \in DOMAIN idl, NEW j, j[d] = Swept(d)
  PROVE  IsSwept(j, d)
<1>1. PICK x, A, B, C : x = idl[d] /\ A = IncludesLeft(d) /\ B = StructsLeft(d) /\ C = ServicesLeft(d)  OBVIOUS
<1>2. PICK w : w = [s \in C |-> ServiceLeft(<<d, s>>)]  OBVIOUS
<1>3. DOMAIN x = {"includes", "structs", "preserved", "typedefs", "consts", "enums", "order", "services"}
  BY <1>1, ASTIs
<1>4. j[d] = [x EXCEPT !.includes = Filtered(@, A), !.structs = Only(@, B), !.order = Filtered(@, C), !.services = w]
  <2>1. w = [s \in ServicesLeft(d) |-> ServiceLeft(<<d, s>>)]  BY <1>1, <1>2
  <2> QED  BY <1>1, <2>1 DEF Swept
<1>5. /\ j[d].includes = Filtered(x.includes, A) /\ j[d].structs = Only(x.structs, B) /\ j[d].services = w
      /\ j[d].typedefs = x.typedefs /\ j[d].consts = x.consts /\ j[d].enums = x.enums
      /\ j[d].preserved = x.preserved
  BY <1>3, <1>4
<1>6. ToSet(j[d].includes) = A
  <2>1. x.includes \in Seq(DOMAIN idl)  BY <1>1, ASTIs
  <2>2. ToSet(Filtered(x.includes, A)) = ToSet(x.includes) \intersect A  BY <2>1, FilteredIs
  <2>3. A \subseteq ToSet(x.includes)  BY <1>1 DEF IncludesLeft
  <2> QED  BY <1>5, <2>2, <2>3
<1>7. DOMAIN j[d].structs = B /\ \A n \in B : j[d].structs[n] = x.structs[n]
  <2>1. B \subseteq DOMAIN x.structs  BY <1>1 DEF StructsLeft
  <2> QED  BY <1>5, <2>1 DEF Only
<1>8. ASSUME NEW s \in C
      PROVE  /\ w[s].base = x.services[s].base
             /\ DOMAIN w[s].fns = FnsLeft(<<d, s>>)
             /\ \A f \in FnsLeft(<<d, s>>) : w[s].fns[f] = x.services[s].fns[f]
  <2>1. PICK v, F : v = x.services[s] /\ F = FnsLeft(<<d, s>>)  OBVIOUS
  <2>2. s \in DOMAIN idl[d].services  BY <1>1 DEF ServicesLeft
  <2>3. DOMAIN v = {"fns", "base"}  BY <1>1, <2>1, <2>2, ASTIs
  <2>4. w[s] = [v EXCEPT !.fns = Only(@, F)]  BY <1>1, <1>2, <2>1 DEF ServiceLeft, Service
  <2>5. w[s].base = v.base /\ w[s].fns = Only(v.fns, F)  BY <2>3, <2>4
  <2>6. F \subseteq DOMAIN v.fns  BY <1>1, <2>1 DEF FnsLeft, Fns, Service
  <2> QED  BY <2>1, <2>5, <2>6 DEF Only
<1>9. DOMAIN w = C  BY <1>2
<1> QED  BY <1>1, <1>5, <1>6, <1>7, <1>8, <1>9 DEF IsSwept

\* What is left of an IDL uses what is marked only.
LEMMA LeftIsMarked ==
  ASSUME IsAST(idl), NEW m, m = marks, NEW K, MarkedSoFar(m, K), WithFunctions(m), NEW d \in K, NEW j, IsSwept(j, d)
  PROVE  \A t \in Types(j[d]) : t \in Types(idl[d]) /\ Via(d, t) \union Target(d, t) \subseteq m
<1>1. d \in DOMAIN idl /\ Followed(m) /\ KeptDone(m, K)  BY DEF MarkedSoFar, KeptDone
<1> SUFFICES ASSUME NEW t \in Types(j[d])
             PROVE  \E ts : t \in ts /\ ts \subseteq Types(idl[d]) /\ UsedBy(d, ts) \subseteq m
  <2>1. \A t, ts : t \in ts => Via(d, t) \union Target(d, t) \subseteq UsedBy(d, ts)  BY DEF UsedBy
  <2> QED  BY <2>1
<1>2. CASE t \in FixedTypes(j[d])
  <2>1. FixedTypes(j[d]) = FixedTypes(idl[d])  BY DEF IsSwept, FixedTypes
  <2>2. UsedBy(d, FixedTypes(idl[d])) \subseteq m  BY <1>1 DEF KeptDone, FixedPart
  <2> QED  BY <1>2, <2>1, <2>2 DEF Types
<1>3. CASE t \in StructTypes(j[d])
  <2>1. PICK n \in DOMAIN j[d].structs : t \in ToSet(j[d].structs[n])  BY <1>3 DEF StructTypes
  <2>2. n \in StructsLeft(d) /\ t \in ToSet(idl[d].structs[n])  BY <2>1 DEF IsSwept
  <2>3. n \in DOMAIN idl[d].structs /\ Struct(d, n) \in m  BY <1>1, <2>2 DEF StructsLeft, KeptDone
  <2>4. Uses(Struct(d, n)) \subseteq m  BY <1>1, <2>3, DefinitionIs DEF Followed
  <2>5. Uses(Struct(d, n)) = UsedBy(d, ToSet(idl[d].structs[n]))  BY DEF Uses, Struct
  <2>6. ToSet(idl[d].structs[n]) \subseteq Types(idl[d])  BY <2>3 DEF Types, StructTypes
  <2> QED  BY <2>2, <2>4, <2>5, <2>6
<1>4. CASE t \in FnTypes(j[d])
  <2>1. PICK s, f : /\ s \in DOMAIN j[d].services /\ f \in DOMAIN j[d].services[s].fns
                    /\ t \in ToSet(j[d].services[s].fns[f])
    BY <1>4, FnTypesAre
  <2>2. PICK x : x = <<d, s>>  OBVIOUS
  <2>3. /\ s \in ServicesLeft(d) /\ f \in FnsLeft(x)
        /\ j[d].services[s].fns[f] = idl[d].services[s].fns[f]
    BY <2>1, <2>2 DEF IsSwept
  <2>4. x[1] = d /\ x[2] = s /\ s \in DOMAIN idl[d].services /\ Svc(x) \in m
    BY <2>2, <2>3 DEF ServicesLeft
  <2>5. x \in Services /\ f \in Fns(x)  BY <1>1, <2>2, <2>3, <2>4, DefinitionIs DEF FnsLeft
  <2>6. Fn(x, f) \in m  BY <2>3, <2>4, <2>5 DEF FnsLeft, WithFunctions
  <2>7. OfFunction(x, f) \subseteq m  BY <1>1, <2>5, <2>6 DEF Followed
  <2>8. PICK ts : ts = ToSet(idl[d].services[s].fns[f])  OBVIOUS
  <2>9. UsedBy(d, ts) \subseteq m  BY <2>4, <2>7, <2>8 DEF OfFunction, Service
  <2>10. ts \subseteq Types(idl[d])  BY <2>4, <2>5, <2>8, FnTypesAre DEF Types, Fns, Service
  <2> QED  BY <2>1, <2>3, <2>8, <2>9, <2>10
<1> QED  BY <1>2, <1>3, <1>4 DEF Types

\* The IDLs that are left are those that the sweep comes to.
LEMMA SweepLeaves ==
  ASSUME IInv, Sweep, NEW j, j = idl'
  PROVE  /\ DOMAIN j = DOMAIN idl /\ Left' = Visited
         /\ \A d \in Visited : IsSwept(j, d) /\ d \in DOMAIN idl /\ d \in DOMAIN kept
<1>1. phase = "marked" /\ j = [d \in DOMAIN idl |-> IF d \in Visited THEN Swept(d) ELSE idl[d]]  BY DEF Sweep
<1>2. IsAST(idl) /\ MarkedSoFar(marks, DOMAIN kept) /\ Covered(DOMAIN kept, {})
  BY <1>1, WhileMarking DEF IInv
<1>3. PICK K, V : K = DOMAIN kept /\ V = Visited  OBVIOUS
<1>4. Covered(K, {}) /\ K \subseteq DOMAIN idl  BY <1>2, <1>3 DEF MarkedSoFar, KeptDone
<1>5. /\ Root \in V /\ V \subseteq K /\ \A d \in V : IncludesLeft(d) \subseteq V
      /\ \A E : Root \in E /\ (\A d \in E \intersect DOMAIN idl : IncludesLeft(d) \subseteq E) => V \subseteq E
  BY <1>2, <1>3, <1>4, VisitedIs
<1>6. ASSUME NEW d \in V PROVE IsSwept(j, d) /\ d \in DOMAIN idl /\ d \in K
  <2>1. d \in DOMAIN idl /\ d \in K  BY <1>4, <1>5
  <2>2. j[d] = Swept(d)  BY <1>1, <1>3, <2>1
  <2> QED  BY <1>2, <2>1, <2>2, SweptIs
<1>7. DOMAIN j = DOMAIN idl  BY <1>1
<1>8. PICK next, L : next = [d \in DOMAIN j |-> ToSet(j[d].includes)] /\ L = Left'  OBVIOUS
<1>9. L = Reach({Root}, next)  BY <1>8, Zenon DEF Left, Under
<1>10. DOMAIN next = DOMAIN idl /\ \A d \in V : next[d] = IncludesLeft(d)  BY <1>4, <1>5, <1>6, <1>7, <1>8 DEF IsSwept
<1>11. IsFiniteSet(DOMAIN next)  BY <1>2, <1>10, ASTIs
<1>12. /\ {Root} \subseteq L /\ \A d \in L \intersect DOMAIN next : next[d] \subseteq L
       /\ \A E : {Root} \subseteq E /\ (\A d \in E \intersect DOMAIN next : next[d] \subseteq E) => L \subseteq E
  BY <1>9, <1>11, ReachIs
<1>13. L \subseteq V  BY <1>5, <1>10, <1>12
<1>14. V \subseteq L
  <2>1. \A d \in L \intersect DOMAIN idl : IncludesLeft(d) \subseteq L  BY <1>10, <1>12, <1>13
  <2> QED  BY <1>5, <1>12, <2>1
<1> QED  BY <1>3, <1>6, <1>7, <1>8, <1>13, <1>14

\* What is left after the sweep refers to what is left.
LEMMA SweepStep == IInv /\ Sweep => IInv'
<1> SUFFICES ASSUME IInv, Sweep PROVE IInv'  OBVIOUS
<1>1. phase = "marked" /\ phase' = "swept" /\ trims' = trims + 1  BY DEF Sweep
<1>2. /\ trims = 0 /\ IsAST(idl) /\ MarkedSoFar(marks, DOMAIN kept) /\ Covered(DOMAIN kept, {})
      /\ WithFunctions(marks) /\ BasesMarked(marks)
  BY <1>1, WhileMarking DEF IInv
<1>3. PICK j, m, K, V : j = idl' /\ m = marks /\ K = DOMAIN kept /\ V = Visited  OBVIOUS
<1>4. /\ MarkedSoFar(m, K) /\ WithFunctions(m) /\ BasesMarked(m) /\ Covered(K, {})
      /\ K \subseteq DOMAIN idl
  BY <1>2, <1>3 DEF MarkedSoFar, KeptDone
<1>5. Root \in V /\ V \subseteq K /\ \A d \in V : IncludesLeft(d) \subseteq V
  BY <1>2, <1>3, <1>4, VisitedIs
<1>6. \A d \in V : IsSwept(j, d) /\ d \in DOMAIN idl /\ d \in K  BY <1>3, SweepLeaves
<1>8. Left' \subseteq V  BY <1>3, SweepLeaves
<1>9. ASSUME NEW d \in V, NEW t, Seen(idl, d, t), Via(d, t) \subseteq m PROVE Seen(j, d, t) /\ At(d, t) \in V
  <2>1. IsSwept(j, d)  BY <1>6
  <2>2. CASE t.idl = ""  BY <2>2 DEF Seen, At
  <2>3. CASE t.idl # ""
    <3>1. Inc(d, t.idl) \in m /\ t.idl \in ToSet(idl[d].includes)  BY <1>9, <2>3 DEF Via, Seen
    <3>2. t.idl \in IncludesLeft(d)  BY <1>3, <3>1 DEF IncludesLeft
    <3> QED  BY <1>5, <2>1, <2>3, <3>2 DEF Seen, At, IsSwept
  <2> QED  BY <2>2, <2>3
<1>10. ASSUME NEW d \in V, NEW t \in Types(j[d]) PROVE Resolves(j, d, t)
  <2>1. d \in DOMAIN idl /\ t \in Types(idl[d]) /\ Via(d, t) \subseteq m /\ Target(d, t) \subseteq m
    BY <1>2, <1>3, <1>4, <1>6, LeftIsMarked
  <2>2. Resolves(idl, d, t)  BY <1>2, <2>1, ASTIs
  <2>3. PICK e : e = At(d, t)  OBVIOUS
  <2>4. Seen(j, d, t) /\ e \in V /\ Exists(idl[e], t)  BY <1>9, <2>1, <2>2, <2>3 DEF Resolves
  <2>5. IsSwept(j, e)  BY <1>6, <2>4
  <2>6. Exists(j[e], t)
    <3>1. CASE t.kind = "struct"
      <4>1. t.name \in DOMAIN idl[e].structs  BY <2>4, <3>1 DEF Exists
      <4>2. Struct(e, t.name) \in m  BY <2>1, <2>3, <3>1, <4>1 DEF Target
      <4>3. t.name \in StructsLeft(e)  BY <1>3, <4>1, <4>2 DEF StructsLeft
      <4> QED  BY <2>5, <3>1, <4>3 DEF Exists, IsSwept
    <3>2. CASE t.kind # "struct"  BY <2>4, <2>5, <3>2 DEF Exists, IsSwept
    <3> QED  BY <3>1, <3>2
  <2> QED  BY <2>3, <2>4, <2>6 DEF Resolves
<1>11. ASSUME NEW d \in V, NEW s \in DOMAIN j[d].services, NEW b, b = j[d].services[s].base,
              b # NoBase, b.idl # "" \/ d = Root
       PROVE  HasBase(j, d, b)
  <2>1. PICK x : x = <<d, s>>  OBVIOUS
  <2>2. IsSwept(j, d) /\ d \in DOMAIN idl  BY <1>6
  <2>3. s \in ServicesLeft(d) /\ b = idl[d].services[s].base  BY <1>11, <2>2 DEF IsSwept
  <2>4. s \in DOMAIN idl[d].services /\ Svc(x) \in m  BY <1>3, <2>1, <2>3 DEF ServicesLeft
  <2>5. x \in Services /\ x[1] = d /\ x[2] = s /\ Base(x) = b
    BY <2>1, <2>2, <2>3, <2>4, DefinitionIs DEF Base, Service
  <2>6. HasBaseMarked(m, x)  BY <1>4, <1>11, <2>4, <2>5 DEF BasesMarked
  <2>7. PICK e, y : e = At(d, b) /\ y = BaseOf(x)  OBVIOUS
  <2>8. Via(d, b) \subseteq m /\ Svc(y) \in m  BY <2>5, <2>6, <2>7 DEF HasBaseMarked
  <2>9. y = <<e, b.name>>  BY <2>5, <2>7 DEF BaseOf
  <2>10. HasBase(idl, d, b)
    <3>1. idl[d].services[s].base # NoBase => HasBase(idl, d, idl[d].services[s].base)
      BY <1>2, <2>2, <2>4, ASTIs
    <3> QED  BY <1>11, <2>3, <3>1, Zenon
  <2>11. Seen(j, d, b) /\ e \in V /\ b.name \in DOMAIN idl[e].services
    BY <1>9, <2>7, <2>8, <2>10 DEF HasBase
  <2>12. b.name \in ServicesLeft(e)  BY <1>3, <2>8, <2>9, <2>11 DEF ServicesLeft
  <2>13. IsSwept(j, e)  BY <1>6, <2>11
  <2> QED  BY <2>7, <2>11, <2>12, <2>13 DEF HasBase, IsSwept
<1>12. Sound'
  <2>1. \A d \in V : \A t \in Types(j[d]) : Resolves(j, d, t)  BY <1>10
  <2>2. \A d \in V : \A s \in DOMAIN j[d].services :
          LET b == j[d].services[s].base IN b # NoBase /\ (b.idl # "" \/ d = Root) => HasBase(j, d, b)
    BY <1>11
  <2> QED  BY <1>3, <1>8, <2>1, <2>2 DEF Sound
<1>13. Once'
  <2>1. trims' = 1  BY <1>1, <1>2
  <2> QED  BY <1>1, <1>12, <2>1 DEF Once
<1>14. trims' # 0  BY <1>1, <1>2
<1> QED  BY <1>1, <1>13, <1>14 DEF IInv

\* ResolveSymbols leaves the AST alone.
LEMMA ResolveStep == IInv /\ Resolve => IInv'
<1> SUFFICES ASSUME IInv, Resolve PROVE IInv'  OBVIOUS
<1>1. phase = "swept" /\ phase' = "idle" /\ idl' = idl /\ trims' = trims  BY DEF Resolve
<1>2. trims = 1 /\ Sound
  <2>1. Once  BY DEF IInv
  <2> QED  BY <1>1, <2>1 DEF Once
<1>3. Sound'
  <2>1. Left' = Left  BY <1>1 DEF Left, Under
  <2> QED  BY <1>1, <1>2, <2>1 DEF Sound
<1> QED  BY <1>1, <1>2, <1>3 DEF IInv, Once

\* Nothing changes when nothing is done.
LEMMA StutteringStep == IInv /\ UNCHANGED vars => IInv'
<1> SUFFICES ASSUME IInv, UNCHANGED vars PROVE IInv'  OBVIOUS
<1>1. /\ idl' = idl /\ opts' = opts /\ marks' = marks /\ kept' = kept /\ ext' = ext /\ todo' = todo
      /\ phase' = phase /\ trims' = trims
  BY DEF vars
<1>2. PICK m, K, e, t : m = marks' /\ K = DOMAIN kept' /\ e = ext' /\ t = todo'  OBVIOUS
<1>3. Once'
  <2>1. Once  BY DEF IInv
  <2>2. Left' = Left  BY <1>1 DEF Left, Under
  <2>3. Sound => Sound'  BY <1>1, <2>2 DEF Sound
  <2>4. IsAST(idl)' = IsAST(idl)  BY <1>1
  <2> QED  BY <1>1, <2>1, <2>3, <2>4 DEF Once
<1>4. phase \in {"kept parts", "services", "marked"} => MarkedSoFar(marks, DOMAIN kept)'
  BY <1>1, <1>2, MarkedSoFarOn DEF IInv
<1>5. phase \in {"services", "marked"} => Covered(DOMAIN kept, {})'
  BY <1>1, <1>2, CoveredOn DEF IInv
<1>6. ASSUME phase = "kept parts" PROVE WhileKeeping'
  <2>1. WhileKeeping  BY <1>6 DEF IInv
  <2>2. NoServices(marks)'  BY <1>1, <1>2, <2>1, NoServicesOn DEF WhileKeeping
  <2>3. Covered(DOMAIN kept, ToSet(todo))'  BY <1>1, <1>2, <2>1, CoveredOn DEF WhileKeeping
  <2> QED  BY <1>1, <2>1, <2>2, <2>3 DEF WhileKeeping
<1>7. ASSUME phase = "services" PROVE WhileServing'
  <2>1. WhileServing  BY <1>7 DEF IInv
  <2>2. WithServices(marks, ext, ToSet(todo))'  BY <1>1, <1>2, <2>1, WithServicesOn DEF WhileServing
  <2> QED  BY <1>1, <2>1, <2>2, SameAST DEF WhileServing
<1>8. ASSUME phase = "marked" PROVE WithFunctions(marks)' /\ BasesMarked(marks)'
  <2>1. WithFunctions(marks) /\ BasesMarked(marks)  BY <1>8 DEF IInv
  <2> QED  BY <1>1, <2>1, SameAST DEF WithFunctions, BasesMarked, HasBaseMarked
<1> QED  BY <1>1, <1>3, <1>4, <1>5, <1>6, <1>7, <1>8 DEF IInv

\* The first invariant is inductive, when a process trims once.
LEMMA NextStep == MaxTrims = 1 /\ IInv /\ [Next]_vars => IInv'
BY BeginStep, PreProcessStep, PreProcessedStep, SkipServiceStep, MarkServiceStep, CleanServiceExtendsStep,
   SweepStep, ResolveStep, StutteringStep DEF Next

\* Marking follows all that it marks and passes over no IDL that is included;
\* the bases of marked services are marked or cut off, and what the sweep
\* leaves resolves: the invariant of markAST, the sweep and ResolveSymbols.
THEOREM TrimInvariant == ASSUME MaxTrims = 1 PROVE Spec => []IInv
<1>1. Init => IInv  BY InitStep
<1>2. IInv /\ [Next]_vars => IInv'  BY NextStep
<1> QED  BY <1>1, <1>2, PTL DEF Spec

\* Whatever is trimmed, with whatever options: every type and every base that
\* is left is found through the includes that are left.
THEOREM MissesNothing == ASSUME MaxTrims = 1 PROVE Spec => []NothingIsMissed
<1>1. IInv => NothingIsMissed
  <2> SUFFICES ASSUME IInv, Trimmed PROVE Sound  BY DEF NothingIsMissed, Sound
  <2>1. Once /\ trims # 0
    <3>1. ~ (0 > 0) /\ trims > 0  BY DEF Trimmed
    <3> QED  BY <3>1 DEF IInv
  <2> QED  BY <2>1 DEF Once
<1> QED  BY <1>1, TrimInvariant, PTL
-----------------------------------------------------------------------------
(***************************************************************************)
(* That nothing is left that could be removed: IDLs D and structs C that   *)
(* hold what is left when m is marked hold all that is marked.             *)
(***************************************************************************)
\* The IDLs in P are held because of what they keep.
Holds(D, C, m, P) ==
  /\ D \subseteq DOMAIN idl /\ Root \in D /\ P \subseteq D
  /\ \A d \in D :
       /\ \A e \in ToSet(idl[d].includes) : Inc(d, e) \in m => e \in D
       /\ StructsAt(d, FixedTypes(idl[d])) \subseteq C
       /\ \A n \in Preserved(d) : <<d, n>> \in C
       /\ \A n \in DOMAIN idl[d].structs :
            Struct(d, n) \in m /\ <<d, n>> \in C => StructsAt(d, ToSet(idl[d].structs[n])) \subseteq C
  /\ \A x \in Services : \A f \in Fns(x) :
       x[1] \in D /\ Svc(x) \in m /\ Fn(x, f) \in m => StructsAt(x[1], ToSet(Service(x).fns[f])) \subseteq C

Inside(D, C, x) == x[1] \in D /\ (x[2] = "struct" => <<x[1], x[3]>> \in C)

\* The services in S are still to be marked.
Justified(m, P, S) ==
  \A D, C : Holds(D, C, m, P) => (\A x \in m : Inside(D, C, x)) /\ \A y \in S : y[1] \in D

KeepsSome == {d \in DOMAIN kept : kept[d]}

\* What NothingUnneeded says of the AST that is left.
Needed ==
  AllStructs \subseteq Reach(Given, [x \in AllStructs |-> StructsAt(x[1], ToSet(idl[x[1]].structs[x[2]]))])

\* The invariant of what justifies the marks, relative to IInv.
JInv ==
  /\ phase = "kept parts" => /\ Justified(marks, KeepsSome, {})
                             /\ DOMAIN kept \union ToSet(todo) \subseteq Under(Root)
  /\ phase = "services" => Justified(marks, {}, ToSet(todo))
  /\ phase = "marked" => Justified(marks, {}, {})
  /\ trims = 1 => Needed

\* When a node is inside, by its kind.
LEMMA NodesInside ==
  ASSUME NEW D, NEW C
  PROVE  /\ \A d \in D : \A e : Inside(D, C, Inc(d, e)) /\ Inside(D, C, Alias(d, e))
         /\ \A d \in D : \A n : <<d, n>> \in C => Inside(D, C, Struct(d, n))
         /\ \A x : x[1] \in D => Inside(D, C, Svc(x)) /\ \A f : Inside(D, C, Fn(x, f))
BY DEF Inside, Inc, Alias, Struct, Svc, Fn

\* A type of an IDL in D whose include is marked is in an IDL in D.
LEMMA SeenInside ==
  ASSUME NEW D, NEW C, NEW m, NEW P, Holds(D, C, m, P), NEW d \in D, NEW t, Seen(idl, d, t), Via(d, t) \subseteq m
  PROVE  At(d, t) \in D
<1>1. CASE t.idl = ""  BY <1>1 DEF At
<1>2. CASE t.idl # ""
  <2>1. Inc(d, t.idl) \in m /\ t.idl \in ToSet(idl[d].includes)  BY <1>2 DEF Via, Seen
  <2> QED  BY <1>2, <2>1 DEF Holds, At
<1> QED  BY <1>1, <1>2

\* Types whose structs are in C lead to nodes that are inside.
LEMMA UsedInside ==
  ASSUME IsAST(idl), NEW D, NEW C, NEW m, NEW P, Holds(D, C, m, P), NEW d \in D, NEW ts,
         ts \subseteq Types(idl[d]), StructsAt(d, ts) \subseteq C, UsedBy(d, ts) \subseteq m
  PROVE  \A x \in UsedBy(d, ts) : Inside(D, C, x)
<1> SUFFICES ASSUME NEW x \in UsedBy(d, ts) PROVE Inside(D, C, x)  OBVIOUS
<1>1. PICK t \in ts : x \in Via(d, t) \/ x \in Target(d, t)  BY DEF UsedBy
<1>2. CASE x \in Via(d, t)
  <2>1. x = Inc(d, t.idl)  BY <1>2, ViaIs
  <2> QED  BY <2>1, NodesInside
<1>3. CASE x \in Target(d, t)
  <2>1. (t.kind = "struct" /\ x = Struct(At(d, t), t.name)) \/ x = Alias(d, t.name)  BY <1>3 DEF Target
  <2>2. CASE x = Alias(d, t.name)  BY <2>2, NodesInside
  <2>3. CASE t.kind = "struct" /\ x = Struct(At(d, t), t.name)
    <3>1. d \in DOMAIN idl  BY DEF Holds
    <3>2. Seen(idl, d, t)  BY <3>1, ASTIs DEF Resolves
    <3>3. Via(d, t) \subseteq m  BY DEF UsedBy
    <3>4. At(d, t) \in D  BY <3>2, <3>3, SeenInside
    <3>5. <<At(d, t), t.name>> \in C  BY <2>3 DEF StructsAt
    <3> QED  BY <2>3, <3>4, <3>5, NodesInside
  <2> QED  BY <2>1, <2>2, <2>3
<1> QED  BY <1>1, <1>2, <1>3

\* What a definition uses, are the types of a struct, or fixed types of its IDL.
LEMMA DefinitionUses ==
  ASSUME NEW x \in Definitions
  PROVE  \E d, ts : /\ d \in DOMAIN idl /\ x[1] = d /\ Uses(x) = UsedBy(d, ts) /\ ts \subseteq Types(idl[d])
                    /\ \/ ts \subseteq FixedTypes(idl[d])
                       \/ \E n \in DOMAIN idl[d].structs : x = Struct(d, n) /\ ts = ToSet(idl[d].structs[n])
<1>1. PICK ts : ts = ToSet(IF x[2] = "struct" THEN idl[x[1]].structs[x[3]] ELSE idl[x[1]].typedefs[x[3]])  OBVIOUS
<1>2. PICK d \in DOMAIN idl : \/ \E n \in DOMAIN idl[d].structs : x = Struct(d, n)
                              \/ \E n \in DOMAIN idl[d].typedefs : x = Alias(d, n)
  BY DEF Definitions
<1>3. Uses(x) = UsedBy(x[1], ts)  BY <1>1 DEF Uses
<1>4. CASE \E n \in DOMAIN idl[d].structs : x = Struct(d, n)
  <2>1. PICK n \in DOMAIN idl[d].structs : x = Struct(d, n)  BY <1>4
  <2>2. x[1] = d /\ ts = ToSet(idl[d].structs[n])  BY <1>1, <2>1 DEF Struct
  <2>3. ts \subseteq Types(idl[d])  BY <2>2 DEF Types, StructTypes
  <2> QED  BY <1>3, <2>1, <2>2, <2>3
<1>5. CASE \E n \in DOMAIN idl[d].typedefs : x = Alias(d, n)
  <2>1. PICK n \in DOMAIN idl[d].typedefs : x = Alias(d, n)  BY <1>5
  <2>2. x[1] = d /\ ts = ToSet(idl[d].typedefs[n])  BY <1>1, <2>1 DEF Alias
  <2>3. ts \subseteq FixedTypes(idl[d])  BY <2>2 DEF FixedTypes
  <2> QED  BY <1>3, <2>2, <2>3 DEF Types
<1> QED  BY <1>2, <1>4, <1>5

\* Marking goes on inside.
LEMMA MarkInside ==
  ASSUME IsAST(idl), NEW D, NEW C, NEW n, NEW P, Holds(D, C, n, P), NEW m, NEW new, Mark(m, new) \subseteq n,
         \A x \in m \union new : Inside(D, C, x)
  PROVE  \A x \in Mark(m, new) : Inside(D, C, x)
<1>1. PICK E : E = {x \in Mark(m, new) : Inside(D, C, x)}  OBVIOUS
<1>2. m \union new \subseteq E  BY <1>1, MarkIs
<1>3. ASSUME NEW x \in E \intersect Definitions PROVE x \in m \/ Uses(x) \subseteq E
  <2> SUFFICES ASSUME x \notin m PROVE Uses(x) \subseteq E  OBVIOUS
  <2>1. Uses(x) \subseteq Mark(m, new)  BY <1>1, MarkIs
  <2>2. PICK d, ts : /\ d \in DOMAIN idl /\ x[1] = d /\ Uses(x) = UsedBy(d, ts) /\ ts \subseteq Types(idl[d])
                     /\ \/ ts \subseteq FixedTypes(idl[d])
                        \/ \E k \in DOMAIN idl[d].structs : x = Struct(d, k) /\ ts = ToSet(idl[d].structs[k])
    BY DefinitionUses
  <2>3. x \in n /\ Inside(D, C, x) /\ d \in D  BY <1>1, <2>2 DEF Inside
  <2>4. StructsAt(d, ts) \subseteq C
    <3>1. CASE ts \subseteq FixedTypes(idl[d])
      <4>1. StructsAt(d, FixedTypes(idl[d])) \subseteq C  BY <2>3 DEF Holds
      <4> QED  BY <3>1, <4>1 DEF StructsAt
    <3>2. CASE \E k \in DOMAIN idl[d].structs : x = Struct(d, k) /\ ts = ToSet(idl[d].structs[k])
      <4>1. PICK k \in DOMAIN idl[d].structs : x = Struct(d, k) /\ ts = ToSet(idl[d].structs[k])  BY <3>2
      <4>2. x[1] = d /\ x[2] = "struct" /\ x[3] = k  BY <4>1 DEF Struct
      <4>3. <<d, k>> \in C  BY <2>3, <4>2 DEF Inside
      <4> QED  BY <2>3, <4>1, <4>3 DEF Holds
    <3> QED  BY <2>2, <3>1, <3>2
  <2>5. \A y \in Uses(x) : Inside(D, C, y)  BY <2>1, <2>2, <2>3, <2>4, UsedInside
  <2> QED  BY <1>1, <2>1, <2>5
<1>4. Mark(m, new) \subseteq E  BY <1>2, <1>3, MarkIs
<1> QED  BY <1>1, <1>4

\* What holds for more marks and more IDLs holds for fewer.
LEMMA HoldsForFewer ==
  ASSUME NEW D, NEW C, NEW n, NEW Q, Holds(D, C, n, Q), NEW m, m \subseteq n, NEW P, P \subseteq D
  PROVE  Holds(D, C, m, P)
BY DEF Holds

\* Justified stays true of new marks m when the AST stays.
LEMMA JustifiedOn ==
  ASSUME idl' = idl, opts' = opts, NEW m, m = marks', NEW P, NEW S, Justified(m, P, S)
  PROVE  /\ P = KeepsSome' => Justified(marks, KeepsSome, S)'
         /\ S = ToSet(todo)' => Justified(marks, P, ToSet(todo))'
         /\ Justified(marks, P, S)'
<1>1. \A D, C : Holds(D, C, m, P)' <=> Holds(D, C, m, P)
  BY SameAST DEF Holds, Service, Inc, Struct, Svc, Fn
<1>2. \A D, C : Holds(D, C, m, P)' => (\A x \in m : Inside(D, C, x)) /\ \A y \in S : y[1] \in D
  BY <1>1 DEF Justified
<1> QED  BY <1>2 DEF Justified, Inside

\* The IDLs under d are d and all that they include.
LEMMA UnderIs ==
  ASSUME IsAST(idl), NEW d \in DOMAIN idl
  PROVE  /\ Under(d) \subseteq DOMAIN idl /\ d \in Under(d)
         /\ \A e \in Under(d) : ToSet(idl[e].includes) \subseteq Under(d)
         /\ \A E : d \in E /\ (\A e \in E \intersect DOMAIN idl : ToSet(idl[e].includes) \subseteq E) => Under(d) \subseteq E
<1>1. PICK next : next = [e \in DOMAIN idl |-> ToSet(idl[e].includes)]  OBVIOUS
<1>2. DOMAIN next = DOMAIN idl /\ IsFiniteSet(DOMAIN next) /\ \A e \in DOMAIN idl : next[e] = ToSet(idl[e].includes)
  BY <1>1, ASTIs
<1>3. PICK U : U = Under(d)  OBVIOUS
<1>4. U = Reach({d}, next)  BY <1>1, <1>3 DEF Under
<1>5. /\ {d} \subseteq U
      /\ \A e \in U \intersect DOMAIN next : next[e] \subseteq U
      /\ \A E : {d} \subseteq E /\ (\A e \in E \intersect DOMAIN next : next[e] \subseteq E) => U \subseteq E
  BY <1>2, <1>4, ReachIs
<1>6. \A e \in DOMAIN idl : ToSet(idl[e].includes) \subseteq DOMAIN idl
  <2> SUFFICES ASSUME NEW e \in DOMAIN idl PROVE ToSet(idl[e].includes) \subseteq DOMAIN idl  OBVIOUS
  <2>1. idl[e].includes \in Seq(DOMAIN idl)  BY ASTIs
  <2> QED  BY <2>1 DEF ToSet
<1>7. U \subseteq DOMAIN idl  BY <1>2, <1>5, <1>6
<1>8. ASSUME NEW E, d \in E, \A e \in E \intersect DOMAIN idl : ToSet(idl[e].includes) \subseteq E PROVE U \subseteq E
  <2>1. \A e \in E \intersect DOMAIN next : next[e] \subseteq E  BY <1>2, <1>8
  <2> QED  BY <1>5, <1>8, <2>1
<1> QED  BY <1>2, <1>3, <1>5, <1>7, <1>8

\* They stay when the AST stays.
LEMMA UnderOn == ASSUME idl' = idl PROVE Under(Root)' = Under(Root)
BY DEF Under

\* Without marks there is nothing to justify.
LEMMA BeginJ == IInv /\ MaxTrims = 1 /\ Begin => JInv'
<1> SUFFICES ASSUME IInv, MaxTrims = 1, Begin PROVE JInv'  OBVIOUS
<1>1. /\ trims < 1 /\ phase = "idle"
      /\ idl' = idl /\ opts' = opts /\ kept' = kept /\ trims' = trims /\ phase' = "kept parts"
      /\ marks' = {} /\ todo' = <<Root>>
  BY DEF Begin
<1>2. trims' # 1 /\ IsAST(idl) /\ DOMAIN kept = {}
  <2>1. trims # 1
    <3>1. ~ (1 < 1)  OBVIOUS
    <3>2. trims < 1  BY <1>1
    <3> QED  BY ONLY <3>1, <3>2, Zenon
  <2>2. Once /\ (phase = "idle" /\ trims = 0 => DOMAIN kept = {})  BY DEF IInv
  <2> QED  BY <1>1, <2>1, <2>2 DEF Once
<1>3. Justified(marks, KeepsSome, {})'  BY <1>1 DEF Justified
<1>4. DOMAIN kept' \union ToSet(todo)' \subseteq Under(Root)'
  <2>1. Root \in DOMAIN idl  BY <1>2, ASTIs
  <2>2. Root \in Under(Root)  BY <1>2, <2>1, UnderIs
  <2>3. ToSet(todo)' = {Root}  BY <1>1, OneIn
  <2> QED  BY <1>1, <1>2, <2>2, <2>3, UnderOn
<1> QED  BY <1>1, <1>2, <1>3, <1>4 DEF JInv

\* What the kept part of an IDL marks is justified by what it keeps.
LEMMA PreProcessJ == IInv /\ JInv /\ PreProcess => JInv'
<1> SUFFICES ASSUME IInv, JInv, PreProcess PROVE JInv'  OBVIOUS
<1>1. /\ phase = "kept parts" /\ phase' = "kept parts" /\ todo # <<>> /\ trims' = trims
      /\ idl' = idl /\ opts' = opts
      /\ todo' = idl[Head(todo)].includes \o Tail(todo)
  BY DEF PreProcess
<1>2. trims = 0 /\ IsAST(idl) /\ WhileKeeping  BY <1>1, WhileMarking DEF IInv
<1>3. Justified(marks, KeepsSome, {}) /\ DOMAIN kept \union ToSet(todo) \subseteq Under(Root)  BY <1>1 DEF JInv
<1>4. PICK d : d = Head(todo)  OBVIOUS
<1>5. PICK m, n, P, Q, U, t : /\ m = marks /\ n = marks' /\ P = KeepsSome /\ Q = KeepsSome' /\ U = Under(Root)
                              /\ t = todo'  OBVIOUS
<1>6. d \in DOMAIN idl /\ d \in U /\ Tail(todo) \in Seq(DOMAIN idl) /\ ToSet(Tail(todo)) \subseteq U
  <2>1. todo \in Seq(DOMAIN idl)  BY <1>2 DEF WhileKeeping
  <2> QED  BY <1>1, <1>3, <1>4, <1>5, <2>1, HeadAndTail
<1>7. ToSet(t) = ToSet(idl[d].includes) \union ToSet(Tail(todo))
  <2>1. idl[d].includes \in Seq(DOMAIN idl)  BY <1>2, <1>6, ASTIs
  <2>2. PICK a, b, E : a = idl[d].includes /\ b = Tail(todo) /\ E = DOMAIN idl  OBVIOUS
  <2>3. t = a \o b /\ a \in Seq(E) /\ b \in Seq(E)  BY <1>1, <1>4, <1>5, <1>6, <2>1, <2>2
  <2>4. ToSet(t) = ToSet(a) \union ToSet(b)  BY ONLY <2>3, Joined
  <2> QED  BY <2>2, <2>4
<1>8. ToSet(t) \subseteq U
  <2>1. Root \in DOMAIN idl  BY <1>2, ASTIs
  <2>2. ToSet(idl[d].includes) \subseteq U  BY <1>2, <1>5, <1>6, <2>1, UnderIs
  <2> QED  BY <1>6, <1>7, <2>2
<1>9. DOMAIN kept' \subseteq DOMAIN kept \union {d}  BY <1>4 DEF PreProcess, KeptPart
<1>10. Justified(n, Q, {})
  <2>1. Justified(m, P, {})  BY <1>3, <1>5
  <2>2. CASE d \in DOMAIN kept
    <3>1. n = m /\ Q = P  BY <1>4, <1>5, <2>2 DEF PreProcess, KeepsSome
    <3> QED  BY <2>1, <3>1
  <2>3. CASE d \notin DOMAIN kept
    <3>1. KeptPart(d)  BY <1>4, <2>3 DEF PreProcess
    <3>2. PICK a : a = Mark(m, FixedPart(d))  OBVIOUS
    <3>3. PICK new : new = {Struct(d, s) : s \in Fresh(d, a)}  OBVIOUS
    <3>4. n = Mark(a, new)  BY <1>5, <3>1, <3>2, <3>3, Zenon DEF KeptPart
    <3>5. PICK some : some = (idl[d].consts # <<>> \/ DOMAIN idl[d].typedefs # {} \/ Fresh(d, a) # {})  OBVIOUS
    <3>6. kept' = [e \in DOMAIN kept \union {d} |-> IF e = d THEN some ELSE kept[e]]
      BY <1>5, <3>1, <3>2, <3>5, Zenon DEF KeptPart
    <3>7. P \subseteq Q /\ (some => d \in Q)  BY <1>5, <2>3, <3>6 DEF KeepsSome
    <3>8. m \union FixedPart(d) \subseteq a /\ a \union new \subseteq n  BY <1>2, <3>2, <3>4, MarkIs
    <3> SUFFICES ASSUME NEW D, NEW C, Holds(D, C, n, Q) PROVE \A x \in n : Inside(D, C, x)
      BY DEF Justified
    <3>9. P \subseteq D /\ (some => d \in D)  BY <3>7 DEF Holds
    <3>10. \A x \in m : Inside(D, C, x)
      <4>1. Holds(D, C, m, P)  BY <3>8, <3>9, HoldsForFewer
      <4> QED  BY <2>1, <4>1 DEF Justified
    <3>11. \A x \in FixedPart(d) : Inside(D, C, x)
      <4>1. PICK ts : ts = FixedTypes(idl[d])  OBVIOUS
      <4>2. FixedPart(d) = UsedBy(d, ts)  BY <4>1 DEF FixedPart
      <4>3. CASE ts = {}  BY <4>2, <4>3 DEF UsedBy
      <4>4. CASE ts # {}
        <5>1. idl[d].consts # <<>> \/ DOMAIN idl[d].typedefs # {}  BY <4>1, <4>4, NothingIn DEF FixedTypes
        <5>2. d \in D  BY <3>5, <3>9, <5>1
        <5>3. ts \subseteq Types(idl[d]) /\ StructsAt(d, ts) \subseteq C  BY <4>1, <5>2 DEF Types, Holds
        <5>4. UsedBy(d, ts) \subseteq n  BY <3>8, <4>2
        <5> QED  BY <1>2, <4>2, <5>2, <5>3, <5>4, UsedInside
      <4> QED  BY <4>3, <4>4
    <3>12. \A x \in a : Inside(D, C, x)  BY <1>2, <3>2, <3>8, <3>10, <3>11, MarkInside
    <3>13. ASSUME NEW x \in new PROVE Inside(D, C, x)
      <4>1. PICK s \in Fresh(d, a) : x = Struct(d, s)  BY <3>3
      <4>2. d \in D  BY <3>5, <3>9, <4>1
      <4>3. <<d, s>> \in C  BY <4>1, <4>2 DEF Fresh, Holds
      <4> QED  BY <4>1, <4>2, <4>3, NodesInside
    <3> QED  BY <1>2, <3>4, <3>12, <3>13, MarkInside
  <2> QED  BY <2>2, <2>3
<1>11. Justified(marks, KeepsSome, {})'  BY <1>1, <1>5, <1>10, JustifiedOn
<1>12. (DOMAIN kept \union ToSet(todo) \subseteq Under(Root))'
  BY <1>1, <1>3, <1>5, <1>6, <1>8, <1>9, UnderOn
<1>13. trims' # 1
  <2>1. 0 # 1  OBVIOUS
  <2> QED  BY <1>1, <1>2, <2>1, Zenon
<1> QED  BY <1>1, <1>11, <1>12, <1>13 DEF JInv

\* All that keeps something is reached through includes that are marked.
LEMMA PreProcessedJ == IInv /\ JInv /\ PreProcessed => JInv'
<1> SUFFICES ASSUME IInv, JInv, PreProcessed PROVE JInv'  OBVIOUS
<1>1. /\ phase = "kept parts" /\ phase' = "services" /\ todo = <<>> /\ trims' = trims
      /\ idl' = idl /\ opts' = opts
      /\ marks' = marks \union KeptIncludes
      /\ todo' = [n \in DOMAIN idl[Root].order |-> <<Root, idl[Root].order[n]>>]
  BY DEF PreProcessed
<1>2. trims = 0 /\ IsAST(idl)  BY <1>1, WhileMarking
<1>3. PICK m, n, P, S, U : m = marks /\ n = marks' /\ P = KeepsSome /\ S = ToSet(todo)' /\ U = Under(Root)
  OBVIOUS
<1>4. Justified(m, P, {}) /\ DOMAIN kept \subseteq U  BY <1>1, <1>3 DEF JInv
<1>5. Root \in DOMAIN idl  BY <1>2, ASTIs
<1>6. /\ U \subseteq DOMAIN idl /\ Root \in U /\ \A e \in U : ToSet(idl[e].includes) \subseteq U
      /\ \A E : Root \in E /\ (\A e \in E \intersect DOMAIN idl : ToSet(idl[e].includes) \subseteq E) => U \subseteq E
  BY <1>2, <1>3, <1>5, UnderIs
<1>7. ASSUME NEW d \in U, NEW e \in ToSet(idl[d].includes), Keeps(e) PROVE Keeps(d)
  <2>1. d \in DOMAIN idl /\ e \in DOMAIN idl  BY <1>6
  <2>2. e \in Under(d) /\ \A c \in Under(d) : ToSet(idl[c].includes) \subseteq Under(d)  BY <1>2, <2>1, UnderIs
  <2>3. PICK E : E = Under(d)  OBVIOUS
  <2>4. Under(e) \subseteq E  BY <1>2, <2>1, <2>2, <2>3, UnderIs
  <2> QED  BY <1>7, <2>3, <2>4 DEF Keeps
<1>8. n = m \union KeptIncludes  BY <1>1, <1>3
<1>9. ASSUME NEW D, NEW C, Holds(D, C, n, {}) PROVE (\A x \in n : Inside(D, C, x)) /\ \A y \in S : y[1] \in D
  <2>1. PICK E : E = {e \in U : Keeps(e) => e \in D}  OBVIOUS
  <2>2. Root \in E  BY <1>6, <1>9, <2>1 DEF Holds
  <2>3. ASSUME NEW d \in E, NEW e \in ToSet(idl[d].includes) PROVE e \in E
    <3> SUFFICES ASSUME Keeps(e) PROVE e \in D  BY <1>6, <2>1
    <3>1. d \in D  BY <1>7, <2>1
    <3>2. Inc(d, e) \in KeptIncludes  BY <1>3, <2>1 DEF KeptIncludes
    <3> QED  BY <1>8, <1>9, <3>1, <3>2 DEF Holds
  <2>4. U \subseteq E  BY <1>6, <2>2, <2>3
  <2>5. P \subseteq D
    <3> SUFFICES ASSUME NEW d \in P PROVE d \in D  OBVIOUS
    <3>1. d \in U /\ kept[d]  BY <1>3, <1>4 DEF KeepsSome
    <3>2. d \in Under(d)  BY <1>2, <1>6, <3>1, UnderIs
    <3>3. Keeps(d)  BY <3>1, <3>2 DEF Keeps
    <3> QED  BY <2>1, <2>4, <3>1, <3>3
  <2>6. \A x \in m : Inside(D, C, x)
    <3>1. Holds(D, C, m, P)  BY <1>8, <1>9, <2>5, HoldsForFewer
    <3> QED  BY <1>4, <3>1 DEF Justified
  <2>7. ASSUME NEW x \in KeptIncludes PROVE Inside(D, C, x)
    <3>1. PICK d, e : d \in U /\ e \in ToSet(idl[d].includes) /\ Keeps(e) /\ x = Inc(d, e)
      BY <1>3 DEF KeptIncludes
    <3>2. d \in D  BY <1>7, <2>1, <2>4, <3>1
    <3> QED  BY <3>1, <3>2, NodesInside
  <2>8. ASSUME NEW y \in S PROVE y[1] \in D
    <3>1. PICK o, t : o = idl[Root].order /\ t = todo'  OBVIOUS
    <3>2. t = [k \in DOMAIN o |-> <<Root, o[k]>>] /\ S = ToSet(t)  BY <1>1, <1>3, <3>1
    <3>3. PICK i \in DOMAIN t : y = t[i]  BY <3>2 DEF ToSet
    <3>4. y[1] = Root  BY <3>2, <3>3
    <3> QED  BY <1>9, <3>4 DEF Holds
  <2> QED  BY <1>8, <2>6, <2>7, <2>8
<1>10. Justified(n, {}, S)  BY <1>9 DEF Justified
<1>11. Justified(marks, {}, ToSet(todo))'  BY <1>1, <1>3, <1>10, JustifiedOn
<1>12. trims' # 1
  <2>1. 0 # 1  OBVIOUS
  <2> QED  BY <1>1, <1>2, <2>1, Zenon
<1> QED  BY <1>1, <1>11, <1>12 DEF JInv

\* A service that is skipped marks nothing.
LEMMA SkipServiceJ == IInv /\ JInv /\ SkipService => JInv'
<1> SUFFICES ASSUME IInv, JInv, SkipService PROVE JInv'  OBVIOUS
<1>1. /\ phase = "services" /\ phase' = "services" /\ todo # <<>> /\ trims' = trims
      /\ idl' = idl /\ opts' = opts /\ marks' = marks /\ todo' = Tail(todo)
  BY DEF SkipService
<1>2. trims = 0 /\ WhileServing  BY <1>1, WhileMarking DEF IInv
<1>3. PICK m, S : m = marks' /\ S = ToSet(todo)'  BY <1>1
<1>4. S \subseteq ToSet(todo)  BY <1>1, <1>2, <1>3, HeadAndTail DEF WhileServing
<1>5. Justified(m, {}, S)  BY <1>1, <1>3, <1>4 DEF JInv, Justified
<1>6. Justified(marks, {}, ToSet(todo))'  BY <1>1, <1>3, <1>5, JustifiedOn
<1> QED  BY <1>1, <1>2, <1>6 DEF JInv

\* What a service marks is justified by functions that stay, in IDLs that are reached.
LEMMA MarkServiceJ == IInv /\ JInv /\ MarkService => JInv'
<1> SUFFICES ASSUME IInv, JInv, MarkService PROVE JInv'  OBVIOUS
<1>1. PICK x : x = Head(todo)  OBVIOUS
<1>2. /\ phase = "services" /\ phase' = "services" /\ todo # <<>> /\ trims' = trims
      /\ idl' = idl /\ opts' = opts /\ marks' = MarkedBy(x)
      /\ todo' = IF Base(x).idl # "" /\ Svc(x) \in marks' THEN <<BaseOf(x)>> \o Tail(todo) ELSE Tail(todo)
  BY <1>1 DEF MarkService
<1>3. trims = 0 /\ IsAST(idl) /\ WhileServing  BY <1>2, WhileMarking DEF IInv
<1>4. PICK m, n, S, r, t : m = marks /\ n = marks' /\ S = ToSet(todo)' /\ r = Tail(todo) /\ t = todo'  OBVIOUS
<1>5. x \in Services /\ r \in Seq(Services) /\ ToSet(todo) = {x} \union ToSet(r)
  BY <1>1, <1>2, <1>3, <1>4, HeadAndTail DEF WhileServing
<1>6. PICK new : new = Own(x) \union IF Traces(x) THEN Traced(x) ELSE {}  OBVIOUS
<1>7. PICK a : a = Mark(m, new)  OBVIOUS
<1>8. n = IF Svc(x) \in a THEN a \union Via(x[1], Base(x)) ELSE a
  BY <1>2, <1>4, <1>6, <1>7, Zenon DEF MarkedBy
<1>9. m \union new \subseteq a /\ a \subseteq n  BY <1>3, <1>7, <1>8, MarkIs
<1>10. Svc(x) \in n => Via(x[1], Base(x)) \subseteq n
  <2>1. Svc(x) \notin Via(x[1], Base(x))  BY ViaIs, DefinitionIs
  <2> QED  BY <1>8, <2>1
<1>11. \A y \in S : y \in ToSet(r) \/ (Svc(x) \in n /\ Base(x) # NoBase /\ y = BaseOf(x))
  <2>1. CASE Base(x).idl # "" /\ Svc(x) \in n
    <3>1. Base(x) # NoBase
      <4>1. NoBase.idl = ""  BY DEF NoBase
      <4> QED  BY <2>1, <4>1, Zenon
    <3>2. PICK b, h : b = BaseOf(x) /\ h = <<b>>  OBVIOUS
    <3>3. h \in Seq(Services) /\ ToSet(h) = {b}  BY <1>3, <1>5, <3>1, <3>2, BaseIs, OneIn
    <3>4. t = h \o r  BY <1>2, <1>4, <2>1, <3>2
    <3>5. ToSet(t) = ToSet(h) \union ToSet(r)  BY ONLY <1>5, <3>3, <3>4, Joined
    <3> QED  BY <1>4, <2>1, <3>1, <3>2, <3>3, <3>5
  <2>2. CASE ~ (Base(x).idl # "" /\ Svc(x) \in n)
    <3>1. t = r  BY <1>2, <1>4, <2>2
    <3> QED  BY <1>4, <3>1
  <2> QED  BY <2>1, <2>2
<1>12. ASSUME NEW D, NEW C, Holds(D, C, n, {}) PROVE (\A y \in n : Inside(D, C, y)) /\ \A y \in S : y[1] \in D
  <2>1. (\A y \in m : Inside(D, C, y)) /\ (\A y \in ToSet(todo) : y[1] \in D)
    <3>1. Holds(D, C, m, {})  BY <1>9, <1>12, HoldsForFewer
    <3> QED  BY <1>2, <1>4, <3>1 DEF JInv, Justified
  <2>2. x[1] \in D  BY <1>5, <2>1
  <2>3. ASSUME NEW y \in Services, NEW fs, y[1] \in D, fs \subseteq Fns(y), OfService(y, fs) \subseteq n
        PROVE  \A z \in OfService(y, fs) : Inside(D, C, z)
    <3>0. \A z \in OfService(y, fs) :
            z = Svc(y) \/ \E f \in fs : z = Fn(y, f) \/ z \in UsedBy(y[1], ToSet(Service(y).fns[f]))
      BY DEF OfService, OfFunction
    <3>1. ASSUME NEW f \in fs PROVE \A z \in UsedBy(y[1], ToSet(Service(y).fns[f])) : Inside(D, C, z)
      <4>1. PICK ts : ts = ToSet(Service(y).fns[f])  OBVIOUS
      <4>2. f \in Fns(y)  BY <2>3
      <4>3. Svc(y) \in n /\ Fn(y, f) \in n /\ UsedBy(y[1], ts) \subseteq n
        BY <2>3, <4>1 DEF OfService, OfFunction
      <4>4. StructsAt(y[1], ts) \subseteq C  BY <1>12, <2>3, <4>1, <4>2, <4>3 DEF Holds
      <4>5. y[1] \in DOMAIN idl /\ y[2] \in DOMAIN idl[y[1]].services  BY DefinitionIs
      <4>6. ts \subseteq Types(idl[y[1]])  BY <4>1, <4>2, <4>5, FnTypesAre DEF Types, Fns, Service
      <4> QED  BY <1>3, <1>12, <2>3, <4>1, <4>3, <4>4, <4>6, UsedInside
    <3>2. Inside(D, C, Svc(y)) /\ \A f : Inside(D, C, Fn(y, f))  BY <2>3, NodesInside
    <3> QED  BY <3>0, <3>1, <3>2
  <2>4. \A z \in Own(x) : Inside(D, C, z)
    <3>1. \E fs : fs \subseteq Fns(x) /\ (Own(x) = OfService(x, fs) \/ Own(x) = {})
      <4>1. PICK gs : gs = {f \in Fns(x) : \E p \in opts.methods : Chosen(p, x[2], NameOf(f))}  OBVIOUS
      <4>2. Own(x) = OfService(x, Fns(x)) \/ Own(x) = OfService(x, gs) \/ Own(x) = {}  BY <4>1, Zenon DEF Own
      <4>3. gs \subseteq Fns(x)  BY <4>1
      <4> QED  BY <4>2, <4>3
    <3>2. Own(x) \subseteq n  BY <1>6, <1>9
    <3> QED  BY <1>5, <2>2, <2>3, <3>1, <3>2
  <2>5. ASSUME Traces(x) PROVE \A z \in Traced(x) : Inside(D, C, z)
    <3>1. Traced(x) \subseteq n  BY <1>6, <1>9, <2>5
    <3>2. PICK E : E = {y \in Bases(x) : Found(x, y) => y[1] \in D}  OBVIOUS
    <3>3. /\ Bases(x) \subseteq Services /\ x \in Bases(x)
          /\ \A y \in Bases(x) : Base(y) # NoBase => BaseOf(y) \in Bases(x)
          /\ \A B : x \in B /\ (\A y \in B \intersect Services : Base(y) # NoBase => BaseOf(y) \in B)
                      => Bases(x) \subseteq B
      BY <1>3, <1>5, BasesAre
    <3>4. ASSUME NEW y \in E, Base(y) # NoBase PROVE BaseOf(y) \in E
      <4> SUFFICES ASSUME Found(x, BaseOf(y)) PROVE BaseOf(y)[1] \in D  BY <3>2, <3>3, <3>4
      <4>1. y \in Services /\ y \in Bases(x)  BY <3>2, <3>3
      <4>2. Found(x, y)  BY <1>3, <1>5, <3>4, <4>1, FoundBelow
      <4>3. y[1] \in D /\ Via(y[1], Base(y)) \subseteq n  BY <1>3, <1>5, <3>1, <3>2, <4>1, <4>2, TracedIs
      <4>4. Seen(idl, y[1], Base(y))  BY <1>3, <3>4, <4>1, BaseIs
      <4>5. At(y[1], Base(y)) \in D  BY <1>12, <4>3, <4>4, SeenInside
      <4> QED  BY <4>5 DEF BaseOf
    <3>5. Bases(x) \subseteq E  BY <2>2, <3>2, <3>3, <3>4
    <3> SUFFICES ASSUME NEW y \in Bases(x), Found(x, y)
                 PROVE  \A z \in OfService(y, Hits(x, y)) \union Via(y[1], Base(y)) : Inside(D, C, z)
      BY DEF Traced
    <3>6. y \in Services /\ y[1] \in D  BY <3>2, <3>3, <3>5
    <3>7. OfService(y, Hits(x, y)) \subseteq n  BY <3>1 DEF Traced
    <3>8. Hits(x, y) \subseteq Fns(y)  BY DEF Hits
    <3>9. \A z \in OfService(y, Hits(x, y)) : Inside(D, C, z)  BY <2>3, <3>6, <3>7, <3>8
    <3>10. \A z \in Via(y[1], Base(y)) : Inside(D, C, z)
      <4>1. \A z \in Via(y[1], Base(y)) : z = Inc(y[1], Base(y).idl)  BY ViaIs
      <4> QED  BY <3>6, <4>1, NodesInside
    <3> QED  BY <3>9, <3>10
  <2>6. \A z \in a : Inside(D, C, z)  BY <1>3, <1>6, <1>7, <1>9, <1>12, <2>1, <2>4, <2>5, MarkInside
  <2>7. \A z \in Via(x[1], Base(x)) : Inside(D, C, z)
    <3>1. \A z \in Via(x[1], Base(x)) : z = Inc(x[1], Base(x).idl)  BY ViaIs
    <3> QED  BY <2>2, <3>1, NodesInside
  <2>8. ASSUME NEW y \in S PROVE y[1] \in D
    <3>1. CASE y \in ToSet(r)  BY <1>5, <2>1, <3>1
    <3>2. CASE Svc(x) \in n /\ Base(x) # NoBase /\ y = BaseOf(x)
      <4>1. Seen(idl, x[1], Base(x))  BY <1>3, <1>5, <3>2, BaseIs
      <4>2. At(x[1], Base(x)) \in D  BY <1>10, <1>12, <2>2, <3>2, <4>1, SeenInside
      <4> QED  BY <3>2, <4>2 DEF BaseOf
    <3> QED  BY <1>11, <3>1, <3>2
  <2> QED  BY <1>8, <2>6, <2>7, <2>8
<1>13. Justified(n, {}, S)  BY <1>12 DEF Justified
<1>14. Justified(marks, {}, ToSet(todo))'  BY <1>2, <1>4, <1>13, JustifiedOn
<1>15. trims' # 1
  <2>1. 0 # 1  OBVIOUS
  <2> QED  BY <1>2, <1>3, <2>1, Zenon
<1> QED  BY <1>2, <1>14, <1>15 DEF JInv

\* Bases justify nothing.
LEMMA CleanServiceExtendsJ == IInv /\ JInv /\ CleanServiceExtends => JInv'
<1> SUFFICES ASSUME IInv, JInv, CleanServiceExtends PROVE JInv'  OBVIOUS
<1>1. /\ phase = "services" /\ phase' = "marked" /\ todo = <<>> /\ trims' = trims
      /\ opts' = opts /\ marks' = marks /\ idl' = Cut(idl, ext)
  BY DEF CleanServiceExtends, Cut
<1>2. trims = 0 /\ IsAST(idl)  BY <1>1, WhileMarking
<1>3. PICK j, e, m : j = idl' /\ e = ext /\ m = marks  OBVIOUS
<1>4. IsCut(j, e)  BY <1>1, <1>2, <1>3, CutIs
<1>5. /\ Services' = Services /\ DOMAIN j = DOMAIN idl
      /\ \A x \in Services : Fns(x)' = Fns(x)
      /\ \A d \in DOMAIN idl : Preserved(d)' = Preserved(d) /\ FixedTypes(j[d]) = FixedTypes(idl[d])
                               /\ j[d].includes = idl[d].includes /\ j[d].structs = idl[d].structs
  <2>1. /\ Services' = Services /\ \A x \in Services : Fns(x)' = Fns(x)
        /\ \A d \in DOMAIN idl : Preserved(d)' = Preserved(d)
    BY <1>1, <1>2, <1>3, <1>4, CutKeepsNodes
  <2>2. \A d \in DOMAIN idl : FixedTypes(j[d]) = FixedTypes(idl[d])  BY <1>2, <1>4, CutKeepsTypes
  <2>3. /\ DOMAIN j = DOMAIN idl
        /\ \A d \in DOMAIN idl : j[d].includes = idl[d].includes /\ j[d].structs = idl[d].structs
    BY <1>4 DEF IsCut
  <2> QED  BY <2>1, <2>2, <2>3
<1>6. ASSUME NEW x \in Services PROVE j[x[1]].services[x[2]].fns = idl[x[1]].services[x[2]].fns
  <2>1. x[1] \in DOMAIN idl /\ x[2] \in DOMAIN idl[x[1]].services  BY DefinitionIs
  <2> QED  BY <1>4, <2>1 DEF IsCut
<1>7. ASSUME NEW D, NEW C, Holds(D, C, m, {})' PROVE Holds(D, C, m, {})
  <2>1. D \subseteq DOMAIN idl /\ Root \in D  BY <1>3, <1>5, <1>7 DEF Holds
  <2>2. ASSUME NEW d \in D
        PROVE  /\ \A c \in ToSet(idl[d].includes) : Inc(d, c) \in m => c \in D
               /\ StructsAt(d, FixedTypes(idl[d])) \subseteq C
               /\ \A n \in Preserved(d) : <<d, n>> \in C
               /\ \A n \in DOMAIN idl[d].structs :
                    Struct(d, n) \in m /\ <<d, n>> \in C => StructsAt(d, ToSet(idl[d].structs[n])) \subseteq C
    <3>1. d \in DOMAIN idl  BY <2>1
    <3>2. /\ \A c \in ToSet(j[d].includes) : Inc(d, c) \in m => c \in D
          /\ StructsAt(d, FixedTypes(j[d])) \subseteq C
          /\ \A n \in Preserved(d)' : <<d, n>> \in C
          /\ \A n \in DOMAIN j[d].structs :
               Struct(d, n) \in m /\ <<d, n>> \in C => StructsAt(d, ToSet(j[d].structs[n])) \subseteq C
      BY <1>3, <1>7 DEF Holds, Inc, Struct
    <3> QED  BY <1>5, <3>1, <3>2
  <2>3. \A x \in Services : \A f \in Fns(x) :
          x[1] \in D /\ Svc(x) \in m /\ Fn(x, f) \in m => StructsAt(x[1], ToSet(Service(x).fns[f])) \subseteq C
    <3>1. \A x \in Services' : \A f \in Fns(x)' :
            x[1] \in D /\ Svc(x) \in m /\ Fn(x, f) \in m
              => StructsAt(x[1], ToSet(j[x[1]].services[x[2]].fns[f])) \subseteq C
      BY <1>3, <1>7 DEF Holds, Svc, Fn, Service
    <3> QED  BY <1>5, <1>6, <3>1 DEF Service
  <2> QED  BY <2>1, <2>2, <2>3 DEF Holds
<1>8. Justified(marks, {}, {})'
  <2>1. Justified(m, {}, {})  BY <1>1, <1>3, NothingIn DEF JInv
  <2> QED  BY <1>1, <1>3, <1>7, <2>1 DEF Justified, Inside
<1>9. trims' # 1
  <2>1. 0 # 1  OBVIOUS
  <2> QED  BY <1>1, <1>2, <2>1, Zenon
<1> QED  BY <1>1, <1>8, <1>9 DEF JInv

\* The IDLs and structs that are left and needed hold all that is marked, so all that is left.
LEMMA SweepJ == IInv /\ JInv /\ Sweep => JInv'
<1> SUFFICES ASSUME IInv, JInv, Sweep PROVE JInv'  OBVIOUS
<1>1. phase = "marked" /\ phase' = "swept" /\ opts' = opts  BY DEF Sweep
<1>2. IsAST(idl) /\ MarkedSoFar(marks, DOMAIN kept) /\ Covered(DOMAIN kept, {})
  BY <1>1, WhileMarking DEF IInv
<1>3. PICK j, m, V : j = idl' /\ m = marks /\ V = Visited  OBVIOUS
<1>4. Justified(m, {}, {})  BY <1>1, <1>3 DEF JInv
<1>5. DOMAIN j = DOMAIN idl /\ Left' = V /\ \A d \in V : IsSwept(j, d) /\ d \in DOMAIN idl  BY <1>3, SweepLeaves
<1>6. Root \in V /\ \A d \in V : IncludesLeft(d) \subseteq V
  <2>1. PICK K : K = DOMAIN kept  OBVIOUS
  <2>2. K \subseteq DOMAIN idl /\ Covered(K, {})  BY <1>2, <2>1 DEF MarkedSoFar, KeptDone
  <2> QED  BY <1>2, <1>3, <2>2, VisitedIs
<1>7. \A d \in V : Preserved(d)' = Preserved(d)  BY <1>1, <1>3, <1>5 DEF Preserved, IsSwept
<1>8. PICK A, G : A = AllStructs' /\ G = Given'  OBVIOUS
<1>9. A = UNION {{<<d, n>> : n \in DOMAIN j[d].structs} : d \in V}  BY <1>3, <1>5, <1>8 DEF AllStructs
<1>10. \A d \in V : /\ StructsAt(d, FixedTypes(j[d]) \union FnTypes(j[d])) \subseteq G
                    /\ \A n \in Preserved(d) : <<d, n>> \in G
  <2>1. G = UNION {StructsAt(d, FixedTypes(j[d]) \union FnTypes(j[d]))
                     \union {<<d, n>> : n \in Preserved(d)'} : d \in V}
    BY <1>3, <1>5, <1>8 DEF Given
  <2>2. \A d \in V : StructsAt(d, FixedTypes(j[d]) \union FnTypes(j[d])) \union {<<d, n>> : n \in Preserved(d)'} \subseteq G
    BY <2>1
  <2>3. \A d \in V : \A n \in Preserved(d)' : <<d, n>> \in G  BY <2>2
  <2> QED  BY <1>7, <2>2, <2>3
<1>11. PICK next : next = [x \in A |-> StructsAt(x[1], ToSet(j[x[1]].structs[x[2]]))]  OBVIOUS
<1>12. PICK R : R = Reach(G, next)  OBVIOUS
<1>13. IsFiniteSet(A)
  <2>1. PICK f : f = [d \in V |-> {<<d, n>> : n \in DOMAIN j[d].structs}]  OBVIOUS
  <2>2. A = UNION {f[d] : d \in V}  BY <1>9, <2>1
  <2>3. \A d \in DOMAIN f : IsFiniteSet(f[d])
    <3> SUFFICES ASSUME NEW d \in V PROVE IsFiniteSet(f[d])  BY <2>1
    <3>1. PICK s : s = DOMAIN j[d].structs  OBVIOUS
    <3>2. s \subseteq DOMAIN idl[d].structs  BY <1>5, <3>1 DEF IsSwept, StructsLeft
    <3>3. IsFiniteSet(DOMAIN idl[d].structs)  BY <1>2, <1>5, ASTIs
    <3>4. IsFiniteSet(s)  BY <3>2, <3>3, FS_Subset
    <3>5. f[d] = {<<d, n>> : n \in s}  BY <2>1, <3>1
    <3>6. IsFiniteSet({<<d, n>> : n \in s})  BY <3>4, NodesAreFinite
    <3> QED  BY <3>5, <3>6, Zenon
  <2>4. V \subseteq DOMAIN idl /\ IsFiniteSet(V) /\ DOMAIN f = V
    <3>1. V \subseteq DOMAIN idl /\ IsFiniteSet(DOMAIN idl)  BY <1>2, <1>5, ASTIs
    <3> QED  BY <2>1, <3>1, FS_Subset
  <2> QED  BY <2>2, <2>3, <2>4, UnionIsFinite
<1>14. G \subseteq R /\ \A x \in R \intersect A : StructsAt(x[1], ToSet(j[x[1]].structs[x[2]])) \subseteq R
  <2>1. DOMAIN next = A /\ \A x \in A : next[x] = StructsAt(x[1], ToSet(j[x[1]].structs[x[2]]))  BY <1>11
  <2> QED  BY <1>12, <1>13, <2>1, ReachIs
<1>15. Holds(V, R, m, {})
  <2>1. V \subseteq DOMAIN idl /\ Root \in V  BY <1>5, <1>6
  <2>2. ASSUME NEW d \in V
        PROVE  /\ \A e \in ToSet(idl[d].includes) : Inc(d, e) \in m => e \in V
               /\ StructsAt(d, FixedTypes(idl[d])) \subseteq R
               /\ \A n \in Preserved(d) : <<d, n>> \in R
    <3>1. \A e \in ToSet(idl[d].includes) : Inc(d, e) \in m => e \in IncludesLeft(d)
      BY <1>3 DEF IncludesLeft
    <3>2. FixedTypes(j[d]) = FixedTypes(idl[d])  BY <1>5 DEF IsSwept, FixedTypes
    <3>3. StructsAt(d, FixedTypes(idl[d])) \subseteq G  BY <1>10, <3>2 DEF StructsAt
    <3> QED  BY <1>6, <1>10, <1>14, <3>1, <3>3
  <2>3. ASSUME NEW d \in V, NEW n \in DOMAIN idl[d].structs, Struct(d, n) \in m, <<d, n>> \in R
        PROVE  StructsAt(d, ToSet(idl[d].structs[n])) \subseteq R
    <3>1. PICK x : x = <<d, n>>  OBVIOUS
    <3>2. n \in StructsLeft(d)  BY <1>3, <2>3 DEF StructsLeft
    <3>3. n \in DOMAIN j[d].structs /\ j[d].structs[n] = idl[d].structs[n]  BY <1>5, <3>2 DEF IsSwept
    <3>4. x \in A /\ x \in R /\ x[1] = d /\ x[2] = n  BY <1>9, <2>3, <3>1, <3>3
    <3> QED  BY <1>14, <3>3, <3>4
  <2>4. ASSUME NEW x \in Services, NEW f \in Fns(x), x[1] \in V, Svc(x) \in m, Fn(x, f) \in m
        PROVE  StructsAt(x[1], ToSet(Service(x).fns[f])) \subseteq R
    <3>1. PICK d, s : d = x[1] /\ s = x[2]  OBVIOUS
    <3>2. x = <<d, s>> /\ s \in DOMAIN idl[d].services  BY <3>1, DefinitionIs
    <3>3. s \in ServicesLeft(d) /\ f \in FnsLeft(x)  BY <1>3, <2>4, <3>2 DEF ServicesLeft, FnsLeft
    <3>4. /\ s \in DOMAIN j[d].services /\ f \in DOMAIN j[d].services[s].fns
          /\ j[d].services[s].fns[f] = idl[d].services[s].fns[f]
      BY <1>5, <2>4, <3>1, <3>2, <3>3 DEF IsSwept
    <3>5. ToSet(Service(x).fns[f]) \subseteq FnTypes(j[d])  BY <3>1, <3>4, FnTypesAre DEF Service
    <3>6. StructsAt(d, ToSet(Service(x).fns[f])) \subseteq G  BY <1>10, <2>4, <3>1, <3>5 DEF StructsAt
    <3> QED  BY <1>14, <3>1, <3>6
  <2> QED  BY <2>1, <2>2, <2>3, <2>4 DEF Holds
<1>16. ASSUME NEW x \in A PROVE x \in R
  <2>1. PICK d, n : d \in V /\ n \in DOMAIN j[d].structs /\ x = <<d, n>>  BY <1>9
  <2>2. n \in StructsLeft(d)  BY <1>5, <2>1 DEF IsSwept
  <2>3. CASE Struct(d, n) \in m
    <3>1. Inside(V, R, Struct(d, n))  BY <1>4, <1>15, <2>3 DEF Justified
    <3> QED  BY <2>1, <3>1 DEF Inside, Struct
  <2>4. CASE n \in Preserved(d)  BY <1>10, <1>14, <2>1, <2>4
  <2> QED  BY <1>3, <2>2, <2>3, <2>4 DEF StructsLeft
<1>17. Needed'
  <2>1. Needed' <=> A \subseteq Reach(G, [x \in A |-> StructsAt(x[1], ToSet(j[x[1]].structs[x[2]]))])
    BY <1>3, <1>8, Zenon DEF Needed, StructsAt, At
  <2> QED  BY <1>11, <1>12, <1>16, <2>1
<1> QED  BY <1>1, <1>17 DEF JInv

\* Needed stays true when the AST stays.
LEMMA NeededOn == ASSUME idl' = idl, opts' = opts, Needed PROVE Needed'
<1>1. Left' = Left  BY DEF Left, Under
<1>2. AllStructs' = AllStructs  BY <1>1 DEF AllStructs
<1>3. \A d : Preserved(d)' = Preserved(d)  BY DEF Preserved
<1>4. Given' = Given
  <2>1. PICK g : g = [d \in Left |-> StructsAt(d, FixedTypes(idl[d]) \union FnTypes(idl[d]))
                                     \union {<<d, n>> : n \in Preserved(d)}]
    OBVIOUS
  <2>2. Given = UNION {g[d] : d \in Left}  BY <2>1 DEF Given
  <2>3. \A d \in Left : StructsAt(d, FixedTypes(idl[d]) \union FnTypes(idl[d]))
                         \union {<<d, n>> : n \in Preserved(d)'} = g[d]
    BY <1>3, <2>1
  <2>4. Given' = UNION {StructsAt(d, FixedTypes(idl[d]) \union FnTypes(idl[d]))
                        \union {<<d, n>> : n \in Preserved(d)'} : d \in Left}
    BY <1>1 DEF Given
  <2>5. {StructsAt(d, FixedTypes(idl[d]) \union FnTypes(idl[d]))
           \union {<<d, n>> : n \in Preserved(d)'} : d \in Left} = {g[d] : d \in Left}
    BY <2>3, Zenon
  <2> QED  BY <2>2, <2>4, <2>5, Zenon
<1> QED  BY <1>2, <1>4 DEF Needed

\* ResolveSymbols removes nothing.
LEMMA ResolveJ == JInv /\ Resolve => JInv'
<1> SUFFICES ASSUME JInv, Resolve PROVE JInv'  OBVIOUS
<1>1. phase' = "idle" /\ idl' = idl /\ opts' = opts /\ trims' = trims  BY DEF Resolve
<1>2. trims = 1 => Needed'  BY <1>1, NeededOn DEF JInv
<1> QED  BY <1>1, <1>2 DEF JInv

\* Nothing changes when nothing is done.
LEMMA StutteringJ == JInv /\ UNCHANGED vars => JInv'
<1> SUFFICES ASSUME JInv, UNCHANGED vars PROVE JInv'  OBVIOUS
<1>1. /\ idl' = idl /\ opts' = opts /\ marks' = marks /\ kept' = kept /\ todo' = todo
      /\ phase' = phase /\ trims' = trims
  BY DEF vars
<1>2. PICK m, P, S : m = marks' /\ P = KeepsSome' /\ S = ToSet(todo)'  OBVIOUS
<1>3. m = marks /\ P = KeepsSome /\ S = ToSet(todo)  BY <1>1, <1>2 DEF KeepsSome
<1>4. phase = "kept parts" => Justified(marks, KeepsSome, {})'
  BY <1>1, <1>2, <1>3, JustifiedOn DEF JInv
<1>5. phase = "services" => Justified(marks, {}, ToSet(todo))'
  BY <1>1, <1>2, <1>3, JustifiedOn DEF JInv
<1>6. phase = "marked" => Justified(marks, {}, {})'
  BY <1>1, <1>2, <1>3, JustifiedOn DEF JInv
<1>7. phase = "kept parts" => (DOMAIN kept \union ToSet(todo) \subseteq Under(Root))'
  BY <1>1, UnderOn DEF JInv
<1>8. trims = 1 => Needed'  BY <1>1, NeededOn DEF JInv
<1> QED  BY <1>1, <1>4, <1>5, <1>6, <1>7, <1>8 DEF JInv

\* In the beginning nothing is marked.
LEMMA InitJ == Init => JInv
<1> SUFFICES ASSUME Init PROVE JInv  OBVIOUS
<1>1. phase = "idle" /\ trims # 1
  <2>1. 0 # 1  OBVIOUS
  <2> QED  BY <2>1, Zenon DEF Init
<1> QED  BY <1>1 DEF JInv

\* The second invariant is inductive, given the first.
LEMMA NextJ == MaxTrims = 1 /\ IInv /\ JInv /\ [Next]_vars => JInv'
BY BeginJ, PreProcessJ, PreProcessedJ, SkipServiceJ, MarkServiceJ, CleanServiceExtendsJ, SweepJ, ResolveJ,
   StutteringJ DEF Next

\* Whatever is trimmed, with whatever options: every struct that is left is
\* preserved, or needed by a constant, an alias or a function that is left.
THEOREM LeavesNothingUnneeded == ASSUME MaxTrims = 1 PROVE Spec => []NothingUnneeded
<1>1. Init => JInv  BY InitJ
<1>2. IInv /\ JInv /\ [Next]_vars => JInv'  BY NextJ
<1>3. IInv /\ JInv => NothingUnneeded
  <2> SUFFICES ASSUME IInv, JInv, Trimmed PROVE Needed  BY DEF NothingUnneeded, Needed
  <2>1. Once /\ trims # 0
    <3>1. ~ (0 > 0) /\ trims > 0  BY DEF Trimmed
    <3> QED  BY <3>1 DEF IInv
  <2>2. trims = 1  BY <2>1 DEF Once
  <2> QED  BY <2>2 DEF JInv
<1> QED  BY <1>1, <1>2, <1>3, TrimInvariant, PTL DEF Spec
=============================================================================
