--------------------------- MODULE NamespaceProofs ---------------------------
(***************************************************************************)
(* Add always finds a name, and what NamespaceSpec promises, for any sets  *)
(* of names and IDs and any rename function that never repeats itself for  *)
(* one name.                                                               *)
(***************************************************************************)
EXTENDS NamespaceSpec, FiniteSetTheorems, WellFoundedInduction, TLAPS

RenamesApart(name) ==
  \A c, d \in Nat : Candidate(name, c) = Candidate(name, d) => c = d

AllApart == \A name \in Wanted : RenamesApart(name)
-----------------------------------------------------------------------------
(***************************************************************************)
(* Both rename functions of the package qualify.                           *)
(***************************************************************************)
Underscores == INSTANCE Namespace WITH Rename <- UnderscoreSuffix
Numbers     == INSTANCE Namespace WITH Rename <- NumberSuffix

LEMMA Wider == ASSUME NEW S, NEW T, S \subseteq T, NEW s \in Seq(S)
               PROVE  s \in Seq(T)
OBVIOUS

LEMMA LenOfBoth == ASSUME NEW S, NEW s \in Seq(S), NEW t \in Seq(S)
                   PROVE  Len(s \o t) = Len(s) + Len(t)
OBVIOUS

THEOREM UnderscoresApart ==
  ASSUME NEW S, NEW name \in Seq(S), NEW c \in Nat, NEW d \in Nat,
         Underscores!Candidate(name, c) = Underscores!Candidate(name, d)
  PROVE  c = d
<1> DEFINE tail(n) == [i \in 1 .. n |-> "_"]
           C(n) == Underscores!Candidate(name, n)
<1>1. ASSUME NEW n \in Nat  PROVE Len(C(n)) = Len(name) + n
  <2>1. CASE n = 0
    BY <2>1 DEF Underscores!Candidate
  <2>2. CASE n # 0
    <3>1. C(n) = name \o tail(n)
      BY <2>2 DEF Underscores!Candidate, UnderscoreSuffix
    <3>2. tail(n) \in Seq({"_"}) /\ Len(tail(n)) = n  OBVIOUS
    <3> HIDE DEF tail, C
    <3>3. name \in Seq(S \cup {"_"}) /\ tail(n) \in Seq(S \cup {"_"})
      BY <3>2, Wider
    <3>4. Len(name \o tail(n)) = Len(name) + Len(tail(n))
      BY <3>3, LenOfBoth
    <3> QED  BY <3>1, <3>2, <3>4
  <2> QED  BY <2>1, <2>2
<1>2. Len(name) \in Nat  OBVIOUS
<1>3. C(c) = C(d)  OBVIOUS
<1> HIDE DEF C
<1>4. Len(name) + c = Len(name) + d  BY <1>1, <1>3
<1> QED  BY <1>2, <1>4

LEMMA NumbersApart ==
  ASSUME NEW S, NEW name \in Seq(S), NEW c \in Nat, NEW d \in Nat,
         Numbers!Candidate(name, c) = Numbers!Candidate(name, d)
  PROVE  c = d
<1> DEFINE T == S \cup Nat
           C(n) == Numbers!Candidate(name, n)
<1>1. name \in Seq(T) /\ Len(name) \in Nat  OBVIOUS
<1>2. ASSUME NEW n \in Nat, n # 0
      PROVE  Len(C(n)) = Len(name) + 1 /\ C(n)[Len(name) + 1] = n
  <2>1. C(n) = name \o <<n>>  BY <1>2 DEF Numbers!Candidate, NumberSuffix
  <2>2. <<n>> \in Seq(T) /\ Len(<<n>>) = 1 /\ <<n>>[1] = n  OBVIOUS
  <2> HIDE DEF T, C
  <2> QED  BY <1>1, <2>1, <2>2
<1>3. C(0) = name  BY DEF Numbers!Candidate
<1>4. C(c) = C(d)  OBVIOUS
<1> HIDE DEF C, T
<1> QED  BY <1>1, <1>2, <1>3, <1>4
-----------------------------------------------------------------------------
(***************************************************************************)
(* The loop of Add ends: among as many candidates as the namespace has     *)
(* names, and one more, there is one that nobody else has.                 *)
(***************************************************************************)
THEOREM SomeFit ==
  ASSUME NEW n, IsFiniteSet(DOMAIN n.name2id), NEW name, RenamesApart(name),
         NEW id
  PROVE  \E cnt \in Tries(n) : FirstFit(n, name, id, cnt)
<1> DEFINE D == DOMAIN n.name2id
           m == Cardinality(D)
           Good == {c \in Tries(n) : ~IsForeign(n, Candidate(name, c), id)}
           f == [c \in 0 .. m |-> Candidate(name, c)]
<1>1. m \in Nat  BY FS_CardinalityType
<1>2. Good # {}
  <2> SUFFICES ASSUME Good = {}  PROVE FALSE  OBVIOUS
  <2>1. \A c \in 0 .. m : Candidate(name, c) \in D
    BY DEF Tries, IsForeign, IsFree
  <2>2. f \in [0 .. m -> D]  BY <2>1
  <2>3. IsFiniteSet(0 .. m) /\ Cardinality(0 .. m) = m + 1
    BY <1>1, FS_Interval
  <2>4. \E x, y \in 0 .. m : x # y /\ f[x] = f[y]
    <3> HIDE DEF f
    <3> QED  BY <1>1, <2>2, <2>3, FS_PigeonHole
  <2>5. PICK x, y \in 0 .. m : x # y /\ f[x] = f[y]  BY <2>4
  <2>6. x \in Nat /\ y \in Nat  BY <1>1
  <2>7. Candidate(name, x) = Candidate(name, y)  BY <2>5
  <2> QED  BY <2>5, <2>6, <2>7 DEF RenamesApart
<1>3. Good \subseteq Nat  BY <1>1 DEF Tries
<1> DEFINE R == OpToRel(<, Nat)
<1>4. \A x, y \in Nat : y < x => <<y, x>> \in R  BY DEF OpToRel
<1> HIDE DEF R
<1>5. IsWellFoundedOn(R, Nat)  BY NatLessThanWellFounded DEF R
<1> HIDE DEF Good
<1>6. PICK cnt \in Good : \A y \in Good : ~ (<<y, cnt>> \in R)
  BY <1>2, <1>3, <1>5, WFMin
<1>7. cnt \in Tries(n) /\ ~IsForeign(n, Candidate(name, cnt), id)
  BY DEF Good
<1>8. ASSUME NEW c \in 0 .. (cnt - 1)
      PROVE  IsForeign(n, Candidate(name, c), id)
  <2>1. cnt \in Nat /\ c \in Nat /\ c < cnt  BY <1>3
  <2>2. c \in Tries(n)  BY <1>1, <1>7, <2>1 DEF Tries
  <2>3. c \notin Good  BY <1>4, <1>6, <2>1
  <2> QED  BY <2>2, <2>3 DEF Good
<1> QED  BY <1>7, <1>8 DEF FirstFit

\* There is one first fit.
LEMMA FitIsOne ==
  ASSUME NEW n, NEW name, NEW id, NEW c \in Nat, NEW d \in Nat,
         FirstFit(n, name, id, c), FirstFit(n, name, id, d)
  PROVE  c = d
<1>1. ~ (c < d)  BY DEF FirstFit
<1>2. ~ (d < c)  BY DEF FirstFit
<1> QED  BY <1>1, <1>2

\* What Add answers is the first fit.
LEMMA AddedIsFirstFit ==
  ASSUME NEW n, IsFiniteSet(DOMAIN n.name2id), NEW name, RenamesApart(name),
         NEW id
  PROVE  \E cnt \in Nat : /\ AddedName(n, name, id) = Candidate(name, cnt)
                          /\ FirstFit(n, name, id, cnt)
<1> DEFINE c == CHOOSE cnt \in Tries(n) : FirstFit(n, name, id, cnt)
<1>1. c \in Tries(n) /\ FirstFit(n, name, id, c)  BY SomeFit
<1>2. Tries(n) \subseteq Nat  BY FS_CardinalityType DEF Tries
<1>3. AddedName(n, name, id) = Candidate(name, c)  BY DEF AddedName
<1> QED  BY <1>1, <1>2, <1>3

\* A candidate that fits first is what Add answers.
LEMMA FirstFitIsAdded ==
  ASSUME NEW n, IsFiniteSet(DOMAIN n.name2id), NEW name, RenamesApart(name),
         NEW id, NEW cnt \in Nat, FirstFit(n, name, id, cnt)
  PROVE  AddedName(n, name, id) = Candidate(name, cnt)
<1>1. PICK d \in Nat : /\ AddedName(n, name, id) = Candidate(name, d)
                       /\ FirstFit(n, name, id, d)
  BY AddedIsFirstFit
<1>2. d = cnt  BY <1>1, FitIsOne
<1> QED  BY <1>1, <1>2
-----------------------------------------------------------------------------

(***************************************************************************)
(* The invariant.  An answer stays the first fit: its candidate is the     *)
(* ID's own, and the ones before it belong to others.                      *)
(***************************************************************************)
Settled(r, cnt) ==
  /\ given[r] = Candidate(r[1], cnt)
  /\ given[r] \in DOMAIN ns.name2id
  /\ ns.name2id[given[r]] = r[2]
  /\ \A c \in 0 .. (cnt - 1) : IsForeign(ns, Candidate(r[1], c), r[2])

AnswersHold == \A r \in DOMAIN given : \E cnt \in Nat : Settled(r, cnt)

IInv == TypeOK /\ GetThenId /\ AnswersHold
-----------------------------------------------------------------------------
LEMMA InitOK == Init => IInv
<1> SUFFICES ASSUME Init PROVE IInv  OBVIOUS
<1>1. /\ DOMAIN ns.name2id = {} /\ DOMAIN ns.id2name = {}
      /\ DOMAIN ns = {"name2id", "id2name"} /\ DOMAIN given = {}
  BY DEF Init, NewNamespace, GM!EmptyMap
<1>2. IsFiniteSet(DOMAIN ns.name2id)  BY <1>1, FS_EmptySet
<1> QED  BY <1>1, <1>2 DEF IInv, TypeOK, GetThenId, AnswersHold

\* Claiming a name that is nobody else's.
LEMMA ClaimOK ==
  ASSUME TypeOK, GetThenId, NEW name, NEW id \in Ids,
         ~IsForeign(ns, name, id), ns' = Claim(ns, name, id),
         DOMAIN given' \subseteq Requests
  PROVE  TypeOK' /\ GetThenId' /\ KeepsNames /\ name \in DOMAIN ns'.name2id
         /\ ns'.name2id[name] = id
<1>1. /\ DOMAIN ns' = {"name2id", "id2name"}
      /\ ns'.name2id = GM!Put(ns.name2id, name, id)
      /\ ns'.id2name = GM!Put(ns.id2name, id, name)
  BY DEF Claim
<1>2. /\ DOMAIN ns'.name2id = DOMAIN ns.name2id \cup {name}
      /\ ns'.name2id[name] = id
      /\ \A n \in DOMAIN ns.name2id : n # name => ns'.name2id[n] = ns.name2id[n]
  BY <1>1 DEF GM!Put
<1>3. /\ DOMAIN ns'.id2name = DOMAIN ns.id2name \cup {id}
      /\ ns'.id2name[id] = name
      /\ \A i \in DOMAIN ns.id2name : i # id => ns'.id2name[i] = ns.id2name[i]
  BY <1>1 DEF GM!Put
<1>4. name \in DOMAIN ns.name2id => ns.name2id[name] = id
  BY DEF IsForeign, IsFree
<1>5. KeepsNames  BY <1>2, <1>4 DEF KeepsNames
<1>6. TypeOK'
  <2>1. IsFiniteSet(DOMAIN ns'.name2id)
    BY <1>2, FS_AddElement DEF TypeOK
  <2>2. \A n \in DOMAIN ns'.name2id : ns'.name2id[n] \in Ids
    BY <1>2 DEF TypeOK
  <2> QED  BY <1>1, <1>3, <2>1, <2>2 DEF TypeOK
<1>7. GetThenId'
  <2> SUFFICES ASSUME NEW i \in DOMAIN ns'.id2name
               PROVE  /\ ns'.id2name[i] \in DOMAIN ns'.name2id
                      /\ ns'.name2id[ns'.id2name[i]] = i
    BY DEF GetThenId
  <2>1. CASE i = id  BY <2>1, <1>2, <1>3
  <2>2. CASE i # id
    BY <2>2, <1>2, <1>3, <1>4 DEF GetThenId
  <2> QED  BY <2>1, <2>2
<1> QED  BY <1>2, <1>5, <1>6, <1>7

\* An answer outlives every step that keeps the names.
LEMMA SettledStays ==
  ASSUME KeepsNames, NEW r \in DOMAIN given, NEW cnt \in Nat, Settled(r, cnt),
         given'[r] = given[r]
  PROVE  Settled(r, cnt)'
BY DEF KeepsNames, Settled, IsForeign, IsFree

LEMMA StepOK == AllApart /\ IInv /\ [Next]_vars => IInv' /\ [KeepsNames]_vars
<1> SUFFICES ASSUME AllApart, IInv, [Next]_vars
             PROVE  IInv' /\ [KeepsNames]_vars
  OBVIOUS
<1> USE DEF IInv
<1>1. CASE UNCHANGED vars
  BY <1>1 DEF vars, TypeOK, GetThenId, AnswersHold, Settled, KeepsNames
<1>2. ASSUME NEW name \in Wanted, NEW id \in Ids, AskToAdd(name, id)
      PROVE  IInv' /\ KeepsNames
  <2> DEFINE r == <<name, id>>
             res == AddedName(ns, name, id)
  <2>1. r \in Requests  BY DEF Requests
  <2>2. DOMAIN given' = DOMAIN given \cup {r} /\ given'[r] = res
    BY <1>2 DEF AskToAdd, GM!Put
  <2>3. \A s \in DOMAIN given : s # r => given'[s] = given[s]
    BY <1>2 DEF AskToAdd, GM!Put
  <2>4. PICK cnt \in Nat : res = Candidate(name, cnt) /\ FirstFit(ns, name, id, cnt)
    BY AddedIsFirstFit DEF TypeOK, AllApart
  <2>5. ~IsForeign(ns, res, id) /\ ns' = Claim(ns, res, id)
    BY <1>2, <2>4 DEF FirstFit, AskToAdd, Add
  <2>6. DOMAIN given' \subseteq Requests  BY <2>1, <2>2 DEF TypeOK
  <2> HIDE DEF res
  <2>7. /\ TypeOK' /\ GetThenId' /\ KeepsNames /\ res \in DOMAIN ns'.name2id
        /\ ns'.name2id[res] = id
    BY <2>5, <2>6, ClaimOK
  <2>8. Settled(r, cnt)'
    <3>1. r[1] = name /\ r[2] = id  OBVIOUS
    <3>2. \A c \in 0 .. (cnt - 1) : IsForeign(ns, Candidate(name, c), id)
      BY <2>4 DEF FirstFit
    <3>3. \A c \in 0 .. (cnt - 1) : IsForeign(ns', Candidate(name, c), id)
      BY <2>7, <3>2 DEF KeepsNames, IsForeign, IsFree
    <3> QED  BY <2>2, <2>4, <2>7, <3>1, <3>3 DEF Settled
  <2>9. ASSUME NEW s \in DOMAIN given'  PROVE \E c \in Nat : Settled(s, c)'
    <3>1. CASE s = r  BY <2>8, <3>1
    <3>2. CASE s # r
      <4>1. s \in DOMAIN given /\ given'[s] = given[s]  BY <2>2, <2>3, <3>2
      <4>2. PICK c \in Nat : Settled(s, c)  BY <4>1 DEF AnswersHold
      <4> QED  BY <2>7, <4>1, <4>2, SettledStays
    <3> QED  BY <3>1, <3>2
  <2>10. AnswersHold'  BY <2>9 DEF AnswersHold
  <2> QED  BY <2>7, <2>10
<1>3. ASSUME NEW name \in Wanted, NEW id \in Ids, AskToReserve(name, id)
      PROVE  IInv' /\ KeepsNames
  <2>1. CASE ~IsFree(ns, name)
    <3>1. ns' = ns /\ given' = given  BY <1>3, <2>1 DEF AskToReserve, Reserve
    <3> QED
      BY <3>1 DEF TypeOK, GetThenId, AnswersHold, Settled, KeepsNames
  <2>2. CASE IsFree(ns, name)
    <3>1. ns' = Claim(ns, name, id) /\ given' = given
      BY <1>3, <2>2 DEF AskToReserve, Reserve
    <3>2. ~IsForeign(ns, name, id)  BY <2>2 DEF IsForeign
    <3>3. TypeOK' /\ GetThenId' /\ KeepsNames
      BY <3>1, <3>2, ClaimOK DEF TypeOK
    <3>4. ASSUME NEW s \in DOMAIN given'  PROVE \E c \in Nat : Settled(s, c)'
      <4>1. s \in DOMAIN given /\ given'[s] = given[s]  BY <3>1, <3>4
      <4>2. PICK c \in Nat : Settled(s, c)  BY <4>1 DEF AnswersHold
      <4> QED  BY <3>3, <4>1, <4>2, SettledStays
    <3>5. AnswersHold'  BY <3>4 DEF AnswersHold
    <3> QED  BY <3>3, <3>5
  <2> QED  BY <2>1, <2>2
<1> QED  BY <1>1, <1>2, <1>3 DEF Next

LEMMA Invariant == AllApart => (Spec => []IInv)
<1> SUFFICES ASSUME AllApart PROVE Spec => []IInv  OBVIOUS
<1>1. IInv /\ [Next]_vars => IInv'  BY StepOK
<1> QED  BY <1>1, InitOK, PTL DEF Spec
-----------------------------------------------------------------------------
\* The two maps are well formed, and only requests are answered.
THEOREM TypeCorrect == AllApart => (Spec => []TypeOK)
<1>1. IInv => TypeOK  BY DEF IInv
<1> QED  BY <1>1, Invariant, PTL

\* ID gives back the ID that Get was asked with.
THEOREM GetThenIdHolds == AllApart => (Spec => []GetThenId)
<1>1. IInv => GetThenId  BY DEF IInv
<1> QED  BY <1>1, Invariant, PTL

\* Two IDs never get one name from Add.
THEOREM NamesAreUnique == AllApart => (Spec => []OwnersDiffer)
<1>1. IInv => OwnersDiffer
  <2> SUFFICES ASSUME IInv, NEW r \in DOMAIN given, NEW s \in DOMAIN given,
                      given[r] = given[s]
               PROVE  r[2] = s[2]
    BY DEF OwnersDiffer
  <2> QED  BY DEF IInv, AnswersHold, Settled
<1> QED  BY <1>1, Invariant, PTL

\* Add answers a request the same way every time.
THEOREM AddIsStable == AllApart => (Spec => []SameAnswer)
<1> SUFFICES ASSUME AllApart PROVE Spec => []SameAnswer  OBVIOUS
<1>1. IInv => SameAnswer
  <2> SUFFICES ASSUME IInv, NEW r \in DOMAIN given
               PROVE  AddedName(ns, r[1], r[2]) = given[r]
    BY DEF SameAnswer
  <2>1. PICK cnt \in Nat : Settled(r, cnt)  BY DEF IInv, AnswersHold
  <2>2. FirstFit(ns, r[1], r[2], cnt)
    BY <2>1 DEF FirstFit, Settled, IsForeign
  <2>3. r[1] \in Wanted  BY DEF IInv, TypeOK, Requests
  <2> QED  BY <2>1, <2>2, <2>3, FirstFitIsAdded DEF AllApart, IInv, TypeOK, Settled
<1> QED  BY <1>1, Invariant, PTL

\* No step takes a name from its ID.
THEOREM NamesStay == AllApart => (Spec => NamesAreKept)
<1> SUFFICES ASSUME AllApart PROVE Spec => NamesAreKept  OBVIOUS
<1>1. IInv /\ [Next]_vars => [KeepsNames]_vars  BY StepOK
<1> QED  BY <1>1, Invariant, PTL DEF Spec, NamesAreKept
=============================================================================
