---------------------------- MODULE ResolveProofs ----------------------------
(***************************************************************************)
(* For all IDLs.  IInv: a call of ResolveSymbols leaves no type with the   *)
(* category "typedef": every such type waits in the work list of the call  *)
(* that resolves its IDL, and a call only returns when its work list is    *)
(* empty.  MInv: what it leaves instead is what Deref finds: the types     *)
(* that the rounds resolve can be ranked so that each lies above the one   *)
(* it stands for.  LInv: what a name is found to be is what it means, by   *)
(* the definitions alone, so that only legal IDLs are accepted.  RInv: an  *)
(* IDL is only refused for something that is illegal, and a round that has *)
(* resolved nothing has seen every typedef of its list stand for another.  *)
(***************************************************************************)
EXTENDS Resolve, FiniteSetTheorems, WellFoundedInduction, TLAPS

\* The types that a call will still look at.
TypesIn(pairs) == {pairs[n].type : n \in DOMAIN pairs}

Waiting(frame) ==
  IF frame.phase = "symbols" THEN TypesIn(frame.typedefs)
  ELSE IF frame.phase = "rounds" THEN TypesIn(frame.todo) \cup TypesIn(frame.left)
  ELSE {}

WaitsIn(t, frame) == t[1] = frame.file /\ t \in Waiting(frame)

IsFrame(frame) ==
  /\ DOMAIN frame = {"file", "phase", "todo", "typedefs", "left", "count"}
  /\ IsSeq(frame.typedefs) /\ IsSeq(frame.left)
  /\ frame.phase = "rounds" => IsSeq(frame.todo)

Frames(frames) == IsSeq(frames) /\ \A n \in DOMAIN frames : IsFrame(frames[n])

Some(t, frames) == \E n \in DOMAIN frames : WaitsIn(t, frames[n])

Busy == status = "resolving" => stack # <<>>

Waited ==
  \A t \in DOMAIN categories :
    categories[t] = "typedef" => Some(t, stack)

IInv == Frames(stack) /\ Busy /\ Waited
-----------------------------------------------------------------------------
LEMMA ElementsSeq ==
  ASSUME NEW S, NEW s \in Seq(S)
  PROVE  IsSeq(s)
<1> DEFINE T == {s[n] : n \in DOMAIN s}
<1>1. Len(s) \in Nat /\ DOMAIN s = 1 .. Len(s) /\ s = [n \in 1 .. Len(s) |-> s[n]]  OBVIOUS
<1>2. \A n \in 1 .. Len(s) : s[n] \in T  BY <1>1
<1>h. HIDE DEF T
<1>3. [n \in 1 .. Len(s) |-> s[n]] \in Seq(T)  BY <1>1, <1>2
<1>4. s \in Seq(T)  BY <1>1, <1>3
<1> QED  BY <1>4 DEF T, IsSeq

LEMMA EmptySeq == IsSeq(<<>>) /\ TypesIn(<<>>) = {}
BY DEF IsSeq, TypesIn

LEMMA OneSeq == ASSUME NEW x PROVE IsSeq(<<x>>) /\ Len(<<x>>) = 1 /\ <<x>>[1] = x
BY DEF IsSeq

\* A sequence without its first element.
LEMMA TailSeq ==
  ASSUME NEW s, IsSeq(s), s # <<>>
  PROVE  /\ IsSeq(Tail(s)) /\ Len(Tail(s)) = Len(s) - 1
         /\ \A n \in DOMAIN Tail(s) : Tail(s)[n] = s[n + 1]
         /\ 1 \in DOMAIN s /\ Head(s) = s[1]
<1> DEFINE S == {s[n] : n \in DOMAIN s}
           r == Tail(s)
<1>1. s \in Seq(S)  BY DEF IsSeq
<1>2. /\ r \in Seq(S) /\ Len(r) = Len(s) - 1 /\ Len(s) \in Nat /\ Len(s) # 0
      /\ \A n \in 1 .. Len(r) : r[n] = s[n + 1]
      /\ DOMAIN r = 1 .. Len(r) /\ DOMAIN s = 1 .. Len(s)
      /\ Head(s) = s[1]
  BY <1>1
<1>3. IsSeq(r)
  <2> HIDE DEF S, r
  <2> QED  BY <1>2, ElementsSeq
<1> QED  BY <1>2, <1>3

\* A sequence with one more element at the end.
LEMMA AppendSeq ==
  ASSUME NEW s, IsSeq(s), NEW e
  PROVE  /\ IsSeq(Append(s, e))
         /\ TypesIn(Append(s, e)) = TypesIn(s) \cup {e.type}
<1> DEFINE S == {s[n] : n \in DOMAIN s} \cup {e}
           r == Append(s, e)
<1>1. s \in Seq(S)  BY DEF IsSeq
<1>2. /\ r \in Seq(S) /\ Len(r) = Len(s) + 1 /\ Len(s) \in Nat
      /\ \A n \in 1 .. Len(s) : r[n] = s[n]
      /\ r[Len(s) + 1] = e
      /\ DOMAIN r = 1 .. Len(r) /\ DOMAIN s = 1 .. Len(s)
  BY <1>1
<1>3. IsSeq(r)
  <2> HIDE DEF S, r
  <2> QED  BY <1>2, ElementsSeq
<1>4. TypesIn(r) = TypesIn(s) \cup {e.type}  BY <1>2 DEF TypesIn
<1> QED  BY <1>3, <1>4

\* A sequence with one more element in front.
IsPushed(r, e, s) == r = <<e>> \o s

LEMMA PushSeq ==
  ASSUME NEW s, IsSeq(s), NEW e, NEW r, IsPushed(r, e, s)
  PROVE  /\ IsSeq(r) /\ r # <<>>
         /\ DOMAIN r = 1 .. Len(s) + 1 /\ Len(s) \in Nat /\ DOMAIN s = 1 .. Len(s)
         /\ r[1] = e
         /\ \A n \in DOMAIN s : r[n + 1] = s[n]
<1> DEFINE S == {s[n] : n \in DOMAIN s} \cup {e}
<1>1. s \in Seq(S) /\ <<e>> \in Seq(S) /\ Len(<<e>>) = 1 /\ <<e>>[1] = e /\ r = <<e>> \o s  BY DEF IsSeq, IsPushed
<1>2. /\ r \in Seq(S) /\ Len(r) = Len(s) + 1 /\ Len(s) \in Nat
      /\ \A n \in 1 .. Len(s) : r[n + 1] = s[n]
      /\ r[1] = e
      /\ DOMAIN r = 1 .. Len(r) /\ DOMAIN s = 1 .. Len(s)
  BY <1>1
<1>3. IsSeq(r)
  <2> HIDE DEF S
  <2> QED  BY <1>2, ElementsSeq
<1>4. r # <<>>  BY <1>2
<1> QED  BY <1>2, <1>3, <1>4
-----------------------------------------------------------------------------
\* A call in front of others.
LEMMA Pushing ==
  ASSUME NEW s, Frames(s), NEW f, IsFrame(f)
  PROVE  /\ Frames(<<f>> \o s) /\ <<f>> \o s # <<>>
         /\ \A t : Some(t, s) \/ WaitsIn(t, f) => Some(t, <<f>> \o s)
<1> DEFINE r == <<f>> \o s
<1>1. /\ IsSeq(r) /\ r # <<>> /\ DOMAIN r = 1 .. Len(s) + 1 /\ Len(s) \in Nat
      /\ DOMAIN s = 1 .. Len(s) /\ r[1] = f /\ \A n \in DOMAIN s : r[n + 1] = s[n]
  <2>1. IsSeq(s)  BY DEF Frames
  <2>2. IsPushed(r, f, s)  BY DEF IsPushed
  <2> HIDE DEF r
  <2> QED  BY ONLY <2>1, <2>2, PushSeq
<1> HIDE DEF r
<1>2. ASSUME NEW n \in DOMAIN r PROVE IsFrame(r[n])
  <2>1. CASE n = 1  BY <2>1, <1>1
  <2>2. CASE n # 1
    <3>1. n - 1 \in DOMAIN s /\ r[(n - 1) + 1] = s[n - 1] /\ (n - 1) + 1 = n  BY <1>1, <2>2
    <3> QED  BY <3>1 DEF Frames
  <2> QED  BY <2>1, <2>2
<1>3. ASSUME NEW t, WaitsIn(t, f) PROVE Some(t, r)
  <2>1. 1 \in DOMAIN r  BY <1>1
  <2> QED  BY <1>1, <1>3, <2>1 DEF Some
<1>4. ASSUME NEW t, Some(t, s) PROVE Some(t, r)
  <2>1. PICK n \in DOMAIN s : WaitsIn(t, s[n])  BY <1>4 DEF Some
  <2>2. n + 1 \in DOMAIN r /\ r[n + 1] = s[n]  BY <1>1
  <2> QED  BY <2>1, <2>2 DEF Some
<1>5. /\ Frames(r) /\ r # <<>>
      /\ \A t : Some(t, s) \/ WaitsIn(t, f) => Some(t, r)
  BY <1>1, <1>2, <1>3, <1>4 DEF Frames
<1> QED  BY <1>5 DEF r

\* The calls below the innermost one.
LEMMA Popping ==
  ASSUME NEW s, Frames(s), s # <<>>
  PROVE  /\ Frames(Tail(s)) /\ IsFrame(Head(s))
         /\ \A t : Some(t, s) => WaitsIn(t, Head(s)) \/ Some(t, Tail(s))
<1> DEFINE r == Tail(s)
<1>1. /\ IsSeq(r) /\ Len(r) = Len(s) - 1 /\ \A n \in DOMAIN r : r[n] = s[n + 1]
      /\ 1 \in DOMAIN s /\ Head(s) = s[1]
  BY TailSeq DEF Frames
<1>2. Len(s) \in Nat /\ DOMAIN s = 1 .. Len(s) /\ DOMAIN r = 1 .. Len(r)
  BY <1>1 DEF Frames, IsSeq
<1> HIDE DEF r
<1>3. ASSUME NEW n \in DOMAIN r PROVE IsFrame(r[n])
  <2>1. n + 1 \in DOMAIN s /\ r[n] = s[n + 1]  BY <1>1, <1>2
  <2> QED  BY <2>1 DEF Frames
<1>4. ASSUME NEW t, Some(t, s) PROVE WaitsIn(t, Head(s)) \/ Some(t, r)
  <2>1. PICK n \in DOMAIN s : WaitsIn(t, s[n])  BY <1>4 DEF Some
  <2>2. CASE n = 1  BY <2>1, <2>2, <1>1
  <2>3. CASE n # 1
    <3>1. n - 1 \in DOMAIN r /\ r[n - 1] = s[(n - 1) + 1] /\ (n - 1) + 1 = n  BY <1>1, <1>2, <2>3
    <3> QED  BY <2>1, <3>1 DEF Some
  <2> QED  BY <2>2, <2>3
<1>5. /\ Frames(r) /\ IsFrame(Head(s))
      /\ \A t : Some(t, s) => WaitsIn(t, Head(s)) \/ Some(t, r)
  BY <1>1, <1>3, <1>4 DEF Frames
<1> QED  BY <1>5 DEF r

\* Facts of a step that changes the innermost call.
LEMMA Replacing ==
  ASSUME NEW s, Frames(s), s # <<>>, NEW f, IsFrame(f), NEW r, r = <<f>> \o Tail(s)
  PROVE  /\ Frames(r) /\ r # <<>>
         /\ \A t : WaitsIn(t, f) => Some(t, r)
         /\ \A t : Some(t, s) => WaitsIn(t, Head(s)) \/ Some(t, r)
BY Popping, Pushing
-----------------------------------------------------------------------------
(***************************************************************************)
(* A step in which the innermost call f goes on: what it looked after it   *)
(* still looks after, or it has no category "typedef" any more.            *)
(***************************************************************************)
LEMMA StepOn ==
  ASSUME IInv, stack # <<>>, NEW f, IsFrame(f), stack' = Replaced(f),
         \A t \in DOMAIN categories' :
           categories'[t] = "typedef" =>
             \/ WaitsIn(t, f)
             \/ /\ t \in DOMAIN categories /\ categories[t] = "typedef"
                /\ ~WaitsIn(t, Top)
  PROVE  IInv'
<1>1. /\ Frames(stack') /\ stack' # <<>>
      /\ \A t : WaitsIn(t, f) => Some(t, stack')
      /\ \A t : Some(t, stack) => WaitsIn(t, Top) \/ Some(t, stack')
  <2>1. Frames(stack) /\ stack' = <<f>> \o Tail(stack)  BY DEF IInv, Replaced
  <2> QED  BY <2>1, Replacing DEF Top
<1>2. ASSUME NEW t \in DOMAIN categories', categories'[t] = "typedef"
      PROVE  Some(t, stack')
  <2>1. CASE WaitsIn(t, f)  BY <2>1, <1>1
  <2>2. CASE t \in DOMAIN categories /\ categories[t] = "typedef" /\ ~WaitsIn(t, Top)
    <3>1. Some(t, stack)  BY <2>2 DEF IInv, Waited
    <3> QED  BY <3>1, <2>2, <1>1
  <2> QED  BY <1>2, <2>1, <2>2
<1> QED  BY <1>1, <1>2 DEF IInv, Busy, Waited, Frames, Some

LEMMA TopIsFrame ==
  ASSUME IInv, stack # <<>>
  PROVE  IsFrame(Top)
BY Popping DEF IInv, Top

LEMMA InCall == ASSUME IInv, NEW phase, IsAt(phase) PROVE stack # <<>> /\ Top.phase = phase
BY DEF IInv, Busy, IsAt

LEMMA FailKeeps == ASSUME IInv, Fail PROVE IInv'
BY DEF Fail, symbols, IInv, Busy, Waited, Frames, Some

\* The same, when no category changes.
LEMMA StepSame ==
  ASSUME IInv, stack # <<>>, NEW f, IsFrame(f), stack' = Replaced(f), UNCHANGED categories,
         \A t : WaitsIn(t, Top) => WaitsIn(t, f)
  PROVE  IInv'
BY StepOn
-----------------------------------------------------------------------------
LEMMA InitIInv == Init => IInv
<1> SUFFICES ASSUME Init PROVE IInv  OBVIOUS
<1>1. IsFrame(Frame(Root))  BY EmptySeq DEF Frame, IsFrame
<1>2. stack = <<Frame(Root)>> /\ stack # <<>>  BY DEF Init
<1>3. IsSeq(stack) /\ DOMAIN stack = {1} /\ stack[1] = Frame(Root)
  BY <1>2, OneSeq
<1>4. DOMAIN categories = {}  BY DEF Init, EmptyMap
<1> QED  BY <1>1, <1>2, <1>3, <1>4 DEF IInv, Frames, Busy, Waited

LEMMA Continuing ==
  ASSUME IInv, stack # <<>>, Top.phase # "rounds"
  PROVE  /\ IsFrame(Continue) /\ Continue.phase = Top.phase /\ Continue.typedefs = Top.typedefs
         /\ Continue.file = Top.file
         /\ \A t : WaitsIn(t, Top) <=> WaitsIn(t, Continue)
BY TopIsFrame DEF Continue, IsFrame, WaitsIn, Waiting
-----------------------------------------------------------------------------
(***************************************************************************)
(* Steps of a call that has no work list of its own yet.                   *)
(***************************************************************************)
LEMMA IncludeStep == IInv /\ ResolveInclude => IInv'
<1> SUFFICES ASSUME IInv, ResolveInclude PROVE IInv'  OBVIOUS
<1> DEFINE file == Included(Top.file, It)
<1>1. stack # <<>> /\ Top.phase = "includes"  BY InCall DEF ResolveInclude
<1>2. /\ IsFrame(Continue) /\ \A t : WaitsIn(t, Top) => WaitsIn(t, Continue)
  BY <1>1, Continuing
<1>3. UNCHANGED <<categories, status>>  BY DEF ResolveInclude, symbols
<1>4. CASE stack' = Replaced(Continue)  BY <1>1, <1>2, <1>3, <1>4, StepSame
<1>5. CASE stack' = <<Frame(file)>> \o Replaced(Continue)
  <2>1. IsFrame(Frame(file))  BY EmptySeq DEF Frame, IsFrame
  <2> DEFINE below == Replaced(Continue)
  <2>2. /\ Frames(below) /\ \A t : WaitsIn(t, Continue) => Some(t, below)
        /\ \A t : Some(t, stack) => WaitsIn(t, Top) \/ Some(t, below)
    <3>1. Frames(stack) /\ below = <<Continue>> \o Tail(stack)  BY DEF IInv, Replaced
    <3> HIDE DEF below
    <3> QED  BY <1>1, <1>2, <3>1, Replacing DEF Top
  <2> HIDE DEF below
  <2>3. stack' = <<Frame(file)>> \o below  BY <1>5 DEF below
  <2>4. Frames(stack') /\ stack' # <<>> /\ \A t : Some(t, below) => Some(t, stack')
    BY <2>1, <2>2, <2>3, Pushing
  <2>5. \A t : Some(t, stack) => Some(t, stack')  BY <1>2, <2>2, <2>4
  <2> QED  BY <1>3, <2>4, <2>5 DEF IInv, Busy, Waited, Frames, Some
<1> QED  BY <1>4, <1>5 DEF ResolveInclude

LEMMA RegisterStep == IInv /\ RegisterNames => IInv'
<1> SUFFICES ASSUME IInv, RegisterNames PROVE IInv'  OBVIOUS
<1> DEFINE f == [Top EXCEPT !.phase = "names", !.todo = [d \in DOMAIN asts[Top.file].defs |-> d]]
<1>1. stack # <<>> /\ Top.phase = "includes"  BY InCall DEF RegisterNames
<1>2. stack' = Replaced(f) /\ UNCHANGED categories  BY DEF RegisterNames, Entering, symbols
<1>3. IsFrame(f) /\ \A t : ~WaitsIn(t, Top)
  BY <1>1, TopIsFrame DEF IsFrame, WaitsIn, Waiting
<1> HIDE DEF f
<1> QED  BY <1>1, <1>2, <1>3, StepSame

LEMMA AddNameStep == IInv /\ AddName => IInv'
<1> SUFFICES ASSUME IInv, AddName PROVE IInv'  OBVIOUS
<1>1. stack # <<>> /\ Top.phase = "names"  BY InCall DEF AddName
<1>2. CASE Fail  BY <1>2, FailKeeps
<1>3. CASE stack' = Replaced(Continue) /\ UNCHANGED symbols
  <2>1. UNCHANGED categories  BY <1>3 DEF symbols
  <2> QED  BY <1>1, <1>3, <2>1, Continuing, StepSame
<1> QED  BY <1>2, <1>3 DEF AddName

LEMMA ResolveAllStep == IInv /\ ResolveAll => IInv'
<1> SUFFICES ASSUME IInv, ResolveAll PROVE IInv'  OBVIOUS
<1> DEFINE f == [Top EXCEPT !.phase = "symbols", !.todo = Work(Top.file)]
<1>1. stack # <<>> /\ Top.phase = "names"  BY InCall DEF ResolveAll
<1>2. stack' = Replaced(f) /\ UNCHANGED categories  BY DEF ResolveAll, Entering, symbols
<1>3. IsFrame(f) /\ \A t : ~WaitsIn(t, Top)
  BY <1>1, TopIsFrame DEF IsFrame, WaitsIn, Waiting
<1> HIDE DEF f
<1> QED  BY <1>1, <1>2, <1>3, StepSame
-----------------------------------------------------------------------------
(***************************************************************************)
(* Steps that resolve a symbol.                                            *)
(***************************************************************************)
\* Only the type that is written can get a category.
LEMMA PutIs ==
  ASSUME NEW k, NEW v, categories' = Put(categories, k, v),
         NEW t \in DOMAIN categories', categories'[t] = "typedef"
  PROVE  \/ t = k /\ v = "typedef"
         \/ t # k /\ t \in DOMAIN categories /\ categories[t] = "typedef"
BY DEF Put

\* A type that is found is put into the work list if it is a typedef.
LEMMA FoundStep ==
  ASSUME IInv, Is("type"), NEW i, NEW file, NEW name, Found(Here, i, file, name)
  PROVE  IInv'
<1> DEFINE c == Category(file, name)
           pair == Pair(Here, file, name)
           f == WithPair(pair)
<1>1. stack # <<>> /\ Top.phase = "symbols"  BY InCall DEF Is
<1>2. categories' = Put(categories, Here, c)  BY DEF Found
<1>3. /\ IsFrame(Continue) /\ Continue.phase = "symbols" /\ Continue.file = Top.file
      /\ Continue.typedefs = Top.typedefs /\ \A t : WaitsIn(t, Top) <=> WaitsIn(t, Continue)
  BY <1>1, Continuing
<1>4. CASE c = "typedef"
  <2>1. stack' = Replaced(f)  BY <1>4 DEF Found
  <2>2. pair.type = Here /\ Here[1] = Top.file  BY DEF Pair, Here
  <2>3. /\ IsSeq(Append(Top.typedefs, pair))
        /\ TypesIn(Append(Top.typedefs, pair)) = TypesIn(Top.typedefs) \cup {Here}
    <3>1. IsSeq(Top.typedefs)  BY <1>1, TopIsFrame DEF IsFrame
    <3> HIDE DEF pair
    <3> QED  BY <3>1, <2>2, AppendSeq
  <2>4. /\ IsFrame(f) /\ f.phase = "symbols" /\ f.file = Top.file
        /\ f.typedefs = Append(Top.typedefs, pair)
    BY <1>3, <2>3 DEF WithPair, IsFrame
  <2> HIDE DEF f, pair
  <2>5. /\ \A t : WaitsIn(t, Top) => WaitsIn(t, f)
        /\ WaitsIn(Here, f)
    BY <1>1, <2>2, <2>3, <2>4 DEF WaitsIn, Waiting
  <2>6. ASSUME NEW t \in DOMAIN categories', categories'[t] = "typedef"
        PROVE  \/ WaitsIn(t, f)
               \/ t \in DOMAIN categories /\ categories[t] = "typedef" /\ ~WaitsIn(t, Top)
    <3>1. t = Here \/ (t \in DOMAIN categories /\ categories[t] = "typedef")
      <4> HIDE DEF c
      <4> QED  BY <1>2, <2>6, PutIs
    <3> QED  BY <2>5, <3>1
  <2> QED  BY <1>1, <2>1, <2>4, <2>6, StepOn
<1>5. CASE c # "typedef"
  <2>1. stack' = Replaced(Continue)  BY <1>5 DEF Found
  <2>2. ASSUME NEW t \in DOMAIN categories', categories'[t] = "typedef"
        PROVE  \/ WaitsIn(t, Continue)
               \/ t \in DOMAIN categories /\ categories[t] = "typedef" /\ ~WaitsIn(t, Top)
    <3>1. t \in DOMAIN categories /\ categories[t] = "typedef"
      <4> HIDE DEF c
      <4> QED  BY <1>2, <1>5, <2>2, PutIs
    <3> QED  BY <1>3, <3>1
  <2> QED  BY <1>1, <1>3, <2>1, <2>2, StepOn
<1> QED  BY <1>4, <1>5

LEMMA TypeStep == IInv /\ ResolveType => IInv'
<1> SUFFICES ASSUME IInv, ResolveType PROVE IInv'  OBVIOUS
<1> DEFINE name == TypeName(Here)
<1>1. stack # <<>> /\ Top.phase = "symbols" /\ Is("type")  BY InCall DEF ResolveType, Is
<1>2. CASE Fail  BY <1>2, FailKeeps
<1>3. CASE name \in Builtin /\ categories' = Put(categories, Here, name[1]) /\ stack' = Replaced(Continue)
  <2>1. name[1] # "typedef"
    <3> HIDE DEF name
    <3> QED  BY <1>3 DEF Builtin
  <2>2. IsFrame(Continue) /\ \A t : WaitsIn(t, Top) <=> WaitsIn(t, Continue)  BY <1>1, Continuing
  <2> HIDE DEF name
  <2>3. ASSUME NEW t \in DOMAIN categories', categories'[t] = "typedef"
        PROVE  \/ WaitsIn(t, Continue)
               \/ t \in DOMAIN categories /\ categories[t] = "typedef" /\ ~WaitsIn(t, Top)
    <3>1. t \in DOMAIN categories /\ categories[t] = "typedef"  BY <1>3, <2>1, <2>3, PutIs
    <3> QED  BY <2>2, <3>1
  <2> QED  BY <1>1, <1>3, <2>2, <2>3, StepOn
<1>4. ASSUME NEW i, Found(Here, i, At(Top.file, i), Base(name)) PROVE IInv'
  BY <1>1, <1>4, FoundStep
<1> QED  BY <1>2, <1>3, <1>4 DEF ResolveType

LEMMA ValueStep == IInv /\ ResolveConstValue => IInv'
<1> SUFFICES ASSUME IInv, ResolveConstValue PROVE IInv'  OBVIOUS
<1>1. stack # <<>> /\ Top.phase = "symbols"  BY InCall DEF ResolveConstValue, Is
<1>2. CASE Fail  BY <1>2, FailKeeps
<1>3. CASE stack' = Replaced(Continue) /\ UNCHANGED categories
  BY <1>1, <1>3, Continuing, StepSame
<1>4. CASE status' = "diverged" /\ UNCHANGED <<categories, stack>>
  BY <1>4 DEF IInv, Busy, Waited, Frames, Some
<1> QED  BY <1>2, <1>3, <1>4 DEF ResolveConstValue, Explained, symbols

LEMMA BaseStep == IInv /\ ResolveBaseService => IInv'
<1> SUFFICES ASSUME IInv, ResolveBaseService PROVE IInv'  OBVIOUS
<1>1. stack # <<>> /\ Top.phase = "symbols"  BY InCall DEF ResolveBaseService, Is
<1>2. CASE Fail  BY <1>2, FailKeeps
<1>3. CASE stack' = Replaced(Continue) /\ UNCHANGED categories
  BY <1>1, <1>3, Continuing, StepSame
<1> QED  BY <1>2, <1>3 DEF ResolveBaseService
-----------------------------------------------------------------------------
(***************************************************************************)
(* Steps of the rounds.                                                    *)
(***************************************************************************)
LEMMA TypedefsStep == IInv /\ ResolveTypedefs => IInv'
<1> SUFFICES ASSUME IInv, ResolveTypedefs PROVE IInv'  OBVIOUS
<1> DEFINE f == [Top EXCEPT !.phase = "rounds", !.todo = Top.typedefs, !.count = Len(Top.typedefs)]
<1>1. stack # <<>> /\ Top.phase = "symbols"  BY InCall DEF ResolveTypedefs
<1>2. stack' = Replaced(f) /\ UNCHANGED categories  BY DEF ResolveTypedefs, symbols
<1>3. IsFrame(Top)  BY <1>1, TopIsFrame
<1>4. /\ IsFrame(f) /\ f.phase = "rounds" /\ f.file = Top.file
      /\ f.todo = Top.typedefs /\ f.left = Top.left
  BY <1>3 DEF IsFrame
<1> HIDE DEF f
<1>5. \A t : WaitsIn(t, Top) => WaitsIn(t, f)  BY <1>1, <1>4 DEF WaitsIn, Waiting
<1> QED  BY <1>1, <1>2, <1>4, <1>5, StepSame

\* The pair that is looked at leaves the work list: its type keeps the
\* category "typedef" only if it comes back in the next round.
LEMMA TypedefStep == IInv /\ ResolveTypedef => IInv'
<1> SUFFICES ASSUME IInv, ResolveTypedef PROVE IInv'  OBVIOUS
<1>1. stack # <<>> /\ Top.phase = "rounds" /\ Top.todo # <<>>  BY InCall DEF ResolveTypedef
<1>2. IsFrame(Top)  BY <1>1, TopIsFrame
<1>3. /\ IsSeq(Tail(Top.todo))
      /\ TypesIn(Top.todo) \subseteq TypesIn(Tail(Top.todo)) \cup {It.type}
  <2> DEFINE s == Top.todo
             r == Tail(s)
  <2>1. IsSeq(s) /\ s # <<>>  BY <1>1, <1>2 DEF IsFrame
  <2>2. /\ IsSeq(r) /\ Len(r) = Len(s) - 1 /\ \A n \in DOMAIN r : r[n] = s[n + 1]
        /\ Head(s) = s[1]
    BY <2>1, TailSeq
  <2>3. It = Head(s)  BY DEF It
  <2> HIDE DEF s, r
  <2>4. Len(s) \in Nat /\ DOMAIN s = 1 .. Len(s) /\ DOMAIN r = 1 .. Len(r)
    BY <2>1, <2>2 DEF IsSeq
  <2>5. ASSUME NEW n \in DOMAIN s PROVE s[n].type \in TypesIn(r) \cup {It.type}
    <3>1. CASE n = 1  BY <3>1, <2>2, <2>3
    <3>2. CASE n # 1
      <4>1. n - 1 \in DOMAIN r /\ r[n - 1] = s[(n - 1) + 1] /\ (n - 1) + 1 = n  BY <2>2, <2>4, <3>2
      <4> QED  BY <4>1 DEF TypesIn
    <3> QED  BY <3>1, <3>2
  <2>6. IsSeq(r) /\ TypesIn(s) \subseteq TypesIn(r) \cup {It.type}  BY <2>2, <2>5 DEF TypesIn
  <2> QED  BY <2>6 DEF s, r
<1>4. CASE TypedefCategory(It) = "typedef"
  <2> DEFINE f == [Continue EXCEPT !.left = Append(@, It)]
  <2>1. stack' = Replaced(f) /\ UNCHANGED categories  BY <1>4 DEF ResolveTypedef
  <2>2. IsSeq(Append(Top.left, It)) /\ TypesIn(Append(Top.left, It)) = TypesIn(Top.left) \cup {It.type}
    BY <1>2, AppendSeq DEF IsFrame
  <2>3. /\ IsFrame(f) /\ f.phase = "rounds" /\ f.file = Top.file
        /\ f.todo = Tail(Top.todo) /\ f.left = Append(Top.left, It)
    BY <1>1, <1>2, <1>3, <2>2 DEF Continue, IsFrame
  <2> HIDE DEF f
  <2>4. \A t : WaitsIn(t, Top) => WaitsIn(t, f)
    BY <1>1, <1>3, <2>2, <2>3 DEF WaitsIn, Waiting
  <2> QED  BY <1>1, <2>1, <2>3, <2>4, StepSame
<1>5. CASE TypedefCategory(It) # "typedef"
  <2> DEFINE c == TypedefCategory(It)
             f == Continue
             type == It.type
  <2>1. stack' = Replaced(f) /\ categories' = Put(categories, type, c)  BY <1>5 DEF ResolveTypedef
  <2>2. /\ IsFrame(f) /\ f.phase = "rounds" /\ f.file = Top.file
        /\ f.todo = Tail(Top.todo) /\ f.left = Top.left
    BY <1>1, <1>2, <1>3 DEF Continue, IsFrame
  <2>3. c # "typedef" /\ TypesIn(Top.todo) \subseteq TypesIn(f.todo) \cup {type}  BY <1>3, <1>5, <2>2
  <2> HIDE DEF f, c, type
  <2>4. ASSUME NEW t \in DOMAIN categories', categories'[t] = "typedef"
        PROVE  \/ WaitsIn(t, f)
               \/ t \in DOMAIN categories /\ categories[t] = "typedef" /\ ~WaitsIn(t, Top)
    <3>1. t # type /\ t \in DOMAIN categories /\ categories[t] = "typedef"  BY <2>1, <2>3, <2>4, PutIs
    <3>2. WaitsIn(t, Top) => WaitsIn(t, f)  BY <1>1, <2>2, <2>3, <3>1 DEF WaitsIn, Waiting
    <3> QED  BY <3>1, <3>2
  <2> QED  BY <1>1, <2>1, <2>2, <2>4, StepOn
<1> QED  BY <1>4, <1>5

LEMMA EndRoundStep == IInv /\ EndRound => IInv'
<1> SUFFICES ASSUME IInv, EndRound PROVE IInv'  OBVIOUS
<1> DEFINE f == [Top EXCEPT !.todo = Top.left, !.left = <<>>, !.count = Len(Top.left)]
<1>1. stack # <<>> /\ Top.phase = "rounds" /\ Top.todo = <<>>  BY InCall DEF EndRound
<1>2. CASE Fail  BY <1>2, FailKeeps
<1>3. CASE stack' = NextRound(Top) /\ UNCHANGED symbols
  <2>1. stack' = Replaced(f) /\ UNCHANGED categories  BY <1>3 DEF NextRound, symbols
  <2>2. IsFrame(Top)  BY <1>1, TopIsFrame
  <2>3. /\ IsFrame(f) /\ f.phase = "rounds" /\ f.file = Top.file /\ f.todo = Top.left
    BY <1>1, <2>2, EmptySeq DEF IsFrame
  <2> HIDE DEF f
  <2>4. \A t : WaitsIn(t, Top) => WaitsIn(t, f)
    BY <1>1, <2>3, EmptySeq DEF WaitsIn, Waiting
  <2> QED  BY <1>1, <2>1, <2>3, <2>4, StepSame
<1> QED  BY <1>2, <1>3 DEF EndRound

\* A call returns when nothing waits in it.
LEMMA ReturnStep == IInv /\ Return => IInv'
<1> SUFFICES ASSUME IInv, Return PROVE IInv'  OBVIOUS
<1>1. /\ stack # <<>> /\ Top.phase = "rounds" /\ Top.todo = <<>> /\ Top.left = <<>>
      /\ Frames(stack)
  BY InCall DEF Return, IInv
<1>2. \A t : ~WaitsIn(t, Top)  BY <1>1, EmptySeq DEF WaitsIn, Waiting
<1>3. /\ stack' = Tail(stack) /\ UNCHANGED categories
      /\ status' = "resolving" => stack' # <<>>
  BY DEF Return, symbols
<1>4. Frames(stack') /\ \A t : Some(t, stack) => Some(t, stack')
  BY <1>1, <1>2, <1>3, Popping DEF Top
<1> QED  BY <1>3, <1>4 DEF IInv, Busy, Waited, Frames, Some
-----------------------------------------------------------------------------
LEMMA NextStep == IInv /\ [Next]_vars => IInv'
<1> SUFFICES ASSUME IInv, [Next]_vars PROVE IInv'  OBVIOUS
<1>1. CASE UNCHANGED vars  BY <1>1 DEF vars, IInv, Busy, Waited, Frames, Some
<1> QED  BY <1>1, IncludeStep, RegisterStep, AddNameStep, ResolveAllStep, TypeStep, ValueStep,
            BaseStep, TypedefsStep, TypedefStep, EndRoundStep, ReturnStep DEF Next

(***************************************************************************)
(* Whatever the IDLs are, a type has the category "typedef" only while the *)
(* call that resolves its IDL has not returned: the IDLs whose categories  *)
(* ResolveTypedef copies, and the one that backends get, have none.        *)
(***************************************************************************)
THEOREM TypedefsAreResolved == Spec => []NoTypedefLeft
<1>1. IInv => NoTypedefLeft
  BY DEF IInv, Waited, Some, WaitsIn, NoTypedefLeft, Calling
<1> QED  BY <1>1, InitIInv, NextStep, PTL DEF Spec

\* A success is the end of the first call.
LEMMA NoCallsInTheEnd == Spec => [](status = "resolved" => stack = <<>>)
<1> DEFINE Empty == status = "resolved" => stack = <<>>
<1>1. Init => Empty  BY DEF Init
<1>2. Empty /\ [Next]_vars => Empty'
  <2> SUFFICES ASSUME Empty, [Next]_vars, status' = "resolved" PROVE stack' = <<>>  OBVIOUS
  <2>0. status' = "resolved"  OBVIOUS
  <2>1. CASE UNCHANGED vars  BY <2>1 DEF vars
  <2>2. CASE Return  BY <2>2, Zenon DEF Return
  <2>3. CASE Next /\ ~Return
    <3>1. status = "resolving" /\ status' \in {"resolving", "failed", "diverged"}
      BY <2>3 DEF Next, ResolveInclude, RegisterNames, AddName, ResolveAll, ResolveType, ResolveConstValue,
        ResolveBaseService, ResolveTypedefs, ResolveTypedef, EndRound, Explained, Is, IsAt, Fail
    <3> QED  BY ONLY <3>1, <2>0
  <2> QED  BY <2>1, <2>2, <2>3
<1> QED  BY <1>1, <1>2, PTL DEF Spec

(***************************************************************************)
(* After a success, no type of any IDL has the category "typedef".         *)
(***************************************************************************)
THEOREM ResolvedIsConcrete ==
  Spec => [](status = "resolved" => \A t \in DOMAIN categories : categories[t] # "typedef")
<1>1. (status = "resolved" => stack = <<>>) /\ NoTypedefLeft
        => (status = "resolved" => \A t \in DOMAIN categories : categories[t] # "typedef")
  BY DEF NoTypedefLeft, Calling
<1> QED  BY <1>1, NoCallsInTheEnd, TypedefsAreResolved, PTL

-----------------------------------------------------------------------------
(***************************************************************************)
(* What the calls have done so far.  The innermost call has registered     *)
(* some names, resolved some symbols or some typedefs of its IDL; those    *)
(* below it wait in their includes, where nothing of theirs is registered  *)
(* or resolved; an IDL that is in no call is finished.                     *)
(***************************************************************************)
Defs(file) == DOMAIN asts[file].defs

Elements(s) == {s[n] : n \in DOMAIN s}

OneEach(s) == \A m, n \in DOMAIN s : s[m] = s[n] => m = n

\* Symbols in the order of the definitions.
InOrder(todo) == \A m, n \in DOMAIN todo : m <= n => todo[m].def <= todo[n].def

\* The definitions ds of an IDL, and no others, have registered their names.
Registered(file, ds) ==
  /\ DOMAIN names[file] = {Def(file, d).name : d \in ds}
  /\ \A d \in ds : names[file][Def(file, d).name] = Def(file, d).kind
  /\ \A d, e \in ds : Def(file, d).name = Def(file, e).name => d = e

Complete(file) == file \in DOMAIN names /\ Registered(file, Defs(file))

Untouched(file) == \A t \in DOMAIN categories : t[1] # file

\* The symbol of a type.
SymbolOf(t) == [what |-> "type", def |-> t[2], k |-> t[3]]

\* All that is to be resolved in an IDL.
SymbolsIn(file, d) == {Symbols(file, d)[n] : n \in DOMAIN Symbols(file, d)}

SymbolsOf(file) == UNION {SymbolsIn(file, d) : d \in Defs(file)}

PairsOf(file, pairs) ==
  /\ IsSeq(pairs)
  /\ \A p \in Elements(pairs) :
       p.type \in aliases /\ p.type[1] = file /\ Target(p.type) = <<p.file, p.name>>

Handled(file) == \A i \in DOMAIN asts[file].includes : Included(file, i) \in DOMAIN names

InIncludes(f) ==
  /\ IsSeq(f.todo) /\ Elements(f.todo) \subseteq DOMAIN asts[f.file].includes
  /\ \A i \in DOMAIN asts[f.file].includes \ Elements(f.todo) : Included(f.file, i) \in DOMAIN names
  /\ Registered(f.file, {}) /\ Untouched(f.file)
  /\ f.typedefs = <<>> /\ f.left = <<>>

InNames(f) ==
  /\ Handled(f.file)
  /\ IsSeq(f.todo) /\ OneEach(f.todo) /\ Elements(f.todo) \subseteq Defs(f.file)
  /\ Registered(f.file, Defs(f.file) \ Elements(f.todo)) /\ Untouched(f.file)
  /\ f.typedefs = <<>> /\ f.left = <<>>

InSymbols(f) ==
  /\ Handled(f.file) /\ Complete(f.file)
  /\ IsSeq(f.todo) /\ OneEach(f.todo)
  /\ Elements(f.todo) \subseteq SymbolsOf(f.file)
  /\ \A t \in TypesOf(f.file) : t \in DOMAIN categories <=> SymbolOf(t) \notin Elements(f.todo)
  /\ PairsOf(f.file, f.typedefs) /\ f.left = <<>>

InRounds(f) ==
  /\ Handled(f.file) /\ Complete(f.file)
  /\ TypesOf(f.file) \subseteq DOMAIN categories
  /\ PairsOf(f.file, f.todo) /\ PairsOf(f.file, f.left)

Good(f) ==
  /\ f.file \in DOMAIN names
  /\ f.phase \in {"includes", "names", "symbols", "rounds"}
  /\ f.phase = "includes" => InIncludes(f)
  /\ f.phase = "names" => InNames(f)
  /\ f.phase = "symbols" => InSymbols(f)
  /\ f.phase = "rounds" => InRounds(f)

Stacked ==
  /\ \A n \in DOMAIN stack : Good(stack[n]) /\ (n # 1 => stack[n].phase = "includes")
  /\ \A m, n \in DOMAIN stack : stack[m].file = stack[n].file => m = n

Finished ==
  \A file \in DOMAIN names \ Calling :
    Handled(file) /\ Complete(file) /\ TypesOf(file) \subseteq DOMAIN categories

\* What a type refers to.
Right(t) ==
  /\ t[1] \in DOMAIN names /\ t \in TypesOf(t[1])
  /\ t \in DOMAIN refs => refs[t] \in DOMAIN asts[t[1]].includes
  /\ t \in aliases => Category(Target(t)[1], Target(t)[2]) = "typedef"
  /\ t \in DOMAIN refs \ aliases => categories[t] = Category(Target(t)[1], Target(t)[2])
  /\ t \in DOMAIN refs => Category(Target(t)[1], Target(t)[2]) # "none"
  /\ Target(t)[1] \in DOMAIN names

Settled(rank) ==
  \A t \in aliases :
    \/ categories[t] = "typedef"
    \/ /\ TargetType(t) \in DOMAIN categories
       /\ categories[TargetType(t)] = categories[t] /\ rank[TargetType(t)] < rank[t]

World ==
  /\ asts \in Documents /\ DOMAIN names \subseteq DOMAIN asts
  /\ \A t \in DOMAIN categories : Right(t)
  /\ aliases \subseteq DOMAIN categories
  /\ \A t \in DOMAIN refs : t[3] = 0 \/ t \in DOMAIN categories

Ranked == \E rank \in [AllTypes -> Nat] : Settled(rank)

MInv == IInv /\ World /\ Stacked /\ Finished /\ Ranked
-----------------------------------------------------------------------------
\* The elements of a sequence, without its first.
LEMMA TailElements ==
  ASSUME NEW s, IsSeq(s), s # <<>>
  PROVE  /\ IsSeq(Tail(s)) /\ Elements(s) = Elements(Tail(s)) \cup {Head(s)}
         /\ Head(s) \in Elements(s)
         /\ OneEach(s) => OneEach(Tail(s)) /\ Head(s) \notin Elements(Tail(s))
<1> DEFINE r == Tail(s)
<1>1. /\ IsSeq(r) /\ Len(r) = Len(s) - 1 /\ \A n \in DOMAIN r : r[n] = s[n + 1]
      /\ 1 \in DOMAIN s /\ Head(s) = s[1]
  BY TailSeq
<1>2. Len(s) \in Nat /\ DOMAIN s = 1 .. Len(s) /\ DOMAIN r = 1 .. Len(r)
  BY <1>1 DEF IsSeq
<1> HIDE DEF r
<1>3. \A n \in DOMAIN r : n + 1 \in DOMAIN s /\ n + 1 # 1  BY <1>1, <1>2
<1>4. \A n \in DOMAIN s : n = 1 \/ (n - 1 \in DOMAIN r /\ r[n - 1] = s[n])
  <2> SUFFICES ASSUME NEW n \in DOMAIN s, n # 1 PROVE n - 1 \in DOMAIN r /\ r[n - 1] = s[n]  OBVIOUS
  <2>1. n - 1 \in DOMAIN r /\ (n - 1) + 1 = n  BY <1>1, <1>2
  <2> QED  BY <1>1, <2>1
<1>5. Elements(s) = Elements(r) \cup {s[1]}
  <2>1. ASSUME NEW x \in Elements(s) PROVE x \in Elements(r) \cup {s[1]}
    <3>1. PICK n \in DOMAIN s : x = s[n]  BY DEF Elements
    <3> QED  BY <1>4, <3>1 DEF Elements
  <2>2. ASSUME NEW x \in Elements(r) PROVE x \in Elements(s)
    <3>1. PICK n \in DOMAIN r : x = r[n]  BY DEF Elements
    <3> QED  BY <1>1, <1>3, <3>1 DEF Elements
  <2>3. s[1] \in Elements(s)  BY <1>1 DEF Elements
  <2> QED  BY <2>1, <2>2, <2>3
<1>6. ASSUME OneEach(s) PROVE OneEach(r) /\ s[1] \notin Elements(r)
  <2>1. ASSUME NEW m \in DOMAIN r, NEW n \in DOMAIN r, r[m] = r[n] PROVE m = n
    <3>1. m + 1 = n + 1  BY <1>1, <1>3, <1>6, <2>1 DEF OneEach
    <3> QED  BY <1>2, <3>1
  <2>2. ASSUME NEW n \in DOMAIN r, r[n] = s[1] PROVE FALSE
    BY <1>1, <1>3, <1>6, <2>2 DEF OneEach
  <2> QED  BY <2>1, <2>2 DEF OneEach, Elements
<1> QED  BY <1>1, <1>5, <1>6 DEF r, Elements

LEMMA NoElements == Elements(<<>>) = {} /\ IsSeq(<<>>) /\ OneEach(<<>>)
BY DEF Elements, IsSeq, OneEach

\* The innermost call is replaced.
LEMMA TopReplaced ==
  ASSUME NEW s, IsSeq(s), s # <<>>, NEW f, NEW r, IsPushed(r, f, Tail(s))
  PROVE  /\ IsSeq(r) /\ DOMAIN r = DOMAIN s /\ 1 \in DOMAIN s /\ DOMAIN s \subseteq Nat \ {0}
         /\ r[1] = f /\ \A n \in DOMAIN s : n # 1 => r[n] = s[n]
         /\ Head(s) = s[1]
<1>1. PICK t : t = Tail(s)  OBVIOUS
<1>2. /\ IsSeq(t) /\ Len(t) = Len(s) - 1 /\ \A n \in DOMAIN t : t[n] = s[n + 1]
      /\ 1 \in DOMAIN s /\ Head(s) = s[1]
  BY <1>1, TailSeq
<1>3. IsPushed(r, f, t)  BY <1>1
<1>4. /\ IsSeq(r) /\ DOMAIN r = 1 .. Len(t) + 1 /\ Len(t) \in Nat /\ DOMAIN t = 1 .. Len(t)
      /\ r[1] = f /\ \A n \in DOMAIN t : r[n + 1] = t[n]
  BY <1>2, <1>3, PushSeq
<1>5. Len(s) \in Nat /\ DOMAIN s = 1 .. Len(s)  BY DEF IsSeq
<1>6. DOMAIN r = DOMAIN s  BY <1>2, <1>4, <1>5
<1>7. ASSUME NEW n \in DOMAIN s, n # 1 PROVE r[n] = s[n]
  <2>1. n - 1 \in DOMAIN t /\ (n - 1) + 1 = n  BY <1>2, <1>4, <1>5, <1>7
  <2> QED  BY <1>2, <1>4, <2>1
<1> QED  BY <1>2, <1>4, <1>5, <1>6, <1>7

LEMMA TypeIs ==
  ASSUME NEW file, NEW t
  PROVE  t \in TypesOf(file) <=>
           \E d \in Defs(file) : \E k \in DOMAIN Def(file, d).types : t = <<file, d, k>>
BY DEF TypesOf, Defs

LEMMA DocumentIs ==
  ASSUME asts \in Documents
  PROVE  /\ Root \in DOMAIN asts /\ IsFiniteSet(DOMAIN asts)
         /\ \A file \in DOMAIN asts :
              /\ IsSeq(asts[file].includes) /\ IsSeq(asts[file].defs)
              /\ \A i \in DOMAIN asts[file].includes : Included(file, i) \in DOMAIN asts
              /\ \A d \in Defs(file) :
                   /\ IsSeq(Def(file, d).types) /\ IsSeq(Def(file, d).values)
                   /\ \A k \in DOMAIN Def(file, d).types : IsSeq(Def(file, d).types[k])
                   /\ Def(file, d).kind \in Kinds
                   /\ Def(file, d).kind = "typedef" => Def(file, d).types # <<>>
<1>1. /\ Root \in DOMAIN asts /\ IsFiniteSet(DOMAIN asts)
      /\ \A file \in DOMAIN asts :
           /\ IsSeq(asts[file].includes) /\ IsSeq(asts[file].defs)
           /\ \A i \in DOMAIN asts[file].includes : Included(file, i) \in DOMAIN asts
  BY DocumentsAssumption DEF Included
<1>2. ASSUME NEW file \in DOMAIN asts, NEW d \in Defs(file), NEW def, def = Def(file, d)
      PROVE  /\ IsSeq(def.types) /\ IsSeq(def.values)
             /\ \A k \in DOMAIN def.types : IsSeq(def.types[k])
             /\ def.kind \in Kinds
             /\ def.kind = "typedef" => def.types # <<>>
  <2>1. /\ def.types \in Seq(Names) /\ def.values \in Seq(Names) /\ def.kind \in Kinds
        /\ def.kind = "typedef" => def.types # <<>>
    BY <1>2, DocumentsAssumption DEF Def, Defs
  <2>2. IsSeq(def.types) /\ IsSeq(def.values)  BY <2>1, ElementsSeq
  <2>3. ASSUME NEW k \in DOMAIN def.types PROVE IsSeq(def.types[k])
    <3>1. PICK name : name = def.types[k]  OBVIOUS
    <3>2. name \in Seq(STRING)  BY <2>1, <3>1 DEF Names
    <3>3. IsSeq(name)  BY <3>2, ElementsSeq
    <3> QED  BY <3>1, <3>3
  <2> QED  BY <2>1, <2>2, <2>3
<1> QED  BY <1>1, <1>2

\* What else the parser leaves, and the names that are assumed.
LEMMA DefinitionIs ==
  ASSUME asts \in Documents, NEW file \in DOMAIN asts, NEW d \in Defs(file), NEW def, def = Def(file, d)
  PROVE  /\ \A k \in DOMAIN def.types : def.types[k] \in Names
         /\ \A k \in DOMAIN def.values : def.values[k] \in Names
         /\ def.name \in Names /\ def.extends \in Names \cup {<<>>}
         /\ def.kind = "typedef" =>
              /\ 1 \in DOMAIN def.types /\ def.values = <<>>
              /\ \A e \in 1 .. d : Def(file, e).kind = "typedef"
<1>1. /\ def.types \in Seq(Names) /\ def.values \in Seq(Names)
      /\ def.name \in Names /\ def.extends \in Names \cup {<<>>}
      /\ def.kind = "typedef" =>
           /\ def.types # <<>> /\ def.values = <<>>
           /\ \A e \in 1 .. d : Def(file, e).kind = "typedef"
  BY DocumentsAssumption DEF Def, Defs
<1>2. def.types # <<>> => 1 \in DOMAIN def.types  BY <1>1
<1> QED  BY <1>1, <1>2

LEMMA NameIs ==
  ASSUME asts \in Documents, NEW file \in DOMAIN asts, NEW d \in Defs(file)
  PROVE  Len(Def(file, d).name) = 1 /\ Def(file, d).name \notin Builtin
BY PlainAssumption DEF Def, Defs

\* A type has a position from one on.
LEMMA TypeHasPosition ==
  ASSUME asts \in Documents, NEW file \in DOMAIN asts, NEW t \in TypesOf(file)
  PROVE  /\ t[1] = file /\ t[2] \in Defs(file) /\ t[3] \in DOMAIN Def(file, t[2]).types
         /\ t[3] # 0 /\ t = <<file, t[2], t[3]>> /\ IsSeq(TypeName(t)) /\ t \in AllTypes
<1>0. PICK d \in Defs(file) : \E k \in DOMAIN Def(file, d).types : t = <<file, d, k>>  BY TypeIs
<1>1. PICK k \in DOMAIN Def(file, d).types : t = <<file, d, k>>  BY <1>0
<1>2. IsSeq(Def(file, d).types) /\ IsSeq(Def(file, d).types[k])  BY DocumentIs
<1>3. k # 0  BY <1>2 DEF IsSeq
<1> QED  BY <1>1, <1>2, <1>3 DEF TypeName, AllTypes
-----------------------------------------------------------------------------

\* Names that are registered stay what they are.
Grow ==
  /\ asts' = asts
  /\ \A file \in DOMAIN names :
       /\ file \in DOMAIN names'
       /\ \A name \in DOMAIN names[file] :
            name \in DOMAIN names'[file] /\ names'[file][name] = names[file][name]

\* Of the other IDLs nothing is changed.
Within(file) ==
  /\ \A e \in DOMAIN names \ {file} : names'[e] = names[e]
  /\ \A t \in DOMAIN categories' : t \in DOMAIN categories \/ t[1] = file

\* A type keeps its reference, and keeps or has not got IsTypedef.
Alike(t) ==
  /\ t \in DOMAIN refs' <=> t \in DOMAIN refs
  /\ t \in DOMAIN refs => refs'[t] = refs[t]
  /\ t \in aliases' <=> t \in aliases

LEMMA CategoryStays ==
  ASSUME Grow, NEW file \in DOMAIN names, NEW name, Category(file, name) # "none"
  PROVE  Category(file, name)' = Category(file, name)
BY DEF Grow, Category, Get

LEMMA TargetStays ==
  ASSUME asts' = asts, NEW t, Alike(t)
  PROVE  Target(t)' = Target(t) /\ TargetType(t)' = TargetType(t) /\ TypeName(t)' = TypeName(t)
<1>1. Get(refs, t, 0)' = Get(refs, t, 0)  BY DEF Alike, Get
<1>2. TypeName(t)' = TypeName(t)  BY DEF TypeName, Def
<1>3. Target(t)' = Target(t)  BY <1>1, <1>2 DEF Target, At, Included, Base
<1>4. TargetType(t)' = TargetType(t)  BY <1>3 DEF TargetType, Lookup, Def
<1> QED  BY <1>2, <1>3, <1>4

LEMMA TypesStay ==
  ASSUME asts' = asts
  PROVE  /\ \A file : TypesOf(file)' = TypesOf(file) /\ Defs(file)' = Defs(file)
         /\ AllTypes' = AllTypes
BY DEF TypesOf, Def, Defs, AllTypes

LEMMA RightStays ==
  ASSUME Grow, NEW t, Right(t), Alike(t), t \in aliases \/ categories'[t] = categories[t]
  PROVE  Right(t)'
<1>1. Target(t)' = Target(t) /\ Target(t)[1] \in DOMAIN names  BY TargetStays DEF Grow, Right
<1>2. PICK file : file = Target(t)[1]  OBVIOUS
<1>3. PICK name : name = Target(t)[2]  OBVIOUS
<1>4. Target(t)[1]' = file /\ Target(t)[2]' = name /\ file \in DOMAIN names'
  BY <1>1, <1>2, <1>3 DEF Grow
<1>5. Category(file, name) # "none" => Category(file, name)' = Category(file, name)
  BY <1>1, <1>2, CategoryStays
<1>6. Category(Target(t)[1], Target(t)[2])' = Category(file, name)'  BY <1>4
<1>7. t[1] \in DOMAIN names' /\ t \in TypesOf(t[1])'  BY TypesStay DEF Grow, Right
<1>8. t \in DOMAIN refs' => refs'[t] \in DOMAIN asts'[t[1]].includes  BY DEF Grow, Right, Alike
<1>9. Category(Target(t)[1], Target(t)[2]) = Category(file, name)  BY <1>2, <1>3
<1>10. t \in aliases' => Category(Target(t)[1], Target(t)[2])' = "typedef"
  BY <1>5, <1>6, <1>9 DEF Right, Alike
<1>11. t \in DOMAIN refs' => Category(Target(t)[1], Target(t)[2])' # "none"
  BY <1>5, <1>6, <1>9 DEF Right, Alike
<1>12. t \in DOMAIN refs' \ aliases' => categories'[t] = Category(Target(t)[1], Target(t)[2])'
  BY <1>5, <1>6, <1>9 DEF Right, Alike
<1> QED  BY <1>4, <1>7, <1>8, <1>10, <1>11, <1>12 DEF Right

LEMMA IncludesStay ==
  ASSUME NEW f, Good(f), f.phase = "includes", NEW file, f.file # file, Within(file),
         asts' = asts, DOMAIN names \subseteq DOMAIN names'
  PROVE  Good(f)'
<1>1. names'[f.file] = names[f.file] /\ f.file \in DOMAIN names'  BY DEF Good, Within
<1>2. Registered(f.file, {})'  BY <1>1 DEF Good, InIncludes, Registered
<1>3. Untouched(f.file)'  BY DEF Good, InIncludes, Untouched, Within
<1>4. InIncludes(f)'  BY <1>2, <1>3 DEF Good, InIncludes, Included
<1> QED  BY <1>1, <1>4 DEF Good

LEMMA StackedOn ==
  ASSUME IInv, Stacked, stack # <<>>, NEW g, g.file = Top.file, Good(g)', stack' = Replaced(g),
         asts' = asts, DOMAIN names \subseteq DOMAIN names', Within(Top.file)
  PROVE  Stacked' /\ Calling' = Calling /\ Top.file \in Calling
<1>2. PICK r : r = stack'  OBVIOUS
<1>1. IsSeq(stack) /\ IsPushed(r, g, Tail(stack))  BY <1>2 DEF IInv, Frames, Replaced, IsPushed
<1>3. /\ DOMAIN r = DOMAIN stack /\ 1 \in DOMAIN stack /\ r[1] = g
      /\ \A n \in DOMAIN stack : n # 1 => r[n] = stack[n]
      /\ Head(stack) = stack[1]
  BY <1>1, TopReplaced
<1>4. \A n \in DOMAIN stack : r[n].file = stack[n].file
  BY <1>3 DEF Top
<1>5. ASSUME NEW n \in DOMAIN r PROVE Good(r[n])' /\ (n # 1 => r[n].phase = "includes")
  <2>1. CASE n = 1  BY <1>3, <2>1
  <2>2. CASE n # 1
    <3>1. PICK f : f = stack[n]  OBVIOUS
    <3>2. Good(f) /\ f.phase = "includes" /\ f = r[n]  BY <1>3, <1>5, <2>2, <3>1 DEF Stacked
    <3>3. PICK file : file = Top.file  OBVIOUS
    <3>4. f.file # file  BY <1>3, <1>5, <2>2, <3>1, <3>3 DEF Stacked, Top
    <3>5. Good(f)'  BY <3>2, <3>3, <3>4, IncludesStay
    <3> QED  BY <3>2, <3>5
  <2> QED  BY <2>1, <2>2
<1>6. \A m, n \in DOMAIN r : r[m].file = r[n].file => m = n  BY <1>3, <1>4 DEF Stacked
<1>7. Stacked'  BY <1>2, <1>5, <1>6 DEF Stacked
<1>8. Calling' = Calling  BY <1>2, <1>3, <1>4 DEF Calling
<1>9. Top.file \in Calling  BY <1>3 DEF Calling, Top
<1> QED  BY <1>7, <1>8, <1>9

LEMMA CompleteStays ==
  ASSUME asts' = asts, NEW file, Complete(file), file \in DOMAIN names', names'[file] = names[file]
  PROVE  Complete(file)'
BY DEF Complete, Registered, Def, Defs

LEMMA FinishedOn ==
  ASSUME Finished, Calling' = Calling, asts' = asts, DOMAIN names' = DOMAIN names,
         NEW file \in Calling, Within(file), DOMAIN categories \subseteq DOMAIN categories'
  PROVE  Finished'
<1> SUFFICES ASSUME NEW e \in DOMAIN names \ Calling
             PROVE  (Handled(e) /\ Complete(e) /\ TypesOf(e) \subseteq DOMAIN categories)'
  BY DEF Finished
<1>1. Handled(e) /\ Complete(e) /\ TypesOf(e) \subseteq DOMAIN categories  BY DEF Finished
<1>2. names'[e] = names[e]  BY DEF Within
<1>3. Complete(e)'  BY <1>1, <1>2, CompleteStays
<1>4. Handled(e)'  BY <1>1 DEF Handled, Included
<1> QED  BY <1>1, <1>3, <1>4, TypesStay

LEMMA SettledOn ==
  ASSUME World, NEW rank \in [AllTypes -> Nat], Settled(rank), asts' = asts,
         \A t \in DOMAIN categories : t \in DOMAIN categories' /\ categories'[t] = categories[t] /\ Alike(t),
         \A t \in aliases' \ DOMAIN categories : categories'[t] = "typedef"
  PROVE  Settled(rank)'
<1> SUFFICES ASSUME NEW t \in aliases', categories'[t] # "typedef"
             PROVE  (/\ TargetType(t) \in DOMAIN categories
                     /\ categories[TargetType(t)] = categories[t] /\ rank[TargetType(t)] < rank[t])'
  BY DEF Settled
<1>1. t \in aliases /\ t \in DOMAIN categories /\ categories'[t] = categories[t]  BY DEF Alike
<1>2. /\ TargetType(t) \in DOMAIN categories
      /\ categories[TargetType(t)] = categories[t] /\ rank[TargetType(t)] < rank[t]
  BY <1>1 DEF Settled
<1>3. TargetType(t)' = TargetType(t)  BY <1>1, TargetStays
<1> QED  BY <1>1, <1>2, <1>3

LEMMA WorldOn ==
  ASSUME World, Ranked, Grow, DOMAIN names' \subseteq DOMAIN asts,
         \A t \in DOMAIN categories : t \in DOMAIN categories' /\ categories'[t] = categories[t] /\ Alike(t),
         \A t \in DOMAIN categories' \ DOMAIN categories : Right(t)' /\ (t \in aliases' => categories'[t] = "typedef"),
         aliases' \subseteq DOMAIN categories',
         \A t \in DOMAIN refs' : t[3] = 0 \/ t \in DOMAIN categories'
  PROVE  World' /\ Ranked'
<1>1. asts' = asts  BY DEF Grow
<1>2. ASSUME NEW t \in DOMAIN categories' PROVE Right(t)'
  <2>1. CASE t \in DOMAIN categories  BY <2>1, RightStays DEF World
  <2> QED  BY <1>2, <2>1
<1>3. World'  BY <1>1, <1>2 DEF World
<1>4. PICK rank \in [AllTypes -> Nat] : Settled(rank)  BY DEF Ranked
<1>5. Settled(rank)'  BY <1>1, <1>4, SettledOn
<1>6. Ranked'  BY <1>1, <1>4, <1>5, TypesStay DEF Ranked
<1> QED  BY <1>3, <1>6
-----------------------------------------------------------------------------

LEMMA MInvOn ==
  ASSUME MInv, IInv', stack # <<>>, NEW g, g.file = Top.file, Good(g)', stack' = Replaced(g),
         Grow, Within(Top.file), DOMAIN names' = DOMAIN names,
         \A t \in DOMAIN categories : t \in DOMAIN categories' /\ categories'[t] = categories[t] /\ Alike(t),
         \A t \in DOMAIN categories' \ DOMAIN categories : Right(t)' /\ (t \in aliases' => categories'[t] = "typedef"),
         aliases' \subseteq DOMAIN categories',
         \A t \in DOMAIN refs' : t[3] = 0 \/ t \in DOMAIN categories'
  PROVE  MInv'
<1>1. asts' = asts /\ DOMAIN names \subseteq DOMAIN asts  BY DEF Grow, MInv, World
<1>2. Stacked' /\ Calling' = Calling /\ Top.file \in Calling  BY <1>1, StackedOn DEF MInv
<1>3. Finished'
  <2>1. PICK file : file = Top.file  OBVIOUS
  <2>2. file \in Calling /\ Within(file)  BY <1>2, <2>1 DEF Within
  <2> QED  BY <1>1, <1>2, <2>2, FinishedOn DEF MInv
<1>4. World' /\ Ranked'  BY <1>1, WorldOn DEF MInv
<1> QED  BY <1>2, <1>3, <1>4 DEF MInv

\* The same, when only names may change.
LEMMA MInvNames ==
  ASSUME MInv, IInv', stack # <<>>, NEW g, g.file = Top.file, Good(g)', stack' = Replaced(g),
         Grow, Within(Top.file), DOMAIN names' = DOMAIN names,
         UNCHANGED <<categories, aliases, refs>>
  PROVE  MInv'
<1>1. \A t : Alike(t)  BY DEF Alike
<1> QED  BY <1>1, MInvOn DEF MInv, World

\* The same, when nothing but the call changes.
LEMMA MInvCall ==
  ASSUME MInv, IInv', stack # <<>>, NEW g, g.file = Top.file, Good(g)', stack' = Replaced(g),
         UNCHANGED <<asts, names, categories, aliases, refs>>
  PROVE  MInv'
<1>1. Grow /\ Within(Top.file)  BY DEF Grow, Within
<1> QED  BY <1>1, MInvNames

LEMMA TopGood ==
  ASSUME MInv, stack # <<>>
  PROVE  /\ IsFrame(Top) /\ Good(Top) /\ Top.file \in DOMAIN names /\ Top.file \in DOMAIN asts
<1>1. 1 \in DOMAIN stack /\ Head(stack) = stack[1]  BY TailSeq DEF MInv, IInv, Frames
<1>2. Good(Top)  BY <1>1 DEF MInv, Stacked, Top
<1> QED  BY <1>2, TopIsFrame DEF MInv, World, Good

\* What the invariant says of a call depends on little.
LEMMA GoodSame ==
  ASSUME NEW f, Good(f), UNCHANGED <<asts, names, categories, aliases, refs>>
  PROVE  Good(f)'
<1>1. \A file, d : Def(file, d)' = Def(file, d)  BY DEF Def
<1>2. \A file : Defs(file)' = Defs(file)  BY DEF Defs
<1>3. \A file : Handled(file)' = Handled(file)  BY DEF Handled, Included
<1>4. \A file, ds : Registered(file, ds)' = Registered(file, ds)  BY <1>1 DEF Registered
<1>5. \A file : Complete(file)' = Complete(file)  BY <1>2, <1>4 DEF Complete
<1>6. \A file : Untouched(file)' = Untouched(file)  BY DEF Untouched
<1>7. \A file : TypesOf(file)' = TypesOf(file)  BY TypesStay
<1>8. \A file : SymbolsOf(file)' = SymbolsOf(file)
  <2>1. ASSUME NEW file, NEW d PROVE Symbols(file, d)' = Symbols(file, d)
    <3>1. Def(file, d)' = Def(file, d)  BY <1>1
    <3> QED  BY <3>1, Zenon DEF Symbols
  <2>2. ASSUME NEW file, NEW d PROVE SymbolsIn(file, d)' = SymbolsIn(file, d)
    <3>1. Symbols(file, d)' = Symbols(file, d)  BY <2>1
    <3> QED  BY <3>1 DEF SymbolsIn
  <2> QED  BY <1>2, <2>2 DEF SymbolsOf
<1>9. \A t : Target(t)' = Target(t)  BY TargetStays DEF Alike
<1>10. \A file, pairs : PairsOf(file, pairs)' = PairsOf(file, pairs)  BY <1>9 DEF PairsOf
<1>11. InIncludes(f)' = InIncludes(f)  BY <1>4, <1>6 DEF InIncludes, Included
<1>12. InNames(f)' = InNames(f)  BY <1>2, <1>3, <1>4, <1>6 DEF InNames
<1>13. InSymbols(f)' = InSymbols(f)  BY <1>3, <1>5, <1>7, <1>8, <1>10 DEF InSymbols
<1>14. InRounds(f)' = InRounds(f)  BY <1>3, <1>5, <1>7, <1>10 DEF InRounds
<1> QED  BY <1>11, <1>12, <1>13, <1>14 DEF Good

\* A call that begins.
LEMMA FrameIs ==
  ASSUME asts \in Documents, NEW file \in DOMAIN asts, NEW f, f = Frame(file)
  PROVE  /\ f.file = file /\ f.phase = "includes" /\ f.typedefs = <<>> /\ f.left = <<>>
         /\ IsSeq(f.todo) /\ Elements(f.todo) = DOMAIN asts[file].includes
<1>1. PICK n : n = Len(asts[file].includes)  OBVIOUS
<1>2. n \in Nat /\ DOMAIN asts[file].includes = 1 .. n  BY <1>1, DocumentIs DEF IsSeq
<1>3. PICK s : s = [i \in DOMAIN asts[file].includes |-> i]  OBVIOUS
<1>4. s \in Seq(1 .. n) /\ Elements(s) = DOMAIN asts[file].includes  BY <1>2, <1>3 DEF Elements
<1>5. IsSeq(s)  BY <1>4, ElementsSeq
<1>6. f.todo = s /\ f.file = file /\ f.phase = "includes" /\ f.typedefs = <<>> /\ f.left = <<>>
  BY <1>3 DEF Frame
<1> QED  BY <1>4, <1>5, <1>6

LEMMA InitMInv == Init => MInv
<1> SUFFICES ASSUME Init PROVE MInv  OBVIOUS
<1>1. IInv  BY InitIInv
<1>2. /\ stack = <<Frame(Root)>> /\ DOMAIN names = {Root} /\ names[Root] = EmptyMap
      /\ DOMAIN categories = {} /\ DOMAIN refs = {} /\ aliases = {} /\ asts \in Documents
  BY DEF Init, EmptyMap
<1>3. DOMAIN stack = {1} /\ stack[1] = Frame(Root)  BY <1>2, OneSeq
<1>4. Root \in DOMAIN asts  BY <1>2, DocumentIs
<1>5. PICK f : f = Frame(Root)  OBVIOUS
<1>6. Good(f)
  <2>1. Registered(Root, {}) /\ Untouched(Root)  BY <1>2 DEF Registered, Untouched, EmptyMap
  <2>2. /\ f.file = Root /\ f.phase = "includes" /\ f.typedefs = <<>> /\ f.left = <<>>
        /\ IsSeq(f.todo) /\ Elements(f.todo) = DOMAIN asts[Root].includes
    BY <1>2, <1>4, <1>5, FrameIs
  <2> QED  BY <1>2, <2>1, <2>2 DEF Good, InIncludes
<1>7. Stacked  BY <1>3, <1>5, <1>6 DEF Stacked
<1>8. Finished  BY <1>2, <1>3 DEF Finished, Calling, Frame
<1>9. World  BY <1>2, <1>4 DEF World
<1>10. Ranked
  <2>1. [t \in AllTypes |-> 0] \in [AllTypes -> Nat]  OBVIOUS
  <2> QED  BY <1>2, <2>1 DEF Ranked, Settled
<1> QED  BY <1>1, <1>7, <1>8, <1>9, <1>10 DEF MInv
-----------------------------------------------------------------------------

\* An include that has been resolved is passed; a new one begins a call.
LEMMA IncludeKeeps == MInv /\ ResolveInclude => MInv'
<1> SUFFICES ASSUME MInv, ResolveInclude PROVE MInv'  OBVIOUS
<1>1. IInv /\ IInv'  BY IncludeStep DEF MInv
<1>2. stack # <<>> /\ Top.phase = "includes" /\ Top.todo # <<>> /\ status = "resolving"
  BY <1>1, InCall DEF ResolveInclude, IsAt
<1>3. IsFrame(Top) /\ Good(Top) /\ Top.file \in DOMAIN asts /\ Top.file \in DOMAIN names
  BY <1>2, TopGood
<1>4. PICK f : f = Top  OBVIOUS
<1>5. PICK g : g = Continue  OBVIOUS
<1>6. PICK i : i = It  OBVIOUS
<1>7. PICK file : file = Included(f.file, i)  OBVIOUS
<1>8. InIncludes(f) /\ f.file \in DOMAIN asts /\ f.file \in DOMAIN names
  BY <1>2, <1>3, <1>4 DEF Good
<1>9. /\ g.file = f.file /\ g.phase = "includes" /\ g.todo = Tail(f.todo)
      /\ g.typedefs = <<>> /\ g.left = <<>>
  BY <1>2, <1>3, <1>4, <1>5, <1>8 DEF Continue, IsFrame, InIncludes
<1>10. /\ IsSeq(g.todo) /\ Elements(f.todo) = Elements(g.todo) \cup {i} /\ i \in Elements(f.todo)
  BY <1>2, <1>4, <1>6, <1>8, <1>9, TailElements DEF InIncludes, It
<1>11. file \in DOMAIN asts
  BY <1>7, <1>8, <1>10, DocumentIs DEF MInv, World, InIncludes
<1>12. UNCHANGED <<asts, categories, aliases, refs, status>>  BY DEF ResolveInclude, symbols
<1>13. CASE file \in DOMAIN names
  <2>1. stack' = Replaced(g) /\ UNCHANGED names
    BY <1>4, <1>5, <1>6, <1>7, <1>13 DEF ResolveInclude
  <2>2. InIncludes(g)  BY <1>7, <1>8, <1>9, <1>10, <1>13 DEF InIncludes
  <2>3. Good(g)  BY <1>8, <1>9, <2>2 DEF Good
  <2>4. Good(g)'  BY <1>12, <2>1, <2>3, GoodSame
  <2> QED  BY <1>1, <1>2, <1>4, <1>9, <1>12, <2>1, <2>4, MInvCall
<1>14. CASE file \notin DOMAIN names
  <2>1. names' = Put(names, file, EmptyMap) /\ stack' = <<Frame(file)>> \o Replaced(g)
    BY <1>4, <1>5, <1>6, <1>7, <1>14 DEF ResolveInclude
  <2>2. /\ DOMAIN names' = DOMAIN names \cup {file} /\ DOMAIN names'[file] = {}
        /\ \A e \in DOMAIN names : names'[e] = names[e] /\ e # file
    BY <1>14, <2>1 DEF Put, EmptyMap
  <2>3. Grow /\ Within(file)  BY <1>12, <2>2 DEF Grow, Within
  <2>4. World' /\ Ranked'
    <3>1. DOMAIN names' \subseteq DOMAIN asts  BY <1>11, <2>2 DEF MInv, World
    <3>2. \A t : Alike(t)  BY <1>12 DEF Alike
    <3> QED  BY <1>12, <2>3, <3>1, <3>2, WorldOn DEF MInv, World
  <2>5. PICK h : h = Frame(file)  OBVIOUS
  <2>6. Good(h)'
    <3>1. /\ h.file = file /\ h.phase = "includes" /\ h.typedefs = <<>> /\ h.left = <<>>
          /\ IsSeq(h.todo) /\ Elements(h.todo) = DOMAIN asts[file].includes
      BY <1>11, <2>5, FrameIs DEF MInv, World
    <3>2. Registered(file, {})'  BY <2>2 DEF Registered
    <3>3. Untouched(file)'  BY <1>12, <1>14 DEF Untouched, MInv, World, Right
    <3>4. InIncludes(h)'  BY <1>12, <3>1, <3>2, <3>3 DEF InIncludes
    <3> QED  BY <2>2, <3>1, <3>4 DEF Good
  <2>7. Good(g)'
    <3>1. Registered(g.file, {})'  BY <1>8, <1>9, <2>2 DEF Registered, InIncludes
    <3>2. Untouched(g.file)'  BY <1>8, <1>9, <1>12 DEF Untouched, InIncludes
    <3>3. \A j \in DOMAIN asts[g.file].includes \ Elements(g.todo) : Included(g.file, j)' \in DOMAIN names'
      BY <1>7, <1>8, <1>9, <1>10, <1>12, <2>2 DEF InIncludes, Included
    <3>4. InIncludes(g)'  BY <1>8, <1>9, <1>10, <1>12, <3>1, <3>2, <3>3 DEF InIncludes
    <3> QED  BY <1>8, <1>9, <2>2, <3>4 DEF Good
  <2>8. PICK b : b = Replaced(g)  OBVIOUS
  <2>9. /\ IsSeq(b) /\ DOMAIN b = DOMAIN stack /\ 1 \in DOMAIN stack /\ DOMAIN stack \subseteq Nat \ {0}
        /\ b[1] = g /\ \A n \in DOMAIN stack : n # 1 => b[n] = stack[n]
        /\ Head(stack) = stack[1]
    <3>1. IsSeq(stack) /\ IsPushed(b, g, Tail(stack))
      BY <1>1, <2>8 DEF IInv, Frames, Replaced, IsPushed
    <3> QED  BY ONLY <1>2, <3>1, TopReplaced
  <2>10. \A n \in DOMAIN b : b[n].file = stack[n].file /\ Good(b[n])' /\ b[n].phase = "includes"
    <3> SUFFICES ASSUME NEW n \in DOMAIN b, n # 1
                 PROVE  b[n].file = stack[n].file /\ Good(b[n])' /\ b[n].phase = "includes"
      BY <1>4, <1>9, <2>7, <2>9 DEF Top
    <3>1. PICK e : e = stack[n]  OBVIOUS
    <3>2. Good(e) /\ e.phase = "includes" /\ e.file # file
      BY <1>14, <2>9, <3>1 DEF MInv, Stacked, Good
    <3>3. Good(e)'  BY <1>12, <2>2, <2>3, <3>2, IncludesStay
    <3> QED  BY <2>9, <3>1, <3>2, <3>3
  <2>11. PICK r : r = stack'  OBVIOUS
  <2>12. /\ DOMAIN r = 1 .. Len(b) + 1 /\ Len(b) \in Nat /\ DOMAIN b = 1 .. Len(b) /\ r[1] = h
         /\ \A n \in DOMAIN b : r[n + 1] = b[n]
    <3>1. IsPushed(r, h, b)  BY <2>1, <2>5, <2>8, <2>11 DEF IsPushed
    <3> QED  BY <2>9, <3>1, PushSeq
  <2>13. h.file = file /\ h.phase = "includes"  BY <2>5 DEF Frame
  <2>14. \A n \in DOMAIN r : n = 1 \/ (n - 1 \in DOMAIN b /\ r[n] = b[n - 1])
    <3> SUFFICES ASSUME NEW n \in DOMAIN r, n # 1 PROVE n - 1 \in DOMAIN b /\ r[n] = b[n - 1]
      OBVIOUS
    <3>1. n - 1 \in DOMAIN b /\ (n - 1) + 1 = n  BY <2>12
    <3> QED  BY <2>12, <3>1
  <2>15. \A n \in DOMAIN b : b[n].file # file  BY <1>14, <2>9, <2>10 DEF MInv, Stacked, Good
  <2>16. Stacked'
    <3>1. \A n \in DOMAIN r : Good(r[n])' /\ r[n].phase = "includes"
      BY <2>6, <2>10, <2>12, <2>13, <2>14
    <3>2. ASSUME NEW m \in DOMAIN r, NEW n \in DOMAIN r, r[m].file = r[n].file PROVE m = n
      <4>1. CASE m = 1 \/ n = 1  BY <2>12, <2>13, <2>14, <2>15, <3>2, <4>1
      <4>2. CASE m # 1 /\ n # 1
        <5>1. m - 1 = n - 1  BY <2>9, <2>10, <2>14, <3>2, <4>2 DEF MInv, Stacked
        <5> QED  BY <2>12, <5>1
      <4> QED  BY <4>1, <4>2
    <3> QED  BY <2>11, <3>1, <3>2 DEF Stacked
  <2>17. Calling \subseteq Calling' /\ file \in Calling'
    <3>1. Calling' = {r[n].file : n \in DOMAIN r}  BY <2>11 DEF Calling
    <3>2. ASSUME NEW n \in DOMAIN stack PROVE stack[n].file \in Calling'
      <4>1. n + 1 \in DOMAIN r /\ r[n + 1] = b[n] /\ b[n].file = stack[n].file
        BY <2>9, <2>10, <2>12
      <4> QED  BY <3>1, <4>1
    <3>3. file \in Calling'  BY <2>12, <2>13, <3>1
    <3> QED  BY <3>2, <3>3 DEF Calling
  <2>18. Finished'
    <3> SUFFICES ASSUME NEW e \in DOMAIN names' \ Calling'
                 PROVE  (Handled(e) /\ Complete(e) /\ TypesOf(e) \subseteq DOMAIN categories)'
      BY DEF Finished
    <3>1. e \in DOMAIN names \ Calling  BY <2>2, <2>17
    <3>2. Handled(e) /\ Complete(e) /\ TypesOf(e) \subseteq DOMAIN categories
      BY <3>1 DEF MInv, Finished
    <3>3. Complete(e)'  BY <1>12, <2>2, <3>1, <3>2, CompleteStays
    <3>4. Handled(e)'  BY <1>12, <2>2, <3>2 DEF Handled, Included
    <3> QED  BY <1>12, <3>2, <3>3, <3>4, TypesStay
  <2> QED  BY <1>1, <2>4, <2>16, <2>18 DEF MInv
<1> QED  BY <1>13, <1>14
-----------------------------------------------------------------------------
\* Facts that most steps begin with.
LEMMA InStep ==
  ASSUME MInv, NEW phase, IsAt(phase)
  PROVE  /\ IInv /\ stack # <<>> /\ Top.phase = phase /\ IsFrame(Top) /\ Good(Top)
         /\ Top.file \in DOMAIN asts /\ Top.file \in DOMAIN names
BY InCall, TopGood DEF MInv

LEMMA StillKeeps ==
  ASSUME MInv, IInv', UNCHANGED <<asts, names, categories, aliases, refs, stack>>
  PROVE  MInv'
<1>1. UNCHANGED <<asts, names, categories, aliases, refs, stack>>  OBVIOUS
<1>2. Grow /\ (\A t : Alike(t)) /\ Calling' = Calling  BY <1>1 DEF Grow, Alike, Calling
<1>3. World' /\ Ranked'  BY <1>1, <1>2, WorldOn DEF MInv, World
<1>4. Stacked'
  <2>1. \A f : Good(f) => Good(f)'  BY <1>1, GoodSame
  <2>2. PICK s : s = stack  OBVIOUS
  <2>3. \A n \in DOMAIN s : Good(s[n])'  BY <2>1, <2>2 DEF MInv, Stacked
  <2> QED  BY <1>1, <2>2, <2>3 DEF MInv, Stacked
<1>5. Finished'
  <2> SUFFICES ASSUME NEW e \in DOMAIN names \ Calling
               PROVE  (Handled(e) /\ Complete(e) /\ TypesOf(e) \subseteq DOMAIN categories)'
    BY <1>1, <1>2 DEF Finished
  <2>1. Handled(e) /\ Complete(e) /\ TypesOf(e) \subseteq DOMAIN categories  BY DEF MInv, Finished
  <2>2. Complete(e)'  BY <1>1, <2>1, CompleteStays
  <2>3. Handled(e)'  BY <1>1, <2>1 DEF Handled, Included
  <2> QED  BY <1>1, <2>1, <2>2, <2>3, TypesStay
<1> QED  BY <1>3, <1>4, <1>5 DEF MInv

LEMMA FailKeepsAll == ASSUME MInv, IInv', Fail, asts' = asts PROVE MInv'
BY StillKeeps DEF Fail, symbols

\* The includes are done: the names come next.
LEMMA RegisterKeeps == MInv /\ RegisterNames => MInv'
<1> SUFFICES ASSUME MInv, RegisterNames PROVE MInv'  OBVIOUS
<1>1. IInv'  BY RegisterStep DEF MInv
<1>2. IsAt("includes") /\ Top.todo = <<>>  BY DEF RegisterNames
<1>3. /\ stack # <<>> /\ Top.phase = "includes" /\ IsFrame(Top) /\ Good(Top)
      /\ Top.file \in DOMAIN asts /\ Top.file \in DOMAIN names
  BY <1>2, InStep
<1>4. PICK f : f = Top  OBVIOUS
<1>5. PICK s : s = [d \in DOMAIN asts[f.file].defs |-> d]  OBVIOUS
<1>6. PICK g : g = [f EXCEPT !.phase = "names", !.todo = s]  OBVIOUS
<1>7. /\ g.file = f.file /\ g.phase = "names" /\ g.todo = s /\ g.typedefs = f.typedefs
      /\ g.left = f.left
  BY <1>3, <1>4, <1>6 DEF IsFrame
<1>8. stack' = Replaced(g) /\ UNCHANGED <<asts, names, categories, aliases, refs>>
  BY <1>4, <1>5, <1>6 DEF RegisterNames, Entering, symbols
<1>9. IsSeq(s) /\ OneEach(s) /\ Elements(s) = Defs(f.file)
  <2>1. PICK n : n = Len(asts[f.file].defs)  OBVIOUS
  <2>2. n \in Nat /\ DOMAIN asts[f.file].defs = 1 .. n  BY <1>3, <1>4, <2>1, DocumentIs DEF IsSeq, MInv, World
  <2>3. s \in Seq(1 .. n)  BY <1>5, <2>2
  <2>4. IsSeq(s)  BY <2>3, ElementsSeq
  <2> QED  BY <1>5, <2>4 DEF OneEach, Elements, Defs
<1>10. InIncludes(f)  BY <1>3, <1>4 DEF Good
<1>11. InNames(g)
  <2>1. Handled(g.file)  BY <1>2, <1>4, <1>7, <1>10, NoElements DEF InIncludes, Handled
  <2>2. Defs(g.file) \ Elements(g.todo) = {}  BY <1>7, <1>9
  <2> QED  BY <1>7, <1>9, <1>10, <2>1, <2>2 DEF InNames, InIncludes
<1>12. Good(g)  BY <1>3, <1>4, <1>7, <1>11 DEF Good
<1>13. Good(g)'  BY <1>8, <1>12, GoodSame
<1> QED  BY <1>1, <1>3, <1>4, <1>7, <1>8, <1>13, MInvCall

\* A name is registered that is new in its IDL.
LEMMA AddNameKeeps == MInv /\ AddName => MInv'
<1> SUFFICES ASSUME MInv, AddName PROVE MInv'  OBVIOUS
<1>1. IInv'  BY AddNameStep DEF MInv
<1>2. IsAt("names") /\ Top.todo # <<>> /\ asts' = asts  BY DEF AddName
<1>3. /\ stack # <<>> /\ Top.phase = "names" /\ IsFrame(Top) /\ Good(Top)
      /\ Top.file \in DOMAIN asts /\ Top.file \in DOMAIN names
  BY <1>2, InStep
<1>4. CASE Fail  BY <1>1, <1>2, <1>4, FailKeepsAll
<1>5. CASE ~Fail
  <2>1. PICK f : f = Top  OBVIOUS
  <2>2. PICK g : g = Continue  OBVIOUS
  <2>3. PICK d : d = It  OBVIOUS
  <2>4. PICK def : def = Def(f.file, d)  OBVIOUS
  <2>5. /\ def.name \notin DOMAIN names[f.file] /\ names' = Named(f.file, def)
        /\ stack' = Replaced(g) /\ UNCHANGED <<categories, aliases, refs>>
    BY <1>5, <2>1, <2>2, <2>3, <2>4 DEF AddName, symbols
  <2>6. InNames(f) /\ f.file \in DOMAIN names  BY <1>3, <2>1 DEF Good
  <2>7. /\ g.file = f.file /\ g.phase = "names" /\ g.todo = Tail(f.todo)
        /\ g.typedefs = <<>> /\ g.left = <<>>
    BY <1>3, <2>1, <2>2, <2>6 DEF Continue, IsFrame, InNames
  <2>8. /\ IsSeq(g.todo) /\ OneEach(g.todo) /\ Elements(f.todo) = Elements(g.todo) \cup {d}
        /\ d \in Elements(f.todo) /\ d \notin Elements(g.todo)
    BY <1>2, <2>1, <2>3, <2>6, <2>7, TailElements DEF InNames, It
  <2>9. /\ DOMAIN names' = DOMAIN names /\ \A e \in DOMAIN names : e # f.file => names'[e] = names[e]
        /\ DOMAIN names'[f.file] = DOMAIN names[f.file] \cup {def.name}
        /\ names'[f.file][def.name] = def.kind
        /\ \A n \in DOMAIN names[f.file] : n # def.name /\ names'[f.file][n] = names[f.file][n]
    BY <2>5, <2>6 DEF Named, Put
  <2>10. Grow /\ Within(f.file)  BY <1>2, <2>5, <2>9 DEF Grow, Within
  <2>17. PICK ds : ds = Defs(f.file) \ Elements(f.todo)  OBVIOUS
  <2>18. PICK es : es = Defs(f.file) \ Elements(g.todo)  OBVIOUS
  <2>11. es = ds \cup {d} /\ d \notin ds /\ d \in Defs(f.file)
    BY <2>6, <2>8, <2>17, <2>18 DEF InNames
  <2>12. Registered(f.file, ds)  BY <2>6, <2>17 DEF InNames
  <2>13. Registered(f.file, es)'
    <3>1. \A e : Def(f.file, e)' = Def(f.file, e)  BY <1>2 DEF Def
    <3>2. \A e \in ds : Def(f.file, e).name \in DOMAIN names[f.file]  BY <2>12 DEF Registered
    <3>3. DOMAIN names'[f.file] = {Def(f.file, e).name : e \in es}
      BY <2>4, <2>9, <2>11, <2>12 DEF Registered
    <3>4. \A e \in es : names'[f.file][Def(f.file, e).name] = Def(f.file, e).kind
      BY <2>4, <2>9, <2>11, <2>12, <3>2 DEF Registered
    <3>5. \A a, b \in es : Def(f.file, a).name = Def(f.file, b).name => a = b
      BY <2>4, <2>5, <2>11, <2>12, <3>2 DEF Registered
    <3> QED  BY <3>1, <3>3, <3>4, <3>5 DEF Registered
  <2>14. InNames(g)'
    <3>1. Handled(g.file)'  BY <1>2, <2>6, <2>7, <2>9 DEF InNames, Handled, Included
    <3>2. Untouched(g.file)'  BY <2>5, <2>6, <2>7 DEF InNames, Untouched
    <3>3. (Defs(g.file) \ Elements(g.todo))' = es  BY <1>2, <2>7, <2>18 DEF Defs
    <3>4. Registered(g.file, Defs(g.file) \ Elements(g.todo))'
      BY <2>7, <2>13, <3>3
    <3>5. Elements(g.todo) \subseteq Defs(g.file)'  BY <1>2, <2>6, <2>7, <2>8 DEF InNames, Defs
    <3> QED  BY <2>7, <2>8, <3>1, <3>2, <3>4, <3>5 DEF InNames
  <2>15. Good(g)'  BY <2>6, <2>7, <2>9, <2>14 DEF Good
  <2>16. Within(Top.file)  BY <2>1, <2>10 DEF Within
  <2> QED  BY <1>1, <1>3, <2>1, <2>5, <2>7, <2>9, <2>10, <2>15, <2>16, MInvNames
<1> QED  BY <1>4, <1>5
-----------------------------------------------------------------------------
(***************************************************************************)
(* What is to be resolved in an IDL.                                       *)
(***************************************************************************)
\* A set of numbers has a smallest one.
LEMMA LeastNumber ==
  ASSUME NEW T, T \subseteq Nat, T # {}
  PROVE  \E k \in T : \A l \in T : k <= l
<1> DEFINE R == OpToRel(<, Nat)
<1>1. \A x, y \in Nat : y < x => <<y, x>> \in R  BY DEF OpToRel
<1>2. IsWellFoundedOn(R, Nat)  BY NatLessThanWellFounded
<1>h. HIDE DEF R
<1>3. PICK k \in T : \A y \in T : ~ (<<y, k>> \in R)  BY <1>2, WFMin
<1>4. \A y \in T : ~ (y < k)  BY <1>1, <1>3
<1> QED  BY <1>3, <1>4

\* One sequence after another.
LEMMA JoinSeq ==
  ASSUME NEW s, IsSeq(s), NEW r, IsSeq(r), NEW j, j = s \o r
  PROVE  /\ IsSeq(j) /\ Elements(j) = Elements(s) \cup Elements(r)
         /\ OneEach(s) /\ OneEach(r) /\ Elements(s) \cap Elements(r) = {} => OneEach(j)
         /\ InOrder(s) /\ InOrder(r) /\ (\A x \in Elements(s), y \in Elements(r) : x.def <= y.def) => InOrder(j)
<1> DEFINE S == Elements(s) \cup Elements(r)
<1>1. s \in Seq(S) /\ r \in Seq(S)  BY DEF IsSeq, Elements
<1>2. /\ j \in Seq(S) /\ Len(j) = Len(s) + Len(r) /\ Len(s) \in Nat /\ Len(r) \in Nat
      /\ \A n \in 1 .. Len(s) : j[n] = s[n]
      /\ \A n \in 1 .. Len(r) : j[Len(s) + n] = r[n]
      /\ DOMAIN j = 1 .. Len(j) /\ DOMAIN s = 1 .. Len(s) /\ DOMAIN r = 1 .. Len(r)
  BY <1>1
<1>3. IsSeq(j)
  <2> HIDE DEF S
  <2> QED  BY <1>2, ElementsSeq
<1> HIDE DEF S
<1>4. \A n \in DOMAIN j : \/ n \in DOMAIN s /\ j[n] = s[n]
                          \/ n \notin DOMAIN s /\ n - Len(s) \in DOMAIN r /\ j[n] = r[n - Len(s)]
  <2> SUFFICES ASSUME NEW n \in DOMAIN j, n \notin DOMAIN s
               PROVE  n - Len(s) \in DOMAIN r /\ j[n] = r[n - Len(s)]
    BY <1>2
  <2>1. n - Len(s) \in DOMAIN r /\ Len(s) + (n - Len(s)) = n  BY <1>2
  <2> QED  BY <1>2, <2>1
<1>5. Elements(j) = Elements(s) \cup Elements(r)
  <2>1. \A x \in Elements(j) : x \in Elements(s) \cup Elements(r)  BY <1>4 DEF Elements
  <2>2. \A n \in DOMAIN s : s[n] \in Elements(j)
    <3>1. \A n \in DOMAIN s : n \in DOMAIN j /\ j[n] = s[n]  BY <1>2
    <3> QED  BY <3>1 DEF Elements
  <2>3. \A n \in DOMAIN r : r[n] \in Elements(j)
    <3>1. \A n \in DOMAIN r : Len(s) + n \in DOMAIN j /\ j[Len(s) + n] = r[n]  BY <1>2
    <3> QED  BY <3>1 DEF Elements
  <2> QED  BY <2>1, <2>2, <2>3 DEF Elements
<1>6. ASSUME OneEach(s), OneEach(r), Elements(s) \cap Elements(r) = {} PROVE OneEach(j)
  <2> SUFFICES ASSUME NEW m \in DOMAIN j, NEW n \in DOMAIN j, j[m] = j[n] PROVE m = n  BY DEF OneEach
  <2>1. CASE m \in DOMAIN s /\ n \in DOMAIN s  BY <1>4, <1>6, <2>1 DEF OneEach
  <2>2. CASE m \notin DOMAIN s /\ n \notin DOMAIN s
    <3>1. m - Len(s) = n - Len(s)  BY <1>4, <1>6, <2>2 DEF OneEach
    <3> QED  BY <1>2, <3>1
  <2>3. CASE (m \in DOMAIN s /\ n \notin DOMAIN s) \/ (m \notin DOMAIN s /\ n \in DOMAIN s)
    BY <1>4, <1>6, <2>3 DEF Elements
  <2> QED  BY <2>1, <2>2, <2>3
<1>7. ASSUME InOrder(s), InOrder(r), \A x \in Elements(s), y \in Elements(r) : x.def <= y.def
      PROVE  InOrder(j)
  <2> SUFFICES ASSUME NEW m \in DOMAIN j, NEW n \in DOMAIN j, m <= n PROVE j[m].def <= j[n].def
    BY DEF InOrder
  <2>1. CASE m \in DOMAIN s /\ n \in DOMAIN s  BY <1>4, <1>7, <2>1 DEF InOrder
  <2>2. CASE m \notin DOMAIN s /\ n \notin DOMAIN s
    <3>1. m - Len(s) <= n - Len(s)  BY <1>2
    <3> QED  BY <1>4, <1>7, <2>2, <3>1 DEF InOrder
  <2>3. CASE m \in DOMAIN s /\ n \notin DOMAIN s  BY <1>4, <1>7, <2>3 DEF Elements
  <2>4. CASE m \notin DOMAIN s /\ n \in DOMAIN s  BY <1>2, <2>4
  <2> QED  BY <2>1, <2>2, <2>3, <2>4
<1> QED  BY <1>3, <1>5, <1>6, <1>7

\* The symbols of one sort.
Sort(what, d, xs) == [k \in DOMAIN xs |-> [what |-> what, def |-> d, k |-> k]]

LEMMA SortFacts ==
  ASSUME NEW what, NEW d, NEW xs, IsSeq(xs), NEW s, s = Sort(what, d, xs)
  PROVE  /\ IsSeq(s) /\ OneEach(s)
         /\ Elements(s) = {[what |-> what, def |-> d, k |-> k] : k \in DOMAIN xs}
<1>1. DOMAIN xs = 1 .. Len(xs) /\ Len(xs) \in Nat  BY DEF IsSeq
<1>2. PICK S : S = {[what |-> what, def |-> d, k |-> k] : k \in DOMAIN xs}  OBVIOUS
<1>3. s \in Seq(S)  BY <1>1, <1>2 DEF Sort
<1>4. IsSeq(s)  BY <1>3, ElementsSeq
<1>5. \A k \in DOMAIN s : s[k].k = k  BY DEF Sort
<1> QED  BY <1>2, <1>4, <1>5 DEF OneEach, Elements, Sort

LEMMA SymbolsFacts ==
  ASSUME asts \in Documents, NEW file \in DOMAIN asts, NEW d \in Defs(file)
  PROVE  /\ IsSeq(Symbols(file, d)) /\ OneEach(Symbols(file, d))
         /\ Elements(Symbols(file, d)) = SymbolsIn(file, d)
         /\ \A x \in SymbolsIn(file, d) :
              /\ x.def = d
              /\ x.what = "type" => x.k \in DOMAIN Def(file, d).types /\ x = SymbolOf(<<file, d, x.k>>)
              /\ x.what = "value" => x.k \in DOMAIN Def(file, d).values
              /\ x.what = "base" => Def(file, d).extends # <<>>
         /\ \A k \in DOMAIN Def(file, d).types : SymbolOf(<<file, d, k>>) \in SymbolsIn(file, d)
         /\ \A k \in DOMAIN Def(file, d).values : [what |-> "value", def |-> d, k |-> k] \in SymbolsIn(file, d)
         /\ Def(file, d).extends # <<>> => [what |-> "base", def |-> d, k |-> 1] \in SymbolsIn(file, d)
<1>1. PICK def : def = Def(file, d)  OBVIOUS
<1>2. PICK es : es = IF def.extends = <<>> THEN <<>> ELSE <<def.extends>>  OBVIOUS
<1>3. PICK a : a = Sort("type", d, def.types)  OBVIOUS
<1>4. PICK b : b = Sort("value", d, def.values)  OBVIOUS
<1>5. PICK c : c = Sort("base", d, es)  OBVIOUS
<1>6. PICK ab : ab = a \o b  OBVIOUS
<1>7. PICK abc : abc = ab \o c  OBVIOUS
<1>8. Symbols(file, d) = abc  BY <1>1, <1>2, <1>3, <1>4, <1>5, <1>6, <1>7, Zenon DEF Symbols, Sort
<1>9. IsSeq(def.types) /\ IsSeq(def.values)  BY <1>1, DocumentIs
<1>10. IsSeq(es)  BY <1>2, EmptySeq, OneSeq
<1>11. /\ IsSeq(a) /\ OneEach(a)
       /\ Elements(a) = {[what |-> "type", def |-> d, k |-> k] : k \in DOMAIN def.types}
  BY <1>3, <1>9, SortFacts
<1>12. /\ IsSeq(b) /\ OneEach(b)
       /\ Elements(b) = {[what |-> "value", def |-> d, k |-> k] : k \in DOMAIN def.values}
  BY <1>4, <1>9, SortFacts
<1>13. /\ IsSeq(c) /\ OneEach(c)
       /\ Elements(c) = {[what |-> "base", def |-> d, k |-> k] : k \in DOMAIN es}
  BY <1>5, <1>10, SortFacts
<1>14. /\ \A x \in Elements(a) : x.what = "type" /\ x.def = d
       /\ \A x \in Elements(b) : x.what = "value" /\ x.def = d
       /\ \A x \in Elements(c) : x.what = "base" /\ x.def = d
  BY <1>11, <1>12, <1>13
<1>15. IsSeq(ab) /\ OneEach(ab) /\ Elements(ab) = Elements(a) \cup Elements(b)
  <2>1. Elements(a) \cap Elements(b) = {}  BY <1>14
  <2> QED  BY <1>6, <1>11, <1>12, <2>1, JoinSeq
<1>16. IsSeq(abc) /\ OneEach(abc) /\ Elements(abc) = Elements(ab) \cup Elements(c)
  <2>1. Elements(ab) \cap Elements(c) = {}  BY <1>14, <1>15
  <2> QED  BY <1>7, <1>13, <1>15, <2>1, JoinSeq
<1>17. SymbolsIn(file, d) = Elements(abc)  BY <1>8 DEF SymbolsIn, Elements
<1>18. ASSUME NEW x \in Elements(abc), x.what = "type"
       PROVE  x.k \in DOMAIN def.types /\ x = SymbolOf(<<file, d, x.k>>)
  <2>1. x \in Elements(a)  BY <1>14, <1>15, <1>16, <1>18
  <2>2. PICK k \in DOMAIN def.types : x = [what |-> "type", def |-> d, k |-> k]  BY <1>11, <2>1
  <2> QED  BY <2>2 DEF SymbolOf
<1>19. \A k \in DOMAIN def.types : SymbolOf(<<file, d, k>>) \in Elements(abc)
  BY <1>11, <1>15, <1>16 DEF SymbolOf
<1>20. ASSUME NEW x \in Elements(abc), x.what = "value" PROVE x.k \in DOMAIN def.values
  <2>1. x \in Elements(b)  BY <1>14, <1>15, <1>16, <1>20
  <2> QED  BY <1>12, <2>1
<1>21. ASSUME NEW x \in Elements(abc), x.what = "base" PROVE def.extends # <<>>
  <2>1. x \in Elements(c)  BY <1>14, <1>15, <1>16, <1>21
  <2>2. es # <<>>  BY <1>13, <2>1
  <2> QED  BY <1>2, <2>2
<1>22. \A k \in DOMAIN def.values : [what |-> "value", def |-> d, k |-> k] \in Elements(abc)
  BY <1>12, <1>15, <1>16
<1>23. def.extends # <<>> => [what |-> "base", def |-> d, k |-> 1] \in Elements(abc)
  <2> SUFFICES ASSUME def.extends # <<>> PROVE [what |-> "base", def |-> d, k |-> 1] \in Elements(abc)
    OBVIOUS
  <2>1. 1 \in DOMAIN es  BY <1>2
  <2> QED  BY <1>13, <1>16, <2>1
<1>24. \A x \in Elements(abc) : x.def = d  BY <1>14, <1>15, <1>16
<1>25. SymbolsIn(file, d) = Elements(Symbols(file, d))  BY <1>8, <1>17
<1>26. IsSeq(Symbols(file, d)) /\ OneEach(Symbols(file, d))  BY <1>8, <1>16
<1> QED  BY <1>1, <1>17, <1>18, <1>19, <1>20, <1>21, <1>22, <1>23, <1>24, <1>25, <1>26

\* The symbols of the first definitions, up to each of them.
Joined(file, n, all) ==
  \A i \in 0 .. n : all[i] = IF i = 0 THEN <<>> ELSE all[i - 1] \o Symbols(file, i)

LEMMA JoinedExists ==
  ASSUME NEW file, NEW n \in Nat
  PROVE  \E all : all = [i \in 0 .. n |-> IF i = 0 THEN <<>> ELSE all[i - 1] \o Symbols(file, i)]
<1> DEFINE To(all, i) == IF i = 0 THEN <<>> ELSE all[i - 1] \o Symbols(file, i)
           P(k) == \E all : \A i \in 0 .. k : all[i] = To(all, i)
           T == {k \in Nat : ~ P(k)}
<1>1. T = {}
  <2> SUFFICES ASSUME T # {} PROVE FALSE  OBVIOUS
  <2>1. PICK k \in T : \A l \in T : k <= l
    <3>1. T \subseteq Nat  OBVIOUS
    <3> HIDE DEF T
    <3> QED  BY <3>1, LeastNumber
  <2>2. k \in Nat  BY <2>1
  <2>3. \E all : k # 0 => \A i \in 0 .. k - 1 : all[i] = To(all, i)
    <3>1. CASE k = 0  BY <3>1
    <3>2. CASE k # 0
      <4>1. k - 1 \in Nat /\ ~ (k <= k - 1)  BY <2>2, <3>2
      <4>2. P(k - 1)  BY <2>1, <4>1
      <4> QED  BY <4>2
    <3> QED  BY <3>1, <3>2
  <2>4. PICK all : k # 0 => \A i \in 0 .. k - 1 : all[i] = To(all, i)  BY <2>3
  <2> DEFINE g == [i \in 0 .. k |-> To(all, i)]
  <2>5. ASSUME NEW i \in 0 .. k PROVE g[i] = To(g, i)
    <3>1. g[i] = To(all, i)  OBVIOUS
    <3>2. CASE i = 0
      <4> HIDE DEF g
      <4> QED  BY <3>1, <3>2
    <3>3. CASE i # 0
      <4> DEFINE j == i - 1
      <4>1. j \in 0 .. k /\ j \in 0 .. k - 1 /\ k # 0  BY <2>2, <3>3
      <4> HIDE DEF j, To
      <4>2. g[j] = To(all, j) /\ all[j] = To(all, j)  BY <2>4, <4>1
      <4>3. g[j] = all[j]  BY <4>2
      <4> HIDE DEF g
      <4> QED  BY <3>1, <3>3, <4>3 DEF To, j
    <3> QED  BY <3>2, <3>3
  <2>6. P(k)
    <3> HIDE DEF g, To
    <3> QED  BY <2>5
  <2> QED  BY <2>1, <2>6
<1>2. PICK all : \A i \in 0 .. n : all[i] = To(all, i)
  <2>1. P(n)  BY <1>1
  <2> QED  BY <2>1
<1> DEFINE h == [i \in 0 .. n |-> all[i]]
<1>3. ASSUME NEW i \in 0 .. n PROVE h[i] = To(h, i)
  <2>1. h[i] = To(all, i)  BY <1>2
  <2>2. i # 0 => h[i - 1] = all[i - 1]
    <3>1. i # 0 => i - 1 \in 0 .. n  OBVIOUS
    <3> QED  BY <3>1
  <2> HIDE DEF h
  <2> QED  BY <2>1, <2>2
<1>4. h = [i \in 0 .. n |-> To(h, i)]
  <2>1. h = [i \in 0 .. n |-> h[i]]  OBVIOUS
  <2> HIDE DEF h, To
  <2>2. [i \in 0 .. n |-> h[i]] = [i \in 0 .. n |-> To(h, i)]  BY <1>3
  <2> QED  BY <2>1, <2>2
<1> HIDE DEF h
<1> QED  BY <1>4

LEMMA WorkIsJoined ==
  ASSUME asts \in Documents, NEW file \in DOMAIN asts, NEW n, n = Len(asts[file].defs)
  PROVE  n \in Nat /\ Defs(file) = 1 .. n /\ \E all : Joined(file, n, all) /\ Work(file) = all[n]
<1>1. n \in Nat /\ Defs(file) = 1 .. n  BY DocumentIs DEF IsSeq, Defs
<1> DEFINE Fits(all) == all = [i \in 0 .. n |-> IF i = 0 THEN <<>> ELSE all[i - 1] \o Symbols(file, i)]
<1>2. \E all : Fits(all)  BY <1>1, JoinedExists
<1>3. PICK all : all = CHOOSE a : Fits(a)  OBVIOUS
<1>4. Fits(all)  BY <1>2, <1>3, Zenon
<1>5. Work(file) = all[n]  BY <1>3 DEF Work
<1>6. Joined(file, n, all)
  <2>1. DOMAIN all = 0 .. n  BY <1>4
  <2> SUFFICES ASSUME NEW i \in 0 .. n PROVE all[i] = IF i = 0 THEN <<>> ELSE all[i - 1] \o Symbols(file, i)
    BY DEF Joined
  <2> QED  BY <1>4
<1> QED  BY <1>1, <1>5, <1>6

\* The work of an IDL is its symbols, each of them once.
LEMMA WorkFacts ==
  ASSUME asts \in Documents, NEW file \in DOMAIN asts
  PROVE  /\ IsSeq(Work(file)) /\ OneEach(Work(file)) /\ Elements(Work(file)) = SymbolsOf(file)
         /\ InOrder(Work(file))
<1>1. PICK n : n = Len(asts[file].defs)  OBVIOUS
<1>2. n \in Nat /\ Defs(file) = 1 .. n  BY <1>1, WorkIsJoined
<1>3. PICK all : Joined(file, n, all) /\ Work(file) = all[n]  BY <1>1, WorkIsJoined
<1> DEFINE Fine(k) == /\ IsSeq(all[k]) /\ OneEach(all[k]) /\ InOrder(all[k])
                      /\ Elements(all[k]) = UNION {SymbolsIn(file, d) : d \in 1 .. k}
           T == {k \in 0 .. n : ~ Fine(k)}
<1>4. T = {}
  <2> SUFFICES ASSUME T # {} PROVE FALSE  OBVIOUS
  <2>1. PICK k \in T : \A l \in T : k <= l
    <3>1. T \subseteq Nat  OBVIOUS
    <3> HIDE DEF T
    <3> QED  BY <3>1, LeastNumber
  <2>2. k \in 0 .. n /\ ~ Fine(k)  BY <2>1
  <2>3. k # 0
    <3>1. k = 0 => all[k] = <<>> /\ 1 .. k = {}  BY <1>3, <2>2 DEF Joined
    <3>2. InOrder(<<>>)  BY DEF InOrder
    <3> QED  BY <2>2, <3>1, <3>2, NoElements
  <2>4. PICK j : j = k - 1  OBVIOUS
  <2>5. j \in 0 .. n /\ ~ (k <= j) /\ k \in 1 .. n /\ 1 .. k = 1 .. j \cup {k} /\ k \notin 1 .. j
    BY <1>2, <2>2, <2>3, <2>4
  <2>6. Fine(j)  BY <2>1, <2>5
  <2>7. PICK s : s = all[j]  OBVIOUS
  <2>8. PICK r : r = Symbols(file, k)  OBVIOUS
  <2>9. all[k] = s \o r  BY <1>3, <2>2, <2>3, <2>4, <2>7, <2>8 DEF Joined
  <2>10. IsSeq(r) /\ OneEach(r) /\ Elements(r) = SymbolsIn(file, k) /\ \A x \in Elements(r) : x.def = k
    <3>1. k \in Defs(file)  BY <1>2, <2>5
    <3>2. /\ IsSeq(Symbols(file, k)) /\ OneEach(Symbols(file, k))
          /\ Elements(Symbols(file, k)) = SymbolsIn(file, k) /\ \A x \in SymbolsIn(file, k) : x.def = k
      BY <3>1, SymbolsFacts
    <3> QED  BY ONLY <2>8, <3>2
  <2>11. IsSeq(s) /\ OneEach(s) /\ InOrder(s) /\ Elements(s) = UNION {SymbolsIn(file, d) : d \in 1 .. j}  BY <2>6, <2>7
  <2>12. \A x \in Elements(s) : x.def \in 1 .. j
    <3>1. \A d \in 1 .. j : d \in Defs(file)  BY <1>2, <2>5
    <3>2. \A d \in 1 .. j : \A x \in SymbolsIn(file, d) : x.def = d  BY <3>1, SymbolsFacts
    <3> QED  BY <2>11, <3>2
  <2>13. Elements(s) \cap Elements(r) = {}  BY <2>5, <2>10, <2>12
  <2>14. PICK b : b = s \o r  OBVIOUS
  <2>15. IsSeq(b) /\ OneEach(b) /\ InOrder(b) /\ Elements(b) = Elements(s) \cup Elements(r)
    <3>1. InOrder(r)
      <4>1. \A m \in DOMAIN r : r[m].def = k  BY <2>10 DEF Elements
      <4> QED  BY <2>5, <4>1 DEF InOrder
    <3>2. \A x \in Elements(s), y \in Elements(r) : x.def <= y.def
      <4>1. \A l \in 1 .. j : l <= k  BY <2>4, <2>5
      <4> QED  BY <2>10, <2>12, <4>1
    <3> QED  BY <2>10, <2>11, <2>13, <2>14, <3>1, <3>2, JoinSeq
  <2>16. UNION {SymbolsIn(file, d) : d \in 1 .. k}
           = (UNION {SymbolsIn(file, d) : d \in 1 .. j}) \cup SymbolsIn(file, k)
    BY <2>5
  <2>17. Fine(k)  BY <2>9, <2>10, <2>11, <2>14, <2>15, <2>16
  <2> QED  BY <2>2, <2>17
<1>5. Fine(n)  BY <1>2, <1>4
<1> QED  BY <1>2, <1>3, <1>5 DEF SymbolsOf

\* The types of an IDL are among its symbols.
LEMMA TypesAreSymbols ==
  ASSUME asts \in Documents, NEW file \in DOMAIN asts
  PROVE  /\ \A t \in TypesOf(file) : SymbolOf(t) \in SymbolsOf(file)
         /\ \A x \in SymbolsOf(file) :
              /\ x.def \in Defs(file)
              /\ x.what = "type" => <<file, x.def, x.k>> \in TypesOf(file) /\ x = SymbolOf(<<file, x.def, x.k>>)
              /\ x.what = "value" => x.k \in DOMAIN Def(file, x.def).values
              /\ x.what = "base" => Def(file, x.def).extends # <<>>
         /\ \A d \in Defs(file) :
              /\ \A k \in DOMAIN Def(file, d).values : [what |-> "value", def |-> d, k |-> k] \in SymbolsOf(file)
              /\ Def(file, d).extends # <<>> => [what |-> "base", def |-> d, k |-> 1] \in SymbolsOf(file)
<1>1. ASSUME NEW t \in TypesOf(file) PROVE SymbolOf(t) \in SymbolsOf(file)
  <2>1. PICK d : d = t[2]  OBVIOUS
  <2>2. PICK k : k = t[3]  OBVIOUS
  <2>3. d \in Defs(file) /\ k \in DOMAIN Def(file, d).types /\ t = <<file, d, k>>
    BY <2>1, <2>2, TypeHasPosition
  <2>4. SymbolOf(<<file, d, k>>) \in SymbolsIn(file, d)  BY <2>3, SymbolsFacts
  <2> QED  BY <2>3, <2>4 DEF SymbolsOf
<1>2. ASSUME NEW x \in SymbolsOf(file)
      PROVE  /\ x.def \in Defs(file)
             /\ x.what = "type" => <<file, x.def, x.k>> \in TypesOf(file) /\ x = SymbolOf(<<file, x.def, x.k>>)
             /\ x.what = "value" => x.k \in DOMAIN Def(file, x.def).values
             /\ x.what = "base" => Def(file, x.def).extends # <<>>
  <2>1. PICK d \in Defs(file) : x \in SymbolsIn(file, d)  BY DEF SymbolsOf
  <2>2. /\ x.def = d
        /\ x.what = "type" => x.k \in DOMAIN Def(file, d).types /\ x = SymbolOf(<<file, d, x.k>>)
        /\ x.what = "value" => x.k \in DOMAIN Def(file, d).values
        /\ x.what = "base" => Def(file, d).extends # <<>>
    <3>1. \A y \in SymbolsIn(file, d) :
            /\ y.def = d
            /\ y.what = "type" => y.k \in DOMAIN Def(file, d).types /\ y = SymbolOf(<<file, d, y.k>>)
            /\ y.what = "value" => y.k \in DOMAIN Def(file, d).values
            /\ y.what = "base" => Def(file, d).extends # <<>>
      BY SymbolsFacts
    <3> QED  BY <2>1, <3>1, Zenon
  <2>3. x.k \in DOMAIN Def(file, d).types => <<file, d, x.k>> \in TypesOf(file)  BY TypeIs
  <2> QED  BY <2>2, <2>3
<1>3. ASSUME NEW d \in Defs(file)
      PROVE  /\ \A k \in DOMAIN Def(file, d).values : [what |-> "value", def |-> d, k |-> k] \in SymbolsOf(file)
             /\ Def(file, d).extends # <<>> => [what |-> "base", def |-> d, k |-> 1] \in SymbolsOf(file)
  <2>1. /\ \A k \in DOMAIN Def(file, d).values : [what |-> "value", def |-> d, k |-> k] \in SymbolsIn(file, d)
        /\ Def(file, d).extends # <<>> => [what |-> "base", def |-> d, k |-> 1] \in SymbolsIn(file, d)
    BY SymbolsFacts
  <2> QED  BY <2>1 DEF SymbolsOf
<1> QED  BY <1>1, <1>2, <1>3

LEMMA ResolveAllKeeps == MInv /\ ResolveAll => MInv'
<1> SUFFICES ASSUME MInv, ResolveAll PROVE MInv'  OBVIOUS
<1>1. IInv'  BY ResolveAllStep DEF MInv
<1>2. IsAt("names") /\ Top.todo = <<>>  BY DEF ResolveAll
<1>3. /\ stack # <<>> /\ Top.phase = "names" /\ IsFrame(Top) /\ Good(Top)
      /\ Top.file \in DOMAIN asts /\ Top.file \in DOMAIN names
  BY <1>2, InStep
<1>4. PICK f : f = Top  OBVIOUS
<1>5. PICK s : s = Work(f.file)  OBVIOUS
<1>6. PICK g : g = [f EXCEPT !.phase = "symbols", !.todo = s]  OBVIOUS
<1>7. /\ g.file = f.file /\ g.phase = "symbols" /\ g.todo = s /\ g.typedefs = f.typedefs
      /\ g.left = f.left
  BY <1>3, <1>4, <1>6 DEF IsFrame
<1>8. stack' = Replaced(g) /\ UNCHANGED <<asts, names, categories, aliases, refs>>
  BY <1>4, <1>5, <1>6 DEF ResolveAll, Entering, symbols
<1>9. /\ IsSeq(s) /\ OneEach(s) /\ Elements(s) = SymbolsOf(f.file)
      /\ \A t \in TypesOf(f.file) : SymbolOf(t) \in SymbolsOf(f.file)
  BY <1>3, <1>4, <1>5, WorkFacts, TypesAreSymbols DEF MInv, World
<1>10. InNames(f)  BY <1>3, <1>4 DEF Good
<1>11. InSymbols(g)
  <2>1. Handled(g.file)  BY <1>7, <1>10 DEF InNames
  <2>2. Defs(f.file) \ Elements(f.todo) = Defs(f.file)  BY <1>2, <1>4, NoElements
  <2>3. Complete(g.file)  BY <1>3, <1>4, <1>7, <1>10, <2>2 DEF InNames, Complete
  <2>4. \A t \in TypesOf(f.file) : t[1] = f.file  BY <1>3, <1>4, TypeHasPosition DEF MInv, World
  <2>5. \A t \in TypesOf(f.file) : t \notin DOMAIN categories  BY <1>10, <2>4 DEF InNames, Untouched
  <2>6. PairsOf(g.file, g.typedefs) /\ g.left = <<>>
    <3>1. g.typedefs = <<>> /\ g.left = <<>>  BY <1>7, <1>10 DEF InNames
    <3> QED  BY <3>1, NoElements DEF PairsOf
  <2> QED  BY <1>7, <1>9, <2>1, <2>3, <2>5, <2>6 DEF InSymbols
<1>12. Good(g)  BY <1>3, <1>4, <1>7, <1>11 DEF Good
<1>13. Good(g)'  BY <1>8, <1>12, GoodSame
<1> QED  BY <1>1, <1>3, <1>4, <1>7, <1>8, <1>13, MInvCall
-----------------------------------------------------------------------------
\* A sequence with one more element at the end.
LEMMA AppendElements ==
  ASSUME NEW s, IsSeq(s), NEW e
  PROVE  IsSeq(Append(s, e)) /\ Elements(Append(s, e)) = Elements(s) \cup {e}
<1> DEFINE S == {s[n] : n \in DOMAIN s} \cup {e}
           r == Append(s, e)
<1>1. s \in Seq(S)  BY DEF IsSeq
<1>2. /\ r \in Seq(S) /\ Len(r) = Len(s) + 1 /\ Len(s) \in Nat
      /\ \A n \in 1 .. Len(s) : r[n] = s[n]
      /\ r[Len(s) + 1] = e
      /\ DOMAIN r = 1 .. Len(r) /\ DOMAIN s = 1 .. Len(s)
  BY <1>1
<1> HIDE DEF r, S
<1>3. Elements(r) = Elements(s) \cup {e}
  <2>1. ASSUME NEW n \in DOMAIN r PROVE r[n] \in Elements(s) \cup {e}
    <3>1. n \in DOMAIN s \/ n = Len(s) + 1  BY <1>2
    <3> QED  BY <1>2, <3>1 DEF Elements
  <2>2. ASSUME NEW n \in DOMAIN s PROVE s[n] \in Elements(r)
    <3>1. n \in DOMAIN r /\ r[n] = s[n]  BY <1>2
    <3> QED  BY <3>1 DEF Elements
  <2>3. e \in Elements(r)
    <3>1. Len(s) + 1 \in DOMAIN r  BY <1>2
    <3> QED  BY <1>2, <3>1 DEF Elements
  <2> QED  BY <2>1, <2>2, <2>3 DEF Elements
<1> QED  BY <1>3, AppendSeq DEF r

LEMMA PairsStay ==
  ASSUME asts' = asts, aliases \subseteq DOMAIN categories, \A t \in DOMAIN categories : Alike(t),
         NEW file, NEW pairs, PairsOf(file, pairs)
  PROVE  PairsOf(file, pairs)'
<1> SUFFICES ASSUME NEW p \in Elements(pairs)
             PROVE  p.type \in aliases' /\ p.type[1] = file /\ Target(p.type)' = <<p.file, p.name>>
  BY DEF PairsOf
<1>1. PICK t : t = p.type  OBVIOUS
<1>2. t \in aliases /\ t[1] = file /\ Target(t) = <<p.file, p.name>>  BY <1>1 DEF PairsOf
<1>3. Alike(t)  BY <1>2
<1>4. Target(t)' = Target(t) /\ t \in aliases'  BY <1>2, <1>3, TargetStays DEF Alike
<1> QED  BY <1>1, <1>2, <1>4

\* A type that is about to be resolved has nothing yet.
LEMMA HereIsNew ==
  ASSUME MInv, Is("type")
  PROVE  /\ Here \in TypesOf(Top.file) /\ Here[1] = Top.file /\ SymbolOf(Here) = It
         /\ Here \notin DOMAIN categories /\ Here \notin aliases /\ Here \notin DOMAIN refs
         /\ IsSeq(TypeName(Here))
<1>1. IsAt("symbols") /\ Top.todo # <<>> /\ It.what = "type"  BY DEF Is
<1>2. /\ Top.phase = "symbols" /\ Good(Top) /\ Top.file \in DOMAIN asts /\ asts \in Documents
  BY <1>1, InStep DEF MInv, World
<1>3. InSymbols(Top)  BY <1>2 DEF Good
<1>4. PICK x : x = It  OBVIOUS
<1>5. PICK file : file = Top.file  OBVIOUS
<1>6. x \in Elements(Top.todo) /\ x \in SymbolsOf(file)
  BY <1>1, <1>3, <1>4, <1>5, TailElements DEF InSymbols, It
<1>7. <<file, x.def, x.k>> \in TypesOf(file) /\ x = SymbolOf(<<file, x.def, x.k>>)
  BY <1>1, <1>2, <1>4, <1>5, <1>6, TypesAreSymbols
<1>8. PICK t : t = Here  OBVIOUS
<1>9. t = <<file, x.def, x.k>>  BY <1>4, <1>5, <1>8 DEF Here
<1>10. t \in TypesOf(file) /\ x = SymbolOf(t)  BY <1>7, <1>9
<1>11. t \notin DOMAIN categories  BY <1>3, <1>5, <1>6, <1>10 DEF InSymbols
<1>12. t[1] = file /\ t[3] # 0 /\ IsSeq(TypeName(t))  BY <1>2, <1>5, <1>10, TypeHasPosition
<1>13. t \notin aliases /\ t \notin DOMAIN refs  BY <1>11, <1>12 DEF MInv, World
<1> QED  BY <1>4, <1>5, <1>8, <1>10, <1>11, <1>12, <1>13

\* A symbol has been resolved.
LEMMA SymbolDone ==
  ASSUME MInv, IsAt("symbols"), Top.todo # <<>>, NEW file, file = Top.file,
         NEW g, g.file = file, g.phase = "symbols",
         g.todo = Tail(Top.todo), g.left = <<>>, UNCHANGED <<asts, names>>,
         PairsOf(file, g.typedefs)',
         DOMAIN categories' = IF It.what = "type" THEN DOMAIN categories \cup {Here} ELSE DOMAIN categories
  PROVE  Good(g)'
<1>1. /\ Top.phase = "symbols" /\ Good(Top) /\ Top.file \in DOMAIN asts /\ Top.file \in DOMAIN names
      /\ asts \in Documents
  BY InStep DEF MInv, World
<1>2. PICK f : f = Top  OBVIOUS
<1>3. InSymbols(f)  BY <1>1, <1>2 DEF Good
<1>4. PICK x : x = It  OBVIOUS
<1>5. file = f.file  BY <1>2
<1>6. /\ IsSeq(g.todo) /\ OneEach(g.todo) /\ Elements(f.todo) = Elements(g.todo) \cup {x}
      /\ x \in Elements(f.todo) /\ x \notin Elements(g.todo)
  BY <1>2, <1>3, <1>4, TailElements DEF InSymbols, It
<1>7. x \in SymbolsOf(file)  BY <1>3, <1>5, <1>6 DEF InSymbols
<1>8. SymbolsOf(file)' = SymbolsOf(file) /\ Handled(file)' = Handled(file) /\ Complete(file)' = Complete(file)
  <2>1. \A d : Symbols(file, d)' = Symbols(file, d)
    <3> SUFFICES ASSUME NEW d PROVE Symbols(file, d)' = Symbols(file, d)  OBVIOUS
    <3>1. Def(file, d)' = Def(file, d)  BY DEF Def
    <3> QED  BY <3>1, Zenon DEF Symbols
  <2>2. \A d : SymbolsIn(file, d)' = SymbolsIn(file, d)  BY <2>1 DEF SymbolsIn
  <2> QED  BY <2>2 DEF SymbolsOf, Defs, Handled, Included, Complete, Registered, Def
<1>9. TypesOf(file)' = TypesOf(file)  BY TypesStay
<1>10. ASSUME NEW t \in TypesOf(file) PROVE t \in DOMAIN categories' <=> SymbolOf(t) \notin Elements(g.todo)
  <2>1. t \in DOMAIN categories <=> SymbolOf(t) \notin Elements(f.todo)  BY <1>3, <1>5 DEF InSymbols
  <2>2. CASE x.what # "type"
    <3>1. SymbolOf(t) # x  BY <2>2 DEF SymbolOf
    <3> QED  BY <1>4, <1>6, <2>1, <2>2, <3>1
  <2>3. CASE x.what = "type"
    <3>1. Here = <<file, x.def, x.k>>  BY <1>2, <1>4, <1>5 DEF Here
    <3>2. t = <<file, t[2], t[3]>>  BY <1>1, <1>2, <1>5, TypeHasPosition
    <3>3. x = SymbolOf(<<file, x.def, x.k>>)  BY <1>1, <1>2, <1>5, <1>7, <2>3, TypesAreSymbols
    <3>4. SymbolOf(t) = x => t[2] = x.def /\ t[3] = x.k  BY DEF SymbolOf
    <3>5. SymbolOf(t) = x <=> t = Here
      <4>1. SymbolOf(t) = x => t = Here  BY <3>1, <3>2, <3>4
      <4>2. t = Here => SymbolOf(t) = x  BY <3>1, <3>3
      <4> QED  BY <4>1, <4>2
    <3> QED  BY <1>4, <1>6, <2>1, <2>3, <3>5
  <2> QED  BY <2>2, <2>3
<1>11. InSymbols(g)'
  <2>1. g.file = file  BY <1>2, <1>5
  <2>2. Handled(file)' /\ Complete(file)'  BY <1>3, <1>5, <1>8 DEF InSymbols
  <2>3. Elements(g.todo) \subseteq SymbolsOf(file)'  BY <1>3, <1>5, <1>6, <1>8 DEF InSymbols
  <2>4. PairsOf(file, g.typedefs)'  OBVIOUS
  <2>5. \A t \in TypesOf(file)' : t \in DOMAIN categories' <=> SymbolOf(t) \notin Elements(g.todo)
    BY <1>9, <1>10
  <2> QED  BY <1>6, <2>1, <2>2, <2>3, <2>4, <2>5 DEF InSymbols
<1> QED  BY <1>1, <1>11 DEF Good

LEMMA ValueKeeps == MInv /\ ResolveConstValue => MInv'
<1> SUFFICES ASSUME MInv, ResolveConstValue PROVE MInv'  OBVIOUS
<1>1. IInv'  BY ValueStep DEF MInv
<1>2. IsAt("symbols") /\ Top.todo # <<>> /\ It.what = "value" /\ asts' = asts
  BY DEF ResolveConstValue, Is
<1>3. CASE Fail  BY <1>1, <1>2, <1>3, FailKeepsAll
<1>4. CASE UNCHANGED <<names, symbols, stack>>  BY <1>1, <1>2, <1>4, StillKeeps DEF symbols
<1>5. CASE stack' = Replaced(Continue) /\ UNCHANGED <<names, categories, aliases, refs>>
  <2>1. PICK g : g = Continue  OBVIOUS
  <2>2. stack # <<>> /\ Top.phase = "symbols" /\ IsFrame(Top) /\ Good(Top)  BY <1>2, InStep
  <2>3. InSymbols(Top)  BY <2>2 DEF Good
  <2>4. /\ g.file = Top.file /\ g.phase = "symbols" /\ g.todo = Tail(Top.todo) /\ g.left = <<>>
        /\ g.typedefs = Top.typedefs
    BY <2>1, <2>2, <2>3 DEF Continue, IsFrame, InSymbols
  <2>5. PICK file : file = Top.file  OBVIOUS
  <2>6. PICK ps : ps = Top.typedefs  OBVIOUS
  <2>7. \A t : Alike(t)  BY <1>5 DEF Alike
  <2>8. PairsOf(file, ps)  BY <2>3, <2>5, <2>6 DEF InSymbols
  <2>9. PairsOf(file, ps)'  BY <1>2, <2>7, <2>8, PairsStay DEF MInv, World
  <2>10. PairsOf(file, g.typedefs)'  BY <2>4, <2>6, <2>9
  <2>11. Good(g)'  BY <1>2, <1>5, <2>4, <2>5, <2>10, SymbolDone
  <2> QED  BY <1>1, <1>2, <1>5, <2>1, <2>2, <2>4, <2>11, MInvCall
<1> QED  BY <1>2, <1>3, <1>4, <1>5 DEF ResolveConstValue, Explained, symbols

\* A service refers to the include of its base.
LEMMA BaseKeeps == MInv /\ ResolveBaseService => MInv'
<1> SUFFICES ASSUME MInv, ResolveBaseService PROVE MInv'  OBVIOUS
<1>1. IInv'  BY BaseStep DEF MInv
<1>2. IsAt("symbols") /\ Top.todo # <<>> /\ It.what = "base" /\ asts' = asts
  BY DEF ResolveBaseService, Is
<1>3. CASE Fail  BY <1>1, <1>2, <1>3, FailKeepsAll
<1>4. CASE ~Fail
  <2>1. PICK g : g = Continue  OBVIOUS
  <2>2. /\ stack # <<>> /\ Top.phase = "symbols" /\ IsFrame(Top) /\ Good(Top) /\ Top.file \in DOMAIN names
        /\ asts \in Documents
    BY <1>2, InStep DEF MInv, World
  <2>3. InSymbols(Top)  BY <2>2 DEF Good
  <2>4. /\ g.file = Top.file /\ g.phase = "symbols" /\ g.todo = Tail(Top.todo) /\ g.left = <<>>
        /\ g.typedefs = Top.typedefs
    BY <2>1, <2>2, <2>3 DEF Continue, IsFrame, InSymbols
  <2>5. PICK file : file = Top.file  OBVIOUS
  <2>6. PICK ps : ps = Top.typedefs  OBVIOUS
  <2>7. PICK at : at = <<file, It.def, 0>>  OBVIOUS
  <2>8. PICK i : Refer(at, i)  BY <1>4, <2>5, <2>7 DEF ResolveBaseService
  <2>9. stack' = Replaced(g) /\ UNCHANGED <<names, categories, aliases>>
    BY <1>4, <2>1 DEF ResolveBaseService
  <2>10. refs' = refs \/ refs' = Put(refs, at, i)  BY <2>8 DEF Refer
  <2>11. at[3] = 0  BY <2>7
  <2>12. ASSUME NEW t \in DOMAIN categories PROVE Alike(t)
    <3>1. t[3] # 0
      <4>1. t \in TypesOf(t[1]) /\ t[1] \in DOMAIN asts  BY DEF MInv, World, Right
      <4> QED  BY <2>2, <4>1, TypeHasPosition
    <3>2. t # at  BY <2>11, <3>1
    <3> QED  BY <2>9, <2>10, <3>2 DEF Alike, Put
  <2>13. \A t \in DOMAIN refs' : t[3] = 0 \/ t \in DOMAIN categories'
    <3> SUFFICES ASSUME NEW t \in DOMAIN refs' PROVE t[3] = 0 \/ t \in DOMAIN categories'  OBVIOUS
    <3>1. t \in DOMAIN refs \/ t = at  BY <2>10 DEF Put
    <3> QED  BY <2>9, <2>11, <3>1 DEF MInv, World
  <2>14. PairsOf(file, ps)  BY <2>3, <2>5, <2>6 DEF InSymbols
  <2>15. PairsOf(file, ps)'  BY <1>2, <2>12, <2>14, PairsStay DEF MInv, World
  <2>16. PairsOf(file, g.typedefs)'  BY <2>4, <2>6, <2>15
  <2>17. Good(g)'  BY <1>2, <2>4, <2>5, <2>9, <2>16, SymbolDone
  <2>18. Grow /\ Within(Top.file)  BY <1>2, <2>9 DEF Grow, Within
  <2>19. aliases' \subseteq DOMAIN categories'  BY <2>9 DEF MInv, World
  <2> QED  BY <1>1, <2>2, <2>4, <2>9, <2>12, <2>13, <2>17, <2>18, <2>19, MInvOn
<1> QED  BY <1>3, <1>4

\* A type has been resolved, with or without a reference.
LEMMA TypeDone ==
  ASSUME MInv, IInv', Is("type"), UNCHANGED <<asts, names>>,
         NEW file, file = Top.file, NEW g, g.file = file, g.phase = "symbols",
         g.todo = Tail(Top.todo), g.left = <<>>, stack' = Replaced(g),
         NEW t, t = Here, NEW c, categories' = Put(categories, t, c), aliases \subseteq aliases',
         aliases' \subseteq aliases \cup {t},
         \/ UNCHANGED refs
         \/ \E i : refs' = Put(refs, t, i),
         Right(t)', t \in aliases' => c = "typedef",
         PairsOf(file, g.typedefs)'
  PROVE  MInv'
<1>1. t = Here  OBVIOUS
<1>2. IsAt("symbols") /\ Top.todo # <<>> /\ It.what = "type"  BY DEF Is
<1>3. /\ t \notin DOMAIN categories /\ t \notin aliases /\ t \notin DOMAIN refs
      /\ t[1] = file
  BY <1>1, HereIsNew
<1>4. /\ stack # <<>> /\ Top.file \in DOMAIN names /\ asts \in Documents
  BY <1>2, InStep DEF MInv, World
<1>5. /\ DOMAIN categories' = DOMAIN categories \cup {t} /\ categories'[t] = c
      /\ \A u \in DOMAIN categories : categories'[u] = categories[u] /\ u # t
  BY <1>1, <1>3 DEF Put
<1>6. \A u : u # t => Alike(u)  BY <1>1 DEF Alike, Put
<1>7. Good(g)'  BY <1>1, <1>2, <1>5, SymbolDone
<1>8. Grow /\ Within(Top.file)  BY <1>3, <1>5 DEF Grow, Within
<1>9. \A u \in DOMAIN categories : u \in DOMAIN categories' /\ categories'[u] = categories[u] /\ Alike(u)
  BY <1>5, <1>6
<1>10. \A u \in DOMAIN refs' : u[3] = 0 \/ u \in DOMAIN categories'
  <2> SUFFICES ASSUME NEW u \in DOMAIN refs' PROVE u[3] = 0 \/ u \in DOMAIN categories'  OBVIOUS
  <2>1. u \in DOMAIN refs \/ u = t  BY <1>1 DEF Put
  <2> QED  BY <1>5, <2>1 DEF MInv, World
<1>11. \A u \in DOMAIN categories' \ DOMAIN categories :
         Right(u)' /\ (u \in aliases' => categories'[u] = "typedef")
  <2> SUFFICES ASSUME NEW u \in DOMAIN categories' \ DOMAIN categories
               PROVE  Right(u)' /\ (u \in aliases' => categories'[u] = "typedef")
    OBVIOUS
  <2>1. u = t  BY <1>5
  <2> QED  BY <1>5, <2>1
<1>12. aliases' \subseteq DOMAIN categories'  BY <1>1, <1>5 DEF MInv, World
<1> QED  BY <1>4, <1>7, <1>8, <1>9, <1>10, <1>11, <1>12, MInvOn

LEMMA TypeKeeps == MInv /\ ResolveType => MInv'
<1> SUFFICES ASSUME MInv, ResolveType PROVE MInv'  OBVIOUS
<1>1. IInv'  BY TypeStep DEF MInv
<1>2. Is("type") /\ IsAt("symbols") /\ Top.todo # <<>> /\ asts' = asts
  BY DEF ResolveType, Is
<1>3. /\ stack # <<>> /\ Top.phase = "symbols" /\ IsFrame(Top) /\ Good(Top) /\ Top.file \in DOMAIN names
      /\ Top.file \in DOMAIN asts /\ asts \in Documents
  BY <1>2, InStep DEF MInv, World
<1>4. InSymbols(Top)  BY <1>3 DEF Good
<1>5. PICK t : t = Here  OBVIOUS
<1>6. PICK file : file = Top.file  OBVIOUS
<1>7. /\ t \in TypesOf(file) /\ t[1] = file /\ t \notin DOMAIN categories /\ t \notin aliases
      /\ t \notin DOMAIN refs /\ IsSeq(TypeName(t))
  BY <1>2, <1>5, <1>6, HereIsNew
<1>8. PICK name : name = TypeName(t)  OBVIOUS
<1>9. PICK cont : cont = Continue  OBVIOUS
<1>10. /\ cont.file = file /\ cont.phase = "symbols" /\ cont.todo = Tail(Top.todo) /\ cont.left = <<>>
       /\ cont.typedefs = Top.typedefs
       /\ DOMAIN cont = {"file", "phase", "todo", "typedefs", "left", "count"}
  BY <1>3, <1>4, <1>6, <1>9 DEF Continue, IsFrame, InSymbols
<1>11. PICK ps : ps = Top.typedefs  OBVIOUS
<1>12. PairsOf(file, ps)  BY <1>4, <1>6, <1>11 DEF InSymbols
<1>13. t \in TypesOf(file)' /\ TypeName(t)' = name /\ file \in DOMAIN names
  BY <1>2, <1>3, <1>6, <1>7, <1>8, TypesStay DEF TypeName, Def
<1>14. CASE Fail  BY <1>1, <1>2, <1>14, FailKeepsAll
<1>15. CASE /\ name \in Builtin /\ categories' = Put(categories, t, name[1])
            /\ stack' = Replaced(cont) /\ UNCHANGED <<names, aliases, refs>>
  <2>1. \A u : Alike(u)  BY <1>15 DEF Alike
  <2>2. PairsOf(file, ps)'  BY <1>2, <1>12, <2>1, PairsStay DEF MInv, World
  <2>3. PairsOf(file, cont.typedefs)'  BY <1>10, <1>11, <2>2
  <2>4. t \notin DOMAIN refs' /\ t \notin aliases'  BY <1>7, <1>15
  <2>5. Target(t)[1]' = file  BY <1>7, <2>4 DEF Target, At, Get
  <2>6. Right(t)'  BY <1>7, <1>13, <1>15, <2>4, <2>5 DEF Right
  <2> QED
    BY <1>1, <1>2, <1>5, <1>6, <1>10, <1>15, <2>3, <2>4, <2>6, TypeDone
<1>16. ASSUME UNCHANGED names, NEW i \in PlacesOf(file, name, TypeLike),
              Found(t, i, At(file, i), Base(name))
       PROVE  MInv'
  <2>1. PICK there : there = At(file, i)  OBVIOUS
  <2>2. PICK base : base = Base(name)  OBVIOUS
  <2>3. PICK c : c = Category(there, base)  OBVIOUS
  <2>4. /\ c \in TypeLike /\ (i = 0 \/ i \in DOMAIN asts[file].includes) /\ there \in DOMAIN names
    <3>1. CASE Len(name) = 1
      <4>1. i = 0 /\ Category(file, name) \in TypeLike  BY <1>16, <3>1 DEF PlacesOf
      <4>2. base = name  BY <1>7, <1>8, <2>2, <3>1 DEF Base, IsSeq
      <4> QED  BY <1>13, <2>1, <2>3, <4>1, <4>2 DEF At
    <3>2. CASE Len(name) # 1
      <4>1. i \in Finding(file, name, TypeLike)  BY <1>16, <3>2 DEF PlacesOf
      <4>2. /\ i \in DOMAIN asts[file].includes /\ Category(Included(file, i), Base(name)) \in TypeLike
        BY <4>1 DEF Finding, IncludesOf
      <4>3. Handled(file)  BY <1>4, <1>6 DEF InSymbols
      <4>4. i # 0
        <5>1. IsSeq(asts[file].includes)  BY <1>3, <1>6, DocumentIs
        <5> QED  BY <4>2, <5>1 DEF IsSeq
      <4>5. there = Included(file, i)  BY <2>1, <4>4 DEF At
      <4> QED  BY <2>2, <2>3, <4>2, <4>3, <4>5 DEF Handled
    <3> QED  BY <3>1, <3>2
  <2>5. c # "none"  BY <2>4 DEF TypeLike
  <2>6. /\ categories' = Put(categories, t, c)
        /\ refs' = IF i = 0 THEN refs ELSE Put(refs, t, i)
    BY <1>16, <2>1, <2>2, <2>3 DEF Found, Refer
  <2>7. Target(t)' = <<there, base>>
    <3>1. Get(refs, t, 0)' = i  BY <1>7, <2>6 DEF Get, Put
    <3>2. At(t[1], i)' = there  BY <1>2, <1>7, <2>1 DEF At, Included
    <3>3. Target(t)' = <<At(t[1], i)', Base(name)>>
      BY <1>13, <3>1 DEF Target, Base
    <3> QED  BY <2>2, <3>2, <3>3
  <2>8. Category(there, base)' = c  BY <1>16, <2>3 DEF Category
  <2>9. \A u : u # t => Alike(u)
    <3>1. aliases' \subseteq aliases \cup {t} /\ aliases \subseteq aliases'  BY <1>16 DEF Found
    <3> QED  BY <2>6, <3>1 DEF Alike, Put
  <2>10. t \in DOMAIN refs' => refs'[t] \in DOMAIN asts'[t[1]].includes
    BY <1>2, <1>7, <2>4, <2>6 DEF Put
  <2>11. t \in aliases' <=> c = "typedef"  BY <1>7, <1>16, <2>1, <2>2, <2>3 DEF Found
  <2>12. categories'[t] = c  BY <2>6 DEF Put
  <2>13. Right(t)'
    <3>1. Target(t)[1]' = there /\ Target(t)[2]' = base  BY <2>7
    <3>2. Category(Target(t)[1], Target(t)[2])' = c  BY <2>8, <3>1
    <3>3. t[1] \in DOMAIN names' /\ t \in TypesOf(t[1])'  BY <1>7, <1>13, <1>16
    <3> QED  BY <1>16, <2>4, <2>5, <2>10, <2>11, <2>12, <3>1, <3>2, <3>3 DEF Right
  <2>14. PairsOf(file, ps)'
    <3>1. \A u \in DOMAIN categories : Alike(u)  BY <1>7, <2>9
    <3> QED  BY <1>2, <1>12, <3>1, PairsStay DEF MInv, World
  <2>15. aliases' \subseteq aliases \cup {t} /\ aliases \subseteq aliases'  BY <1>16 DEF Found
  <2>16. CASE c = "typedef"
    <3>1. PICK p : p = Pair(t, there, base)  OBVIOUS
    <3>2. PICK g : g = WithPair(p)  OBVIOUS
    <3>3. stack' = Replaced(g)  BY <1>16, <2>1, <2>2, <2>3, <2>16, <3>1, <3>2 DEF Found
    <3>4. /\ g.file = file /\ g.phase = "symbols" /\ g.todo = Tail(Top.todo) /\ g.left = <<>>
          /\ g.typedefs = Append(ps, p)
      BY <1>9, <1>10, <1>11, <3>2 DEF WithPair
    <3>5. p.type = t /\ p.file = there /\ p.name = base  BY <3>1 DEF Pair
    <3>6. IsSeq(Append(ps, p)) /\ Elements(Append(ps, p)) = Elements(ps) \cup {p}
      BY <1>12, AppendElements DEF PairsOf
    <3>7. PICK qs : qs = Append(ps, p)  OBVIOUS
    <3>8. p.type \in aliases' /\ p.type[1] = file /\ Target(p.type)' = <<p.file, p.name>>
      BY <1>7, <2>7, <2>11, <2>16, <3>5
    <3>9. PairsOf(file, qs)'  BY <2>14, <3>6, <3>7, <3>8 DEF PairsOf
    <3>10. PairsOf(file, g.typedefs)'  BY <3>4, <3>7, <3>9
    <3> QED
      BY <1>1, <1>2, <1>5, <1>6, <1>16, <2>6, <2>13, <2>15, <2>16, <3>3, <3>4, <3>10, TypeDone
  <2>17. CASE c # "typedef"
    <3>1. stack' = Replaced(cont)  BY <1>9, <1>16, <2>1, <2>2, <2>3, <2>17 DEF Found
    <3>2. PairsOf(file, cont.typedefs)'  BY <1>10, <1>11, <2>14
    <3>3. t \notin aliases'  BY <2>11, <2>17
    <3> QED
      BY <1>1, <1>2, <1>5, <1>6, <1>10, <1>16, <2>6, <2>13, <2>15, <3>1, <3>2, <3>3, TypeDone
  <2> QED  BY <2>16, <2>17
<1> QED
  <2>1. \/ Fail
        \/ name \in Builtin /\ categories' = Put(categories, t, name[1])
             /\ stack' = Replaced(cont) /\ UNCHANGED <<names, aliases, refs>>
        \/ UNCHANGED names /\ \E i \in PlacesOf(file, name, TypeLike) : Found(t, i, At(file, i), Base(name))
    BY <1>5, <1>6, <1>8, <1>9 DEF ResolveType
  <2> QED  BY <1>14, <1>15, <1>16, <2>1
-----------------------------------------------------------------------------
LEMMA TypedefsKeep == MInv /\ ResolveTypedefs => MInv'
<1> SUFFICES ASSUME MInv, ResolveTypedefs PROVE MInv'  OBVIOUS
<1>1. IInv'  BY TypedefsStep DEF MInv
<1>2. IsAt("symbols") /\ Top.todo = <<>>  BY DEF ResolveTypedefs
<1>3. /\ stack # <<>> /\ Top.phase = "symbols" /\ IsFrame(Top) /\ Good(Top) /\ Top.file \in DOMAIN names
  BY <1>2, InStep
<1>4. PICK f : f = Top  OBVIOUS
<1>5. PICK g : g = [f EXCEPT !.phase = "rounds", !.todo = f.typedefs, !.count = Len(f.typedefs)]  OBVIOUS
<1>6. g.file = f.file /\ g.phase = "rounds" /\ g.todo = f.typedefs /\ g.left = f.left
  BY <1>3, <1>4, <1>5 DEF IsFrame
<1>7. stack' = Replaced(g) /\ UNCHANGED <<asts, names, categories, aliases, refs>>
  BY <1>4, <1>5 DEF ResolveTypedefs, symbols
<1>8. InSymbols(f)  BY <1>3, <1>4 DEF Good
<1>9. InRounds(g)
  <2>1. \A t \in TypesOf(f.file) : t \in DOMAIN categories
    BY <1>2, <1>4, <1>8, NoElements DEF InSymbols
  <2>2. PairsOf(f.file, <<>>)  BY NoElements DEF PairsOf
  <2> QED  BY <1>6, <1>8, <2>1, <2>2 DEF InSymbols, InRounds
<1>10. Good(g)'
  <2>1. Good(g)  BY <1>3, <1>4, <1>6, <1>9 DEF Good
  <2> QED  BY <1>7, <2>1, GoodSame
<1> QED  BY <1>1, <1>3, <1>4, <1>6, <1>7, <1>10, MInvCall

LEMMA EndRoundKeeps == MInv /\ EndRound => MInv'
<1> SUFFICES ASSUME MInv, EndRound PROVE MInv'  OBVIOUS
<1>1. IInv'  BY EndRoundStep DEF MInv
<1>2. IsAt("rounds") /\ Top.todo = <<>> /\ asts' = asts  BY DEF EndRound
<1>3. /\ stack # <<>> /\ Top.phase = "rounds" /\ IsFrame(Top) /\ Good(Top) /\ Top.file \in DOMAIN names
  BY <1>2, InStep
<1>4. CASE Fail  BY <1>1, <1>2, <1>4, FailKeepsAll
<1>5. CASE ~Fail
  <2>1. PICK f : f = Top  OBVIOUS
  <2>2. PICK g : g = [f EXCEPT !.todo = f.left, !.left = <<>>, !.count = Len(f.left)]  OBVIOUS
  <2>3. g.file = f.file /\ g.phase = "rounds" /\ g.todo = f.left /\ g.left = <<>>
    BY <1>3, <2>1, <2>2 DEF IsFrame
  <2>4. stack' = Replaced(g) /\ UNCHANGED <<asts, names, categories, aliases, refs>>
    BY <1>5, <2>1, <2>2 DEF EndRound, NextRound, symbols
  <2>5. InRounds(f)  BY <1>3, <2>1 DEF Good
  <2>6. PairsOf(f.file, <<>>)  BY NoElements DEF PairsOf
  <2>7. InRounds(g)  BY <2>3, <2>5, <2>6 DEF InRounds
  <2>8. Good(g)'
    <3>1. Good(g)  BY <1>3, <2>1, <2>3, <2>7 DEF Good
    <3> QED  BY <2>4, <3>1, GoodSame
  <2> QED  BY <1>1, <1>3, <2>1, <2>3, <2>4, <2>8, MInvCall
<1> QED  BY <1>4, <1>5

\* The first definition of a name that is registered.
LEMMA LookupFinds ==
  ASSUME asts \in Documents, NEW file \in DOMAIN asts, Complete(file),
         NEW name, Category(file, name) # "none"
  PROVE  /\ Lookup(file, name) \in Defs(file) /\ Def(file, Lookup(file, name)).name = name
         /\ Def(file, Lookup(file, name)).kind = Category(file, name)
<1> DEFINE ds == {d \in DOMAIN asts[file].defs : Def(file, d).name = name}
<1>1. IsSeq(asts[file].defs)  BY DocumentIs
<1>2. ds \subseteq Nat  BY <1>1 DEF IsSeq
<1>3. name \in DOMAIN names[file] /\ Category(file, name) = names[file][name]  BY DEF Category, Get
<1>4. ds # {}
  <2>1. PICK d \in Defs(file) : Def(file, d).name = name  BY <1>3 DEF Complete, Registered
  <2> QED  BY <2>1 DEF Defs
<1>5. \E d \in ds : \A e \in ds : d <= e
  <2> HIDE DEF ds
  <2> QED  BY <1>2, <1>4, LeastNumber
<1>6. Lookup(file, name) = CHOOSE d \in ds : \A e \in ds : d <= e  BY Zenon DEF Lookup
<1>7. Lookup(file, name) \in ds
  <2> HIDE DEF ds
  <2> QED  BY <1>5, <1>6
<1>8. PICK d : d = Lookup(file, name)  OBVIOUS
<1>9. d \in Defs(file) /\ Def(file, d).name = name  BY <1>7, <1>8 DEF Defs
<1>10. Def(file, d).kind = Category(file, name)  BY <1>3, <1>9 DEF Complete, Registered
<1> QED  BY <1>8, <1>9, <1>10

\* What an alias of the innermost call stands for has a category.
LEMMA TargetHasCategory ==
  ASSUME MInv, IsAt("rounds"), NEW t \in aliases, t[1] = Top.file
  PROVE  TargetType(t) \in DOMAIN categories
<1>1. /\ stack # <<>> /\ Top.phase = "rounds" /\ Good(Top) /\ Top.file \in DOMAIN names
      /\ asts \in Documents
  BY InStep DEF MInv, World
<1>2. InRounds(Top)  BY <1>1 DEF Good
<1>3. PICK there : there = Target(t)[1]  OBVIOUS
<1>4. PICK base : base = Target(t)[2]  OBVIOUS
<1>5. Right(t)  BY DEF MInv, World
<1>6. Category(there, base) = "typedef" /\ there \in DOMAIN names /\ there \in DOMAIN asts
  BY <1>3, <1>4, <1>5 DEF Right, MInv, World
<1>7. Complete(there) /\ TypesOf(there) \subseteq DOMAIN categories
  <2>1. CASE there = Top.file  BY <1>2, <2>1 DEF InRounds
  <2>2. CASE there \notin Calling  BY <1>6, <2>2 DEF MInv, Finished
  <2>3. CASE there # Top.file /\ there \in Calling
    <3>1. PICK n \in DOMAIN stack : there = stack[n].file  BY <2>3 DEF Calling
    <3>2. Head(stack) = stack[1]  BY <1>1, TailSeq DEF MInv, IInv, Frames
    <3>3. n # 1  BY <2>3, <3>1, <3>2 DEF Top
    <3>4. Good(stack[n]) /\ stack[n].phase = "includes"  BY <3>3 DEF MInv, Stacked
    <3>5. Registered(there, {})  BY <3>1, <3>4 DEF Good, InIncludes
    <3>6. base \in DOMAIN names[there]  BY <1>6 DEF Category, Get
    <3> QED  BY <3>5, <3>6 DEF Registered
  <2> QED  BY <2>1, <2>2, <2>3
<1>8. PICK d : d = Lookup(there, base)  OBVIOUS
<1>9. d \in Defs(there) /\ Def(there, d).kind = "typedef"  BY <1>1, <1>6, <1>7, <1>8, LookupFinds
<1>10. 1 \in DOMAIN Def(there, d).types
  <2>1. PICK ts : ts = Def(there, d).types  OBVIOUS
  <2>2. IsSeq(ts) /\ ts # <<>>  BY <1>1, <1>6, <1>9, <2>1, DocumentIs
  <2> QED  BY <2>1, <2>2, TailSeq
<1>11. <<there, d, 1>> \in TypesOf(there)  BY <1>9, <1>10, TypeIs
<1>12. TargetType(t) = <<there, d, 1>>  BY <1>3, <1>4, <1>8 DEF TargetType
<1> QED  BY <1>7, <1>11, <1>12

\* A type gets the category of the typedef that it stands for, and a rank
\* above the one of the typedef's type.
LEMMA TypedefKeeps == MInv /\ ResolveTypedef => MInv'
<1> SUFFICES ASSUME MInv, ResolveTypedef PROVE MInv'  OBVIOUS
<1>1. IInv'  BY TypedefStep DEF MInv
<1>2. /\ IsAt("rounds") /\ Top.todo # <<>>
      /\ UNCHANGED <<asts, names, aliases, refs>>
  BY DEF ResolveTypedef
<1>3. /\ stack # <<>> /\ Top.phase = "rounds" /\ IsFrame(Top) /\ Good(Top) /\ Top.file \in DOMAIN names
  BY <1>2, InStep
<1>4. PICK f : f = Top  OBVIOUS
<1>5. PICK file : file = f.file  OBVIOUS
<1>6. PICK p : p = It  OBVIOUS
<1>7. InRounds(f)  BY <1>3, <1>4 DEF Good
<1>8. PICK rest : rest = Tail(f.todo)  OBVIOUS
<1>9. IsSeq(rest) /\ Elements(f.todo) = Elements(rest) \cup {p}
  BY <1>2, <1>4, <1>6, <1>7, <1>8, TailElements DEF InRounds, PairsOf, It
<1>10. PairsOf(file, rest) /\ PairsOf(file, f.left)
  BY <1>5, <1>7, <1>9 DEF InRounds, PairsOf
<1>11. PICK t : t = p.type  OBVIOUS
<1>12. t \in aliases /\ t[1] = file /\ Target(t) = <<p.file, p.name>>
  BY <1>5, <1>7, <1>9, <1>11 DEF InRounds, PairsOf
<1>13. PICK u : u = TargetType(t)  OBVIOUS
<1>14. u \in DOMAIN categories  BY <1>2, <1>4, <1>5, <1>12, <1>13, TargetHasCategory
<1>15. TypedefCategory(p) = categories[u]  BY <1>12, <1>13 DEF TypedefCategory, TargetType
<1>16. PICK cont : cont = Continue  OBVIOUS
<1>17. /\ cont.file = file /\ cont.phase = "rounds" /\ cont.todo = rest /\ cont.left = f.left
       /\ DOMAIN cont = {"file", "phase", "todo", "typedefs", "left", "count"}
  BY <1>3, <1>4, <1>5, <1>8, <1>16 DEF Continue, IsFrame
<1>18. file \in DOMAIN names  BY <1>3, <1>4, <1>5
<1>19. CASE TypedefCategory(p) = "typedef"
  <2>1. PICK g : g = [cont EXCEPT !.left = Append(@, p)]  OBVIOUS
  <2>2. stack' = Replaced(g) /\ UNCHANGED categories  BY <1>6, <1>16, <1>19, <2>1 DEF ResolveTypedef
  <2>3. g.file = file /\ g.phase = "rounds" /\ g.todo = rest /\ g.left = Append(f.left, p)
    BY <1>17, <2>1
  <2>4. PairsOf(file, g.left)
    <3>1. IsSeq(g.left) /\ Elements(g.left) = Elements(f.left) \cup {p}
      BY <1>10, <2>3, AppendElements DEF PairsOf
    <3> QED  BY <1>10, <1>11, <1>12, <3>1 DEF PairsOf
  <2>5. InRounds(g)  BY <1>5, <1>7, <1>10, <2>3, <2>4 DEF InRounds
  <2>6. Good(g)'
    <3>1. Good(g)  BY <1>18, <2>3, <2>5 DEF Good
    <3> QED  BY <1>2, <2>2, <3>1, GoodSame
  <2> QED  BY <1>1, <1>2, <1>3, <1>4, <1>5, <2>2, <2>3, <2>6, MInvCall
<1>20. CASE TypedefCategory(p) # "typedef"
  <2>1. PICK c : c = categories[u]  OBVIOUS
  <2>2. c # "typedef" /\ stack' = Replaced(cont) /\ categories' = Put(categories, t, c)
    BY <1>6, <1>11, <1>15, <1>16, <1>20, <2>1 DEF ResolveTypedef
  <2>3. t \in DOMAIN categories  BY <1>12 DEF MInv, World
  <2>4. /\ DOMAIN categories' = DOMAIN categories /\ categories'[t] = c
        /\ \A v \in DOMAIN categories : v # t => categories'[v] = categories[v]
    BY <2>2, <2>3 DEF Put
  <2>5. \A v : Alike(v)  BY <1>2 DEF Alike
  <2>6. Grow /\ Within(Top.file) /\ Within(file)  BY <1>2, <2>4 DEF Grow, Within
  <2>7. World'
    <3>1. ASSUME NEW v \in DOMAIN categories PROVE Right(v)'
      <4>1. Right(v)  BY DEF MInv, World
      <4>2. v \in aliases \/ categories'[v] = categories[v]  BY <1>12, <2>4
      <4> QED  BY <2>5, <2>6, <4>1, <4>2, RightStays
    <3> QED  BY <1>2, <2>4, <3>1 DEF MInv, World
  <2>8. Ranked'
    <3>1. PICK rank \in [AllTypes -> Nat] : Settled(rank)  BY DEF MInv, Ranked
    <3>2. AllTypes' = AllTypes  BY <1>2, TypesStay
    <3>3. \A v : TargetType(v)' = TargetType(v)  BY <1>2, <2>5, TargetStays
    <3>4. t \in AllTypes /\ u \in AllTypes
      <4>1. ASSUME NEW v \in DOMAIN categories PROVE v \in AllTypes
        <5>1. v \in TypesOf(v[1]) /\ v[1] \in DOMAIN asts  BY DEF MInv, World, Right
        <5> QED  BY <5>1 DEF AllTypes
      <4> QED  BY <1>14, <2>3, <4>1
    <3>5. CASE categories[t] = "typedef"
      <4>1. PICK rank2 : rank2 = [rank EXCEPT ![t] = rank[u] + 1]  OBVIOUS
      <4>2. /\ rank2 \in [AllTypes -> Nat] /\ rank2[t] = rank[u] + 1
            /\ \A v \in AllTypes : v # t => rank2[v] = rank[v]
        BY <3>4, <4>1
      <4>3. u # t  BY <2>1, <2>2, <3>5
      <4>4. rank2[u] = rank[u] /\ rank[u] \in Nat /\ categories'[u] = c  BY <1>14, <2>1, <2>4, <3>4, <4>2, <4>3
      <4>5. ASSUME NEW v \in aliases, v # t, categories[v] # "typedef"
            PROVE  /\ TargetType(v) \in DOMAIN categories'
                   /\ categories'[TargetType(v)] = categories'[v] /\ rank2[TargetType(v)] < rank2[v]
        <5>1. PICK w : w = TargetType(v)  OBVIOUS
        <5>2. w \in DOMAIN categories /\ categories[w] = categories[v] /\ rank[w] < rank[v]
          BY <3>1, <4>5, <5>1 DEF Settled
        <5>3. w # t /\ v \in DOMAIN categories  BY <3>5, <4>5, <5>2 DEF MInv, World
        <5>4. w \in AllTypes /\ v \in AllTypes
          <6>1. \A x \in DOMAIN categories : x \in TypesOf(x[1]) /\ x[1] \in DOMAIN asts
            BY DEF MInv, World, Right
          <6> QED  BY <5>2, <5>3, <6>1 DEF AllTypes
        <5>5. categories'[w] = categories[w] /\ categories'[v] = categories[v]
          BY <2>4, <4>5, <5>2, <5>3
        <5>6. rank2[w] = rank[w] /\ rank2[v] = rank[v]  BY <4>2, <4>5, <5>3, <5>4
        <5> QED  BY <2>4, <5>1, <5>2, <5>5, <5>6
      <4>6. rank2[u] < rank2[t]  BY <4>2, <4>4
      <4>7. Settled(rank2)'
        <5> SUFFICES ASSUME NEW v \in aliases', categories'[v] # "typedef"
                     PROVE  (/\ TargetType(v) \in DOMAIN categories
                             /\ categories[TargetType(v)] = categories[v] /\ rank2[TargetType(v)] < rank2[v])'
          BY DEF Settled
        <5>1. v \in aliases /\ TargetType(v)' = TargetType(v)  BY <1>2, <3>3
        <5>2. CASE v = t  BY <1>13, <1>14, <2>4, <4>4, <4>6, <5>1, <5>2
        <5>3. CASE v # t
          <6>1. categories[v] # "typedef"  BY <2>4, <5>1, <5>3 DEF MInv, World
          <6> QED  BY <4>5, <5>1, <5>3, <6>1
        <5> QED  BY <5>2, <5>3
      <4> QED  BY <3>2, <4>2, <4>7 DEF Ranked
    <3>6. CASE categories[t] # "typedef"
      <4>1. categories[u] = categories[t]  BY <1>12, <1>13, <3>1, <3>6 DEF Settled
      <4>2. \A v \in DOMAIN categories : categories'[v] = categories[v]  BY <2>1, <2>4, <4>1
      <4>3. Settled(rank)'
        <5>1. \A v \in aliases' : v \in DOMAIN categories  BY <1>2 DEF MInv, World
        <5> QED  BY <1>2, <2>4, <2>5, <3>1, <4>2, <5>1, SettledOn DEF MInv
      <4> QED  BY <3>1, <3>2, <4>3 DEF Ranked
    <3> QED  BY <3>5, <3>6
  <2>9. Good(cont)'
    <3>1. PairsOf(file, rest)' /\ PairsOf(file, f.left)'
      BY <1>2, <1>10, <2>5, PairsStay DEF MInv, World
    <3>2. Handled(file)' /\ Complete(file)'
      <4>1. Handled(file)'  BY <1>2, <1>5, <1>7 DEF InRounds, Handled, Included
      <4>2. Complete(file)'  BY <1>2, <1>5, <1>7, <1>18, CompleteStays DEF InRounds
      <4> QED  BY <4>1, <4>2
    <3>3. TypesOf(file)' \subseteq DOMAIN categories'
      BY <1>2, <1>5, <1>7, <2>4, TypesStay DEF InRounds
    <3>4. InRounds(cont)'  BY <1>17, <3>1, <3>2, <3>3 DEF InRounds
    <3> QED  BY <1>2, <1>17, <1>18, <3>4 DEF Good
  <2>10. Stacked' /\ Calling' = Calling /\ Top.file \in Calling
    BY <1>2, <1>3, <1>4, <1>5, <1>17, <2>2, <2>6, <2>9, StackedOn DEF MInv
  <2>11. Finished'
    <3>1. file \in Calling  BY <1>4, <1>5, <2>10
    <3> QED  BY <1>2, <2>4, <2>6, <2>10, <3>1, FinishedOn DEF MInv
  <2> QED  BY <1>1, <2>7, <2>8, <2>10, <2>11 DEF MInv
<1> QED  BY <1>19, <1>20

\* A call returns: its IDL is finished.
LEMMA ReturnKeeps == MInv /\ Return => MInv'
<1> SUFFICES ASSUME MInv, Return PROVE MInv'  OBVIOUS
<1>1. IInv'  BY ReturnStep DEF MInv
<1>2. /\ IsAt("rounds") /\ stack' = Tail(stack)
      /\ UNCHANGED <<asts, names, categories, aliases, refs>>
  BY DEF Return, symbols
<1>3. /\ stack # <<>> /\ Top.phase = "rounds" /\ Good(Top) /\ Top.file \in DOMAIN names
  BY <1>2, InStep
<1>4. PICK s : s = stack  OBVIOUS
<1>5. PICK r : r = Tail(s)  OBVIOUS
<1>6. IsSeq(s) /\ s # <<>>  BY <1>3, <1>4 DEF MInv, IInv, Frames
<1>7. /\ IsSeq(r) /\ Len(r) = Len(s) - 1 /\ \A n \in DOMAIN r : r[n] = s[n + 1]
      /\ 1 \in DOMAIN s /\ Head(s) = s[1]
  BY <1>5, <1>6, TailSeq
<1>8. Len(s) \in Nat /\ DOMAIN s = 1 .. Len(s) /\ DOMAIN r = 1 .. Len(r)
  BY <1>6, <1>7 DEF IsSeq
<1>9. \A n \in DOMAIN r : n + 1 \in DOMAIN s /\ n + 1 # 1  BY <1>7, <1>8
<1>10. \A n \in DOMAIN s : n = 1 \/ (n - 1 \in DOMAIN r /\ r[n - 1] = s[n])
  <2> SUFFICES ASSUME NEW n \in DOMAIN s, n # 1 PROVE n - 1 \in DOMAIN r /\ r[n - 1] = s[n]  OBVIOUS
  <2>1. n - 1 \in DOMAIN r /\ (n - 1) + 1 = n  BY <1>7, <1>8
  <2> QED  BY <1>7, <2>1
<1>11. stack' = r  BY <1>2, <1>4, <1>5
<1>12. World' /\ Ranked'
  <2>1. Grow /\ \A t : Alike(t)  BY <1>2 DEF Grow, Alike
  <2> QED  BY <1>2, <2>1, WorldOn DEF MInv, World
<1>13. Stacked'
  <2>1. ASSUME NEW n \in DOMAIN r PROVE Good(r[n])' /\ r[n].phase = "includes"
    <3>1. PICK f : f = r[n]  OBVIOUS
    <3>2. Good(f) /\ f.phase = "includes"  BY <1>4, <1>7, <1>9, <3>1 DEF MInv, Stacked
    <3>3. Good(f)'  BY <1>2, <3>2, GoodSame
    <3> QED  BY <3>1, <3>2, <3>3
  <2>2. ASSUME NEW m \in DOMAIN r, NEW n \in DOMAIN r, r[m].file = r[n].file PROVE m = n
    <3>1. m + 1 = n + 1  BY <1>4, <1>7, <1>9, <2>2 DEF MInv, Stacked
    <3> QED  BY <1>8, <3>1
  <2> QED  BY <1>11, <2>1, <2>2 DEF Stacked
<1>14. ASSUME NEW e \in Calling, e # Top.file PROVE e \in Calling'
  <2>1. PICK n \in DOMAIN s : e = s[n].file  BY <1>4 DEF Calling
  <2>2. n # 1  BY <1>4, <1>7, <1>14, <2>1 DEF Top
  <2>3. n - 1 \in DOMAIN r /\ r[n - 1] = s[n]  BY <1>10, <2>2
  <2> QED  BY <1>11, <2>1, <2>3 DEF Calling
<1>15. Finished'
  <2> SUFFICES ASSUME NEW e \in DOMAIN names \ Calling'
               PROVE  (Handled(e) /\ Complete(e) /\ TypesOf(e) \subseteq DOMAIN categories)'
    BY <1>2 DEF Finished
  <2>1. Handled(e) /\ Complete(e) /\ TypesOf(e) \subseteq DOMAIN categories
    <3>1. CASE e = Top.file  BY <1>3, <3>1 DEF Good, InRounds
    <3>2. CASE e # Top.file  BY <1>14, <3>2 DEF MInv, Finished
    <3> QED  BY <3>1, <3>2
  <2>2. Complete(e)'  BY <1>2, <2>1, CompleteStays
  <2>3. Handled(e)'  BY <1>2, <2>1 DEF Handled, Included
  <2> QED  BY <1>2, <2>1, <2>2, <2>3, TypesStay
<1> QED  BY <1>1, <1>12, <1>13, <1>15 DEF MInv

LEMMA NextKeeps == MInv /\ [Next]_vars => MInv'
<1> SUFFICES ASSUME MInv, [Next]_vars PROVE MInv'  OBVIOUS
<1>1. CASE UNCHANGED vars
  <2>1. IInv'  BY <1>1, NextStep DEF MInv
  <2> QED  BY <1>1, <2>1, StillKeeps DEF vars
<1> QED  BY <1>1, IncludeKeeps, RegisterKeeps, AddNameKeeps, ResolveAllKeeps, TypeKeeps, ValueKeeps,
            BaseKeeps, TypedefsKeep, TypedefKeeps, EndRoundKeeps, ReturnKeeps DEF Next
-----------------------------------------------------------------------------
(***************************************************************************)
(* Deref: a call falls in rank, so that there are fewer calls than         *)
(* definitions.                                                            *)
(***************************************************************************)
\* The image of a finite set under a function.
LEMMA ImageIsFinite ==
  ASSUME NEW f, IsFiniteSet(DOMAIN f)
  PROVE  IsFiniteSet({f[x] : x \in DOMAIN f})
<1>1. PICK S : S = DOMAIN f  OBVIOUS
<1>2. PICK T : T = {f[x] : x \in DOMAIN f}  OBVIOUS
<1>3. PICK g : g = [x \in S |-> f[x]]  OBVIOUS
<1>4. g \in Surjection(S, T)  BY <1>1, <1>2, <1>3 DEF Surjection
<1> QED  BY <1>1, <1>2, <1>4, FS_Surjection

LEMMA DefsAreFinite ==
  ASSUME asts \in Documents
  PROVE  IsFiniteSet(Nodes) /\ Cardinality(Nodes) \in Nat /\ Calls = 1 + Cardinality(Nodes)
<1>1. PICK g : g = [f \in DOMAIN asts |-> {<<f, d>> : d \in DOMAIN asts[f].defs}]  OBVIOUS
<1>2. PICK S : S = {g[f] : f \in DOMAIN g}  OBVIOUS
<1>3. IsFiniteSet(S)  BY <1>1, <1>2, DocumentIs, ImageIsFinite
<1>4. ASSUME NEW T \in S PROVE IsFiniteSet(T)
  <2>1. PICK f \in DOMAIN asts : T = {<<f, d>> : d \in DOMAIN asts[f].defs}  BY <1>1, <1>2
  <2>2. PICK n : n = Len(asts[f].defs)  OBVIOUS
  <2>3. n \in Nat /\ DOMAIN asts[f].defs = 1 .. n
    <3>1. IsSeq(asts[f].defs)  BY DocumentIs
    <3> QED  BY <2>2, <3>1 DEF IsSeq
  <2>4. PICK h : h = [d \in 1 .. n |-> <<f, d>>]  OBVIOUS
  <2>5. IsFiniteSet(1 .. n)  BY <2>3, FS_Interval
  <2>6. IsFiniteSet({h[d] : d \in DOMAIN h})  BY <2>4, <2>5, ImageIsFinite
  <2>7. T = {h[d] : d \in DOMAIN h}  BY <2>1, <2>3, <2>4
  <2> QED  BY <2>6, <2>7
<1>5. IsFiniteSet(UNION S)  BY <1>3, <1>4, FS_UNION
<1>6. Nodes = UNION S
  <2>1. S = {{<<f, d>> : d \in DOMAIN asts[f].defs} : f \in DOMAIN asts}  BY <1>1, <1>2
  <2> QED  BY <2>1 DEF Nodes
<1>7. Calls = 1 + Cardinality(Nodes)  BY Zenon DEF Calls
<1> QED  BY <1>5, <1>6, <1>7, FS_CardinalityType

\* One call of Deref, given what the calls in it return.
Call(lower, k, t) ==
  IF k = 0 THEN "lost"
  ELSE IF t \notin DOMAIN refs /\ t \notin aliases THEN categories[t]
  ELSE IF t \notin DOMAIN refs \/ Category(Target(t)[1], Target(t)[2]) = "typedef"
  THEN lower[TargetType(t)]
  ELSE Category(Target(t)[1], Target(t)[2])

LEMMA DerefIsDefined ==
  ASSUME asts \in Documents
  PROVE  \A k \in 0 .. Calls, t \in DOMAIN categories : Deref[k][t] = Call(Deref[k - 1], k, t)
<1>0. PICK n : n = Calls  OBVIOUS
<1>1. n \in Nat  BY <1>0, DefsAreFinite
<1> DEFINE To(F, i) == [t \in DOMAIN categories |-> Call(F[i - 1], i, t)]
           P(k) == \E F : \A i \in 0 .. k : F[i] = To(F, i)
           T == {k \in Nat : ~ P(k)}
           Fits(F) == F = [k \in 0 .. n |-> To(F, k)]
<1>2. \A F, G, i : i = 0 \/ F[i - 1] = G[i - 1] => To(F, i) = To(G, i)
  <2> SUFFICES ASSUME NEW F, NEW G, NEW i, i = 0 \/ F[i - 1] = G[i - 1] PROVE To(F, i) = To(G, i)
    OBVIOUS
  <2>1. \A t : Call(F[i - 1], i, t) = Call(G[i - 1], i, t)  BY DEF Call
  <2> QED  BY <2>1
<1> HIDE DEF To
<1>3. T = {}
  <2> SUFFICES ASSUME T # {} PROVE FALSE  OBVIOUS
  <2>1. PICK k \in T : \A l \in T : k <= l
    <3>1. T \subseteq Nat  OBVIOUS
    <3> HIDE DEF T
    <3> QED  BY <3>1, LeastNumber
  <2>2. k \in Nat  BY <2>1
  <2>3. \E F : k # 0 => \A i \in 0 .. k - 1 : F[i] = To(F, i)
    <3>1. CASE k = 0  BY <3>1
    <3>2. CASE k # 0
      <4>1. k - 1 \in Nat /\ ~ (k <= k - 1)  BY <2>2, <3>2
      <4>2. P(k - 1)  BY <2>1, <4>1
      <4> QED  BY <4>2
    <3> QED  BY <3>1, <3>2
  <2>4. PICK F : k # 0 => \A i \in 0 .. k - 1 : F[i] = To(F, i)  BY <2>3
  <2> DEFINE g == [i \in 0 .. k |-> To(F, i)]
  <2>5. ASSUME NEW i \in 0 .. k PROVE g[i] = To(g, i)
    <3>1. g[i] = To(F, i)  OBVIOUS
    <3>2. i = 0 \/ g[i - 1] = F[i - 1]
      <4> SUFFICES ASSUME i # 0 PROVE g[i - 1] = F[i - 1]  OBVIOUS
      <4>1. PICK j : j = i - 1  OBVIOUS
      <4>2. j \in 0 .. k /\ j \in 0 .. k - 1 /\ k # 0  BY <2>2, <4>1
      <4>3. g[j] = To(F, j) /\ F[j] = To(F, j)  BY <2>4, <4>2
      <4> QED  BY <4>1, <4>3
    <3> QED  BY <1>2, <3>1, <3>2
  <2>6. P(k)
    <3> HIDE DEF g
    <3> QED  BY <2>5
  <2> QED  BY <2>1, <2>6
<1>4. PICK F : \A i \in 0 .. n : F[i] = To(F, i)
  <2>1. P(n)  BY <1>1, <1>3
  <2> QED  BY <2>1
<1> DEFINE h == [i \in 0 .. n |-> F[i]]
<1>5. ASSUME NEW i \in 0 .. n PROVE h[i] = To(h, i)
  <2>1. h[i] = To(F, i)  BY <1>4
  <2>2. i = 0 \/ h[i - 1] = F[i - 1]
    <3>1. i # 0 => i - 1 \in 0 .. n  BY <1>1
    <3> QED  BY <3>1
  <2> QED  BY <1>2, <2>1, <2>2
<1>6. Fits(h)
  <2>1. h = [i \in 0 .. n |-> h[i]]  OBVIOUS
  <2> HIDE DEF h
  <2>2. [i \in 0 .. n |-> h[i]] = [i \in 0 .. n |-> To(h, i)]  BY <1>5
  <2> QED  BY <2>1, <2>2
<1> HIDE DEF h
<1>7. PICK D : D = CHOOSE G : Fits(G)  OBVIOUS
<1>8. Fits(D)  BY <1>6, <1>7
<1>9. Deref = D
  <2>1. Deref = CHOOSE G : G = [k \in 0 .. n |-> [t \in DOMAIN categories |-> Call(G[k - 1], k, t)]]
    BY <1>0, Zenon DEF Deref, Call
  <2> QED  BY <1>7, <2>1 DEF To
<1>10. ASSUME NEW k \in 0 .. n, NEW t \in DOMAIN categories PROVE D[k][t] = Call(D[k - 1], k, t)
  <2>1. D[k] = To(D, k)  BY <1>8
  <2> QED  BY <2>1 DEF To
<1> QED  BY <1>0, <1>9, <1>10

\* The definitions whose type is below a type.
Below(rank, t) == {x \in Nodes : <<x[1], x[2], 1>> \in AllTypes /\ rank[<<x[1], x[2], 1>>] < rank[t]}

LEMMA BelowFalls ==
  ASSUME asts \in Documents, NEW rank \in [AllTypes -> Nat], NEW t \in AllTypes,
         NEW f, NEW d, NEW u, u = <<f, d, 1>>, u \in AllTypes, <<f, d>> \in Nodes, rank[u] < rank[t]
  PROVE  /\ Cardinality(Below(rank, u)) < Cardinality(Below(rank, t))
         /\ Cardinality(Below(rank, u)) \in Nat /\ Cardinality(Below(rank, t)) \in Nat
<1>1. PICK A : A = Below(rank, t)  OBVIOUS
<1>2. PICK B : B = Below(rank, u)  OBVIOUS
<1>3. A \subseteq Nodes /\ B \subseteq Nodes  BY <1>1, <1>2 DEF Below
<1>4. IsFiniteSet(Nodes)  BY DefsAreFinite
<1>5. IsFiniteSet(A) /\ IsFiniteSet(B)  BY ONLY <1>3, <1>4, FS_Subset
<1>6. Cardinality(A) \in Nat /\ Cardinality(B) \in Nat  BY ONLY <1>5, FS_CardinalityType
<1>7. \A x \in AllTypes : rank[x] \in Nat  OBVIOUS
<1>8. B \subseteq A  BY <1>1, <1>2, <1>7 DEF Below
<1>9. <<f, d>> \in A /\ <<f, d>> \notin B  BY <1>1, <1>2, <1>7 DEF Below
<1>10. Cardinality(B) <= Cardinality(A) /\ (Cardinality(A) = Cardinality(B) => A = B)
  BY ONLY <1>5, <1>8, FS_Subset
<1> QED  BY <1>1, <1>2, <1>6, <1>9, <1>10

LEMMA DerefFollows ==
  ASSUME MInv, \A t \in DOMAIN categories : categories[t] # "typedef"
  PROVE  \A t \in DOMAIN categories : Deref[Calls][t] = categories[t]
<1>1. asts \in Documents /\ aliases \subseteq DOMAIN categories  BY DEF MInv, World
<1>2. PICK rank \in [AllTypes -> Nat] : Settled(rank)  BY DEF MInv, Ranked
<1>3. PICK C : C = Calls  OBVIOUS
<1>4. C \in Nat /\ C = 1 + Cardinality(Nodes) /\ Cardinality(Nodes) \in Nat /\ IsFiniteSet(Nodes)
  BY <1>1, <1>3, DefsAreFinite
<1>5. PICK D : D = Deref  OBVIOUS
<1>6. \A k \in 0 .. C, t \in DOMAIN categories : D[k][t] = Call(D[k - 1], k, t)
  BY <1>1, <1>3, <1>5, DerefIsDefined
<1>7. ASSUME NEW t \in DOMAIN categories
      PROVE  t \in AllTypes /\ t \in TypesOf(t[1]) /\ t[1] \in DOMAIN asts
  <2>1. t \in TypesOf(t[1]) /\ t[1] \in DOMAIN asts  BY DEF MInv, World, Right
  <2> QED  BY <2>1 DEF AllTypes
<1> DEFINE m(t) == Cardinality(Below(rank, t))
           Bad == {k \in 0 .. C : \E t \in DOMAIN categories : m(t) < k /\ D[k][t] # categories[t]}
<1>8. Bad = {}
  <2> SUFFICES ASSUME Bad # {} PROVE FALSE  OBVIOUS
  <2>1. PICK k \in Bad : \A l \in Bad : k <= l
    <3>1. Bad \subseteq Nat  OBVIOUS
    <3> HIDE DEF Bad
    <3> QED  BY <3>1, LeastNumber
  <2>2. PICK t \in DOMAIN categories : m(t) < k /\ D[k][t] # categories[t]  BY <2>1
  <2>3. k \in 0 .. C  BY <2>1
  <2>4. m(t) \in Nat
    <3>1. PICK A : A = Below(rank, t)  OBVIOUS
    <3>2. A \subseteq Nodes  BY <3>1 DEF Below
    <3>3. IsFiniteSet(A)  BY ONLY <1>4, <3>2, FS_Subset
    <3>4. Cardinality(A) \in Nat  BY ONLY <3>3, FS_CardinalityType
    <3> QED  BY <3>1, <3>4
  <2>5. k # 0  BY <2>2, <2>3, <2>4
  <2>6. D[k][t] = Call(D[k - 1], k, t)  BY <1>6, <2>3
  <2>7. Right(t)  BY DEF MInv, World
  <2>8. t \in aliases
    <3> SUFFICES ASSUME t \notin aliases PROVE FALSE  OBVIOUS
    <3>1. CASE t \notin DOMAIN refs
      <4>1. Call(D[k - 1], k, t) = categories[t]  BY <2>5, <3>1 DEF Call
      <4> QED  BY <2>2, <2>6, <4>1
    <3>2. CASE t \in DOMAIN refs
      <4>1. categories[t] = Category(Target(t)[1], Target(t)[2])  BY <2>7, <3>2 DEF Right
      <4>2. categories[t] # "typedef"  OBVIOUS
      <4>3. Call(D[k - 1], k, t) = categories[t]  BY <2>5, <3>2, <4>1, <4>2 DEF Call
      <4> QED  BY <2>2, <2>6, <4>3
    <3> QED  BY <3>1, <3>2
  <2>9. PICK u : u = TargetType(t)  OBVIOUS
  <2>10. PICK lower : lower = D[k - 1]  OBVIOUS
  <2>11. D[k][t] = lower[u]
    <3>1. Category(Target(t)[1], Target(t)[2]) = "typedef"  BY <2>7, <2>8 DEF Right
    <3>2. Call(lower, k, t) = lower[TargetType(t)]  BY <2>5, <2>8, <3>1 DEF Call
    <3> QED  BY <2>6, <2>9, <2>10, <3>2
  <2>12. u \in DOMAIN categories /\ categories[u] = categories[t] /\ rank[u] < rank[t]
    <3>1. categories[t] # "typedef"  OBVIOUS
    <3> QED  BY <1>2, <2>8, <2>9, <3>1 DEF Settled
  <2>13. m(u) < m(t) /\ m(u) \in Nat
    <3>1. PICK f : f = Target(t)[1]  OBVIOUS
    <3>2. PICK d : d = Lookup(f, Target(t)[2])  OBVIOUS
    <3>3. u = <<f, d, 1>>  BY <2>9, <3>1, <3>2 DEF TargetType
    <3>4. u[1] = f /\ u[2] = d  BY <3>3
    <3>5. d \in Defs(f) /\ f \in DOMAIN asts  BY <1>1, <1>7, <2>12, <3>4, TypeHasPosition
    <3>6. <<f, d>> \in Nodes  BY <3>5 DEF Nodes, Defs
    <3>7. t \in AllTypes /\ u \in AllTypes  BY <1>7, <2>12
    <3> QED  BY <1>1, <2>12, <3>3, <3>6, <3>7, BelowFalls
  <2>14. k - 1 \in 0 .. C /\ m(u) < k - 1 /\ ~ (k <= k - 1)
    <3> HIDE DEF m
    <3> QED  BY <1>4, <2>2, <2>3, <2>4, <2>5, <2>13
  <2>15. D[k - 1][u] = categories[u]
    <3> HIDE DEF m
    <3>1. k - 1 \notin Bad
      <4> HIDE DEF Bad
      <4> QED  BY <2>1, <2>14
    <3> QED  BY <2>12, <2>14, <3>1
  <2> QED  BY <2>2, <2>10, <2>11, <2>12, <2>15
<1>9. ASSUME NEW t \in DOMAIN categories PROVE m(t) < C
  <2>1. PICK A : A = Below(rank, t)  OBVIOUS
  <2>2. A \subseteq Nodes  BY <2>1 DEF Below
  <2>3. IsFiniteSet(A) /\ Cardinality(A) <= Cardinality(Nodes)  BY ONLY <1>4, <2>2, FS_Subset
  <2>4. Cardinality(A) \in Nat  BY ONLY <2>3, FS_CardinalityType
  <2>5. Cardinality(A) < C  BY ONLY <1>4, <2>3, <2>4
  <2> QED  BY <2>1, <2>5
<1>10. C \in 0 .. C  BY <1>4
<1> QED
  <2> SUFFICES ASSUME NEW t \in DOMAIN categories PROVE D[C][t] = categories[t]  BY <1>3, <1>5
  <2>1. m(t) < C  BY <1>9
  <2> HIDE DEF m
  <2> QED  BY <1>8, <1>10, <2>1

(***************************************************************************)
(* Whatever the IDLs are, the category that a type has in the end is the   *)
(* one of the type that Deref finds for it, and Deref finds it in fewer    *)
(* calls than there are definitions.                                       *)
(***************************************************************************)
THEOREM DerefIsCategory == Spec => []DerefAgrees
<1> DEFINE Empty == status = "resolved" => stack = <<>>
           Concrete == status = "resolved" => \A t \in DOMAIN categories : categories[t] # "typedef"
<1>1. MInv /\ Empty /\ Concrete => DerefAgrees
  <2> SUFFICES ASSUME MInv, Empty, Concrete, status = "resolved",
                      NEW t \in AllTypes, t[1] \in DOMAIN names
               PROVE  Deref[Calls][t] = categories[t]
    BY DEF DerefAgrees
  <2>1. Calling = {}  BY DEF Calling
  <2>2. TypesOf(t[1]) \subseteq DOMAIN categories  BY <2>1 DEF MInv, Finished
  <2>3. t \in TypesOf(t[1])
    <3>1. asts \in Documents  BY DEF MInv, World
    <3>2. PICK file \in DOMAIN asts : t \in TypesOf(file)  BY DEF AllTypes
    <3>3. t[1] = file  BY <3>1, <3>2, TypeHasPosition
    <3> QED  BY <3>2, <3>3
  <2> QED  BY <2>2, <2>3, DerefFollows
<1> QED  BY <1>1, InitMInv, NextKeeps, NoCallsInTheEnd, ResolvedIsConcrete, PTL DEF Spec
-----------------------------------------------------------------------------
(***************************************************************************)
(* Where names are registered, what is found is what is meant.             *)
(***************************************************************************)
\* IDLs that have registered their names, and so have all they include.
Known(F) ==
  /\ F \subseteq DOMAIN asts
  /\ \A f \in F : Complete(f) /\ \A i \in DOMAIN asts[f].includes : Included(f, i) \in F

LEMMA CompleteDefines ==
  ASSUME asts \in Documents, NEW file \in DOMAIN asts, Complete(file),
         NEW name, NEW kinds, "none" \notin kinds
  PROVE  /\ Category(file, name) \in kinds => Defines(file, name, kinds) = {<<file, Lookup(file, name)>>}
         /\ Category(file, name) \in kinds <=> Defines(file, name, kinds) # {}
<1>1. ASSUME NEW e \in Defs(file), Def(file, e).name = name
      PROVE  Category(file, name) = Def(file, e).kind
  BY <1>1 DEF Complete, Registered, Category, Get
<1>2. ASSUME Category(file, name) \in kinds
      PROVE  Defines(file, name, kinds) = {<<file, Lookup(file, name)>>}
  <2>1. PICK d : d = Lookup(file, name)  OBVIOUS
  <2>2. d \in Defs(file) /\ Def(file, d).name = name /\ Def(file, d).kind \in kinds
    BY <1>2, <2>1, LookupFinds
  <2>3. \A e \in Defs(file) : Def(file, e).name = name => e = d
    BY <2>2 DEF Complete, Registered
  <2>4. {e \in DOMAIN asts[file].defs : Def(file, e).name = name /\ Def(file, e).kind \in kinds} = {d}
    BY <2>2, <2>3 DEF Defs
  <2> QED  BY <2>1, <2>4 DEF Defines
<1>3. ASSUME Category(file, name) \notin kinds PROVE Defines(file, name, kinds) = {}
  BY <1>1, <1>3 DEF Defines, Defs
<1>4. Category(file, name) \in kinds => Defines(file, name, kinds) # {}
  <2>1. PICK node : node = <<file, Lookup(file, name)>>  OBVIOUS
  <2>2. Category(file, name) \in kinds => Defines(file, name, kinds) = {node}  BY <1>2, <2>1
  <2> QED  BY <2>2
<1> QED  BY <1>2, <1>3, <1>4

LEMMA DefinesIs ==
  ASSUME NEW file, NEW name, NEW kinds, NEW node
  PROVE  node \in Defines(file, name, kinds) <=>
           \E d \in Defs(file) : node = <<file, d>> /\ Def(file, d).name = name /\ Def(file, d).kind \in kinds
BY DEF Defines, Defs

LEMMA FindingIsHaving ==
  ASSUME asts \in Documents, NEW F, Known(F), NEW file \in F, NEW name, NEW kinds, "none" \notin kinds
  PROVE  /\ Finding(file, name, kinds) = Having(file, name, kinds)
         /\ Having(file, name, kinds) \subseteq DOMAIN asts[file].includes
         /\ DOMAIN asts[file].includes \subseteq Nat \ {0}
<1>1. IsSeq(asts[file].includes)  BY DocumentIs DEF Known
<1>2. ASSUME NEW i \in IncludesOf(file, Prefix(name))
      PROVE  Category(Included(file, i), Base(name)) \in kinds <=> Defines(Included(file, i), Base(name), kinds) # {}
  <2>1. PICK there : there = Included(file, i)  OBVIOUS
  <2>2. there \in F /\ there \in DOMAIN asts /\ Complete(there)  BY <2>1 DEF Known, IncludesOf
  <2>3. PICK base : base = Base(name)  OBVIOUS
  <2>4. Category(there, base) \in kinds <=> Defines(there, base, kinds) # {}
    BY <2>2, CompleteDefines
  <2> QED  BY <2>1, <2>3, <2>4
<1>3. Finding(file, name, kinds) = Having(file, name, kinds)
  <2>1. PICK I : I = IncludesOf(file, Prefix(name))  OBVIOUS
  <2>2. Finding(file, name, kinds) = {i \in I : Category(Included(file, i), Base(name)) \in kinds}
    BY <2>1 DEF Finding
  <2>3. Having(file, name, kinds) = {i \in I : Defines(Included(file, i), Base(name), kinds) # {}}
    BY <2>1 DEF Having
  <2> QED  BY ONLY <1>2, <2>1, <2>2, <2>3
<1>4. DOMAIN asts[file].includes \subseteq Nat \ {0}  BY <1>1 DEF IsSeq
<1> QED  BY <1>3, <1>4 DEF Having, IncludesOf

LEMMA PlacesAreMeant ==
  ASSUME asts \in Documents, NEW F, Known(F), NEW file \in F, NEW name \in Names,
         NEW kinds, "none" \notin kinds
  PROVE  /\ PlacesOf(file, name, kinds) = {} => Meant(file, name, kinds) = {}
         /\ \A i \in PlacesOf(file, name, kinds) :
              /\ i = 0 <=> Len(name) = 1
              /\ i # 0 => i \in DOMAIN asts[file].includes
              /\ Meant(file, name, kinds) = Defines(At(file, i), Base(name), kinds)
              /\ Meant(file, name, kinds) # {}
              /\ Category(At(file, i), Base(name)) \in kinds /\ At(file, i) \in F
<1>1. file \in DOMAIN asts /\ Complete(file)  BY DEF Known
<1>2. CASE Len(name) = 1
  <2>1. Base(name) = name  BY <1>2 DEF Base, Names
  <2>2. PlacesOf(file, name, kinds) = IF Category(file, name) \in kinds THEN {0} ELSE {}
    BY <1>2 DEF PlacesOf
  <2>3. Meant(file, name, kinds) = Defines(file, name, kinds)  BY <1>2 DEF Meant
  <2>4. At(file, 0) = file  BY DEF At
  <2>5. CASE Category(file, name) \in kinds
    <3>1. Defines(file, name, kinds) # {}  BY <1>1, <2>5, CompleteDefines
    <3>2. PlacesOf(file, name, kinds) = {0}  BY <2>2, <2>5
    <3>3. At(file, 0) \in F /\ Category(At(file, 0), Base(name)) \in kinds
          /\ Meant(file, name, kinds) = Defines(At(file, 0), Base(name), kinds)
      BY <2>1, <2>3, <2>4, <2>5
    <3> QED  BY <1>2, <2>3, <3>1, <3>2, <3>3
  <2>6. CASE Category(file, name) \notin kinds
    <3>1. Defines(file, name, kinds) = {}  BY <1>1, <2>6, CompleteDefines
    <3>2. PlacesOf(file, name, kinds) = {}  BY <2>2, <2>6
    <3> QED  BY <2>3, <3>1, <3>2
  <2> QED  BY <2>5, <2>6
<1>3. CASE Len(name) # 1
  <2>1. PICK H : H = Having(file, name, kinds)  OBVIOUS
  <2>2. /\ Finding(file, name, kinds) = H /\ H \subseteq DOMAIN asts[file].includes /\ H \subseteq Nat \ {0}
        /\ DOMAIN asts[file].includes \subseteq Nat \ {0}
    BY <2>1, FindingIsHaving
  <2>3. PICK L : L = {i \in H : \A j \in H : i <= j}  OBVIOUS
  <2>4. PlacesOf(file, name, kinds) = L  BY <1>3, <2>2, <2>3 DEF PlacesOf
  <2>5. Meant(file, name, kinds) = UNION {Defines(Included(file, i), Base(name), kinds) : i \in L}
    BY <1>3, <2>1, <2>3 DEF Meant
  <2>6. ASSUME NEW i \in L
        PROVE  /\ i # 0 /\ i \in DOMAIN asts[file].includes
               /\ Meant(file, name, kinds) = Defines(At(file, i), Base(name), kinds)
               /\ Meant(file, name, kinds) # {}
               /\ Category(At(file, i), Base(name)) \in kinds /\ At(file, i) \in F
    <3>1. i \in H /\ \A j \in L : j = i
      <4>1. \A j \in H : j \in Nat  BY <2>2
      <4> QED  BY <2>3, <4>1
    <3>2. L = {i}  BY <3>1
    <3>3. Meant(file, name, kinds) = Defines(Included(file, i), Base(name), kinds)  BY <2>5, <3>2
    <3>4. Defines(Included(file, i), Base(name), kinds) # {}  BY <2>1, <3>1 DEF Having
    <3>5. i # 0 /\ i \in DOMAIN asts[file].includes  BY <2>2, <3>1
    <3>6. At(file, i) = Included(file, i)  BY <3>5 DEF At
    <3>7. Category(Included(file, i), Base(name)) \in kinds  BY <2>2, <3>1 DEF Finding
    <3>8. Included(file, i) \in F  BY <3>5 DEF Known
    <3> QED  BY <3>3, <3>4, <3>5, <3>6, <3>7, <3>8
  <2> QED  BY <1>3, <2>4, <2>5, <2>6
<1> QED  BY <1>2, <1>3
-----------------------------------------------------------------------------
(***************************************************************************)
(* What typedefs stand for.                                                *)
(***************************************************************************)
LEMMA StandsForIs ==
  ASSUME NEW node, NEW value
  PROVE  StandsFor(node, value) <=>
           \/ node \in EnumsWith(value)
           \/ node \in Typedefs /\ \E next \in Follows(node) : StandsFor(next, value)
<1> DEFINE W == EnumsWith(value)
           Closed(S) == \A x \in Typedefs : Follows(x) \cap (S \cup W) # {} => x \in S
           T == {x \in Typedefs : StandsFor(x, value)}
           U == {x \in Typedefs : Follows(x) \cap (T \cup W) # {}}
<1>1. \A x : StandsFor(x, value) <=> \A S \in SUBSET Typedefs : Closed(S) => x \in S \cup W
  BY DEF StandsFor
<1> HIDE DEF W
<1>2. ASSUME NEW x \in Typedefs, Follows(x) \cap (T \cup W) # {} PROVE StandsFor(x, value)
  <2> SUFFICES ASSUME NEW S \in SUBSET Typedefs, Closed(S) PROVE x \in S  BY <1>1
  <2>1. T \subseteq S \cup W  BY <1>1
  <2>2. Follows(x) \cap (S \cup W) # {}  BY <1>2, <2>1
  <2> QED  BY <2>2
<1>3. U \subseteq T  BY <1>2
<1>4. Closed(U)
  <2> SUFFICES ASSUME NEW x \in Typedefs, Follows(x) \cap (U \cup W) # {} PROVE x \in U  OBVIOUS
  <2>1. Follows(x) \cap (T \cup W) # {}  BY <1>3
  <2> QED  BY <2>1
<1>5. ASSUME StandsFor(node, value) PROVE node \in U \cup W
  <2>1. U \in SUBSET Typedefs  OBVIOUS
  <2> HIDE DEF U
  <2> QED  BY <1>1, <1>4, <1>5, <2>1
<1>6. \A x \in W : StandsFor(x, value)  BY <1>1
<1>7. ASSUME NEW x, StandsFor(x, value) PROVE x \in T \cup W
  <2>1. \A S \in SUBSET Typedefs : Closed(S) => x \in S \cup W  BY <1>1, <1>7
  <2>2. U \in SUBSET Typedefs  OBVIOUS
  <2>3. x \in U \cup W
    <3> HIDE DEF U
    <3> QED  BY <1>4, <2>1, <2>2
  <2> QED  BY <1>3, <2>3
<1>8. ASSUME node \in Typedefs, NEW next \in Follows(node), StandsFor(next, value)
      PROVE  StandsFor(node, value)
  <2>1. next \in T \cup W  BY <1>7, <1>8
  <2> QED  BY <1>2, <1>8, <2>1
<1>9. ASSUME StandsFor(node, value), node \notin W
      PROVE  node \in Typedefs /\ \E next \in Follows(node) : StandsFor(next, value)
  <2>1. node \in U  BY <1>5, <1>9
  <2>2. PICK next \in Follows(node) : next \in T \cup W  BY <2>1
  <2>3. StandsFor(next, value)  BY <1>6, <2>2
  <2> QED  BY <2>1, <2>2, <2>3
<1> QED  BY <1>6, <1>8, <1>9 DEF W
-----------------------------------------------------------------------------
(***************************************************************************)
(* getEnum: the enum it finds is the one that the name stands for.         *)
(***************************************************************************)
\* One call of getEnum, given what the calls in it return.
EnumCall(lower, k, at) ==
  LET file  == at[1]
      d     == Lookup(file, at[2])
      t     == <<file, d, 1>>
      i     == Get(refs, t, 0)
      there == IF i = 0 THEN NoEnum ELSE lower[<<Included(file, i), Base(TypeName(t))>>]
  IN  IF k = 0 THEN Lost
      ELSE IF Category(file, at[2]) = "enum"
      THEN [answer |-> "yes", members |-> Def(file, d).members, index |-> 0]
      ELSE IF Category(file, at[2]) # "typedef" THEN NoEnum
      ELSE IF there.answer = "no" THEN lower[<<file, TypeName(t)>>]
      ELSE [there EXCEPT !.index = i]

LEMMA GetEnumIsDefined ==
  ASSUME asts \in Documents
  PROVE  \A k \in 0 .. Calls : \A at \in (DOMAIN asts) \X Seq(STRING) :
           GetEnum[k][at] = EnumCall(GetEnum[k - 1], k, at)
<1>0. PICK n : n = Calls  OBVIOUS
<1>1. n \in Nat  BY <1>0, DefsAreFinite
<1> DEFINE To(F, i) == [at \in (DOMAIN asts) \X Seq(STRING) |-> EnumCall(F[i - 1], i, at)]
           P(k) == \E F : \A i \in 0 .. k : F[i] = To(F, i)
           T == {k \in Nat : ~ P(k)}
           Fits(F) == F = [k \in 0 .. n |-> To(F, k)]
<1>2. \A F, G, i : i = 0 \/ F[i - 1] = G[i - 1] => To(F, i) = To(G, i)
  <2> SUFFICES ASSUME NEW F, NEW G, NEW i, i = 0 \/ F[i - 1] = G[i - 1] PROVE To(F, i) = To(G, i)
    OBVIOUS
  <2>1. \A at : EnumCall(F[i - 1], i, at) = EnumCall(G[i - 1], i, at)
    <3>1. CASE i = 0  BY <3>1 DEF EnumCall
    <3>2. CASE F[i - 1] = G[i - 1]  BY <3>2
    <3> QED  BY <3>1, <3>2
  <2> QED  BY <2>1
<1> HIDE DEF To
<1>3. T = {}
  <2> SUFFICES ASSUME T # {} PROVE FALSE  OBVIOUS
  <2>1. PICK k \in T : \A l \in T : k <= l
    <3>1. T \subseteq Nat  OBVIOUS
    <3> HIDE DEF T
    <3> QED  BY <3>1, LeastNumber
  <2>2. k \in Nat  BY <2>1
  <2>3. \E F : k # 0 => \A i \in 0 .. k - 1 : F[i] = To(F, i)
    <3>1. CASE k = 0  BY <3>1
    <3>2. CASE k # 0
      <4>1. k - 1 \in Nat /\ ~ (k <= k - 1)  BY <2>2, <3>2
      <4>2. P(k - 1)  BY <2>1, <4>1
      <4> QED  BY <4>2
    <3> QED  BY <3>1, <3>2
  <2>4. PICK F : k # 0 => \A i \in 0 .. k - 1 : F[i] = To(F, i)  BY <2>3
  <2> DEFINE g == [i \in 0 .. k |-> To(F, i)]
  <2>5. ASSUME NEW i \in 0 .. k PROVE g[i] = To(g, i)
    <3>1. g[i] = To(F, i)  OBVIOUS
    <3>2. i = 0 \/ g[i - 1] = F[i - 1]
      <4> SUFFICES ASSUME i # 0 PROVE g[i - 1] = F[i - 1]  OBVIOUS
      <4>1. PICK j : j = i - 1  OBVIOUS
      <4>2. j \in 0 .. k /\ j \in 0 .. k - 1 /\ k # 0  BY <2>2, <4>1
      <4>3. g[j] = To(F, j) /\ F[j] = To(F, j)  BY <2>4, <4>2
      <4> QED  BY <4>1, <4>3
    <3> QED  BY <1>2, <3>1, <3>2
  <2>6. P(k)
    <3> HIDE DEF g
    <3> QED  BY <2>5
  <2> QED  BY <2>1, <2>6
<1>4. PICK F : \A i \in 0 .. n : F[i] = To(F, i)
  <2>1. P(n)  BY <1>1, <1>3
  <2> QED  BY <2>1
<1> DEFINE h == [i \in 0 .. n |-> F[i]]
<1>5. ASSUME NEW i \in 0 .. n PROVE h[i] = To(h, i)
  <2>1. h[i] = To(F, i)  BY <1>4
  <2>2. i = 0 \/ h[i - 1] = F[i - 1]
    <3>1. i # 0 => i - 1 \in 0 .. n  BY <1>1
    <3> QED  BY <3>1
  <2> QED  BY <1>2, <2>1, <2>2
<1>6. Fits(h)
  <2>1. h = [i \in 0 .. n |-> h[i]]  OBVIOUS
  <2> HIDE DEF h
  <2>2. [i \in 0 .. n |-> h[i]] = [i \in 0 .. n |-> To(h, i)]  BY <1>5
  <2> QED  BY <2>1, <2>2
<1> HIDE DEF h
<1>7. PICK D : D = CHOOSE G : Fits(G)  OBVIOUS
<1>8. Fits(D)  BY <1>6, <1>7
<1>9. GetEnum = D
  <2>1. GetEnum = CHOOSE G : G = [k \in 0 .. n |-> [at \in (DOMAIN asts) \X Seq(STRING) |-> EnumCall(G[k - 1], k, at)]]
    BY <1>0, Zenon DEF GetEnum, EnumCall
  <2> QED  BY <1>7, <2>1 DEF To
<1>10. ASSUME NEW k \in 0 .. n, NEW at \in (DOMAIN asts) \X Seq(STRING)
       PROVE  D[k][at] = EnumCall(D[k - 1], k, at)
  <2>1. D[k] = To(D, k)  BY <1>8
  <2> QED  BY <2>1 DEF To
<1> QED  BY <1>0, <1>9, <1>10

\* What has been found out about a type.
Linked(t) ==
  /\ TypeName(t) \in Builtin => t \notin DOMAIN refs /\ t \notin aliases
  /\ TypeName(t) \notin Builtin =>
       /\ t \in DOMAIN refs <=> Len(TypeName(t)) # 1
       /\ Meant(t[1], TypeName(t), TypeLike) = Defines(Target(t)[1], Target(t)[2], TypeLike)
       /\ Meant(t[1], TypeName(t), TypeLike) # {}
       /\ t \in aliases <=> \E node \in Meant(t[1], TypeName(t), TypeLike) : Kind(node) = "typedef"

\* The typedefs of IDLs have been resolved.
LinkedIn(F) ==
  \A f \in F : \A d \in Defs(f) : Def(f, d).kind = "typedef" =>
    /\ Linked(<<f, d, 1>>)
    /\ <<f, d, 1>> \in DOMAIN refs => refs[<<f, d, 1>>] \in DOMAIN asts[f].includes

\* An answer has the members of the enums that the name stands for.
Agrees(file, name, answer) ==
  /\ DOMAIN answer = {"answer", "members", "index"}
  /\ answer.members # {} => answer.answer = "yes"
  /\ \A value \in answer.members : Offers(file, name, value)
  /\ answer.answer # "lost" => \A value : Offers(file, name, value) => value \in answer.members

LEMMA TypeLikeIs ==
  /\ "none" \notin TypeLike /\ "enum" \in TypeLike /\ "typedef" \in TypeLike
BY DEF TypeLike

\* What a name offers is what its definition does.
LEMMA OffersIs ==
  ASSUME asts \in Documents, NEW F, Known(F), NEW file \in F, NEW name, NEW value
  PROVE  /\ Category(file, name) = "enum" =>
              (Offers(file, name, value) <=> value \in Def(file, Lookup(file, name)).members)
         /\ Category(file, name) = "typedef" =>
              (Offers(file, name, value) <=>
                 \E next \in Follows(<<file, Lookup(file, name)>>) : StandsFor(next, value))
         /\ Category(file, name) \notin {"enum", "typedef"} => ~Offers(file, name, value)
<1>1. file \in DOMAIN asts /\ Complete(file)  BY DEF Known
<1>2. PICK d : d = Lookup(file, name)  OBVIOUS
<1>3. PICK node : node = <<file, d>>  OBVIOUS
<1>4. CASE Category(file, name) \in TypeLike
  <2>1. d \in Defs(file) /\ Def(file, d).kind = Category(file, name)
    BY <1>1, <1>2, <1>4, TypeLikeIs, LookupFinds
  <2>2. node \in Nodes /\ Kind(node) = Category(file, name)
    BY <1>1, <1>3, <2>1 DEF Nodes, Kind, Defs
  <2>3. Defines(file, name, TypeLike) = {node}
    BY <1>1, <1>2, <1>3, <1>4, TypeLikeIs, CompleteDefines
  <2>4. Offers(file, name, value) <=> StandsFor(node, value)  BY <2>3 DEF Offers
  <2>5. node \in Typedefs <=> Category(file, name) = "typedef"  BY <2>2 DEF Typedefs
  <2>6. node \in EnumsWith(value) <=> Category(file, name) = "enum" /\ value \in Def(file, d).members
    BY <1>3, <2>2 DEF EnumsWith
  <2>7. StandsFor(node, value) <=>
           \/ node \in EnumsWith(value)
           \/ node \in Typedefs /\ \E next \in Follows(node) : StandsFor(next, value)
    BY StandsForIs
  <2> QED  BY <1>2, <1>3, <2>4, <2>5, <2>6, <2>7
<1>5. CASE Category(file, name) \notin TypeLike
  <2>1. Defines(file, name, TypeLike) = {}  BY <1>1, <1>5, TypeLikeIs, CompleteDefines
  <2> QED  BY <1>5, <2>1, TypeLikeIs DEF Offers
<1> QED  BY <1>4, <1>5
-----------------------------------------------------------------------------
(***************************************************************************)
(* One call of getEnum asks another for what a typedef stands for.         *)
(***************************************************************************)
LEMMA LenOne == \A name \in Builtin : Len(name) = 1
BY DEF Builtin

\* An answer that is of one name is also of another that offers the same.
LEMMA AgreesToo ==
  ASSUME NEW file, NEW name, NEW answer, Agrees(file, name, answer), NEW e, NEW other,
         \A value : Offers(e, other, value) <=> Offers(file, name, value)
  PROVE  Agrees(e, other, answer)
BY DEF Agrees

LEMMA EnumStep ==
  ASSUME asts \in Documents, NEW F, Known(F), LinkedIn(F), NEW k, k # 0, NEW lower,
         \A f \in F : \A name \in Seq(STRING) : Agrees(f, name, lower[<<f, name>>]),
         NEW file \in F, NEW name \in Seq(STRING)
  PROVE  Agrees(file, name, EnumCall(lower, k, <<file, name>>))
<1>1. PICK d : d = Lookup(file, name)  OBVIOUS
<1>2. PICK t : t = <<file, d, 1>>  OBVIOUS
<1>3. PICK i : i = Get(refs, t, 0)  OBVIOUS
<1>4. PICK T : T = TypeName(t)  OBVIOUS
<1>5. PICK there : there = IF i = 0 THEN NoEnum ELSE lower[<<Included(file, i), Base(T)>>]  OBVIOUS
<1>6. PICK answer : answer = EnumCall(lower, k, <<file, name>>)  OBVIOUS
<1>7. answer = IF Category(file, name) = "enum"
               THEN [answer |-> "yes", members |-> Def(file, d).members, index |-> 0]
               ELSE IF Category(file, name) # "typedef" THEN NoEnum
               ELSE IF there.answer = "no" THEN lower[<<file, T>>]
               ELSE [there EXCEPT !.index = i]
  BY <1>1, <1>2, <1>3, <1>4, <1>5, <1>6 DEF EnumCall
<1>8. file \in DOMAIN asts /\ Complete(file)  BY DEF Known
<1>9. CASE Category(file, name) = "enum"
  <2>1. \A value : Offers(file, name, value) <=> value \in Def(file, d).members  BY <1>1, <1>9, OffersIs
  <2>2. answer = [answer |-> "yes", members |-> Def(file, d).members, index |-> 0]  BY <1>7, <1>9
  <2> QED  BY <1>6, <2>1, <2>2 DEF Agrees
<1>10. CASE Category(file, name) \notin {"enum", "typedef"}
  <2>1. \A value : ~Offers(file, name, value)  BY <1>10, OffersIs
  <2>2. answer = NoEnum  BY <1>7, <1>10
  <2> QED  BY <1>6, <2>1, <2>2 DEF Agrees, NoEnum
<1>11. CASE Category(file, name) = "typedef"
  <2>1. d \in Defs(file) /\ Def(file, d).name = name /\ Def(file, d).kind = "typedef"
    BY <1>1, <1>8, <1>11, TypeLikeIs, LookupFinds
  <2>2. T \in Names /\ T = Def(file, d).types[1]
    BY <1>2, <1>4, <1>8, <2>1, DefinitionIs DEF TypeName
  <2>3. Linked(t) /\ (t \in DOMAIN refs => refs[t] \in DOMAIN asts[file].includes)
    BY <1>2, <2>1 DEF LinkedIn
  <2>4. \A value : Offers(file, name, value) <=> \E next \in Meant(file, T, TypeLike) : StandsFor(next, value)
    <3>1. Follows(<<file, d>>) = Meant(file, T, TypeLike)  BY <2>2 DEF Follows
    <3> QED  BY <1>1, <1>11, <3>1, OffersIs
  <2>5. T \in Seq(STRING)  BY <2>2 DEF Names
  <2>6. CASE Len(T) = 1
    <3>1. t \notin DOMAIN refs  BY <1>4, <2>3, <2>6 DEF Linked
    <3>2. i = 0 /\ there = NoEnum  BY <1>3, <1>5, <3>1 DEF Get
    <3>3. answer = lower[<<file, T>>]  BY <1>7, <1>11, <3>2 DEF NoEnum
    <3>4. Meant(file, T, TypeLike) = Defines(file, T, TypeLike)  BY <2>6 DEF Meant
    <3>5. \A value : Offers(file, T, value) <=> Offers(file, name, value)  BY <2>4, <3>4 DEF Offers
    <3>6. Agrees(file, T, answer)  BY <2>5, <3>3
    <3> QED  BY <1>6, <3>5, <3>6, AgreesToo
  <2>7. CASE Len(T) # 1
    <3>1. T \notin Builtin  BY <2>7, LenOne
    <3>2. t \in DOMAIN refs  BY <1>4, <2>3, <2>7, <3>1 DEF Linked
    <3>3. i = refs[t] /\ i \in DOMAIN asts[file].includes /\ i # 0
      <4>1. IsSeq(asts[file].includes)  BY <1>8, DocumentIs
      <4> QED  BY <1>3, <2>3, <3>2, <4>1 DEF Get, IsSeq
    <3>4. PICK e : e = Included(file, i)  OBVIOUS
    <3>5. PICK base : base = Base(T)  OBVIOUS
    <3>6. e \in F  BY <3>3, <3>4 DEF Known
    <3>7. base \in Seq(STRING)
      <4>1. T \in Seq(STRING) /\ T # <<>>  BY <2>2 DEF Names
      <4>2. T[Len(T)] \in STRING  BY <4>1
      <4> QED  BY <3>5, <4>2 DEF Base
    <3>8. Target(t) = <<e, base>> /\ t[1] = file
      BY <1>2, <1>3, <1>4, <3>3, <3>4, <3>5 DEF Target, At
    <3>9. Meant(file, T, TypeLike) = Defines(e, base, TypeLike)
      BY <1>4, <2>3, <3>1, <3>8 DEF Linked
    <3>10. \A value : Offers(e, base, value) <=> Offers(file, name, value)  BY <2>4, <3>9 DEF Offers
    <3>11. there = lower[<<e, base>>]  BY <1>5, <3>3, <3>4, <3>5
    <3>12. Agrees(e, base, there)  BY <3>6, <3>7, <3>11
    <3>13. Agrees(file, name, there)  BY <3>10, <3>12, AgreesToo
    <3>14. CASE there.answer # "no"
      <4>1. answer = [there EXCEPT !.index = i]  BY <1>7, <1>11, <3>14
      <4>2. DOMAIN answer = DOMAIN there /\ answer.members = there.members /\ answer.answer = there.answer
        BY <3>13, <4>1 DEF Agrees
      <4> QED  BY <1>6, <3>13, <4>2 DEF Agrees
    <3>15. CASE there.answer = "no"
      <4>1. answer = lower[<<file, T>>]  BY <1>7, <1>11, <3>15
      <4>2. \A value : ~Offers(file, name, value)  BY <3>13, <3>15 DEF Agrees
      <4>3. \A value : ~Offers(file, T, value)
        <5>1. Defines(file, T, TypeLike) = {}
          <6>1. \A e2 \in Defs(file) : Def(file, e2).name # T  BY <1>8, <2>7, NameIs
          <6> QED  BY <6>1 DEF Defines, Defs
        <5> QED  BY <5>1 DEF Offers
      <4>4. Agrees(file, T, answer)  BY <2>5, <4>1
      <4> QED  BY <1>6, <4>2, <4>3, <4>4, AgreesToo
    <3> QED  BY <3>14, <3>15
  <2> QED  BY <2>6, <2>7
<1> QED  BY <1>9, <1>10, <1>11

\* However many calls there are.
LEMMA AnswersAgree ==
  ASSUME asts \in Documents, NEW F, Known(F), LinkedIn(F)
  PROVE  \A k \in 0 .. Calls : \A f \in F : \A name \in Seq(STRING) :
           Agrees(f, name, GetEnum[k][<<f, name>>])
<1>1. PICK C : C = Calls  OBVIOUS
<1>2. C \in Nat  BY <1>1, DefsAreFinite
<1>3. PICK G : G = GetEnum  OBVIOUS
<1>4. \A k \in 0 .. C : \A at \in (DOMAIN asts) \X Seq(STRING) : G[k][at] = EnumCall(G[k - 1], k, at)
  BY <1>1, <1>3, GetEnumIsDefined
<1> DEFINE Bad == {k \in 0 .. C : ~(\A f \in F : \A name \in Seq(STRING) : Agrees(f, name, G[k][<<f, name>>]))}
<1>5. Bad = {}
  <2> SUFFICES ASSUME Bad # {} PROVE FALSE  OBVIOUS
  <2>1. PICK k \in Bad : \A l \in Bad : k <= l
    <3>1. Bad \subseteq Nat  OBVIOUS
    <3> HIDE DEF Bad
    <3> QED  BY <3>1, LeastNumber
  <2>2. k \in 0 .. C  BY <2>1
  <2>3. PICK f \in F : \E name \in Seq(STRING) : ~Agrees(f, name, G[k][<<f, name>>])  BY <2>1
  <2>4. PICK name \in Seq(STRING) : ~Agrees(f, name, G[k][<<f, name>>])  BY <2>3
  <2>5. f \in DOMAIN asts  BY DEF Known
  <2>6. G[k][<<f, name>>] = EnumCall(G[k - 1], k, <<f, name>>)  BY <1>4, <2>2, <2>5
  <2>7. CASE k = 0
    <3>1. EnumCall(G[k - 1], k, <<f, name>>) = Lost  BY <2>7 DEF EnumCall
    <3>2. Agrees(f, name, Lost)  BY DEF Agrees, Lost, NoEnum
    <3> QED  BY <2>4, <2>6, <3>1, <3>2
  <2>8. CASE k # 0
    <3>1. k - 1 \in 0 .. C /\ ~(k <= k - 1)  BY <1>2, <2>2, <2>8
    <3>2. k - 1 \notin Bad
      <4> HIDE DEF Bad
      <4> QED  BY <2>1, <3>1
    <3>3. PICK lower : lower = G[k - 1]  OBVIOUS
    <3>4. \A e \in F : \A n \in Seq(STRING) : Agrees(e, n, lower[<<e, n>>])  BY <3>1, <3>2, <3>3
    <3>5. Agrees(f, name, EnumCall(lower, k, <<f, name>>))  BY <2>8, <3>4, EnumStep
    <3> QED  BY <2>4, <2>6, <3>3, <3>5
  <2> QED  BY <2>7, <2>8
<1> QED  BY <1>1, <1>3, <1>5

LEMMA EnumAnswers ==
  ASSUME asts \in Documents, NEW F, Known(F), LinkedIn(F)
  PROVE  \A f \in F : \A name \in Seq(STRING) : Agrees(f, name, EnumAt(f, name))
<1>1. PICK C : C = Calls  OBVIOUS
<1>2. C \in 0 .. C
  <2>1. C \in Nat  BY <1>1, DefsAreFinite
  <2> QED  BY <2>1
<1> QED  BY <1>1, <1>2, AnswersAgree DEF EnumAt
-----------------------------------------------------------------------------
(***************************************************************************)
(* Explanations of an identifier: what resolveConstValue collects has one  *)
(* element if and only if the identifier can be explained in one way.      *)
(***************************************************************************)
LEMMA ImageOnce ==
  ASSUME NEW f, IsFiniteSet(DOMAIN f), \A x, y \in DOMAIN f : f[x] = f[y] => x = y,
         NEW S, S = {f[x] : x \in DOMAIN f}
  PROVE  Cardinality(S) = 1 <=> Cardinality(DOMAIN f) = 1
<1>1. PICK D : D = DOMAIN f  OBVIOUS
<1>2. IsFiniteSet(S)  BY ImageIsFinite
<1>3. Cardinality(S) = 1 <=> \E y : S = {y}  BY <1>2, FS_Singleton
<1>4. Cardinality(D) = 1 <=> \E x : D = {x}  BY <1>1, FS_Singleton
<1>5. ASSUME NEW y, S = {y} PROVE \E x : D = {x}
  <2>1. PICK x \in D : f[x] = y  BY <1>1, <1>5
  <2>2. \A z \in D : f[z] = y  BY <1>1, <1>5
  <2>3. D = {x}  BY <1>1, <2>1, <2>2
  <2> QED  BY <2>3
<1>6. ASSUME NEW x, D = {x} PROVE \E y : S = {y}
  <2>1. S = {f[x]}  BY <1>1, <1>6
  <2> QED  BY <2>1
<1> QED  BY <1>1, <1>3, <1>4, <1>5, <1>6

LEMMA NameParts ==
  ASSUME NEW id \in Names
  PROVE  /\ Base(id) \in Seq(STRING) /\ Len(Base(id)) = 1
         /\ Prefix(id) \in Seq(STRING) /\ Len(Prefix(id)) = Len(id) - 1
         /\ Len(id) \in Nat \ {0}
         /\ Len(id) > 1 => Prefix(id) \in Names
         /\ Len(id) = 1 => Prefix(id) = <<>>
<1>1. id \in Seq(STRING) /\ id # <<>>  BY DEF Names
<1>2. PICK n : n = Len(id)  OBVIOUS
<1>3. n \in Nat \ {0}  BY <1>1, <1>2
<1>4. id[n] \in STRING  BY <1>1, <1>2, <1>3
<1>5. Base(id) \in Seq(STRING) /\ Len(Base(id)) = 1  BY <1>2, <1>4 DEF Base
<1>6. Prefix(id) = SubSeq(id, 1, n - 1)  BY <1>2 DEF Prefix
<1>7. SubSeq(id, 1, n - 1) \in Seq(STRING) /\ Len(SubSeq(id, 1, n - 1)) = n - 1
  BY <1>1, <1>2, <1>3
<1>8. PICK p : p = Prefix(id)  OBVIOUS
<1>9. p \in Seq(STRING) /\ Len(p) = n - 1  BY <1>6, <1>7, <1>8
<1>10. n > 1 => p # <<>>  BY <1>3, <1>9
<1>11. n = 1 => p = <<>>  BY <1>3, <1>9
<1> QED  BY <1>2, <1>3, <1>5, <1>8, <1>9, <1>10, <1>11 DEF Names

LEMMA ExplanationsAreFinite ==
  ASSUME asts \in Documents, NEW file \in DOMAIN asts, NEW id
  PROVE  IsFiniteSet(Explanations(file, id))
<1>1. PICK n : n = Len(asts[file].includes)  OBVIOUS
<1>2. n \in Nat /\ DOMAIN asts[file].includes = 1 .. n
  BY <1>1, DocumentIs DEF IsSeq
<1>3. PICK f : f = [i \in 0 .. n |-> <<"constant", i>>]  OBVIOUS
<1>4. PICK g : g = [i \in 0 .. n |-> <<"value", i>>]  OBVIOUS
<1>5. IsFiniteSet(0 .. n)
  <2>1. n \in Int /\ 0 \in Int  BY <1>2
  <2> QED  BY ONLY <2>1, FS_Interval
<1>6. PICK A : A = {f[i] : i \in DOMAIN f}  OBVIOUS
<1>7. PICK B : B = {g[i] : i \in DOMAIN g}  OBVIOUS
<1>8. IsFiniteSet(A) /\ IsFiniteSet(B)  BY <1>3, <1>4, <1>5, <1>6, <1>7, ImageIsFinite
<1>9. IsFiniteSet(A \cup B)  BY ONLY <1>8, FS_Union
<1>10. \A i \in 0 .. n : <<"constant", i>> \in A /\ <<"value", i>> \in B
  BY <1>3, <1>4, <1>6, <1>7
<1>11. 0 \in 0 .. n /\ \A i \in DOMAIN asts[file].includes : i \in 0 .. n  BY <1>2
<1>12. \A name, kinds : Having(file, name, kinds) \subseteq DOMAIN asts[file].includes
  BY DEF Having, IncludesOf
<1>13. Explanations(file, id) \subseteq A \cup B
  BY <1>10, <1>11, <1>12 DEF Explanations
<1> QED  BY ONLY <1>9, <1>13, FS_Subset

LEMMA ExplainedOnce ==
  ASSUME asts \in Documents, NEW F, Known(F), LinkedIn(F), NEW file \in F, NEW id \in Names,
         ~GetsLost(file, id), NEW refsTo, refsTo = Local(file, id) \cup FromInclude(file, id)
  PROVE  Cardinality(refsTo) = 1 <=> Cardinality(Explanations(file, id)) = 1
<1>1. file \in DOMAIN asts /\ Complete(file)  BY DEF Known
<1>2. PICK E : E = Explanations(file, id)  OBVIOUS
<1>3. IsFiniteSet(E)  BY <1>1, <1>2, ExplanationsAreFinite
<1>4. PICK H : H = Having(file, id, {"constant"})  OBVIOUS
<1>5. H = Finding(file, id, {"constant"}) /\ H \subseteq DOMAIN asts[file].includes
      /\ DOMAIN asts[file].includes \subseteq Nat \ {0}
  BY <1>4, FindingIsHaving
<1>6. PICK base : base = Base(id)  OBVIOUS
<1>7. PICK pre : pre = Prefix(id)  OBVIOUS
<1>8. /\ pre \in Seq(STRING) /\ Len(pre) = Len(id) - 1 /\ Len(id) \in Nat \ {0}
      /\ Len(id) > 1 => pre \in Names
      /\ Len(id) = 1 => pre = <<>>
  BY <1>7, NameParts
<1>9. CASE Len(id) = 1
  <2>1. IncludesOf(file, <<>>) = {}  BY <1>1, PlainAssumption DEF IncludesOf
  <2>2. FromInclude(file, id) = {}
    <3>1. Finding(file, id, {"constant"}) = {}  BY <1>7, <1>8, <1>9, <2>1 DEF Finding
    <3>2. PICK I : I = Finding(file, id, {"constant"})  OBVIOUS
    <3>3. FromInclude(file, id) = {Extra(FALSE, i, base, pre) : i \in I}
      BY <1>6, <1>7, <1>9, <3>2 DEF FromInclude
    <3> QED  BY <3>1, <3>2, <3>3
  <2>3. Category(file, id) \in {"constant"} <=> Defines(file, id, {"constant"}) # {}
    BY <1>1, CompleteDefines
  <2>4. CASE Category(file, id) = "constant"
    <3>1. Local(file, id) = {Extra(FALSE, 0, id, <<>>)}  BY <1>9, <2>4 DEF Local
    <3>2. refsTo = {Extra(FALSE, 0, id, <<>>)}  BY <2>2, <3>1
    <3>3. E = {<<"constant", 0>>}  BY <1>2, <1>9, <2>3, <2>4 DEF Explanations
    <3> QED  BY <1>2, <3>2, <3>3, FS_Singleton
  <2>5. CASE Category(file, id) # "constant"
    <3>1. Local(file, id) = {}  BY <1>9, <2>5 DEF Local
    <3>2. refsTo = {}  BY <2>2, <3>1
    <3>3. E = {}  BY <1>2, <1>9, <2>3, <2>5 DEF Explanations
    <3> QED  BY <1>2, <3>2, <3>3
  <2> QED  BY <2>4, <2>5
<1>10. CASE Len(id) # 1
  <2>1. Len(id) > 1 /\ pre \in Names  BY <1>8, <1>10
  <2>2. PICK enum : enum = EnumAt(file, pre)  OBVIOUS
  <2>3. PICK sel : sel = Base(pre)  OBVIOUS
  <2>4. PICK J : J = IncludesOf(file, Prefix(pre))  OBVIOUS
  <2>5. J \subseteq DOMAIN asts[file].includes  BY <2>4 DEF IncludesOf
  <2>6. HasValue(file, pre, base) <=> Offers(file, pre, base)
    <3>1. enum.answer # "lost"  BY <1>7, <2>1, <2>2 DEF GetsLost
    <3>2. Agrees(file, pre, enum)  BY <1>8, <2>2, EnumAnswers
    <3> QED  BY <2>2, <3>1, <3>2 DEF HasValue, Agrees
  <2>7. ASSUME Len(id) > 2, NEW i \in J
        PROVE  HasValue(Included(file, i), sel, base) <=> Offers(Included(file, i), sel, base)
    <3>1. PICK e : e = Included(file, i)  OBVIOUS
    <3>2. e \in F  BY <2>5, <2>7, <3>1 DEF Known
    <3>3. EnumAt(e, sel).answer # "lost"  BY <1>7, <2>3, <2>4, <2>7, <3>1 DEF GetsLost
    <3>4. sel \in Seq(STRING)  BY <2>1, <2>3, NameParts
    <3>5. Agrees(e, sel, EnumAt(e, sel))  BY <3>2, <3>4, EnumAnswers
    <3> QED  BY <3>1, <3>3, <3>5 DEF HasValue, Agrees
  <2>8. PICK K : K = {i \in J : Len(id) > 2 /\ Offers(Included(file, i), sel, base)}  OBVIOUS
  <2>9. E = {<<"value", i>> : i \in {i \in {0} : Offers(file, pre, base)}}
             \cup {<<"constant", i>> : i \in H} \cup {<<"value", i>> : i \in K}
    <3>1. K = {i \in DOMAIN asts[file].includes :
                 /\ Len(id) > 2 /\ i \in IncludesOf(file, Prefix(pre))
                 /\ Offers(Included(file, i), sel, base)}
      BY <2>4, <2>5, <2>8
    <3> QED  BY <1>2, <1>4, <1>6, <1>7, <1>10, <2>3, <3>1 DEF Explanations
  <2>10. refsTo = {Extra(TRUE, enum.index, base, pre) : i \in {i \in {0} : Offers(file, pre, base)}}
                    \cup {Extra(FALSE, i, base, pre) : i \in H} \cup {Extra(TRUE, i, base, sel) : i \in K}
    <3>1. Local(file, id) = {Extra(TRUE, enum.index, base, pre) : i \in {i \in {0} : Offers(file, pre, base)}}
      <4>1. Local(file, id) = {Extra(TRUE, EnumAt(file, s).index, base, s) : s \in {s \in {pre} : HasValue(file, s, base)}}
        BY <1>6, <1>7, <1>10 DEF Local
      <4>2. CASE Offers(file, pre, base)
        <5>1. {s \in {pre} : HasValue(file, s, base)} = {pre} /\ {i \in {0} : Offers(file, pre, base)} = {0}
          BY <2>6, <4>2
        <5> QED  BY <2>2, <4>1, <5>1
      <4>3. CASE ~Offers(file, pre, base)
        <5>1. {s \in {pre} : HasValue(file, s, base)} = {} /\ {i \in {0} : Offers(file, pre, base)} = {}
          BY <2>6, <4>3
        <5> QED  BY <4>1, <5>1
      <4> QED  BY <4>2, <4>3
    <3>2. CASE Len(id) > 2
      <4>1. {j \in J : HasValue(Included(file, j), sel, base)} = K  BY <2>7, <2>8, <3>2
      <4>0. ~(Len(id) < 3)  BY <1>8, <3>2
      <4>2. FromInclude(file, id) =
              {Extra(FALSE, i, base, pre) : i \in H}
                \cup {Extra(TRUE, i, base, sel) : i \in {j \in J : HasValue(Included(file, j), sel, base)}}
        BY <1>5, <1>6, <1>7, <2>3, <2>4, <4>0, Zenon DEF FromInclude
      <4> QED  BY <3>1, <4>1, <4>2
    <3>3. CASE ~(Len(id) > 2)
      <4>1. K = {} /\ Len(id) < 3  BY <2>8, <3>3, <1>8
      <4>2. FromInclude(file, id) = {Extra(FALSE, i, base, pre) : i \in H}
        BY <1>5, <1>6, <1>7, <4>1 DEF FromInclude
      <4>3. {Extra(TRUE, i, base, sel) : i \in K} = {}  BY <4>1
      <4> QED  BY <3>1, <4>2, <4>3
    <3> QED  BY <3>2, <3>3
  <2> DEFINE Of(e) == IF e[1] = "constant" THEN Extra(FALSE, e[2], base, pre)
                      ELSE IF e[2] = 0 THEN Extra(TRUE, enum.index, base, pre)
                      ELSE Extra(TRUE, e[2], base, sel)
  <2>11. PICK f : f = [e \in E |-> Of(e)]  OBVIOUS
  <2>12. ASSUME NEW e \in E
         PROVE  \/ e = <<"constant", e[2]>> /\ e[2] \in H
                \/ e = <<"value", 0>> /\ Offers(file, pre, base)
                \/ e = <<"value", e[2]>> /\ e[2] \in K /\ e[2] # 0
    BY <1>5, <2>5, <2>8, <2>9
  <2>13. refsTo = {Of(e) : e \in E}
    <3>1. ASSUME NEW x \in refsTo PROVE \E e \in E : x = Of(e)
      <4>1. CASE x = Extra(TRUE, enum.index, base, pre) /\ Offers(file, pre, base)
        <5>1. <<"value", 0>> \in E /\ x = Of(<<"value", 0>>)  BY <2>9, <4>1
        <5> QED  BY <5>1
      <4>2. ASSUME NEW i \in H, x = Extra(FALSE, i, base, pre) PROVE \E e \in E : x = Of(e)
        <5>1. <<"constant", i>> \in E /\ x = Of(<<"constant", i>>)  BY <2>9, <4>2
        <5> QED  BY <5>1
      <4>3. ASSUME NEW i \in K, x = Extra(TRUE, i, base, sel) PROVE \E e \in E : x = Of(e)
        <5>1. i # 0  BY <1>5, <2>5, <2>8
        <5>2. <<"value", i>> \in E /\ x = Of(<<"value", i>>)  BY <2>9, <4>3, <5>1
        <5> QED  BY <5>2
      <4> HIDE DEF Of
      <4> QED  BY <2>10, <4>1, <4>2, <4>3
    <3>2. ASSUME NEW e \in E PROVE Of(e) \in refsTo
      <4>1. CASE e = <<"constant", e[2]>> /\ e[2] \in H
        <5>0. e[1] = "constant"  BY <4>1
        <5>1. Of(e) = Extra(FALSE, e[2], base, pre)  BY <5>0
        <5> QED  BY <2>10, <4>1, <5>1
      <4>2. CASE e = <<"value", 0>> /\ Offers(file, pre, base)
        <5>1. Of(e) = Extra(TRUE, enum.index, base, pre)  BY <4>2
        <5> QED  BY <2>10, <4>2, <5>1
      <4>3. CASE e = <<"value", e[2]>> /\ e[2] \in K /\ e[2] # 0
        <5>0. e[1] = "value"  BY <4>3
        <5>1. Of(e) = Extra(TRUE, e[2], base, sel)  BY <4>3, <5>0
        <5> QED  BY <2>10, <4>3, <5>1
      <4> QED  BY <2>12, <4>1, <4>2, <4>3
    <3> HIDE DEF Of
    <3> QED  BY <3>1, <3>2
  <2>14. ASSUME NEW x \in E, NEW y \in E, Of(x) = Of(y) PROVE x = y
    <3>1. Of(x).isEnum = Of(y).isEnum /\ Of(x).index = Of(y).index /\ Of(x).sel = Of(y).sel
      BY <2>14
    <3>2. Len(id) > 2 => sel # pre
      <4> SUFFICES ASSUME Len(id) > 2, sel = pre PROVE FALSE  OBVIOUS
      <4>1. Len(sel) = 1  BY <2>1, <2>3, NameParts
      <4>2. Len(sel) = Len(id) - 1 /\ Len(id) \in Nat  BY <1>8
      <4>3. PICK n : n = Len(id)  OBVIOUS
      <4>4. n > 2 /\ n \in Nat /\ n - 1 = 1  BY <4>1, <4>2, <4>3
      <4> QED  BY ONLY <4>4
    <3>3. \A i \in K : Len(id) > 2  BY <2>8
    <3> QED  BY <2>12, <3>1, <3>2, <3>3 DEF Extra
  <2>15. refsTo = {f[e] : e \in DOMAIN f} /\ DOMAIN f = E  BY <2>11, <2>13
  <2>16. \A x, y \in DOMAIN f : f[x] = f[y] => x = y
    <3> HIDE DEF Of
    <3> QED  BY <2>11, <2>14
  <2>17. Cardinality(refsTo) = 1 <=> Cardinality(E) = 1
    <3>1. IsFiniteSet(DOMAIN f)  BY <1>3, <2>15
    <3>2. Cardinality(refsTo) = 1 <=> Cardinality(DOMAIN f) = 1  BY <2>15, <2>16, <3>1, ImageOnce
    <3> QED  BY <2>15, <3>2
  <2> QED  BY <1>2, <2>17
<1> QED  BY <1>9, <1>10
-----------------------------------------------------------------------------
(***************************************************************************)
(* What has been found to be right.  An IDL refers to IDLs whose calls     *)
(* have returned; its definitions are looked at in their order.            *)
(***************************************************************************)
\* Includes are nested in no circle, and the calls nest like them.
Descending ==
  \E depth \in [DOMAIN asts -> Nat] :
    /\ \A file \in DOMAIN asts : \A i \in DOMAIN asts[file].includes :
         depth[Included(file, i)] < depth[file]
    /\ \A m, n \in DOMAIN stack : m < n => depth[stack[m].file] < depth[stack[n].file]

\* What is finished includes nothing that is not.
Grounded ==
  \A file \in DOMAIN names \ Calling : \A i \in DOMAIN asts[file].includes : Included(file, i) \notin Calling

Ordered == stack # <<>> /\ Top.phase = "symbols" => InOrder(Top.todo)

AllLinked == \A t \in DOMAIN categories : Linked(t)

\* A symbol that can be resolved.
Sound(file, x) ==
  /\ x.what = "value" =>
       \/ Def(file, x.def).values[x.k] \in Literals
       \/ Cardinality(Explanations(file, Def(file, x.def).values[x.k])) = 1
  /\ x.what = "base" => Meant(file, Def(file, x.def).extends, {"service"}) # {}

\* A symbol that a call has still to resolve.
Pending(f, x) == f.phase \in {"includes", "names"} \/ (f.phase = "symbols" /\ x \in Elements(f.todo))

Checked ==
  \A file \in DOMAIN names : \A x \in SymbolsOf(file) :
    Sound(file, x) \/ \E n \in DOMAIN stack : stack[n].file = file /\ Pending(stack[n], x)

LInv == Root \in DOMAIN names /\ Descending /\ Grounded /\ Ordered /\ AllLinked /\ Checked
-----------------------------------------------------------------------------
\* What an IDL means does not depend on the resolver.
LEMMA MeaningStays ==
  ASSUME asts' = asts
  PROVE  /\ \A file, name, kinds : Meant(file, name, kinds)' = Meant(file, name, kinds)
         /\ \A file, name, kinds : Defines(file, name, kinds)' = Defines(file, name, kinds)
         /\ \A node : Kind(node)' = Kind(node)
         /\ \A file, x : Sound(file, x)' = Sound(file, x)
         /\ \A file : SymbolsOf(file)' = SymbolsOf(file)
         /\ Illegal' = Illegal /\ Reached' = Reached
<1>1. \A file, d : Def(file, d)' = Def(file, d)  BY DEF Def
<1>2. \A file, name, kinds : Defines(file, name, kinds)' = Defines(file, name, kinds)
  BY <1>1 DEF Defines
<1>3. \A file, i : Included(file, i)' = Included(file, i)  BY DEF Included
<1>4. \A file, prefix : IncludesOf(file, prefix)' = IncludesOf(file, prefix)  BY DEF IncludesOf
<1>5. \A file, name, kinds : Having(file, name, kinds)' = Having(file, name, kinds)
  BY <1>2, <1>3, <1>4 DEF Having
<1>6. \A file, name, kinds : Meant(file, name, kinds)' = Meant(file, name, kinds)
  BY <1>2, <1>3, <1>5 DEF Meant
<1>7. \A node : Kind(node)' = Kind(node)  BY <1>1 DEF Kind
<1>8. Nodes' = Nodes  BY DEF Nodes
<1>9. Typedefs' = Typedefs  BY <1>7, <1>8 DEF Typedefs
<1>10. \A node : Follows(node)' = Follows(node)  BY <1>1, <1>6 DEF Follows
<1>11. \A value : EnumsWith(value)' = EnumsWith(value)  BY <1>1, <1>7, <1>8 DEF EnumsWith
<1>12. \A node, value : StandsFor(node, value)' = StandsFor(node, value)
  BY <1>9, <1>10, <1>11 DEF StandsFor
<1>13. \A file, name, value : Offers(file, name, value)' = Offers(file, name, value)
  BY <1>2, <1>12 DEF Offers
<1>14. \A file, id : Explanations(file, id)' = Explanations(file, id)
  BY <1>2, <1>3, <1>4, <1>5, <1>13 DEF Explanations
<1>15. \A file, x : Sound(file, x)' = Sound(file, x)  BY <1>1, <1>6, <1>14 DEF Sound
<1>16. \A file : SymbolsOf(file)' = SymbolsOf(file)
  <2>1. ASSUME NEW file, NEW d PROVE Symbols(file, d)' = Symbols(file, d)
    <3>1. Def(file, d)' = Def(file, d)  BY <1>1
    <3> QED  BY <3>1, Zenon DEF Symbols
  <2>2. \A file, d : SymbolsIn(file, d)' = SymbolsIn(file, d)  BY <2>1 DEF SymbolsIn
  <2> QED  BY <2>2 DEF SymbolsOf, Defs
<1>17. Reached' = Reached  BY <1>3 DEF Reached
<1>18. Illegal' = Illegal
  <2>1. \A file, def : IllegalDef(file, def)' = IllegalDef(file, def)
    BY <1>2, <1>6, <1>14 DEF IllegalDef
  <2>2. \A node : Circular(node)' = Circular(node)  BY <1>9, <1>10 DEF Circular
  <2>3. \A file, d : IllegalDef(file, Def(file, d))' = IllegalDef(file, Def(file, d))  BY <1>1, <2>1
  <2> QED  BY <1>17, <2>2, <2>3 DEF Illegal
<1> QED  BY <1>2, <1>6, <1>7, <1>15, <1>16, <1>17, <1>18

LEMMA LinkStays ==
  ASSUME asts' = asts, NEW t, Alike(t), Linked(t)
  PROVE  Linked(t)'
<1>1. Target(t)' = Target(t) /\ TypeName(t)' = TypeName(t)  BY TargetStays
<1>2. PICK name : name = TypeName(t)  OBVIOUS
<1>3. PICK e : e = Target(t)[1]  OBVIOUS
<1>4. PICK base : base = Target(t)[2]  OBVIOUS
<1>5. PICK M : M = Meant(t[1], name, TypeLike)  OBVIOUS
<1>6. TypeName(t)' = name /\ Target(t)[1]' = e /\ Target(t)[2]' = base  BY <1>1, <1>2, <1>3, <1>4
<1>7. Meant(t[1], name, TypeLike)' = M  BY <1>5, MeaningStays
<1>8. Meant(t[1], TypeName(t), TypeLike)' = M  BY <1>6, <1>7
<1>9. Defines(Target(t)[1], Target(t)[2], TypeLike)' = Defines(e, base, TypeLike)
  <2>1. Defines(e, base, TypeLike)' = Defines(e, base, TypeLike)  BY MeaningStays
  <2> QED  BY <1>6, <2>1
<1>10. \A node : Kind(node)' = Kind(node)  BY MeaningStays
<1> QED  BY <1>2, <1>3, <1>4, <1>5, <1>6, <1>8, <1>9, <1>10 DEF Linked, Alike

\* A step in which the innermost call goes on, as g.
LEMMA LInvOn ==
  ASSUME MInv, LInv, stack # <<>>, NEW file, file = Top.file, NEW f, f = Top,
         NEW g, g.file = file, stack' = Replaced(g), asts' = asts, DOMAIN names' = DOMAIN names,
         \A t \in DOMAIN categories : Alike(t),
         \A t \in DOMAIN categories' \ DOMAIN categories : Linked(t)',
         g.phase = "symbols" => InOrder(g.todo),
         \A x \in SymbolsOf(file) : Pending(f, x) => Pending(g, x) \/ Sound(file, x)
  PROVE  LInv'
<1>1. PICK s : s = stack  OBVIOUS
<1>2. PICK r : r = stack'  OBVIOUS
<1>3. IsSeq(s) /\ s # <<>> /\ IsPushed(r, g, Tail(s))
  BY <1>1, <1>2 DEF MInv, IInv, Frames, Replaced, IsPushed
<1>4. /\ IsSeq(r) /\ DOMAIN r = DOMAIN s /\ 1 \in DOMAIN s /\ r[1] = g
      /\ \A n \in DOMAIN s : n # 1 => r[n] = s[n]
      /\ Head(s) = s[1]
  BY <1>3, TopReplaced
<1>5. s[1] = f  BY <1>1, <1>4 DEF Top
<1>6. \A n \in DOMAIN s : r[n].file = s[n].file  BY <1>4, <1>5
<1>7. Calling' = Calling  BY <1>1, <1>2, <1>4, <1>6 DEF Calling
<1>8. Descending'
  <2>1. PICK depth \in [DOMAIN asts -> Nat] :
          /\ \A e \in DOMAIN asts : \A i \in DOMAIN asts[e].includes :
               depth[Included(e, i)] < depth[e]
          /\ \A m, n \in DOMAIN s : m < n => depth[s[m].file] < depth[s[n].file]
    BY <1>1 DEF LInv, Descending
  <2>2. \A m, n \in DOMAIN r : m < n => depth[r[m].file] < depth[r[n].file]  BY <1>4, <1>6, <2>1
  <2> QED  BY <1>2, <2>1, <2>2 DEF Descending, Included
<1>9. Grounded'  BY <1>7 DEF LInv, Grounded, Included
<1>10. Ordered'
  <2>1. r # <<>>  BY <1>4
  <2>2. Head(r) = r[1]  BY <1>4, <2>1, TailSeq
  <2> QED  BY <1>2, <1>4, <2>2 DEF Ordered, Top
<1>11. AllLinked'
  <2> SUFFICES ASSUME NEW t \in DOMAIN categories' PROVE Linked(t)'  BY DEF AllLinked
  <2>1. CASE t \in DOMAIN categories  BY <2>1, LinkStays DEF LInv, AllLinked
  <2>2. CASE t \notin DOMAIN categories  BY <2>2
  <2> QED  BY <2>1, <2>2
<1>12. Checked'
  <2>1. \A e : SymbolsOf(e)' = SymbolsOf(e)  BY MeaningStays
  <2>2. \A e, x : Sound(e, x)' = Sound(e, x)  BY MeaningStays
  <2> SUFFICES ASSUME NEW e \in DOMAIN names, NEW x \in SymbolsOf(e)
               PROVE  Sound(e, x) \/ \E n \in DOMAIN r : r[n].file = e /\ Pending(r[n], x)
    BY <1>2, <2>1, <2>2 DEF Checked
  <2>3. CASE Sound(e, x)  BY <2>3
  <2>4. CASE ~Sound(e, x)
    <3>1. PICK n \in DOMAIN s : s[n].file = e /\ Pending(s[n], x)  BY <1>1, <2>4 DEF LInv, Checked
    <3>2. CASE n = 1
      <4>1. e = file /\ Pending(f, x)  BY <1>5, <3>1, <3>2
      <4>2. Pending(g, x)  BY <2>4, <4>1
      <4> QED  BY <1>4, <4>1, <4>2
    <3>3. CASE n # 1  BY <1>4, <3>1, <3>3
    <3> QED  BY <3>2, <3>3
  <2> QED  BY <2>3, <2>4
<1> QED  BY <1>8, <1>9, <1>10, <1>11, <1>12 DEF LInv

LEMMA LInvStill ==
  ASSUME LInv, UNCHANGED <<asts, names, categories, aliases, refs, stack>>
  PROVE  LInv'
<1>1. \A t : Alike(t)  BY DEF Alike
<1>2. AllLinked'  BY <1>1, LinkStays DEF LInv, AllLinked
<1>3. Checked'
  <2>1. \A e : SymbolsOf(e)' = SymbolsOf(e)  BY MeaningStays
  <2>2. \A e, x : Sound(e, x)' = Sound(e, x)  BY MeaningStays
  <2> QED  BY <2>1, <2>2 DEF LInv, Checked
<1> QED  BY <1>2, <1>3 DEF LInv, Descending, Grounded, Ordered, Included, Calling, Top
-----------------------------------------------------------------------------
(***************************************************************************)
(* Calls begin and end.                                                    *)
(***************************************************************************)
LEMMA InitLInv == Init => LInv
<1> SUFFICES ASSUME Init PROVE LInv  OBVIOUS
<1>1. PICK f : f = Frame(Root)  OBVIOUS
<1>2. /\ asts \in Documents /\ stack = <<f>> /\ DOMAIN names = {Root} /\ DOMAIN categories = {}
  BY <1>1 DEF Init, EmptyMap
<1>3. DOMAIN stack = {1} /\ stack[1] = f /\ Head(stack) = f  BY <1>2
<1>4. f.file = Root /\ f.phase = "includes"  BY <1>1 DEF Frame
<1>5. Descending
  <2>1. PICK depth \in [DOMAIN asts -> 0 .. Cardinality(DOMAIN asts)] :
          \A file \in DOMAIN asts : \A i \in DOMAIN asts[file].includes :
            depth[asts[file].includes[i].file] < depth[file]
    BY <1>2, PlainAssumption DEF NoCircles
  <2>2. depth \in [DOMAIN asts -> Nat]
    <3>1. IsFiniteSet(DOMAIN asts)  BY <1>2, DocumentIs
    <3>2. Cardinality(DOMAIN asts) \in Nat  BY <3>1, FS_CardinalityType
    <3>3. 0 .. Cardinality(DOMAIN asts) \subseteq Nat  BY <3>2
    <3> QED  BY <2>1, <3>3
  <2>3. \A m, n \in DOMAIN stack : ~(m < n)  BY <1>3
  <2> QED  BY <2>1, <2>2, <2>3 DEF Descending, Included
<1>6. Grounded  BY <1>2, <1>3, <1>4 DEF Grounded, Calling
<1>7. Ordered  BY <1>3, <1>4 DEF Ordered, Top
<1>8. AllLinked  BY <1>2 DEF AllLinked
<1>9. Checked
  <2>1. \A x : Pending(stack[1], x)  BY <1>3, <1>4 DEF Pending
  <2> QED  BY <1>2, <1>3, <1>4, <2>1 DEF Checked
<1> QED  BY <1>2, <1>5, <1>6, <1>7, <1>8, <1>9 DEF LInv

LEMMA IncludeLinks == MInv /\ LInv /\ ResolveInclude => LInv'
<1> SUFFICES ASSUME MInv, LInv, ResolveInclude PROVE LInv'  OBVIOUS
<1>1. IsAt("includes") /\ Top.todo # <<>>  BY DEF ResolveInclude
<1>2. /\ stack # <<>> /\ Top.phase = "includes" /\ IsFrame(Top) /\ Good(Top)
      /\ Top.file \in DOMAIN asts /\ Top.file \in DOMAIN names
  BY <1>1, InStep
<1>3. PICK f : f = Top  OBVIOUS
<1>4. PICK g : g = Continue  OBVIOUS
<1>5. PICK i : i = It  OBVIOUS
<1>6. PICK file : file = Included(f.file, i)  OBVIOUS
<1>7. InIncludes(f) /\ g.file = f.file /\ g.phase = "includes"
  BY <1>2, <1>3, <1>4 DEF Good, Continue, IsFrame
<1>8. i \in DOMAIN asts[f.file].includes
  BY <1>1, <1>3, <1>5, <1>7, TailElements DEF InIncludes, It
<1>9. UNCHANGED <<asts, categories, aliases, refs, status>>  BY DEF ResolveInclude, symbols
<1>10. \A x : Pending(g, x)  BY <1>7 DEF Pending
<1>11. \A t : Alike(t)  BY <1>9 DEF Alike
<1>12. CASE file \in DOMAIN names
  <2>1. stack' = Replaced(g) /\ UNCHANGED names
    BY <1>3, <1>4, <1>5, <1>6, <1>12 DEF ResolveInclude
  <2>2. PICK top : top = f.file  OBVIOUS
  <2>3. top = Top.file /\ g.file = top  BY <1>3, <1>7, <2>2
  <2> QED  BY <1>2, <1>3, <1>7, <1>9, <1>10, <1>11, <2>1, <2>3, LInvOn
<1>13. CASE file \notin DOMAIN names
  <2>1. names' = Put(names, file, EmptyMap) /\ stack' = <<Frame(file)>> \o Replaced(g)
    BY <1>3, <1>4, <1>5, <1>6, <1>13 DEF ResolveInclude
  <2>2. DOMAIN names' = DOMAIN names \cup {file}  BY <2>1 DEF Put
  <2>3. PICK h : h = Frame(file)  OBVIOUS
  <2>4. h.file = file /\ h.phase = "includes"  BY <2>3 DEF Frame
  <2>5. PICK s : s = stack  OBVIOUS
  <2>6. PICK b : b = Replaced(g)  OBVIOUS
  <2>7. /\ IsSeq(b) /\ DOMAIN b = DOMAIN s /\ 1 \in DOMAIN s /\ DOMAIN s \subseteq Nat \ {0}
        /\ b[1] = g /\ \A n \in DOMAIN s : n # 1 => b[n] = s[n]
        /\ Head(s) = s[1]
    <3>1. IsSeq(s) /\ IsPushed(b, g, Tail(s)) /\ s # <<>>
      BY <1>2, <2>5, <2>6 DEF MInv, IInv, Frames, Replaced, IsPushed
    <3> QED  BY ONLY <3>1, TopReplaced
  <2>8. PICK r : r = stack'  OBVIOUS
  <2>9. /\ IsSeq(r) /\ r # <<>>
        /\ DOMAIN r = 1 .. Len(b) + 1 /\ Len(b) \in Nat /\ DOMAIN b = 1 .. Len(b) /\ r[1] = h
        /\ \A n \in DOMAIN b : r[n + 1] = b[n]
    <3>1. IsPushed(r, h, b)  BY <2>1, <2>3, <2>6, <2>8 DEF IsPushed
    <3> QED  BY <2>7, <3>1, PushSeq
  <2>10. s[1] = f  BY <1>3, <2>5, <2>7 DEF Top
  <2>11. \A n \in DOMAIN b : n + 1 \in DOMAIN r /\ r[n + 1].file = s[n].file
    BY <1>7, <2>7, <2>9, <2>10
  <2>12. \A n \in DOMAIN r : n = 1 \/ (n - 1 \in DOMAIN s /\ r[n].file = s[n - 1].file /\ n # 1)
    <3> SUFFICES ASSUME NEW n \in DOMAIN r, n # 1 PROVE n - 1 \in DOMAIN s /\ r[n].file = s[n - 1].file
      OBVIOUS
    <3>1. n - 1 \in DOMAIN b /\ (n - 1) + 1 = n  BY <2>9
    <3> QED  BY <2>7, <2>11, <3>1
  <2>13. Calling' = Calling \cup {file}
    <3>1. Calling' = {r[n].file : n \in DOMAIN r} /\ Calling = {s[n].file : n \in DOMAIN s}
      BY <2>5, <2>8 DEF Calling
    <3>2. \A n \in DOMAIN r : r[n].file \in Calling \cup {file}  BY <2>4, <2>9, <2>12, <3>1
    <3>3. \A n \in DOMAIN s : s[n].file \in Calling'  BY <2>7, <2>11, <3>1
    <3>4. file \in Calling'  BY <2>4, <2>9, <3>1
    <3> QED  BY <3>1, <3>2, <3>3, <3>4
  <2>14. Descending'
    <3>1. PICK depth \in [DOMAIN asts -> Nat] :
            /\ \A e \in DOMAIN asts : \A j \in DOMAIN asts[e].includes :
                 depth[Included(e, j)] < depth[e]
            /\ \A m, n \in DOMAIN s : m < n => depth[s[m].file] < depth[s[n].file]
      BY <2>5 DEF LInv, Descending
    <3>2. depth[file] < depth[s[1].file]  BY <1>2, <1>3, <1>6, <1>8, <2>10, <3>1
    <3>3. \A n \in DOMAIN s : s[n].file \in DOMAIN asts
      BY <2>5 DEF MInv, World, Stacked, Good
    <3>4. file \in DOMAIN asts  BY <1>2, <1>3, <1>6, <1>8, DocumentIs DEF MInv, World
    <3>5. \A n \in DOMAIN s : depth[s[n].file] \in Nat  BY <3>1, <3>3
    <3>6. depth[file] \in Nat  BY <3>1, <3>4
    <3>7. ASSUME NEW n \in DOMAIN s PROVE depth[file] < depth[s[n].file]
      <4>1. CASE n = 1  BY <3>2, <4>1
      <4>2. CASE n # 1
        <5>1. 1 < n  BY <2>7, <4>2
        <5>2. depth[s[1].file] < depth[s[n].file]  BY <2>7, <3>1, <5>1
        <5> QED  BY <2>7, <3>2, <3>5, <3>6, <5>2
      <4> QED  BY <4>1, <4>2
    <3>8. ASSUME NEW m \in DOMAIN r, NEW n \in DOMAIN r, m < n
          PROVE  depth[r[m].file] < depth[r[n].file]
      <4>1. n # 1 /\ n - 1 \in DOMAIN s /\ r[n].file = s[n - 1].file
        <5>1. n # 1  BY <2>9, <3>8
        <5> QED  BY <2>12, <5>1
      <4>2. CASE m = 1  BY <2>4, <2>9, <3>7, <4>1, <4>2
      <4>3. CASE m # 1
        <5>1. m - 1 \in DOMAIN s /\ r[m].file = s[m - 1].file  BY <2>12, <4>3
        <5>2. m - 1 < n - 1  BY <2>9, <3>8
        <5> QED  BY <3>1, <4>1, <5>1, <5>2
      <4> QED  BY <4>2, <4>3
    <3> QED  BY <1>9, <2>8, <3>1, <3>8 DEF Descending, Included
  <2>15. Grounded'
    <3> SUFFICES ASSUME NEW e \in DOMAIN names' \ Calling', NEW j \in DOMAIN asts[e].includes
                 PROVE  Included(e, j) \notin Calling'
      BY <1>9 DEF Grounded, Included
    <3>1. e \in DOMAIN names \ Calling  BY <2>2, <2>13
    <3>2. Included(e, j) \notin Calling  BY <3>1 DEF LInv, Grounded
    <3>3. Included(e, j) \in DOMAIN names  BY <3>1 DEF MInv, Finished, Handled
    <3> QED  BY <1>13, <2>13, <3>2, <3>3
  <2>16. Ordered'
    <3>1. Head(r) = r[1]  BY <2>9, TailSeq
    <3> QED  BY <2>4, <2>8, <2>9, <3>1 DEF Ordered, Top
  <2>17. AllLinked'  BY <1>9, <1>11, LinkStays DEF LInv, AllLinked
  <2>18. Checked'
    <3>1. \A e : SymbolsOf(e)' = SymbolsOf(e)  BY <1>9, MeaningStays
    <3>2. \A e, x : Sound(e, x)' = Sound(e, x)  BY <1>9, MeaningStays
    <3> SUFFICES ASSUME NEW e \in DOMAIN names', NEW x \in SymbolsOf(e)
                 PROVE  Sound(e, x) \/ \E n \in DOMAIN r : r[n].file = e /\ Pending(r[n], x)
      BY <2>8, <3>1, <3>2 DEF Checked
    <3>3. CASE e = file
      <4>1. Pending(h, x) /\ 1 \in DOMAIN r  BY <2>4, <2>9 DEF Pending
      <4> QED  BY <2>4, <2>9, <3>3, <4>1
    <3>4. CASE e # file /\ ~Sound(e, x)
      <4>1. e \in DOMAIN names  BY <2>2, <3>4
      <4>2. PICK n \in DOMAIN s : s[n].file = e /\ Pending(s[n], x)  BY <2>5, <3>4, <4>1 DEF LInv, Checked
      <4>3. Pending(b[n], x)  BY <1>10, <2>7, <4>2
      <4>4. n + 1 \in DOMAIN r /\ r[n + 1].file = e /\ r[n + 1] = b[n]  BY <2>7, <2>9, <2>11, <4>2
      <4> QED  BY <4>3, <4>4
    <3> QED  BY <3>3, <3>4
  <2>19. Root \in DOMAIN names'  BY <2>2 DEF LInv
  <2> QED  BY <2>14, <2>15, <2>16, <2>17, <2>18, <2>19 DEF LInv
<1> QED  BY <1>12, <1>13

LEMMA ReturnLinks == MInv /\ LInv /\ Return => LInv'
<1> SUFFICES ASSUME MInv, LInv, Return PROVE LInv'  OBVIOUS
<1>1. /\ IsAt("rounds") /\ stack' = Tail(stack)
      /\ UNCHANGED <<asts, names, categories, aliases, refs>>
  BY DEF Return, symbols
<1>2. /\ stack # <<>> /\ Top.phase = "rounds" /\ Top.file \in DOMAIN names /\ Top.file \in DOMAIN asts
  BY <1>1, InStep
<1>3. PICK s : s = stack  OBVIOUS
<1>4. PICK r : r = Tail(s)  OBVIOUS
<1>5. IsSeq(s) /\ s # <<>>  BY <1>2, <1>3 DEF MInv, IInv, Frames
<1>6. /\ IsSeq(r) /\ Len(r) = Len(s) - 1 /\ \A n \in DOMAIN r : r[n] = s[n + 1]
      /\ 1 \in DOMAIN s /\ Head(s) = s[1]
  BY <1>4, <1>5, TailSeq
<1>7. Len(s) \in Nat /\ DOMAIN s = 1 .. Len(s) /\ DOMAIN r = 1 .. Len(r)
  BY <1>5, <1>6 DEF IsSeq
<1>8. \A n \in DOMAIN r : n + 1 \in DOMAIN s /\ n + 1 # 1 /\ n \in Nat  BY <1>6, <1>7
<1>9. \A n \in DOMAIN s : n = 1 \/ (n - 1 \in DOMAIN r /\ r[n - 1] = s[n])
  <2> SUFFICES ASSUME NEW n \in DOMAIN s, n # 1 PROVE n - 1 \in DOMAIN r /\ r[n - 1] = s[n]  OBVIOUS
  <2>1. n - 1 \in DOMAIN r /\ (n - 1) + 1 = n  BY <1>6, <1>7
  <2> QED  BY <1>6, <2>1
<1>10. stack' = r  BY <1>1, <1>3, <1>4
<1>11. PICK f : f = Top  OBVIOUS
<1>12. s[1] = f /\ f.phase = "rounds"  BY <1>2, <1>3, <1>6, <1>11 DEF Top
<1>13. PICK depth \in [DOMAIN asts -> Nat] :
         /\ \A e \in DOMAIN asts : \A i \in DOMAIN asts[e].includes :
              depth[Included(e, i)] < depth[e]
         /\ \A m, n \in DOMAIN s : m < n => depth[s[m].file] < depth[s[n].file]
  BY <1>3 DEF LInv, Descending
<1>14. Descending'
  <2>1. ASSUME NEW m \in DOMAIN r, NEW n \in DOMAIN r, m < n
        PROVE  depth[r[m].file] < depth[r[n].file]
    <3>1. m + 1 < n + 1  BY <1>8, <2>1
    <3>2. m + 1 \in DOMAIN s /\ n + 1 \in DOMAIN s  BY <1>8
    <3>3. depth[s[m + 1].file] < depth[s[n + 1].file]  BY <1>13, <3>1, <3>2
    <3>4. r[m] = s[m + 1] /\ r[n] = s[n + 1]  BY <1>6
    <3> QED  BY <3>3, <3>4
  <2> QED  BY <1>1, <1>10, <1>13, <2>1 DEF Descending, Included
<1>15. Calling' \subseteq Calling /\ \A e \in Calling : e = f.file \/ e \in Calling'
  <2>1. Calling' = {r[n].file : n \in DOMAIN r} /\ Calling = {s[n].file : n \in DOMAIN s}
    BY <1>3, <1>10 DEF Calling
  <2>2. \A n \in DOMAIN r : r[n].file \in Calling
    <3> SUFFICES ASSUME NEW n \in DOMAIN r PROVE r[n].file \in Calling  OBVIOUS
    <3>1. n + 1 \in DOMAIN s /\ r[n] = s[n + 1]  BY <1>6, <1>8
    <3> QED  BY <2>1, <3>1
  <2>3. \A n \in DOMAIN s : s[n].file = f.file \/ s[n].file \in Calling'
    <3> SUFFICES ASSUME NEW n \in DOMAIN s PROVE s[n].file = f.file \/ s[n].file \in Calling'  OBVIOUS
    <3>1. CASE n = 1  BY <1>12, <3>1
    <3>2. CASE n # 1
      <4>1. n - 1 \in DOMAIN r /\ r[n - 1] = s[n]  BY <1>9, <3>2
      <4> QED  BY <2>1, <4>1
    <3> QED  BY <3>1, <3>2
  <2> QED  BY <2>1, <2>2, <2>3
<1>16. Grounded'
  <2> SUFFICES ASSUME NEW e \in DOMAIN names \ Calling', NEW j \in DOMAIN asts[e].includes
               PROVE  Included(e, j) \notin Calling'
    BY <1>1 DEF Grounded, Included
  <2>1. CASE e \notin Calling
    <3>1. Included(e, j) \notin Calling  BY <2>1 DEF LInv, Grounded
    <3> QED  BY <1>15, <3>1
  <2>2. CASE e \in Calling
    <3>1. e = f.file /\ e \in DOMAIN asts  BY <1>2, <1>11, <1>15, <2>2
    <3>2. depth[Included(e, j)] < depth[e]  BY <1>13, <3>1
    <3>3. ASSUME NEW n \in DOMAIN r, r[n].file = Included(e, j) PROVE FALSE
      <4>1. n + 1 \in DOMAIN s /\ 1 < n + 1 /\ r[n] = s[n + 1]
        <5>1. n \in 1 .. Len(r) /\ Len(r) \in Nat  BY <1>6, <1>7
        <5> QED  BY <1>6, <1>8, <5>1
      <4>2. depth[e] < depth[Included(e, j)]  BY <1>6, <1>12, <1>13, <3>1, <3>3, <4>1
      <4>3. depth[e] \in Nat /\ depth[Included(e, j)] \in Nat
        <5>1. Included(e, j) \in DOMAIN asts  BY <3>1, DocumentIs DEF MInv, World
        <5> QED  BY <1>13, <3>1, <5>1
      <4> QED  BY <3>2, <4>2, <4>3
    <3> QED  BY <1>10, <3>3 DEF Calling
  <2> QED  BY <2>1, <2>2
<1>17. Ordered'
  <2> SUFFICES ASSUME r # <<>> PROVE Head(r).phase = "includes"  BY <1>10 DEF Ordered, Top
  <2>1. Head(r) = r[1] /\ 1 \in DOMAIN r  BY <1>6, TailSeq
  <2>2. r[1] = s[1 + 1] /\ 1 + 1 \in DOMAIN s /\ 1 + 1 # 1  BY <1>6, <1>8, <2>1
  <2> QED  BY <1>3, <2>1, <2>2 DEF MInv, Stacked
<1>18. AllLinked'
  <2>1. \A t : Alike(t)  BY <1>1 DEF Alike
  <2> QED  BY <1>1, <2>1, LinkStays DEF LInv, AllLinked
<1>19. Checked'
  <2>1. \A e : SymbolsOf(e)' = SymbolsOf(e)  BY <1>1, MeaningStays
  <2>2. \A e, x : Sound(e, x)' = Sound(e, x)  BY <1>1, MeaningStays
  <2>3. ASSUME NEW e \in DOMAIN names, NEW x \in SymbolsOf(e), ~Sound(e, x)
        PROVE  \E n \in DOMAIN r : r[n].file = e /\ Pending(r[n], x)
    <3>1. PICK n \in DOMAIN s : s[n].file = e /\ Pending(s[n], x)  BY <1>3, <2>3 DEF LInv, Checked
    <3>2. n # 1  BY <1>12, <3>1 DEF Pending
    <3>3. n - 1 \in DOMAIN r /\ r[n - 1] = s[n]  BY <1>9, <3>1, <3>2
    <3> QED  BY <3>1, <3>3
  <2>4. names' = names  BY <1>1
  <2> QED  BY ONLY <1>10, <2>1, <2>2, <2>3, <2>4 DEF Checked
<1> QED  BY <1>1, <1>14, <1>16, <1>17, <1>18, <1>19 DEF LInv
-----------------------------------------------------------------------------
\* A step that finds out nothing about a type.
LEMMA LInvCall ==
  ASSUME MInv, LInv, stack # <<>>, NEW file, file = Top.file, NEW f, f = Top,
         NEW g, g.file = file, stack' = Replaced(g), asts' = asts, DOMAIN names' = DOMAIN names,
         DOMAIN categories' = DOMAIN categories, refs' = refs, aliases' = aliases,
         g.phase = "symbols" => InOrder(g.todo),
         \A x \in SymbolsOf(file) : Pending(f, x) => Pending(g, x) \/ Sound(file, x)
  PROVE  LInv'
<1>1. \A t : Alike(t)  BY DEF Alike
<1> QED  BY <1>1, LInvOn

LEMMA FailLinks == ASSUME LInv, Fail, asts' = asts PROVE LInv'
<1>1. UNCHANGED <<asts, names, categories, aliases, refs, stack>>  BY DEF Fail, symbols
<1> QED  BY <1>1, LInvStill

LEMMA RegisterLinks == MInv /\ LInv /\ RegisterNames => LInv'
<1> SUFFICES ASSUME MInv, LInv, RegisterNames PROVE LInv'  OBVIOUS
<1>1. IsAt("includes")  BY DEF RegisterNames
<1>2. stack # <<>> /\ IsFrame(Top)  BY <1>1, InStep
<1>3. PICK f : f = Top  OBVIOUS
<1>4. PICK s : s = [d \in DOMAIN asts[f.file].defs |-> d]  OBVIOUS
<1>5. PICK g : g = [f EXCEPT !.phase = "names", !.todo = s]  OBVIOUS
<1>6. g.file = f.file /\ g.phase = "names"  BY <1>2, <1>3, <1>5 DEF IsFrame
<1>7. stack' = Replaced(g) /\ asts' = asts /\ names' = names
      /\ categories' = categories /\ refs' = refs /\ aliases' = aliases
  BY <1>3, <1>4, <1>5 DEF RegisterNames, Entering, symbols
<1>8. \A x : Pending(g, x)  BY <1>6 DEF Pending
<1>9. PICK file : file = f.file  OBVIOUS
<1>10. file = Top.file /\ g.file = file  BY <1>3, <1>6, <1>9
<1> QED  BY <1>2, <1>3, <1>6, <1>7, <1>8, <1>10, LInvCall

LEMMA AddNameLinks == MInv /\ LInv /\ AddName => LInv'
<1> SUFFICES ASSUME MInv, LInv, AddName PROVE LInv'  OBVIOUS
<1>1. IsAt("names") /\ asts' = asts  BY DEF AddName
<1>2. stack # <<>> /\ IsFrame(Top) /\ Top.phase = "names"  BY <1>1, InStep
<1>3. CASE Fail  BY <1>1, <1>3, FailLinks
<1>4. CASE ~Fail
  <2>1. PICK f : f = Top  OBVIOUS
  <2>2. PICK g : g = Continue  OBVIOUS
  <2>3. PICK file : file = f.file  OBVIOUS
  <2>4. g.file = file /\ g.phase = "names" /\ file = Top.file
    BY <1>2, <2>1, <2>2, <2>3 DEF IsFrame, Continue
  <2>5. stack' = Replaced(g) /\ categories' = categories /\ refs' = refs /\ aliases' = aliases
    BY <1>4, <2>2 DEF AddName, symbols
  <2>6. DOMAIN names' = DOMAIN names
    <3>1. names' = Named(Top.file, Def(Top.file, It))  BY <1>4 DEF AddName
    <3> QED  BY <3>1 DEF Named
  <2>7. \A x : Pending(g, x)  BY <2>4 DEF Pending
  <2> QED  BY <1>1, <1>2, <2>1, <2>4, <2>5, <2>6, <2>7, LInvCall
<1> QED  BY <1>3, <1>4

LEMMA ResolveAllLinks == MInv /\ LInv /\ ResolveAll => LInv'
<1> SUFFICES ASSUME MInv, LInv, ResolveAll PROVE LInv'  OBVIOUS
<1>1. IsAt("names")  BY DEF ResolveAll
<1>2. stack # <<>> /\ IsFrame(Top) /\ Top.file \in DOMAIN asts /\ asts \in Documents
  BY <1>1, InStep DEF MInv, World
<1>3. PICK f : f = Top  OBVIOUS
<1>4. PICK file : file = f.file  OBVIOUS
<1>5. PICK s : s = Work(file)  OBVIOUS
<1>6. PICK g : g = [f EXCEPT !.phase = "symbols", !.todo = s]  OBVIOUS
<1>7. g.file = file /\ g.phase = "symbols" /\ g.todo = s /\ file = Top.file
  BY <1>2, <1>3, <1>4, <1>6 DEF IsFrame
<1>8. stack' = Replaced(g) /\ asts' = asts /\ names' = names
      /\ categories' = categories /\ refs' = refs /\ aliases' = aliases
  BY <1>3, <1>4, <1>5, <1>6 DEF ResolveAll, Entering, symbols
<1>9. InOrder(s) /\ Elements(s) = SymbolsOf(file)  BY <1>2, <1>5, <1>7, WorkFacts
<1>10. \A x \in SymbolsOf(file) : Pending(g, x)  BY <1>7, <1>9 DEF Pending
<1> QED  BY <1>2, <1>3, <1>7, <1>8, <1>9, <1>10, LInvCall

LEMMA TypedefsLink == MInv /\ LInv /\ ResolveTypedefs => LInv'
<1> SUFFICES ASSUME MInv, LInv, ResolveTypedefs PROVE LInv'  OBVIOUS
<1>1. IsAt("symbols") /\ Top.todo = <<>>  BY DEF ResolveTypedefs
<1>2. stack # <<>> /\ IsFrame(Top) /\ Top.phase = "symbols"  BY <1>1, InStep
<1>3. PICK f : f = Top  OBVIOUS
<1>4. PICK file : file = f.file  OBVIOUS
<1>5. PICK g : g = [f EXCEPT !.phase = "rounds", !.todo = f.typedefs, !.count = Len(f.typedefs)]  OBVIOUS
<1>6. g.file = file /\ g.phase = "rounds" /\ file = Top.file
  BY <1>2, <1>3, <1>4, <1>5 DEF IsFrame
<1>7. stack' = Replaced(g) /\ asts' = asts /\ names' = names
      /\ categories' = categories /\ refs' = refs /\ aliases' = aliases
  BY <1>3, <1>5 DEF ResolveTypedefs, symbols
<1>8. \A x : ~Pending(f, x)  BY <1>1, <1>2, <1>3, NoElements DEF Pending
<1> QED  BY <1>2, <1>3, <1>6, <1>7, <1>8, LInvCall

LEMMA TypedefLinks == MInv /\ LInv /\ ResolveTypedef => LInv'
<1> SUFFICES ASSUME MInv, LInv, ResolveTypedef PROVE LInv'  OBVIOUS
<1>1. IsAt("rounds") /\ Top.todo # <<>> /\ asts' = asts /\ names' = names /\ refs' = refs /\ aliases' = aliases
  BY DEF ResolveTypedef
<1>2. stack # <<>> /\ IsFrame(Top) /\ Top.phase = "rounds" /\ Good(Top)  BY <1>1, InStep
<1>3. PICK f : f = Top  OBVIOUS
<1>4. PICK file : file = f.file  OBVIOUS
<1>5. PICK p : p = It  OBVIOUS
<1>6. p.type \in DOMAIN categories
  <2>1. PairsOf(f.file, f.todo)  BY <1>2, <1>3 DEF Good, InRounds
  <2>2. p \in Elements(f.todo)  BY <1>1, <1>3, <1>5, <2>1, TailElements DEF PairsOf, It
  <2> QED  BY <2>1, <2>2 DEF PairsOf, MInv, World
<1>7. DOMAIN categories' = DOMAIN categories
  <2>1. categories' = categories \/ \E c : categories' = Put(categories, p.type, c)
    BY <1>5 DEF ResolveTypedef
  <2> QED  BY <1>6, <2>1 DEF Put
<1>8. PICK c : c = Continue  OBVIOUS
<1>9. PICK g : stack' = Replaced(g) /\ (g = c \/ g = [c EXCEPT !.left = Append(@, p)])
  BY <1>5, <1>8 DEF ResolveTypedef
<1>10. c.file = file /\ c.phase = "rounds" /\ file = Top.file
       /\ DOMAIN c = {"file", "phase", "todo", "typedefs", "left", "count"}
  BY <1>2, <1>3, <1>4, <1>8 DEF IsFrame, Continue
<1>11. g.file = file /\ g.phase = "rounds"  BY <1>9, <1>10
<1>12. \A x : ~Pending(f, x)  BY <1>2, <1>3 DEF Pending
<1> QED  BY <1>1, <1>2, <1>3, <1>7, <1>9, <1>10, <1>11, <1>12, LInvCall

LEMMA EndRoundLinks == MInv /\ LInv /\ EndRound => LInv'
<1> SUFFICES ASSUME MInv, LInv, EndRound PROVE LInv'  OBVIOUS
<1>1. IsAt("rounds") /\ asts' = asts  BY DEF EndRound
<1>2. stack # <<>> /\ IsFrame(Top) /\ Top.phase = "rounds"  BY <1>1, InStep
<1>3. CASE Fail  BY <1>1, <1>3, FailLinks
<1>4. CASE ~Fail
  <2>1. PICK f : f = Top  OBVIOUS
  <2>2. PICK file : file = f.file  OBVIOUS
  <2>3. PICK g : g = [f EXCEPT !.todo = f.left, !.left = <<>>, !.count = Len(f.left)]  OBVIOUS
  <2>4. g.file = file /\ g.phase = "rounds" /\ file = Top.file
    BY <1>2, <2>1, <2>2, <2>3 DEF IsFrame
  <2>5. stack' = Replaced(g) /\ names' = names
        /\ categories' = categories /\ refs' = refs /\ aliases' = aliases
    BY <1>4, <2>1, <2>3 DEF EndRound, NextRound, symbols
  <2>6. \A x : ~Pending(f, x)  BY <1>2, <2>1 DEF Pending
  <2> QED  BY <1>1, <1>2, <2>1, <2>4, <2>5, <2>6, LInvCall
<1> QED  BY <1>3, <1>4
-----------------------------------------------------------------------------
(***************************************************************************)
(* The symbols.                                                            *)
(***************************************************************************)
\* The IDLs that a call which resolves symbols may look at.
Settling(file) == {file} \cup (DOMAIN names \ Calling)

LEMMA KnownNow ==
  ASSUME MInv, LInv, IsAt("symbols"), NEW file, file = Top.file
  PROVE  Known(Settling(file)) /\ file \in Settling(file) /\ asts \in Documents
<1>1. /\ stack # <<>> /\ Top.phase = "symbols" /\ Good(Top) /\ Top.file \in DOMAIN asts
      /\ Top.file \in DOMAIN names /\ asts \in Documents
  BY InStep DEF MInv, World
<1>2. PICK s : s = stack  OBVIOUS
<1>3. 1 \in DOMAIN s /\ s[1].file = file /\ DOMAIN s = 1 .. Len(s)
  <2>1. IsSeq(s) /\ s # <<>>  BY <1>1, <1>2 DEF MInv, IInv, Frames
  <2>2. 1 \in DOMAIN s /\ Head(s) = s[1]  BY <2>1, TailSeq
  <2> QED  BY <1>2, <2>1, <2>2 DEF Top, IsSeq
<1>4. PICK depth \in [DOMAIN asts -> Nat] :
         /\ \A e \in DOMAIN asts : \A i \in DOMAIN asts[e].includes :
              depth[Included(e, i)] < depth[e]
         /\ \A m, n \in DOMAIN s : m < n => depth[s[m].file] < depth[s[n].file]
  BY <1>2 DEF LInv, Descending
<1>5. Handled(file) /\ Complete(file)  BY <1>1 DEF Good, InSymbols
<1>6. ASSUME NEW i \in DOMAIN asts[file].includes PROVE Included(file, i) \in DOMAIN names \ Calling
  <2>1. PICK e : e = Included(file, i)  OBVIOUS
  <2>2. e \in DOMAIN names  BY <1>5, <2>1 DEF Handled
  <2>3. depth[e] < depth[file]  BY <1>1, <1>4, <2>1
  <2>4. depth[e] \in Nat /\ depth[file] \in Nat  BY <1>1, <1>4, <2>2 DEF MInv, World
  <2>5. ASSUME NEW n \in DOMAIN s, s[n].file = e PROVE FALSE
    <3>1. CASE n = 1  BY <1>3, <2>3, <2>4, <2>5, <3>1
    <3>2. CASE n # 1
      <4>1. 1 < n  BY <1>3, <3>2
      <4>2. depth[file] < depth[e]  BY <1>3, <1>4, <2>5, <4>1
      <4> QED  BY <2>3, <2>4, <4>2
    <3> QED  BY <3>1, <3>2
  <2> QED  BY <1>2, <2>1, <2>2, <2>5 DEF Calling
<1>7. ASSUME NEW e \in DOMAIN names \ Calling
      PROVE  /\ Complete(e) /\ e \in DOMAIN asts
             /\ \A i \in DOMAIN asts[e].includes : Included(e, i) \in DOMAIN names \ Calling
  BY DEF MInv, World, Finished, Handled, LInv, Grounded
<1> QED  BY <1>1, <1>5, <1>6, <1>7 DEF Known, Settling

\* The symbol that is at the head.
LEMMA ItIs ==
  ASSUME MInv, IsAt("symbols"), Top.todo # <<>>, NEW file, file = Top.file, NEW x, x = It, NEW f, f = Top
  PROVE  /\ x \in SymbolsOf(file) /\ IsSeq(f.todo) /\ f.todo[1] = x /\ 1 \in DOMAIN f.todo
         /\ Elements(f.todo) = Elements(Tail(f.todo)) \cup {x} /\ IsSeq(Tail(f.todo))
         /\ x.def \in Defs(file)
         /\ x.what = "value" => x.k \in DOMAIN Def(file, x.def).values
         /\ x.what = "base" => Def(file, x.def).extends # <<>>
<1>1. /\ Top.phase = "symbols" /\ Good(Top) /\ Top.file \in DOMAIN asts /\ asts \in Documents
  BY InStep DEF MInv, World
<1>2. InSymbols(f)  BY <1>1 DEF Good
<1>3. IsSeq(f.todo) /\ f.todo # <<>> /\ x = Head(f.todo)  BY <1>2 DEF InSymbols, It
<1>4. /\ Elements(f.todo) = Elements(Tail(f.todo)) \cup {x} /\ x \in Elements(f.todo) /\ IsSeq(Tail(f.todo))
  BY <1>3, TailElements
<1>5. 1 \in DOMAIN f.todo /\ f.todo[1] = x  BY <1>3, TailSeq
<1>6. x \in SymbolsOf(file)  BY <1>2, <1>4 DEF InSymbols
<1> QED  BY <1>1, <1>3, <1>4, <1>5, <1>6, TypesAreSymbols

\* When the first symbol is done the others are still in order.
LEMMA StillInOrder ==
  ASSUME NEW s, IsSeq(s), s # <<>>, InOrder(s)
  PROVE  InOrder(Tail(s))
<1>1. PICK r : r = Tail(s)  OBVIOUS
<1>2. IsSeq(r) /\ Len(r) = Len(s) - 1 /\ \A n \in DOMAIN r : r[n] = s[n + 1]  BY <1>1, TailSeq
<1>3. Len(s) \in Nat /\ DOMAIN s = 1 .. Len(s) /\ DOMAIN r = 1 .. Len(r)  BY <1>2 DEF IsSeq
<1>4. ASSUME NEW m \in DOMAIN r, NEW n \in DOMAIN r, m <= n PROVE r[m].def <= r[n].def
  <2>1. m + 1 \in DOMAIN s /\ n + 1 \in DOMAIN s /\ m + 1 <= n + 1  BY <1>2, <1>3, <1>4
  <2> QED  BY <1>2, <2>1 DEF InOrder
<1> QED  BY <1>1, <1>4 DEF InOrder

\* When a value is looked at, the typedefs of the IDL have been resolved.
LEMMA LinkedNow ==
  ASSUME MInv, LInv, Is("value"), NEW file, file = Top.file
  PROVE  LinkedIn(Settling(file))
<1>1. IsAt("symbols") /\ Top.todo # <<>> /\ It.what = "value"  BY DEF Is
<1>2. PICK f : f = Top  OBVIOUS
<1>3. PICK x : x = It  OBVIOUS
<1>4. /\ stack # <<>> /\ f.phase = "symbols" /\ Good(f) /\ file \in DOMAIN asts /\ asts \in Documents
      /\ file = f.file
  BY <1>1, <1>2, InStep DEF MInv, World
<1>5. /\ IsSeq(f.todo) /\ f.todo[1] = x /\ 1 \in DOMAIN f.todo /\ x.def \in Defs(file)
      /\ x.k \in DOMAIN Def(file, x.def).values
  BY <1>1, <1>2, <1>3, ItIs
<1>6. InOrder(f.todo)  BY <1>2, <1>4 DEF LInv, Ordered
<1>7. InSymbols(f)  BY <1>4 DEF Good
<1>8. Defs(file) \subseteq Nat \ {0}
  <2>1. IsSeq(asts[file].defs)  BY <1>4, DocumentIs
  <2> QED  BY <2>1 DEF IsSeq, Defs
<1>9. ASSUME NEW e \in Settling(file), NEW d \in Defs(e), Def(e, d).kind = "typedef", NEW t, t = <<e, d, 1>>
      PROVE  t \in DOMAIN categories
  <2>1. e \in DOMAIN asts  BY <1>4 DEF Settling, MInv, World
  <2>2. 1 \in DOMAIN Def(e, d).types  BY <1>4, <1>9, <2>1, DefinitionIs
  <2>3. t \in TypesOf(e)  BY <1>9, <2>2, TypeIs
  <2>4. CASE e # file
    <3>1. e \in DOMAIN names \ Calling  BY <2>4 DEF Settling
    <3> QED  BY <2>3, <3>1 DEF MInv, Finished
  <2>5. CASE e = file
    <3> SUFFICES ASSUME t \notin DOMAIN categories PROVE FALSE  OBVIOUS
    <3>1. SymbolOf(t) \in Elements(f.todo)  BY <1>4, <1>7, <2>3, <2>5 DEF InSymbols
    <3>2. PICK n \in DOMAIN f.todo : f.todo[n] = SymbolOf(t)  BY <3>1 DEF Elements
    <3>3. 1 <= n  BY <1>5, <3>2 DEF IsSeq
    <3>4. x.def <= d
      <4>1. SymbolOf(t).def = d  BY <1>9 DEF SymbolOf
      <4> QED  BY <1>5, <1>6, <3>2, <3>3, <4>1 DEF InOrder
    <3>5. \A c \in 1 .. d : Def(file, c).kind = "typedef"  BY <1>4, <1>9, <2>5, DefinitionIs
    <3>6. x.def \in 1 .. d  BY <1>5, <1>8, <1>9, <2>5, <3>4
    <3>7. Def(file, x.def).kind = "typedef"  BY <3>5, <3>6
    <3>8. Def(file, x.def).values = <<>>  BY <1>4, <1>5, <3>7, DefinitionIs
    <3> QED  BY <1>5, <3>8
  <2> QED  BY <2>4, <2>5
<1>10. ASSUME NEW e \in Settling(file), NEW d \in Defs(e), Def(e, d).kind = "typedef", NEW t, t = <<e, d, 1>>
       PROVE  Linked(t) /\ (t \in DOMAIN refs => refs[t] \in DOMAIN asts[e].includes)
  <2>1. t \in DOMAIN categories  BY <1>9, <1>10
  <2>2. Linked(t) /\ Right(t)  BY <2>1 DEF LInv, AllLinked, MInv, World
  <2> QED  BY <1>10, <2>2 DEF Right
<1> QED  BY <1>10 DEF LinkedIn

LEMMA ValueLinks == MInv /\ LInv /\ ResolveConstValue => LInv'
<1> SUFFICES ASSUME MInv, LInv, ResolveConstValue PROVE LInv'  OBVIOUS
<1>1. Is("value") /\ IsAt("symbols") /\ Top.todo # <<>> /\ It.what = "value" /\ asts' = asts
  BY DEF ResolveConstValue, Is
<1>2. CASE Fail  BY <1>1, <1>2, FailLinks
<1>3. CASE UNCHANGED <<names, symbols, stack>>
  <2>1. UNCHANGED <<asts, names, categories, aliases, refs, stack>>  BY <1>1, <1>3 DEF symbols
  <2> QED  BY <2>1, LInvStill
<1>4. PICK file : file = Top.file  OBVIOUS
<1>5. PICK f : f = Top  OBVIOUS
<1>6. PICK x : x = It  OBVIOUS
<1>7. PICK id : id = Def(file, x.def).values[x.k]  OBVIOUS
<1>8. PICK refsTo : refsTo = Local(file, id) \cup FromInclude(file, id)  OBVIOUS
<1>9. CASE /\ stack' = Replaced(Continue) /\ names' = names
           /\ categories' = categories /\ aliases' = aliases /\ refs' = refs
           /\ id \in Literals \/ (~GetsLost(file, id) /\ Cardinality(refsTo) = 1)
  <2>1. /\ stack # <<>> /\ Top.phase = "symbols" /\ IsFrame(Top) /\ Top.file \in DOMAIN asts
        /\ asts \in Documents
    BY <1>1, InStep DEF MInv, World
  <2>2. /\ IsSeq(f.todo) /\ 1 \in DOMAIN f.todo /\ x.def \in Defs(file)
        /\ Elements(f.todo) = Elements(Tail(f.todo)) \cup {x}
        /\ x.k \in DOMAIN Def(file, x.def).values
    BY <1>1, <1>4, <1>5, <1>6, ItIs
  <2>3. id \in Names  BY <1>4, <1>7, <2>1, <2>2, DefinitionIs
  <2>4. Sound(file, x)
    <3>1. CASE id \in Literals  BY <1>1, <1>6, <1>7, <3>1 DEF Sound
    <3>2. CASE ~GetsLost(file, id) /\ Cardinality(refsTo) = 1
      <4>1. PICK F : F = Settling(file)  OBVIOUS
      <4>2. Known(F) /\ file \in F /\ LinkedIn(F)  BY <1>1, <1>4, <4>1, KnownNow, LinkedNow
      <4>3. Cardinality(Explanations(file, id)) = 1
        BY <1>8, <2>1, <2>3, <3>2, <4>2, ExplainedOnce
      <4> QED  BY <1>1, <1>6, <1>7, <4>3 DEF Sound
    <3> QED  BY <1>9, <3>1, <3>2
  <2>5. PICK g : g = Continue  OBVIOUS
  <2>6. g.file = file /\ g.phase = "symbols" /\ g.todo = Tail(f.todo)
    BY <1>4, <1>5, <2>1, <2>5 DEF IsFrame, Continue
  <2>7. InOrder(g.todo)
    <3>1. InOrder(f.todo)  BY <1>5, <2>1 DEF LInv, Ordered
    <3> QED  BY <2>2, <2>6, <3>1, <1>1, <1>5, StillInOrder
  <2>8. \A y : Pending(f, y) => Pending(g, y) \/ Sound(file, y)
    BY <1>5, <2>1, <2>2, <2>4, <2>6 DEF Pending
  <2> QED  BY <1>1, <1>4, <1>5, <1>9, <2>1, <2>5, <2>6, <2>7, <2>8, LInvCall
<1> QED
  <2>1. \/ Fail
        \/ UNCHANGED <<names, symbols, stack>>
        \/ /\ stack' = Replaced(Continue) /\ UNCHANGED <<names, symbols>>
           /\ id \in Literals
        \/ /\ stack' = Replaced(Continue) /\ UNCHANGED <<names, categories, aliases, refs>>
           /\ ~GetsLost(file, id) /\ Cardinality(refsTo) = 1
    BY <1>4, <1>6, <1>7, <1>8 DEF ResolveConstValue, Explained
  <2> QED  BY <1>2, <1>3, <1>9, <2>1 DEF symbols

LEMMA BaseLinks == MInv /\ LInv /\ ResolveBaseService => LInv'
<1> SUFFICES ASSUME MInv, LInv, ResolveBaseService PROVE LInv'  OBVIOUS
<1>1. IsAt("symbols") /\ Top.todo # <<>> /\ It.what = "base" /\ asts' = asts
  BY DEF ResolveBaseService, Is
<1>2. CASE Fail  BY <1>1, <1>2, FailLinks
<1>3. CASE ~Fail
  <2>1. PICK file : file = Top.file  OBVIOUS
  <2>2. PICK f : f = Top  OBVIOUS
  <2>3. PICK x : x = It  OBVIOUS
  <2>4. PICK name : name = Def(file, x.def).extends  OBVIOUS
  <2>5. PICK places : places = PlacesOf(file, name, {"service"})  OBVIOUS
  <2>6. /\ stack # <<>> /\ Top.phase = "symbols" /\ IsFrame(Top) /\ Top.file \in DOMAIN asts
        /\ asts \in Documents
    BY <1>1, InStep DEF MInv, World
  <2>7. /\ IsSeq(f.todo) /\ 1 \in DOMAIN f.todo /\ x.def \in Defs(file)
        /\ Elements(f.todo) = Elements(Tail(f.todo)) \cup {x}
        /\ name # <<>>
    BY <1>1, <2>1, <2>2, <2>3, <2>4, ItIs
  <2>8. name \in Names  BY <2>1, <2>4, <2>6, <2>7, DefinitionIs
  <2>9. places # {}  BY <1>3, <2>1, <2>3, <2>4, <2>5 DEF ResolveBaseService
  <2>10. PICK at : at = <<file, x.def, 0>>  OBVIOUS
  <2>11. PICK i : refs' = refs \/ refs' = Put(refs, at, i)
    <3>1. PICK i : Refer(at, i)  BY <1>3, <2>1, <2>3, <2>10 DEF ResolveBaseService
    <3> QED  BY <3>1 DEF Refer
  <2>12. stack' = Replaced(Continue) /\ names' = names /\ categories' = categories /\ aliases' = aliases
    BY <1>3 DEF ResolveBaseService
  <2>13. Sound(file, x)
    <3>1. PICK F : F = Settling(file)  OBVIOUS
    <3>2. Known(F) /\ file \in F  BY <1>1, <2>1, <3>1, KnownNow
    <3>3. PICK i2 \in PlacesOf(file, name, {"service"}) : TRUE  BY <2>5, <2>9
    <3>4. Meant(file, name, {"service"}) # {}  BY <2>6, <2>8, <3>2, <3>3, PlacesAreMeant
    <3> QED  BY <1>1, <2>3, <2>4, <3>4 DEF Sound
  <2>14. ASSUME NEW t \in DOMAIN categories PROVE Alike(t)
    <3>1. t[3] # 0
      <4>1. t \in TypesOf(t[1]) /\ t[1] \in DOMAIN asts  BY DEF MInv, World, Right
      <4> QED  BY <2>6, <4>1, TypeHasPosition
    <3>2. t # at  BY <2>10, <3>1
    <3> QED  BY <2>11, <2>12, <3>2 DEF Alike, Put
  <2>15. PICK g : g = Continue  OBVIOUS
  <2>16. g.file = file /\ g.phase = "symbols" /\ g.todo = Tail(f.todo)
    BY <2>1, <2>2, <2>6, <2>15 DEF IsFrame, Continue
  <2>17. InOrder(g.todo)
    <3>1. InOrder(f.todo)  BY <2>2, <2>6 DEF LInv, Ordered
    <3> QED  BY <1>1, <2>2, <2>7, <2>16, <3>1, StillInOrder
  <2>18. \A y : Pending(f, y) => Pending(g, y) \/ Sound(file, y)
    BY <2>2, <2>6, <2>7, <2>13, <2>16 DEF Pending
  <2> QED  BY <1>1, <2>1, <2>2, <2>6, <2>12, <2>14, <2>15, <2>16, <2>17, <2>18, LInvOn
<1> QED  BY <1>2, <1>3

\* A type is linked with what it means.
LEMMA TypeLinks == MInv /\ LInv /\ ResolveType => LInv'
<1> SUFFICES ASSUME MInv, LInv, ResolveType PROVE LInv'  OBVIOUS
<1>1. Is("type") /\ IsAt("symbols") /\ Top.todo # <<>> /\ asts' = asts /\ It.what = "type"
  BY DEF ResolveType, Is
<1>2. /\ stack # <<>> /\ Top.phase = "symbols" /\ IsFrame(Top) /\ Top.file \in DOMAIN asts
      /\ asts \in Documents
  BY <1>1, InStep DEF MInv, World
<1>3. PICK file : file = Top.file  OBVIOUS
<1>4. PICK f : f = Top  OBVIOUS
<1>5. PICK x : x = It  OBVIOUS
<1>6. PICK t : t = Here  OBVIOUS
<1>7. PICK name : name = TypeName(t)  OBVIOUS
<1>8. PICK cont : cont = Continue  OBVIOUS
<1>9. /\ t \in TypesOf(file) /\ t[1] = file /\ t \notin DOMAIN categories /\ t \notin aliases
      /\ t \notin DOMAIN refs
  BY <1>1, <1>3, <1>6, HereIsNew
<1>10. name \in Names
  <2>1. t[2] \in Defs(file) /\ t[3] \in DOMAIN Def(file, t[2]).types  BY <1>2, <1>3, <1>9, TypeHasPosition
  <2> QED  BY <1>2, <1>3, <1>7, <1>9, <2>1, DefinitionIs DEF TypeName
<1>11. /\ IsSeq(f.todo) /\ 1 \in DOMAIN f.todo
       /\ Elements(f.todo) = Elements(Tail(f.todo)) \cup {x}
  BY <1>1, <1>3, <1>4, <1>5, ItIs
<1>12. cont.file = file /\ cont.phase = "symbols" /\ cont.todo = Tail(f.todo)
       /\ DOMAIN cont = {"file", "phase", "todo", "typedefs", "left", "count"}
  BY <1>2, <1>3, <1>4, <1>8 DEF IsFrame, Continue
<1>13. InOrder(Tail(f.todo))
  <2>1. InOrder(f.todo)  BY <1>2, <1>4 DEF LInv, Ordered
  <2> QED  BY <1>1, <1>4, <1>11, <2>1, StillInOrder
<1>14. Sound(file, x)  BY <1>1, <1>5 DEF Sound
<1>15. ASSUME NEW g, g = cont \/ \E p : g = [cont EXCEPT !.typedefs = Append(@, p)],
              stack' = Replaced(g), names' = names,
              NEW c, categories' = Put(categories, t, c),
              NEW i, refs' = (IF i = 0 THEN refs ELSE Put(refs, t, i)),
              aliases \subseteq aliases', aliases' \subseteq aliases \cup {t},
              Linked(t)'
       PROVE  LInv'
  <2>1. g.file = file /\ g.phase = "symbols" /\ g.todo = Tail(f.todo)
    BY <1>12, <1>15
  <2>2. InOrder(g.todo)  BY <1>13, <2>1
  <2>3. \A y : Pending(f, y) => Pending(g, y) \/ Sound(file, y)
    BY <1>2, <1>4, <1>11, <1>14, <2>1 DEF Pending
  <2>4. \A u : u # t => Alike(u)  BY <1>15 DEF Alike, Put
  <2>5. \A u \in DOMAIN categories : Alike(u)  BY <1>9, <2>4
  <2>6. \A u \in DOMAIN categories' \ DOMAIN categories : Linked(u)'
    <3> SUFFICES ASSUME NEW u \in DOMAIN categories' \ DOMAIN categories PROVE Linked(u)'  OBVIOUS
    <3>1. u = t  BY <1>15 DEF Put
    <3> QED  BY <1>15, <3>1
  <2> QED  BY <1>1, <1>2, <1>3, <1>4, <1>15, <2>1, <2>2, <2>3, <2>5, <2>6, LInvOn
<1>16. TypeName(t)' = name  BY <1>1, <1>7 DEF TypeName, Def
<1>17. CASE Fail  BY <1>1, <1>17, FailLinks
<1>18. CASE /\ name \in Builtin /\ categories' = Put(categories, t, name[1])
            /\ stack' = Replaced(cont) /\ UNCHANGED <<names, aliases, refs>>
  <2>1. t \notin DOMAIN refs' /\ t \notin aliases'  BY <1>9, <1>18
  <2>2. Linked(t)'  BY <1>16, <1>18, <2>1 DEF Linked
  <2>3. PICK c : c = name[1]  OBVIOUS
  <2>4. PICK i : i = 0  OBVIOUS
  <2>5. refs' = (IF i = 0 THEN refs ELSE Put(refs, t, i))  BY <1>18, <2>4
  <2>6. categories' = Put(categories, t, c)  BY <1>18, <2>3
  <2> QED  BY <1>15, <1>18, <2>2, <2>5, <2>6
<1>19. ASSUME names' = names, name \notin Builtin, NEW i \in PlacesOf(file, name, TypeLike),
              Found(t, i, At(file, i), Base(name))
       PROVE  LInv'
  <2>1. PICK there : there = At(file, i)  OBVIOUS
  <2>2. PICK base : base = Base(name)  OBVIOUS
  <2>3. PICK c : c = Category(there, base)  OBVIOUS
  <2>4. PICK M : M = Meant(file, name, TypeLike)  OBVIOUS
  <2>5. PICK F : F = Settling(file)  OBVIOUS
  <2>6. Known(F) /\ file \in F  BY <1>1, <1>3, <2>5, KnownNow
  <2>7. /\ i = 0 <=> Len(name) = 1
        /\ M = Defines(there, base, TypeLike) /\ M # {} /\ c \in TypeLike /\ there \in F
    BY <1>2, <1>10, <1>19, <2>1, <2>2, <2>3, <2>4, <2>6, TypeLikeIs, PlacesAreMeant
  <2>8. /\ categories' = Put(categories, t, c)
        /\ refs' = (IF i = 0 THEN refs ELSE Put(refs, t, i))
    BY <1>19, <2>1, <2>2, <2>3 DEF Found, Refer
  <2>9. t \in DOMAIN refs' <=> Len(name) # 1  BY <1>9, <2>7, <2>8 DEF Put
  <2>10. Target(t)' = <<there, base>>
    <3>1. Get(refs, t, 0)' = i  BY <1>9, <2>8 DEF Get, Put
    <3>2. At(t[1], i)' = there  BY <1>1, <1>9, <2>1 DEF At, Included
    <3>3. Target(t)' = <<At(t[1], i)', Base(name)>>
      BY <1>16, <3>1 DEF Target, Base
    <3> QED  BY <2>2, <3>2, <3>3
  <2>11. t \in aliases' <=> c = "typedef"  BY <1>9, <1>19, <2>1, <2>2, <2>3 DEF Found
  <2>12. aliases' \subseteq aliases \cup {t} /\ aliases \subseteq aliases'  BY <1>19 DEF Found
  <2>13. c = "typedef" <=> \E node \in M : Kind(node) = "typedef"
    <3>1. there \in DOMAIN asts /\ Complete(there)  BY <2>6, <2>7 DEF Known
    <3>2. PICK d : d = Lookup(there, base)  OBVIOUS
    <3>3. M = {<<there, d>>}  BY <1>2, <2>3, <2>7, <3>1, <3>2, TypeLikeIs, CompleteDefines
    <3>4. Def(there, d).kind = c  BY <1>2, <2>3, <2>7, <3>1, <3>2, TypeLikeIs, LookupFinds
    <3>5. Kind(<<there, d>>) = c  BY <3>4 DEF Kind
    <3> QED  BY <3>3, <3>5
  <2>14. Linked(t)'
    <3>1. Meant(file, name, TypeLike)' = M /\ Defines(there, base, TypeLike)' = M
      <4>1. Meant(file, name, TypeLike)' = Meant(file, name, TypeLike)  BY <1>1, MeaningStays
      <4>2. Defines(there, base, TypeLike)' = Defines(there, base, TypeLike)  BY <1>1, MeaningStays
      <4> QED  BY <2>4, <2>7, <4>1, <4>2
    <3>2. \A node : Kind(node)' = Kind(node)  BY <1>1, MeaningStays
    <3>3. Meant(t[1], TypeName(t), TypeLike)' = M  BY <1>9, <1>16, <3>1
    <3>4. Target(t)[1]' = there /\ Target(t)[2]' = base  BY <2>10
    <3>5. Defines(Target(t)[1], Target(t)[2], TypeLike)' = M  BY <3>1, <3>4
    <3> QED  BY <1>16, <1>19, <2>7, <2>9, <2>11, <2>13, <3>2, <3>3, <3>5 DEF Linked
  <2>15. CASE c = "typedef"
    <3>1. PICK p : p = Pair(t, there, base)  OBVIOUS
    <3>2. PICK g : g = [cont EXCEPT !.typedefs = Append(@, p)]  OBVIOUS
    <3>3. stack' = Replaced(g)
      BY <1>8, <1>19, <2>1, <2>2, <2>3, <2>15, <3>1, <3>2 DEF Found, WithPair
    <3> QED  BY <1>15, <1>19, <2>8, <2>12, <2>14, <3>2, <3>3
  <2>16. CASE c # "typedef"
    <3>1. stack' = Replaced(cont)  BY <1>8, <1>19, <2>1, <2>2, <2>3, <2>16 DEF Found
    <3> QED  BY <1>15, <1>19, <2>8, <2>12, <2>14, <3>1
  <2> QED  BY <2>15, <2>16
<1> QED
  <2>1. \/ Fail
        \/ name \in Builtin /\ categories' = Put(categories, t, name[1])
             /\ stack' = Replaced(cont) /\ UNCHANGED <<names, aliases, refs>>
        \/ names' = names /\ name \notin Builtin
             /\ \E i \in PlacesOf(file, name, TypeLike) : Found(t, i, At(file, i), Base(name))
    BY <1>3, <1>6, <1>7, <1>8 DEF ResolveType
  <2> QED  BY <1>17, <1>18, <1>19, <2>1

LEMMA NextLinks == MInv /\ LInv /\ [Next]_vars => LInv'
<1> SUFFICES ASSUME MInv, LInv, [Next]_vars PROVE LInv'  OBVIOUS
<1>1. CASE UNCHANGED vars
  <2>1. UNCHANGED <<asts, names, categories, aliases, refs, stack>>  BY <1>1 DEF vars
  <2> QED  BY <2>1, LInvStill
<1> QED
  BY <1>1, IncludeLinks, RegisterLinks, AddNameLinks, ResolveAllLinks, TypeLinks, ValueLinks,
     BaseLinks, TypedefsLink, TypedefLinks, EndRoundLinks, ReturnLinks DEF Next
-----------------------------------------------------------------------------
(***************************************************************************)
(* In the end: every IDL that is reached has been resolved.                *)
(***************************************************************************)
LEMMA InTheEnd ==
  ASSUME MInv, LInv, stack = <<>>
  PROVE  /\ Reached \subseteq DOMAIN names /\ asts \in Documents
         /\ \A file \in DOMAIN names :
              /\ file \in DOMAIN asts /\ Complete(file) /\ TypesOf(file) \subseteq DOMAIN categories
              /\ \A x \in SymbolsOf(file) : Sound(file, x)
<1>1. Calling = {} /\ DOMAIN stack = {}  BY DEF Calling
<1>2. asts \in Documents /\ DOMAIN names \subseteq DOMAIN asts  BY DEF MInv, World
<1>3. ASSUME NEW file \in DOMAIN names
      PROVE  Handled(file) /\ Complete(file) /\ TypesOf(file) \subseteq DOMAIN categories
  BY <1>1 DEF MInv, Finished
<1>4. Reached \subseteq DOMAIN names
  <2>1. Root \in DOMAIN names  BY DEF LInv
  <2>2. \A f \in DOMAIN names : \A i \in DOMAIN asts[f].includes : Included(f, i) \in DOMAIN names
    BY <1>3 DEF Handled
  <2> QED  BY <1>2, <2>1, <2>2 DEF Reached
<1>5. ASSUME NEW file \in DOMAIN names, NEW x \in SymbolsOf(file) PROVE Sound(file, x)
  BY <1>1 DEF LInv, Checked
<1> QED  BY <1>2, <1>3, <1>4, <1>5

\* A name of a built-in type means nothing else.
LEMMA BuiltinMeansNothing ==
  ASSUME asts \in Documents, NEW file \in DOMAIN asts, NEW name \in Builtin, NEW kinds
  PROVE  Meant(file, name, kinds) = {}
<1>1. Len(name) = 1  BY DEF Builtin
<1>2. \A d \in Defs(file) : Def(file, d).name # name  BY NameIs
<1> QED  BY <1>1, <1>2 DEF Meant, Defines, Defs

\* What a typedef that has been resolved follows has a lower rank.
LEMMA FollowsFalls ==
  ASSUME MInv, LInv, stack = <<>>, NEW rank \in [AllTypes -> Nat], Settled(rank),
         NEW file \in DOMAIN names, NEW d \in Defs(file), Def(file, d).kind = "typedef",
         NEW t, t = <<file, d, 1>>, categories[t] # "typedef",
         NEW next \in Follows(<<file, d>>), Kind(next) = "typedef"
  PROVE  /\ next[1] \in DOMAIN names /\ next[2] \in Defs(next[1])
         /\ t \in AllTypes /\ <<next[1], next[2], 1>> \in AllTypes
         /\ rank[<<next[1], next[2], 1>>] < rank[t]
<1>1. asts \in Documents /\ file \in DOMAIN asts /\ TypesOf(file) \subseteq DOMAIN categories
  BY InTheEnd
<1>2. 1 \in DOMAIN Def(file, d).types  BY <1>1, DefinitionIs
<1>3. t \in TypesOf(file)  BY <1>2, TypeIs
<1>4. t \in DOMAIN categories /\ t \in AllTypes  BY <1>1, <1>3, TypeHasPosition
<1>5. Linked(t) /\ Right(t)  BY <1>4 DEF LInv, AllLinked, MInv, World
<1>6. PICK name : name = TypeName(t)  OBVIOUS
<1>7. next \in Meant(file, name, TypeLike)  BY <1>6 DEF Follows, TypeName
<1>8. name \notin Builtin  BY <1>1, <1>7, BuiltinMeansNothing
<1>9. PICK there : there = Target(t)[1]  OBVIOUS
<1>10. PICK base : base = Target(t)[2]  OBVIOUS
<1>11. next \in Defines(there, base, TypeLike)  BY <1>5, <1>6, <1>7, <1>8, <1>9, <1>10 DEF Linked
<1>12. t \in aliases  BY <1>5, <1>6, <1>7, <1>8 DEF Linked
<1>13. there \in DOMAIN names  BY <1>5, <1>9 DEF Right
<1>14. there \in DOMAIN asts /\ Complete(there)  BY <1>13, InTheEnd
<1>15. PICK e : e = Lookup(there, base)  OBVIOUS
<1>16. Defines(there, base, TypeLike) = {<<there, e>>}
  <2>1. Defines(there, base, TypeLike) # {}  BY <1>11
  <2> QED  BY <1>1, <1>14, <1>15, <2>1, TypeLikeIs, CompleteDefines
<1>17. next = <<there, e>>  BY <1>11, <1>16
<1>18. TargetType(t) = <<there, e, 1>>  BY <1>9, <1>10, <1>15 DEF TargetType
<1>19. TargetType(t) \in DOMAIN categories /\ rank[TargetType(t)] < rank[t]  BY <1>12 DEF Settled
<1>20. <<there, e, 1>> \in DOMAIN categories /\ rank[<<there, e, 1>>] < rank[t]  BY <1>18, <1>19
<1>21. <<there, e, 1>> \in TypesOf(there)
  <2>1. PICK u : u = <<there, e, 1>>  OBVIOUS
  <2>2. Right(u)  BY <1>20, <2>1 DEF MInv, World
  <2> QED  BY <2>1, <2>2 DEF Right
<1>22. <<there, e, 1>> \in AllTypes /\ e \in Defs(there)  BY <1>1, <1>14, <1>21, TypeHasPosition
<1> QED  BY <1>4, <1>13, <1>17, <1>20, <1>22

LEMMA NoCircleInTheEnd ==
  ASSUME MInv, LInv, stack = <<>>, \A t \in DOMAIN categories : categories[t] # "typedef",
         NEW file \in DOMAIN names, NEW d \in Defs(file)
  PROVE  ~Circular(<<file, d>>)
<1> SUFFICES ASSUME Circular(<<file, d>>) PROVE FALSE  OBVIOUS
<1>1. PICK S \in SUBSET Typedefs : <<file, d>> \in S /\ \A x \in S : Follows(x) \cap S # {}
  BY DEF Circular
<1>2. PICK rank \in [AllTypes -> Nat] : Settled(rank)  BY DEF MInv, Ranked
<1> DEFINE Firm == {x \in S : x[1] \in DOMAIN names}
           Of(x) == <<x[1], x[2], 1>>
           R == {rank[Of(x)] : x \in Firm}
<1>3. ASSUME NEW x \in Firm
      PROVE  Of(x) \in AllTypes /\ \E y \in Firm : rank[Of(y)] < rank[Of(x)]
  <2>1. x \in S /\ x \in Nodes /\ Kind(x) = "typedef" /\ x[1] \in DOMAIN names  BY <1>1 DEF Typedefs
  <2>2. x = <<x[1], x[2]>> /\ x[2] \in Defs(x[1])  BY <2>1 DEF Nodes, Defs
  <2>3. PICK e : e = x[1]  OBVIOUS
  <2>4. PICK c : c = x[2]  OBVIOUS
  <2>5. PICK t : t = <<e, c, 1>>  OBVIOUS
  <2>6. e \in DOMAIN names /\ c \in Defs(e) /\ Def(e, c).kind = "typedef" /\ x = <<e, c>>
    BY <2>1, <2>2, <2>3, <2>4 DEF Kind
  <2>7. PICK next \in Follows(<<e, c>>) : next \in S  BY <1>1, <2>1, <2>6
  <2>8. Kind(next) = "typedef"  BY <1>1, <2>7 DEF Typedefs
  <2>9. categories[t] # "typedef"
    <3>1. asts \in Documents /\ e \in DOMAIN asts /\ TypesOf(e) \subseteq DOMAIN categories
      BY <2>6, InTheEnd
    <3>2. 1 \in DOMAIN Def(e, c).types  BY <2>6, <3>1, DefinitionIs
    <3>3. t \in TypesOf(e)  BY <2>5, <2>6, <3>2, TypeIs
    <3> QED  BY <3>1, <3>3
  <2>10. /\ next[1] \in DOMAIN names /\ t \in AllTypes
         /\ rank[<<next[1], next[2], 1>>] < rank[t]
    BY <1>2, <2>5, <2>6, <2>7, <2>8, <2>9, FollowsFalls
  <2>11. next \in Firm  BY <2>7, <2>10
  <2>12. Of(x) = t /\ Of(next) = <<next[1], next[2], 1>>  BY <2>3, <2>4, <2>5
  <2> QED  BY <2>10, <2>11, <2>12
<1>4. <<file, d>> \in Firm  BY <1>1
<1> HIDE DEF Of, Firm
<1>5. R \subseteq Nat /\ R # {}  BY <1>2, <1>3, <1>4
<1>6. PICK k \in R : \A l \in R : k <= l
  <2> HIDE DEF R
  <2> QED  BY <1>5, LeastNumber
<1>7. PICK x \in Firm : k = rank[Of(x)]  BY <1>6
<1>8. PICK y \in Firm : rank[Of(y)] < rank[Of(x)]  BY <1>3
<1>9. rank[Of(y)] \in R  BY <1>8
<1>10. rank[Of(x)] \in Nat /\ rank[Of(y)] \in Nat  BY <1>2, <1>3
<1>11. rank[Of(x)] <= rank[Of(y)]
  <2> HIDE DEF R
  <2> QED  BY <1>6, <1>7, <1>9
<1>12. PICK m, n : m = rank[Of(x)] /\ n = rank[Of(y)]  OBVIOUS
<1>13. m \in Nat /\ n \in Nat /\ n < m /\ m <= n  BY <1>8, <1>10, <1>11, <1>12
<1> QED  BY ONLY <1>13

LEMMA LegalInTheEnd ==
  ASSUME MInv, LInv, stack = <<>>, \A t \in DOMAIN categories : categories[t] # "typedef"
  PROVE  ~Illegal
<1> SUFFICES ASSUME NEW file \in Reached, NEW d \in DOMAIN asts[file].defs
             PROVE  ~IllegalDef(file, Def(file, d)) /\ ~Circular(<<file, d>>)
  BY DEF Illegal
<1>1. file \in DOMAIN names /\ asts \in Documents  BY InTheEnd
<1>2. /\ file \in DOMAIN asts /\ Complete(file) /\ TypesOf(file) \subseteq DOMAIN categories
      /\ \A x \in SymbolsOf(file) : Sound(file, x)
  BY <1>1, InTheEnd
<1>3. d \in Defs(file)  BY DEF Defs
<1>4. ~Circular(<<file, d>>)  BY <1>1, <1>3, NoCircleInTheEnd
<1>5. PICK def : def = Def(file, d)  OBVIOUS
<1>6. ~(Cardinality(Defines(file, def.name, Kinds)) > 1)
  <2>1. "none" \notin Kinds /\ def.kind \in Kinds
    <3>1. def.kind \in Kinds  BY <1>1, <1>2, <1>3, <1>5, DocumentIs
    <3> QED  BY <3>1 DEF Kinds, TypeLike
  <2>2. PICK name : name = def.name  OBVIOUS
  <2>3. PICK D : D = Defines(file, name, Kinds)  OBVIOUS
  <2>4. <<file, d>> \in D  BY <1>3, <1>5, <2>1, <2>2, <2>3, DefinesIs
  <2>5. PICK node : node = <<file, Lookup(file, name)>>  OBVIOUS
  <2>6. D = {node}
    <3>1. D # {}  BY <2>4
    <3> QED  BY <1>1, <1>2, <2>1, <2>3, <2>5, <3>1, CompleteDefines
  <2>7. Cardinality(D) = 1  BY <2>6, FS_Singleton
  <2> QED  BY <2>2, <2>3, <2>7
<1>7. ASSUME NEW k \in DOMAIN def.types, def.types[k] \notin Builtin
      PROVE  Meant(file, def.types[k], TypeLike) # {}
  <2>1. PICK t : t = <<file, d, k>>  OBVIOUS
  <2>2. t \in TypesOf(file)  BY <1>3, <1>5, <2>1, TypeIs
  <2>3. Linked(t)  BY <1>2, <2>2 DEF LInv, AllLinked
  <2>4. TypeName(t) = def.types[k] /\ t[1] = file  BY <1>5, <2>1 DEF TypeName
  <2> QED  BY <1>7, <2>3, <2>4 DEF Linked
<1>8. ASSUME NEW k \in DOMAIN def.values, def.values[k] \notin Literals
      PROVE  Cardinality(Explanations(file, def.values[k])) = 1
  <2>1. PICK x : x = [what |-> "value", def |-> d, k |-> k]  OBVIOUS
  <2>2. x \in SymbolsOf(file)  BY <1>1, <1>2, <1>3, <1>5, <2>1, TypesAreSymbols
  <2>3. Sound(file, x) /\ x.what = "value" /\ x.def = d /\ x.k = k  BY <1>2, <2>1, <2>2
  <2> QED  BY <1>5, <1>8, <2>3 DEF Sound
<1>9. def.extends # <<>> => Meant(file, def.extends, {"service"}) # {}
  <2> SUFFICES ASSUME def.extends # <<>> PROVE Meant(file, def.extends, {"service"}) # {}  OBVIOUS
  <2>1. PICK x : x = [what |-> "base", def |-> d, k |-> 1]  OBVIOUS
  <2>2. x \in SymbolsOf(file)  BY <1>1, <1>2, <1>3, <1>5, <2>1, TypesAreSymbols
  <2>3. Sound(file, x) /\ x.what = "base" /\ x.def = d  BY <1>2, <2>1, <2>2
  <2> QED  BY <1>5, <2>3 DEF Sound
<1>10. ~IllegalDef(file, def)  BY <1>6, <1>7, <1>8, <1>9 DEF IllegalDef
<1> QED  BY <1>4, <1>5, <1>10

\* ResolveSymbols accepts only IDLs whose names are defined once, mean something
\* and can be explained in one way, and whose typedefs run in no circle.
THEOREM OnlyLegalIsAccepted == Spec => []AcceptedIsLegal
<1> DEFINE Empty == status = "resolved" => stack = <<>>
           Concrete == status = "resolved" => \A t \in DOMAIN categories : categories[t] # "typedef"
<1>1. MInv /\ LInv /\ Empty /\ Concrete => AcceptedIsLegal
  BY LegalInTheEnd DEF AcceptedIsLegal
<1>2. Spec => []Empty  BY NoCallsInTheEnd
<1>3. Spec => []Concrete  BY ResolvedIsConcrete
<1> HIDE DEF Empty, Concrete
<1> QED  BY <1>1, <1>2, <1>3, InitMInv, NextKeeps, InitLInv, NextLinks, PTL DEF Spec
-----------------------------------------------------------------------------
(***************************************************************************)
(* A call of getEnum that does not come back goes round in a circle.       *)
(***************************************************************************)
\* What a call answers, with at most k calls.
Answers(k, file, name) == GetEnum[k][<<file, name>>].answer

\* The typedefs for which k calls are not enough.
LostIn(F, k) ==
  {x \in Typedefs : x[1] \in F /\ Answers(k, x[1], Def(x[1], x[2]).name) = "lost"}

LEMMA AnswerIs ==
  ASSUME asts \in Documents, NEW F, Known(F), NEW file \in F, NEW name \in Seq(STRING),
         NEW k \in 0 .. Calls
  PROVE  /\ k = 0 => Answers(k, file, name) = "lost"
         /\ k # 0 /\ Category(file, name) = "enum" => Answers(k, file, name) = "yes"
         /\ k # 0 /\ Category(file, name) \notin {"enum", "typedef"} => Answers(k, file, name) = "no"
<1>1. PICK at : at = <<file, name>>  OBVIOUS
<1>2. at \in (DOMAIN asts) \X Seq(STRING) /\ at[1] = file /\ at[2] = name  BY <1>1 DEF Known
<1>3. GetEnum[k][at] = EnumCall(GetEnum[k - 1], k, at)  BY <1>2, GetEnumIsDefined
<1>4. k = 0 => EnumCall(GetEnum[k - 1], k, at) = Lost  BY DEF EnumCall
<1>5. k # 0 /\ Category(file, name) = "enum" =>
        EnumCall(GetEnum[k - 1], k, at)
          = [answer |-> "yes", members |-> Def(file, Lookup(file, name)).members, index |-> 0]
  BY <1>2 DEF EnumCall
<1>6. k # 0 /\ Category(file, name) \notin {"enum", "typedef"} =>
        EnumCall(GetEnum[k - 1], k, at) = NoEnum
  BY <1>2 DEF EnumCall
<1>7. Lost.answer = "lost" /\ NoEnum.answer = "no"  BY DEF Lost, NoEnum
<1> QED  BY <1>1, <1>3, <1>4, <1>5, <1>6, <1>7 DEF Answers

\* For a typedef it is what the next call answers.
LEMMA AnswerFollows ==
  ASSUME asts \in Documents, NEW F, Known(F), LinkedIn(F), NEW file \in F, NEW name \in Seq(STRING),
         Category(file, name) = "typedef"
  PROVE  \E e \in F : \E base \in Seq(STRING) :
           /\ Follows(<<file, Lookup(file, name)>>) = Defines(e, base, TypeLike)
           /\ \A k \in 1 .. Calls : Answers(k, file, name) = Answers(k - 1, e, base)
<1>1. PICK d : d = Lookup(file, name)  OBVIOUS
<1>2. PICK t : t = <<file, d, 1>>  OBVIOUS
<1>3. PICK i : i = Get(refs, t, 0)  OBVIOUS
<1>4. PICK T : T = TypeName(t)  OBVIOUS
<1>5. file \in DOMAIN asts /\ Complete(file) /\ Calls \in Nat  BY DefsAreFinite DEF Known
<1>6. PICK at : at = <<file, name>>  OBVIOUS
<1>7. at \in (DOMAIN asts) \X Seq(STRING) /\ at[1] = file /\ at[2] = name  BY <1>5, <1>6
<1>8. ASSUME NEW k \in 1 .. Calls, NEW lower, lower = GetEnum[k - 1]
      PROVE  /\ i = 0 => GetEnum[k][at] = lower[<<file, T>>]
             /\ i # 0 => GetEnum[k][at] = IF lower[<<Included(file, i), Base(T)>>].answer = "no"
                                         THEN lower[<<file, T>>]
                                         ELSE [lower[<<Included(file, i), Base(T)>>] EXCEPT !.index = i]
  <2>1. k \in 0 .. Calls /\ k # 0  BY <1>5
  <2>2. GetEnum[k][at] = EnumCall(lower, k, at)  BY <1>7, <1>8, <2>1, GetEnumIsDefined
  <2>3. NoEnum.answer = "no"  BY DEF NoEnum
  <2>4. PICK there : there = IF i = 0 THEN NoEnum ELSE lower[<<Included(file, i), Base(T)>>]  OBVIOUS
  <2>5. EnumCall(lower, k, at) = IF there.answer = "no" THEN lower[<<file, T>>] ELSE [there EXCEPT !.index = i]
    BY <1>1, <1>2, <1>3, <1>4, <1>7, <2>1, <2>4 DEF EnumCall
  <2> QED  BY <2>2, <2>3, <2>4, <2>5
<1>9. d \in Defs(file) /\ Def(file, d).name = name /\ Def(file, d).kind = "typedef"
  BY <1>1, <1>5, TypeLikeIs, LookupFinds
<1>10. T \in Names /\ T = Def(file, d).types[1] /\ T \in Seq(STRING)
  BY <1>2, <1>4, <1>5, <1>9, DefinitionIs DEF TypeName, Names
<1>11. Linked(t) /\ (t \in DOMAIN refs => refs[t] \in DOMAIN asts[file].includes)
  BY <1>2, <1>9 DEF LinkedIn
<1>12. Follows(<<file, d>>) = Meant(file, T, TypeLike)  BY <1>10 DEF Follows
<1>13. CASE Len(T) = 1
  <2>1. t \notin DOMAIN refs  BY <1>4, <1>11, <1>13 DEF Linked
  <2>2. i = 0  BY <1>3, <2>1 DEF Get
  <2>3. Meant(file, T, TypeLike) = Defines(file, T, TypeLike)  BY <1>13 DEF Meant
  <2>4. ASSUME NEW k \in 1 .. Calls PROVE Answers(k, file, name) = Answers(k - 1, file, T)
    <3>1. PICK lower : lower = GetEnum[k - 1]  OBVIOUS
    <3>4. GetEnum[k][at] = lower[<<file, T>>]  BY <1>8, <2>2, <3>1
    <3> QED  BY <1>6, <3>1, <3>4 DEF Answers
  <2> QED  BY <1>1, <1>10, <1>12, <2>3, <2>4
<1>14. CASE Len(T) # 1
  <2>1. T \notin Builtin  BY <1>14, LenOne
  <2>2. t \in DOMAIN refs  BY <1>4, <1>11, <1>14, <2>1 DEF Linked
  <2>3. i = refs[t] /\ i \in DOMAIN asts[file].includes /\ i # 0
    <3>1. IsSeq(asts[file].includes)  BY <1>5, DocumentIs
    <3> QED  BY <1>3, <1>11, <2>2, <3>1 DEF Get, IsSeq
  <2>4. PICK e : e = Included(file, i)  OBVIOUS
  <2>5. PICK base : base = Base(T)  OBVIOUS
  <2>6. e \in F  BY <2>3, <2>4 DEF Known
  <2>7. base \in Seq(STRING)  BY <1>10, <2>5, NameParts
  <2>8. Target(t) = <<e, base>> /\ t[1] = file
    BY <1>2, <1>3, <1>4, <2>3, <2>4, <2>5 DEF Target, At
  <2>9. Meant(file, T, TypeLike) = Defines(e, base, TypeLike)
    BY <1>4, <1>11, <2>1, <2>8 DEF Linked
  <2>10. Category(file, T) \notin {"enum", "typedef"}
    <3>1. \A c \in Defs(file) : Def(file, c).name # T  BY <1>5, <1>14, NameIs
    <3>2. T \notin DOMAIN names[file]  BY <1>5, <3>1 DEF Complete, Registered
    <3>3. Category(file, T) = "none"  BY <3>2 DEF Category, Get
    <3> QED  BY <3>3
  <2>11. ASSUME NEW k \in 1 .. Calls PROVE Answers(k, file, name) = Answers(k - 1, e, base)
    <3>1. PICK lower : lower = GetEnum[k - 1]  OBVIOUS
    <3>2. PICK there : there = lower[<<e, base>>]  OBVIOUS
    <3>3. GetEnum[k][at] = IF there.answer = "no" THEN lower[<<file, T>>] ELSE [there EXCEPT !.index = i]
      BY <1>8, <2>3, <2>4, <2>5, <3>1, <3>2
    <3>4. k - 1 \in 0 .. Calls  BY <1>5
    <3>5. Agrees(e, base, there)  BY <2>6, <2>7, <3>1, <3>2, <3>4, AnswersAgree
    <3>6. [there EXCEPT !.index = i].answer = there.answer  BY <3>5 DEF Agrees
    <3>7. Answers(k - 1, e, base) = there.answer  BY <3>1, <3>2 DEF Answers
    <3>8. Answers(k - 1, file, T) = lower[<<file, T>>].answer  BY <3>1 DEF Answers
    <3>9. Answers(k, file, name) = GetEnum[k][at].answer  BY <1>6 DEF Answers
    <3>10. CASE there.answer # "no"  BY <3>3, <3>6, <3>7, <3>9, <3>10
    <3>11. CASE there.answer = "no"
      <4>1. k - 1 # 0  BY <2>6, <2>7, <3>4, <3>7, <3>11, AnswerIs
      <4>2. Answers(k - 1, file, T) = "no"  BY <1>10, <2>10, <3>4, <4>1, AnswerIs
      <4>3. GetEnum[k][at] = lower[<<file, T>>]  BY <3>3, <3>11
      <4>4. Answers(k, file, name) = Answers(k - 1, file, T)  BY <3>8, <3>9, <4>3
      <4>5. Answers(k - 1, e, base) = "no"  BY <3>7, <3>11
      <4> QED  BY <4>2, <4>4, <4>5
    <3> QED  BY <3>10, <3>11
  <2> QED  BY <1>1, <1>12, <2>6, <2>7, <2>9, <2>11
<1> QED  BY <1>13, <1>14

\* More calls do not make it worse.
LEMMA FewerAreLost ==
  ASSUME asts \in Documents, NEW F, Known(F), LinkedIn(F)
  PROVE  \A k \in 1 .. Calls : \A file \in F : \A name \in Seq(STRING) :
           Answers(k, file, name) = "lost" => Answers(k - 1, file, name) = "lost"
<1>1. PICK C : C = Calls  OBVIOUS
<1>2. C \in Nat  BY <1>1, DefsAreFinite
<1> DEFINE Bad == {k \in 1 .. C : ~(\A file \in F : \A name \in Seq(STRING) :
                     Answers(k, file, name) = "lost" => Answers(k - 1, file, name) = "lost")}
<1> SUFFICES ASSUME Bad # {} PROVE FALSE  BY <1>1
<1>3. PICK k \in Bad : \A l \in Bad : k <= l
  <2>1. Bad \subseteq Nat  OBVIOUS
  <2> HIDE DEF Bad
  <2> QED  BY <2>1, LeastNumber
<1>4. k \in 1 .. C  BY <1>3
<1>5. PICK file \in F : \E name \in Seq(STRING) :
        Answers(k, file, name) = "lost" /\ Answers(k - 1, file, name) # "lost"
  BY <1>3
<1>6. PICK name \in Seq(STRING) : Answers(k, file, name) = "lost" /\ Answers(k - 1, file, name) # "lost"
  BY <1>5
<1>7. PICK l : l = k - 1  OBVIOUS
<1>8. l \in 0 .. Calls /\ k \in 0 .. Calls /\ k # 0  BY <1>1, <1>2, <1>4, <1>7
<1>9. l # 0  BY <1>6, <1>7, <1>8, AnswerIs
<1>10. l \in 1 .. C /\ ~(k <= l)  BY <1>1, <1>2, <1>4, <1>7, <1>8, <1>9
<1>11. l \notin Bad
  <2> HIDE DEF Bad
  <2> QED  BY <1>3, <1>10
<1>12. Category(file, name) = "typedef"  BY <1>6, <1>8, AnswerIs
<1>13. PICK e \in F : \E base \in Seq(STRING) :
          \A m \in 1 .. Calls : Answers(m, file, name) = Answers(m - 1, e, base)
  <2>1. \E e \in F : \E base \in Seq(STRING) :
          /\ Follows(<<file, Lookup(file, name)>>) = Defines(e, base, TypeLike)
          /\ \A m \in 1 .. Calls : Answers(m, file, name) = Answers(m - 1, e, base)
    BY <1>12, AnswerFollows
  <2> QED  BY <2>1
<1>14. PICK base \in Seq(STRING) : \A m \in 1 .. Calls : Answers(m, file, name) = Answers(m - 1, e, base)
  BY <1>13
<1>15. Answers(l, e, base) = "lost"  BY <1>1, <1>4, <1>6, <1>7, <1>14
<1>16. Answers(l - 1, e, base) = "lost"  BY <1>10, <1>11, <1>15
<1>17. Answers(l, file, name) = "lost"  BY <1>1, <1>10, <1>14, <1>16
<1>18. Answers(k - 1, file, name) # "lost"  BY <1>6
<1>19. Answers(l, file, name) # "lost"  BY <1>7, <1>18
<1> QED  BY <1>17, <1>19

\* What needs more than k calls follows what needs more than one less.
LEMMA LostFollows ==
  ASSUME asts \in Documents, NEW F, Known(F), LinkedIn(F), NEW k \in 2 .. Calls, NEW x \in LostIn(F, k)
  PROVE  x \in LostIn(F, k - 1) /\ Follows(x) \cap LostIn(F, k - 1) # {}
<1>1. PICK j : j = k - 1  OBVIOUS
<1>2. k \in 1 .. Calls /\ j \in 0 .. Calls /\ j # 0
  <2>1. Calls \in Nat  BY DefsAreFinite
  <2> QED  BY <1>1, <2>1
<1>3. PICK file : file = x[1]  OBVIOUS
<1>4. PICK d : d = x[2]  OBVIOUS
<1>5. /\ file \in F /\ x = <<file, d>> /\ d \in Defs(file) /\ Def(file, d).kind = "typedef"
      /\ x \in Typedefs
  <2>1. x \in Typedefs /\ x[1] \in F  BY DEF LostIn
  <2>2. x \in Nodes /\ Kind(x) = "typedef"  BY <2>1 DEF Typedefs
  <2>3. x = <<x[1], x[2]>> /\ x[2] \in Defs(x[1])  BY <2>2 DEF Nodes, Defs
  <2> QED  BY <1>3, <1>4, <2>1, <2>2, <2>3 DEF Kind
<1>6. PICK name : name = Def(file, d).name  OBVIOUS
<1>7. Answers(k, file, name) = "lost"  BY <1>3, <1>4, <1>6 DEF LostIn
<1>8. file \in DOMAIN asts /\ Complete(file)  BY <1>5 DEF Known
<1>9. Category(file, name) = "typedef"  BY <1>5, <1>6, <1>8 DEF Complete, Registered, Category, Get
<1>10. name \in Seq(STRING)  BY <1>5, <1>6, <1>8, DefinitionIs DEF Names
<1>11. Lookup(file, name) = d
  <2>1. PICK c : c = Lookup(file, name)  OBVIOUS
  <2>2. c \in Defs(file) /\ Def(file, c).name = name  BY <1>8, <1>9, <2>1, LookupFinds
  <2> QED  BY <1>5, <1>6, <1>8, <2>1, <2>2 DEF Complete, Registered
<1>12. \E e \in F : \E base \in Seq(STRING) :
         /\ Follows(<<file, Lookup(file, name)>>) = Defines(e, base, TypeLike)
         /\ \A m \in 1 .. Calls : Answers(m, file, name) = Answers(m - 1, e, base)
  BY <1>5, <1>9, <1>10, AnswerFollows
<1>13. PICK e \in F : \E base \in Seq(STRING) :
         /\ Follows(x) = Defines(e, base, TypeLike)
         /\ Answers(k, file, name) = Answers(k - 1, e, base)
  BY <1>2, <1>5, <1>11, <1>12
<1>14. PICK base \in Seq(STRING) :
         /\ Follows(x) = Defines(e, base, TypeLike)
         /\ Answers(k, file, name) = Answers(k - 1, e, base)
  BY <1>13
<1>15. Answers(j, e, base) = "lost"
  <2>1. Answers(k - 1, e, base) = "lost"  BY <1>7, <1>14
  <2> QED  BY <1>1, <2>1
<1>16. Category(e, base) = "typedef"  BY <1>2, <1>15, AnswerIs
<1>17. e \in DOMAIN asts /\ Complete(e)  BY DEF Known
<1>18. PICK c : c = Lookup(e, base)  OBVIOUS
<1>19. c \in Defs(e) /\ Def(e, c).name = base /\ Def(e, c).kind = "typedef"
  BY <1>16, <1>17, <1>18, LookupFinds
<1>20. PICK y : y = <<e, c>>  OBVIOUS
<1>21. y \in Follows(x)
  BY <1>14, <1>19, <1>20, TypeLikeIs, DefinesIs
<1>22. y \in LostIn(F, j)
  <2>1. y \in Nodes /\ Kind(y) = "typedef"  BY <1>17, <1>19, <1>20 DEF Nodes, Kind, Defs
  <2>2. y[1] = e /\ y[2] = c  BY <1>20
  <2> QED  BY <1>15, <1>19, <2>1, <2>2 DEF LostIn, Typedefs
<1>23. x \in LostIn(F, j)
  <2>1. Answers(k - 1, file, name) = "lost"  BY <1>2, <1>5, <1>7, <1>10, FewerAreLost
  <2>2. Answers(j, file, name) = "lost"  BY <1>1, <2>1
  <2> QED  BY <1>3, <1>4, <1>5, <1>6, <2>2 DEF LostIn
<1> QED  BY <1>1, <1>21, <1>22, <1>23

LEMMA LostAreFinite ==
  ASSUME asts \in Documents, NEW F, NEW k
  PROVE  /\ IsFiniteSet(LostIn(F, k)) /\ Cardinality(LostIn(F, k)) \in Nat
         /\ Cardinality(LostIn(F, k)) <= Cardinality(Nodes)
<1>1. LostIn(F, k) \subseteq Nodes  BY DEF LostIn, Typedefs
<1>2. IsFiniteSet(Nodes)  BY DefsAreFinite
<1> QED  BY <1>1, <1>2, FS_Subset, FS_CardinalityType

\* What needs more than all calls needs more than any fewer.
LEMMA LostThroughout ==
  ASSUME asts \in Documents, NEW F, Known(F), LinkedIn(F), NEW z \in LostIn(F, Calls)
  PROVE  \A k \in 1 .. Calls : z \in LostIn(F, k)
<1>1. PICK C : C = Calls  OBVIOUS
<1>2. C \in Nat  BY <1>1, DefsAreFinite
<1> DEFINE Bad == {m \in 0 .. (C - 1) : z \notin LostIn(F, C - m)}
<1>3. Bad = {}
  <2> SUFFICES ASSUME Bad # {} PROVE FALSE  OBVIOUS
  <2>1. PICK m \in Bad : \A l \in Bad : m <= l
    <3>1. Bad \subseteq Nat  OBVIOUS
    <3> HIDE DEF Bad
    <3> QED  BY <3>1, LeastNumber
  <2>2. m \in 0 .. (C - 1) /\ z \notin LostIn(F, C - m)  BY <2>1
  <2>3. m # 0  BY <1>1, <1>2, <2>2
  <2>4. PICK k : k = C - (m - 1)  OBVIOUS
  <2>5. m - 1 \in 0 .. (C - 1) /\ ~(m <= m - 1) /\ k \in 2 .. C /\ k - 1 = C - m
    BY <1>2, <2>2, <2>3, <2>4
  <2>6. m - 1 \notin Bad
    <3> HIDE DEF Bad
    <3> QED  BY <2>1, <2>5
  <2>7. z \in LostIn(F, k)  BY <2>4, <2>5, <2>6
  <2>8. z \in LostIn(F, k - 1)  BY <1>1, <2>5, <2>7, LostFollows
  <2>9. z \in LostIn(F, C - m)  BY <2>5, <2>8
  <2> QED  BY <2>2, <2>9
<1>4. ASSUME NEW k \in 1 .. C  PROVE z \in LostIn(F, k)
  <2>1. PICK m : m = C - k  OBVIOUS
  <2>2. m \in 0 .. (C - 1) /\ C - m = k  BY <1>2, <2>1
  <2>3. z \in LostIn(F, C - m)  BY <1>3, <2>2
  <2> QED  BY <2>2, <2>3
<1> QED  BY <1>1, <1>4

\* What needs more than all calls goes round in a circle, or each call would
\* leave fewer.
LEMMA LostFall ==
  ASSUME asts \in Documents, NEW F, Known(F), LinkedIn(F), NEW z \in LostIn(F, Calls), ~Circular(z)
  PROVE  \A k \in 1 .. Calls : Cardinality(LostIn(F, k)) <= Calls - k
<1>1. PICK C : C = Calls  OBVIOUS
<1>2. C \in Nat /\ Cardinality(Nodes) \in Nat /\ C = 1 + Cardinality(Nodes)  BY <1>1, DefsAreFinite
<1> DEFINE Bad == {k \in 1 .. C : ~(Cardinality(LostIn(F, k)) <= C - k)}
<1> SUFFICES ASSUME Bad # {} PROVE FALSE  BY <1>1
<1>3. PICK k \in Bad : \A l \in Bad : k <= l
  <2>1. Bad \subseteq Nat  OBVIOUS
  <2> HIDE DEF Bad
  <2> QED  BY <2>1, LeastNumber
<1>4. k \in 1 .. C  BY <1>3
<1>5. PICK L : L = LostIn(F, k)  OBVIOUS
<1>6. z \in L /\ ~(Cardinality(L) <= C - k)  BY <1>1, <1>3, <1>4, <1>5, LostThroughout
<1>7. IsFiniteSet(L) /\ Cardinality(L) \in Nat /\ Cardinality(L) <= Cardinality(Nodes)
  BY <1>5, LostAreFinite
<1>8. k # 1  BY <1>2, <1>6, <1>7
<1>9. PICK j : j = k - 1  OBVIOUS
<1>10. k \in 2 .. C /\ j \in 1 .. C /\ ~(k <= j)  BY <1>2, <1>4, <1>8, <1>9
<1>11. PICK M : M = LostIn(F, j)  OBVIOUS
<1>12. IsFiniteSet(M) /\ Cardinality(M) \in Nat  BY <1>11, LostAreFinite
<1>13. \A x \in L : x \in M /\ Follows(x) \cap M # {}
  <2>1. \A x \in LostIn(F, k) : x \in LostIn(F, k - 1) /\ Follows(x) \cap LostIn(F, k - 1) # {}
    BY <1>1, <1>10, LostFollows
  <2>2. M = LostIn(F, k - 1)  BY <1>9, <1>11
  <2> QED  BY <1>5, <2>1, <2>2
<1>14. L # M
  <2> SUFFICES ASSUME L = M PROVE FALSE  OBVIOUS
  <2>1. L \subseteq Typedefs /\ \A x \in L : x[1] \in F  BY <1>5 DEF LostIn
  <2>2. \A y \in L : Follows(y) \cap L # {}  BY <1>13
  <2>3. Circular(z)  BY <1>6, <2>1, <2>2 DEF Circular
  <2> QED  BY <2>3
<1>15. Cardinality(L) < Cardinality(M)
  <2>1. L \subseteq M  BY <1>13
  <2> QED  BY <1>7, <1>12, <1>14, <2>1, FS_Subset
<1>16. j \notin Bad
  <2> HIDE DEF Bad
  <2> QED  BY <1>3, <1>10
<1>17. Cardinality(M) <= C - j  BY <1>10, <1>11, <1>16
<1> HIDE DEF Bad
<1> QED  BY <1>2, <1>6, <1>7, <1>9, <1>10, <1>12, <1>15, <1>17

\* A name for which getEnum never comes back is that of a circular typedef.
LEMMA LostIsEndless ==
  ASSUME asts \in Documents, NEW F, Known(F), LinkedIn(F), NEW file \in F, NEW name \in Seq(STRING),
         EnumAt(file, name).answer = "lost"
  PROVE  Endless(file, name)
<1>1. PICK C : C = Calls  OBVIOUS
<1>2. C \in Nat /\ C # 0 /\ C \in 1 .. C /\ C \in 0 .. C
  <2>1. Cardinality(Nodes) \in Nat /\ C = 1 + Cardinality(Nodes)  BY <1>1, DefsAreFinite
  <2> QED  BY <2>1
<1>3. Answers(C, file, name) = "lost"  BY <1>1 DEF EnumAt, Answers
<1>4. Category(file, name) = "typedef"  BY <1>1, <1>2, <1>3, AnswerIs
<1>5. file \in DOMAIN asts /\ Complete(file)  BY DEF Known
<1>6. PICK d : d = Lookup(file, name)  OBVIOUS
<1>7. d \in Defs(file) /\ Def(file, d).name = name /\ Def(file, d).kind = "typedef"
  BY <1>4, <1>5, <1>6, LookupFinds
<1>8. PICK x : x = <<file, d>>  OBVIOUS
<1>9. x \in Nodes /\ Kind(x) = "typedef" /\ x[1] = file /\ x[2] = d
  BY <1>5, <1>7, <1>8 DEF Nodes, Kind, Defs
<1>10. PICK L : L = LostIn(F, C)  OBVIOUS
<1>11. x \in L  BY <1>3, <1>7, <1>9, <1>10 DEF LostIn, Typedefs
<1>12. IsFiniteSet(L) /\ Cardinality(L) \in Nat  BY <1>10, LostAreFinite
<1>13. Cardinality(L) # 0  BY <1>11, <1>12, FS_EmptySet
<1>14. Circular(x)
  <2> SUFFICES ASSUME ~Circular(x) PROVE FALSE  OBVIOUS
  <2>1. x \in LostIn(F, Calls)  BY <1>1, <1>10, <1>11
  <2>2. \A k \in 1 .. Calls : Cardinality(LostIn(F, k)) <= Calls - k  BY <2>1, LostFall
  <2>3. Cardinality(L) <= C - C  BY <1>1, <1>2, <1>10, <2>2
  <2> QED  BY <1>2, <1>12, <1>13, <2>3
<1>15. x \in Defines(file, name, {"typedef"})  BY <1>7, <1>8, DefinesIs
<1> QED  BY <1>14, <1>15 DEF Endless
-----------------------------------------------------------------------------
(***************************************************************************)
(* What is refused.  A round that has resolved nothing has looked at every *)
(* typedef of its list and found each to stand for another of them.        *)
(***************************************************************************)
CountedIn(f) ==
  f.phase = "rounds" =>
    /\ f.count \in Nat /\ Len(f.left) + Len(f.todo) <= f.count
    /\ Len(f.left) + Len(f.todo) = f.count => \A p \in Elements(f.left) : TypedefCategory(p) = "typedef"

Counted == stack # <<>> => CountedIn(Top)

Refused == status \in {"failed", "diverged"}

RInv == DOMAIN names \subseteq Reached /\ Counted /\ (Refused => Illegal)
-----------------------------------------------------------------------------
LEMMA RootIsReached ==
  ASSUME asts \in Documents
  PROVE  /\ Root \in Reached /\ Reached \subseteq DOMAIN asts
         /\ \A file \in Reached : \A i \in DOMAIN asts[file].includes : Included(file, i) \in Reached
<1>1. Root \in DOMAIN asts  BY DocumentIs
<1>2. Root \in Reached  BY <1>1 DEF Reached
<1>3. ASSUME NEW file \in Reached, NEW i \in DOMAIN asts[file].includes
      PROVE  Included(file, i) \in Reached
  <2>1. file \in DOMAIN asts  BY DEF Reached
  <2>2. Included(file, i) \in DOMAIN asts  BY <2>1, <1>3, DocumentIs
  <2> QED  BY <1>3, <2>1, <2>2 DEF Reached
<1> QED  BY <1>2, <1>3 DEF Reached

LEMMA InitRInv == Init => RInv
<1> SUFFICES ASSUME Init PROVE RInv  OBVIOUS
<1>1. DOMAIN names = {Root} /\ asts \in Documents  BY DEF Init
<1>2. status = "resolving"  BY DEF Init
<1>3. PICK f : f = Frame(Root)  OBVIOUS
<1>4. f.phase = "includes"  BY <1>3 DEF Frame
<1>5. Top = f  BY <1>3 DEF Init, Top
<1> QED  BY <1>1, <1>2, <1>4, <1>5, RootIsReached DEF RInv, Counted, CountedIn, Refused

\* A definition of an IDL that is reached.
LEMMA IllegalIs ==
  ASSUME DOMAIN names \subseteq Reached, NEW file \in DOMAIN names, NEW d \in Defs(file),
         IllegalDef(file, Def(file, d)) \/ Circular(<<file, d>>)
  PROVE  Illegal
BY DEF Illegal, Defs

LEMMA DuplicateIsIllegal ==
  ASSUME MInv, DOMAIN names \subseteq Reached, IsAt("names"), Top.todo # <<>>,
         Def(Top.file, It).name \in DOMAIN names[Top.file]
  PROVE  Illegal
<1>1. /\ Top.phase = "names" /\ Good(Top) /\ Top.file \in DOMAIN asts /\ Top.file \in DOMAIN names
      /\ asts \in Documents
  BY InStep DEF MInv, World
<1>2. PICK f : f = Top  OBVIOUS
<1>3. PICK file : file = f.file  OBVIOUS
<1>4. PICK d : d = It  OBVIOUS
<1>5. InNames(f)  BY <1>1, <1>2 DEF Good
<1>6. d \in Elements(f.todo) /\ d \in Defs(file)
  <2>1. Head(f.todo) \in Elements(f.todo)  BY <1>2, <1>5, TailElements DEF InNames
  <2> QED  BY <1>2, <1>3, <1>4, <1>5, <2>1 DEF InNames, It
<1>7. PICK name : name = Def(file, d).name  OBVIOUS
<1>8. name \in DOMAIN names[file]  BY <1>2, <1>3, <1>4, <1>7
<1>9. PICK e \in Defs(file) \ Elements(f.todo) : Def(file, e).name = name
  BY <1>3, <1>5, <1>8 DEF InNames, Registered
<1>10. file \in DOMAIN asts /\ file \in DOMAIN names  BY <1>1, <1>2, <1>3
<1>11. PICK D : D = Defines(file, name, Kinds)  OBVIOUS
<1>12. \A c \in Defs(file) : Def(file, c).kind \in Kinds  BY <1>1, <1>10, DocumentIs
<1>13. <<file, d>> \in D /\ <<file, e>> \in D
  BY <1>6, <1>7, <1>9, <1>11, <1>12, DefinesIs
<1>14. d # e  BY <1>6, <1>9
<1>15. IsFiniteSet(D) /\ Cardinality(D) \in Nat
  <2>1. D \subseteq Nodes  BY <1>10, <1>11 DEF Defines, Nodes
  <2>2. IsFiniteSet(Nodes)  BY <1>1, DefsAreFinite
  <2> QED  BY <2>1, <2>2, FS_Subset, FS_CardinalityType
<1>16. Cardinality(D) # 0  BY <1>13, <1>15, FS_EmptySet
<1>17. Cardinality(D) # 1
  <2> SUFFICES ASSUME Cardinality(D) = 1 PROVE FALSE  OBVIOUS
  <2>1. PICK x : D = {x}  BY <1>15, FS_Singleton
  <2> QED  BY <1>13, <1>14, <2>1
<1>18. Cardinality(D) > 1  BY <1>15, <1>16, <1>17
<1>19. IllegalDef(file, Def(file, d))  BY <1>7, <1>11, <1>18 DEF IllegalDef
<1> QED  BY <1>6, <1>10, <1>19, IllegalIs

\* The symbol at the head cannot be resolved.
LEMMA TypeIsIllegal ==
  ASSUME MInv, LInv, DOMAIN names \subseteq Reached, Is("type"), TypeName(Here) \notin Builtin,
         PlacesOf(Top.file, TypeName(Here), TypeLike) = {}
  PROVE  Illegal
<1>1. IsAt("symbols")  BY DEF Is
<1>2. Top.file \in DOMAIN asts /\ Top.file \in DOMAIN names /\ asts \in Documents
  BY <1>1, InStep DEF MInv, World
<1>3. PICK file : file = Top.file  OBVIOUS
<1>4. PICK t : t = Here  OBVIOUS
<1>5. PICK name : name = TypeName(t)  OBVIOUS
<1>6. t \in TypesOf(file) /\ t[1] = file  BY <1>3, <1>4, HereIsNew
<1>7. PICK d : d = t[2]  OBVIOUS
<1>8. d \in Defs(file) /\ t[3] \in DOMAIN Def(file, d).types  BY <1>2, <1>3, <1>6, <1>7, TypeHasPosition
<1>9. name = Def(file, d).types[t[3]]  BY <1>5, <1>6, <1>7 DEF TypeName
<1>10. name \in Names  BY <1>2, <1>3, <1>8, <1>9, DefinitionIs
<1>11. PICK F : F = Settling(file)  OBVIOUS
<1>12. Known(F) /\ file \in F  BY <1>1, <1>3, <1>11, KnownNow
<1>13. PlacesOf(file, name, TypeLike) = {}  BY <1>3, <1>4, <1>5
<1>14. Meant(file, name, TypeLike) = {}  BY <1>2, <1>10, <1>12, <1>13, TypeLikeIs, PlacesAreMeant
<1>15. name \notin Builtin  BY <1>4, <1>5
<1>16. IllegalDef(file, Def(file, d))
  <2>1. PICK def : def = Def(file, d)  OBVIOUS
  <2>2. PICK k \in DOMAIN def.types : def.types[k] = name  BY <1>8, <1>9, <2>1
  <2> QED  BY <1>14, <1>15, <2>1, <2>2 DEF IllegalDef
<1> QED  BY <1>2, <1>3, <1>8, <1>16, IllegalIs

LEMMA BaseIsIllegal ==
  ASSUME MInv, LInv, DOMAIN names \subseteq Reached, Is("base"),
         PlacesOf(Top.file, Def(Top.file, It.def).extends, {"service"}) = {}
  PROVE  Illegal
<1>1. IsAt("symbols") /\ Top.todo # <<>> /\ It.what = "base"  BY DEF Is
<1>2. Top.file \in DOMAIN asts /\ Top.file \in DOMAIN names /\ asts \in Documents
  BY <1>1, InStep DEF MInv, World
<1>3. PICK file : file = Top.file  OBVIOUS
<1>4. PICK x : x = It  OBVIOUS
<1>5. PICK name : name = Def(file, x.def).extends  OBVIOUS
<1>6. PICK f : f = Top  OBVIOUS
<1>7. x.def \in Defs(file) /\ name # <<>>  BY <1>1, <1>3, <1>4, <1>5, <1>6, ItIs
<1>8. name \in Names  BY <1>2, <1>3, <1>5, <1>7, DefinitionIs
<1>9. PICK F : F = Settling(file)  OBVIOUS
<1>10. Known(F) /\ file \in F  BY <1>1, <1>3, <1>9, KnownNow
<1>11. PlacesOf(file, name, {"service"}) = {}  BY <1>3, <1>4, <1>5
<1>12. Meant(file, name, {"service"}) = {}  BY <1>2, <1>8, <1>10, <1>11, PlacesAreMeant
<1>13. IllegalDef(file, Def(file, x.def))  BY <1>5, <1>7, <1>12 DEF IllegalDef
<1> QED  BY <1>2, <1>3, <1>7, <1>13, IllegalIs

\* An identifier for which the search never ends is looked up in a circle.
LEMMA LostLooksUpEndless ==
  ASSUME asts \in Documents, NEW F, Known(F), LinkedIn(F), NEW file \in F, NEW id \in Names,
         GetsLost(file, id)
  PROVE  /\ LooksUpEndless(file, id)
         /\ \E e \in F : \E name : Endless(e, name)
<1>1. PICK pre : pre = Prefix(id)  OBVIOUS
<1>2. CASE Len(id) > 1 /\ EnumAt(file, pre).answer = "lost"
  <2>1. pre \in Seq(STRING)  BY <1>1, NameParts
  <2>2. Endless(file, pre)  BY <1>2, <2>1, LostIsEndless
  <2>3. \E e \in F : \E name : Endless(e, name)  BY <2>2
  <2> QED  BY <1>1, <1>2, <2>2, <2>3 DEF LooksUpEndless
<1>3. CASE Len(id) > 2 /\ \E i \in IncludesOf(file, Prefix(pre)) : EnumAt(Included(file, i), Base(pre)).answer = "lost"
  <2>1. PICK i \in IncludesOf(file, Prefix(pre)) : EnumAt(Included(file, i), Base(pre)).answer = "lost"
    BY <1>3
  <2>2. Included(file, i) \in F  BY <2>1 DEF Known, IncludesOf
  <2>3. pre \in Names
    <3>1. Len(id) \in Nat  BY NameParts
    <3> QED  BY <1>1, <1>3, <3>1, NameParts
  <2>4. Base(pre) \in Seq(STRING)  BY <2>3, NameParts
  <2>5. Endless(Included(file, i), Base(pre))  BY <2>1, <2>2, <2>4, LostIsEndless
  <2>6. \E e \in F : \E name : Endless(e, name)  BY <2>2, <2>5
  <2> QED  BY <1>1, <1>3, <2>1, <2>5, <2>6 DEF LooksUpEndless
<1> QED  BY <1>1, <1>2, <1>3 DEF GetsLost

LEMMA ValueIsIllegal ==
  ASSUME MInv, LInv, DOMAIN names \subseteq Reached, Is("value"),
         NEW id, id = Def(Top.file, It.def).values[It.k], id \notin Literals,
         \/ GetsLost(Top.file, id)
         \/ ~GetsLost(Top.file, id) /\ Cardinality(Local(Top.file, id) \cup FromInclude(Top.file, id)) # 1
  PROVE  Illegal
<1>1. IsAt("symbols") /\ Top.todo # <<>> /\ It.what = "value"  BY DEF Is
<1>2. Top.file \in DOMAIN asts /\ Top.file \in DOMAIN names /\ asts \in Documents
  BY <1>1, InStep DEF MInv, World
<1>3. PICK file : file = Top.file  OBVIOUS
<1>4. PICK x : x = It  OBVIOUS
<1>5. PICK f : f = Top  OBVIOUS
<1>6. x.def \in Defs(file) /\ x.k \in DOMAIN Def(file, x.def).values
  BY <1>1, <1>3, <1>4, <1>5, ItIs
<1>7. id = Def(file, x.def).values[x.k]  BY <1>3, <1>4
<1>8. id \in Names  BY <1>2, <1>3, <1>6, <1>7, DefinitionIs
<1>9. PICK F : F = Settling(file)  OBVIOUS
<1>10. Known(F) /\ file \in F /\ LinkedIn(F)  BY <1>1, <1>3, <1>9, KnownNow, LinkedNow
<1>11. F \subseteq DOMAIN names  BY <1>2, <1>3, <1>9 DEF Settling
<1>12. CASE GetsLost(file, id)
  <2>1. PICK e \in F : \E name : Endless(e, name)  BY <1>2, <1>8, <1>10, <1>12, LostLooksUpEndless
  <2>2. PICK name : Endless(e, name)  BY <2>1
  <2>3. PICK y \in Typedefs : y[1] \in F /\ Circular(y)
    <3>1. PICK y \in Defines(e, name, {"typedef"}) : Circular(y)  BY <2>2 DEF Endless
    <3>2. PICK d \in Defs(e) : y = <<e, d>> /\ Def(e, d).kind \in {"typedef"}  BY <3>1, DefinesIs
    <3>3. e \in DOMAIN asts  BY <1>10 DEF Known
    <3>4. y \in Typedefs  BY <3>2, <3>3 DEF Typedefs, Nodes, Kind, Defs
    <3> QED  BY <3>1, <3>2, <3>4
  <2>4. y = <<y[1], y[2]>> /\ y[2] \in Defs(y[1])  BY <2>3 DEF Typedefs, Nodes, Defs
  <2>5. PICK c : c = y[2]  OBVIOUS
  <2>6. PICK g : g = y[1]  OBVIOUS
  <2>7. Circular(<<g, c>>) /\ g \in DOMAIN names /\ c \in Defs(g)  BY <1>11, <2>3, <2>4, <2>5, <2>6
  <2> QED  BY <2>7, IllegalIs
<1>13. CASE ~GetsLost(file, id)
  <2>1. PICK refsTo : refsTo = Local(file, id) \cup FromInclude(file, id)  OBVIOUS
  <2>2. Cardinality(refsTo) # 1  BY <1>3, <1>13, <2>1
  <2>3. Cardinality(Explanations(file, id)) # 1
    BY <1>2, <1>8, <1>10, <1>13, <2>1, <2>2, ExplainedOnce
  <2>4. PICK def : def = Def(file, x.def)  OBVIOUS
  <2>5. IllegalDef(file, def)
    <3>1. PICK k \in DOMAIN def.values : def.values[k] = id  BY <1>6, <1>7, <2>4
    <3> QED  BY <2>3, <3>1 DEF IllegalDef
  <2> QED  BY <1>2, <1>3, <1>6, <2>4, <2>5, IllegalIs
<1> QED  BY <1>12, <1>13

\* What a type that is left stands for is left as well.
LEMMA LeftFollows ==
  ASSUME MInv, IsAt("rounds"), Top.todo = <<>>, NEW file, file = Top.file, NEW left, left = Top.left,
         NEW p \in Elements(left), TypedefCategory(p) = "typedef"
  PROVE  \E d \in Defs(file) :
           /\ Def(file, d).kind = "typedef" /\ <<file, d, 1>> \in TypesIn(left)
           /\ <<file, d>> \in Defines(Target(p.type)[1], Target(p.type)[2], TypeLike)
<1>1. /\ IInv /\ stack # <<>> /\ Top.phase = "rounds" /\ Good(Top)
      /\ file \in DOMAIN asts /\ asts \in Documents
  BY InStep DEF MInv, World
<1>2. PairsOf(file, left) /\ Complete(file)
  <2>1. InRounds(Top)  BY <1>1 DEF Good
  <2> QED  BY <2>1 DEF InRounds
<1>3. PICK t : t = p.type  OBVIOUS
<1>4. t \in aliases /\ t[1] = file /\ Target(t) = <<p.file, p.name>>  BY <1>2, <1>3 DEF PairsOf
<1>5. PICK there, name : there = p.file /\ name = p.name  OBVIOUS
<1>6. PICK d : d = Lookup(there, name)  OBVIOUS
<1>7. PICK u : u = <<there, d, 1>>  OBVIOUS
<1>8. TargetType(t) = u  BY <1>4, <1>5, <1>6, <1>7 DEF TargetType
<1>9. u \in DOMAIN categories  BY <1>4, <1>8, TargetHasCategory
<1>10. categories[u] = "typedef"  BY <1>5, <1>6, <1>7 DEF TypedefCategory
<1>11. PICK n \in DOMAIN stack : WaitsIn(u, stack[n])  BY <1>1, <1>9, <1>10 DEF IInv, Waited, Some
<1>12. stack[n].phase \in {"symbols", "rounds"}  BY <1>11 DEF WaitsIn, Waiting
<1>13. n = 1  BY <1>11, <1>12 DEF MInv, Stacked
<1>14. Top = stack[1]  BY <1>1, TailSeq DEF Top, IInv, Frames
<1>15. WaitsIn(u, Top)  BY <1>11, <1>13, <1>14
<1>16. there = file /\ u \in TypesIn(left)
  <2>1. u[1] = file /\ u \in TypesIn(Top.todo) \cup TypesIn(left)  BY <1>1, <1>15 DEF WaitsIn, Waiting
  <2>2. TypesIn(Top.todo) = {}  BY EmptySeq
  <2> QED  BY <1>7, <2>1, <2>2
<1>17. Category(file, name) = "typedef"
  <2>1. Right(t)  BY <1>4 DEF MInv, World
  <2>2. Target(t)[1] = file /\ Target(t)[2] = name  BY <1>4, <1>5, <1>16
  <2> QED  BY <1>4, <2>1, <2>2 DEF Right
<1>18. d \in Defs(file) /\ Def(file, d).name = name /\ Def(file, d).kind = "typedef"
  BY <1>1, <1>2, <1>6, <1>16, <1>17, LookupFinds
<1>19. Target(p.type)[1] = file /\ Target(p.type)[2] = name  BY <1>3, <1>4, <1>5, <1>16
<1>20. <<file, d>> \in Defines(file, name, TypeLike)  BY <1>18, TypeLikeIs, DefinesIs
<1> QED  BY <1>7, <1>16, <1>18, <1>19, <1>20

\* Types that are all left stand for each other.
LEMMA StuckIsIllegal ==
  ASSUME MInv, LInv, DOMAIN names \subseteq Reached, Counted, IsAt("rounds"), Top.todo = <<>>,
         Top.left # <<>>, Len(Top.left) = Top.count
  PROVE  Illegal
<1>1. /\ stack # <<>> /\ Top.phase = "rounds" /\ Good(Top)
      /\ Top.file \in DOMAIN asts /\ Top.file \in DOMAIN names /\ asts \in Documents
  BY InStep DEF MInv, World
<1>2. PICK file, left : file = Top.file /\ left = Top.left  OBVIOUS
<1>3. PairsOf(file, left) /\ Complete(file)
  <2>1. InRounds(Top)  BY <1>1 DEF Good
  <2> QED  BY <1>2, <2>1 DEF InRounds
<1>4. IsSeq(left) /\ left # <<>>  BY <1>2, <1>3 DEF PairsOf
<1>5. \A p \in Elements(left) : TypedefCategory(p) = "typedef"
  <2>1. CountedIn(Top)  BY <1>1 DEF Counted
  <2>2. Len(left) \in Nat  BY <1>4 DEF IsSeq
  <2>3. Len(left) + Len(Top.todo) = Top.count  BY <1>2, <2>2
  <2> QED  BY <1>1, <1>2, <2>1, <2>3 DEF CountedIn
<1>6. ASSUME NEW p \in Elements(left)
      PROVE  \E d \in Defs(file) :
               /\ Def(file, d).kind = "typedef" /\ <<file, d, 1>> \in TypesIn(left)
               /\ <<file, d>> \in Defines(Target(p.type)[1], Target(p.type)[2], TypeLike)
  BY <1>2, <1>5, <1>6, LeftFollows
<1> DEFINE D == {d \in Defs(file) : Def(file, d).kind = "typedef" /\ <<file, d, 1>> \in TypesIn(left)}
           S == {<<file, d>> : d \in D}
<1>7. ASSUME NEW d \in D PROVE Follows(<<file, d>>) \cap S # {}
  <2>1. PICK t : t = <<file, d, 1>>  OBVIOUS
  <2>2. PICK p \in Elements(left) : p.type = t  BY <2>1 DEF TypesIn, Elements
  <2>3. t \in aliases  BY <1>3, <2>2 DEF PairsOf
  <2>4. Linked(t)  BY <2>3 DEF LInv, AllLinked, MInv, World
  <2>5. Follows(<<file, d>>) = Meant(t[1], TypeName(t), TypeLike)  BY <2>1 DEF Follows, TypeName
  <2>6. Follows(<<file, d>>) = Defines(Target(t)[1], Target(t)[2], TypeLike)
    BY <2>3, <2>4, <2>5 DEF Linked
  <2>7. PICK e \in D : <<file, e>> \in Defines(Target(t)[1], Target(t)[2], TypeLike)  BY <1>6, <2>2
  <2> QED  BY <2>6, <2>7
<1>8. S \subseteq Typedefs
  <2> SUFFICES ASSUME NEW d \in D PROVE <<file, d>> \in Typedefs  OBVIOUS
  <2>1. file \in DOMAIN asts  BY <1>1, <1>2
  <2>2. <<file, d>> \in Nodes  BY <2>1 DEF Nodes, Defs
  <2> QED  BY <2>2 DEF Typedefs, Kind
<1>9. PICK d : d \in D
  <2>1. left[1] \in Elements(left)  BY <1>4, TailSeq DEF Elements
  <2> QED  BY <1>6, <2>1
<1>10. \A x \in S : Follows(x) \cap S # {}  BY <1>7
<1>11. <<file, d>> \in S /\ d \in Defs(file)  BY <1>9
<1>12. Circular(<<file, d>>)
  <2> HIDE DEF S
  <2> QED  BY <1>8, <1>10, <1>11 DEF Circular
<1> QED  BY <1>1, <1>2, <1>11, <1>12, IllegalIs
-----------------------------------------------------------------------------
LEMMA ReachedStays == MInv /\ RInv /\ [Next]_vars => DOMAIN names' \subseteq Reached'
<1> SUFFICES ASSUME MInv, RInv, [Next]_vars PROVE DOMAIN names' \subseteq Reached'  OBVIOUS
<1>1. asts' = asts  BY DEF Next, vars, ResolveInclude, RegisterNames, AddName, ResolveAll, ResolveType,
        ResolveConstValue, ResolveBaseService, ResolveTypedefs, ResolveTypedef, EndRound, Return
<1>2. Reached' = Reached  BY <1>1, MeaningStays
<1>3. DOMAIN names \subseteq Reached /\ asts \in Documents  BY DEF RInv, MInv, World
<1>4. CASE DOMAIN names' = DOMAIN names  BY <1>2, <1>3, <1>4
<1>5. CASE ResolveInclude
  <2>1. IsAt("includes") /\ Top.todo # <<>>  BY <1>5 DEF ResolveInclude
  <2>2. Good(Top) /\ Top.phase = "includes" /\ Top.file \in DOMAIN names  BY <2>1, InStep
  <2>3. It \in DOMAIN asts[Top.file].includes
    <3>1. InIncludes(Top)  BY <2>2 DEF Good
    <3> QED  BY <2>1, <3>1, TailElements DEF InIncludes, It
  <2>4. PICK file : file = Included(Top.file, It)  OBVIOUS
  <2>5. file \in Reached  BY <1>3, <2>2, <2>3, <2>4, RootIsReached
  <2>6. DOMAIN names' \subseteq DOMAIN names \cup {file}  BY <1>5, <2>4 DEF ResolveInclude, Put
  <2> QED  BY <1>2, <1>3, <2>5, <2>6
<1>6. CASE AddName
  <2>1. DOMAIN names' = DOMAIN names  BY <1>6 DEF AddName, Fail, Named
  <2> QED  BY <1>4, <2>1
<1>7. CASE names' = names  BY <1>4, <1>7
<1> QED  BY <1>5, <1>6, <1>7 DEF Next, vars, RegisterNames, ResolveAll, ResolveType,
       ResolveConstValue, ResolveBaseService, ResolveTypedefs, ResolveTypedef, EndRound, Return, Fail, Explained
-----------------------------------------------------------------------------
LEMMA CountedBy ==
  ASSUME NEW g, NEW s, IsSeq(s), stack' = <<g>> \o s, g.phase # "rounds" \/ CountedIn(g)'
  PROVE  Counted'
<1>1. PICK r : r = <<g>> \o s  OBVIOUS
<1>2. IsSeq(r) /\ r # <<>> /\ r[1] = g
  <2>1. IsPushed(r, g, s)  BY <1>1 DEF IsPushed
  <2> QED  BY <2>1, PushSeq
<1>3. Head(r) = g  BY <1>2, TailSeq
<1>4. Top' = g  BY <1>1, <1>3 DEF Top
<1> QED  BY <1>4 DEF Counted, CountedIn

LEMMA CountedOn ==
  ASSUME IInv, stack # <<>>, NEW g, stack' = Replaced(g), g.phase # "rounds" \/ CountedIn(g)'
  PROVE  Counted'
<1>1. IsSeq(Tail(stack))  BY TailSeq DEF IInv, Frames
<1> QED  BY <1>1, CountedBy DEF Replaced

LEMMA CountedStill ==
  ASSUME Counted, UNCHANGED <<asts, categories, stack>>
  PROVE  Counted'
<1>1. \A p : TypedefCategory(p)' = TypedefCategory(p)  BY DEF TypedefCategory, Lookup, Def
<1>2. Top' = Top  BY DEF Top
<1>3. CountedIn(Top)' = CountedIn(Top)  BY <1>1, <1>2 DEF CountedIn
<1> QED  BY <1>3 DEF Counted

LEMMA IncludeCounts == MInv /\ ResolveInclude => Counted'
<1> SUFFICES ASSUME MInv, ResolveInclude PROVE Counted'  OBVIOUS
<1>1. IInv /\ stack # <<>> /\ Top.phase = "includes" /\ IsFrame(Top)  BY InStep DEF ResolveInclude
<1>2. PICK g : g = Continue  OBVIOUS
<1>3. g.phase = "includes" /\ IsFrame(g)  BY <1>1, <1>2, Continuing
<1>4. CASE stack' = Replaced(Continue)  BY <1>1, <1>2, <1>3, <1>4, CountedOn
<1>5. CASE stack' = <<Frame(Included(Top.file, It))>> \o Replaced(Continue)
  <2>1. PICK s : s = Replaced(g)  OBVIOUS
  <2>2. PICK h : h = Frame(Included(Top.file, It))  OBVIOUS
  <2>3. Frames(stack)  BY <1>1 DEF IInv
  <2>4. Frames(s)
    <3>1. s = <<g>> \o Tail(stack)  BY <2>1 DEF Replaced
    <3> QED  BY <1>1, <1>3, <2>3, <3>1, Replacing
  <2>5. h.phase = "includes"  BY <2>2 DEF Frame
  <2>6. stack' = <<h>> \o s  BY <1>2, <1>5, <2>1, <2>2
  <2> QED  BY <2>4, <2>5, <2>6, CountedBy DEF Frames
<1> QED  BY <1>4, <1>5 DEF ResolveInclude

\* A call that has not come to its rounds.
LEMMA EarlyCounts ==
  ASSUME MInv, Counted, asts' = asts,
         RegisterNames \/ AddName \/ ResolveAll \/ ResolveType \/ ResolveConstValue \/ ResolveBaseService
  PROVE  Counted'
<1>1. PICK phase \in {"includes", "names", "symbols"} : IsAt(phase)
  BY DEF RegisterNames, AddName, ResolveAll, ResolveType, ResolveConstValue, ResolveBaseService, Is
<1>2. IInv /\ stack # <<>> /\ Top.phase # "rounds" /\ IsFrame(Top)  BY <1>1, InStep
<1>3. PICK g : g = Continue  OBVIOUS
<1>4. g.phase # "rounds" /\ IsFrame(g)  BY <1>2, <1>3, Continuing
<1>5. CASE stack' = Replaced(Continue)  BY <1>2, <1>3, <1>4, <1>5, CountedOn
<1>6. CASE stack' = stack /\ categories' = categories  BY <1>6, CountedStill
<1>7. CASE RegisterNames \/ ResolveAll
  <2>1. PICK phase1 \in {"names", "symbols"} : \E todo : stack' = Entering(phase1, todo)
    BY <1>7 DEF RegisterNames, ResolveAll
  <2>2. PICK todo : stack' = Entering(phase1, todo)  BY <2>1
  <2>3. PICK h : h = [Top EXCEPT !.phase = phase1, !.todo = todo]  OBVIOUS
  <2>4. h.phase = phase1  BY <1>2, <2>3 DEF IsFrame
  <2>5. stack' = Replaced(h)  BY <2>2, <2>3 DEF Entering
  <2> QED  BY <1>2, <2>1, <2>4, <2>5, CountedOn
<1>8. ASSUME NEW pair, stack' = Replaced(WithPair(pair)) PROVE Counted'
  <2>1. PICK h : h = WithPair(pair)  OBVIOUS
  <2>2. h.phase = g.phase  BY <1>3, <1>4, <2>1 DEF IsFrame, WithPair
  <2> QED  BY <1>2, <1>4, <1>8, <2>1, <2>2, CountedOn
<1>9. CASE Fail  BY <1>6, <1>9 DEF Fail, symbols
<1>10. CASE AddName  BY <1>5, <1>9, <1>10 DEF AddName
<1>11. CASE ResolveBaseService  BY <1>5, <1>9, <1>11 DEF ResolveBaseService
<1>12. CASE ResolveConstValue
  <2>1. \/ stack' = Replaced(Continue) \/ Fail
        \/ UNCHANGED <<symbols, stack>>
    BY <1>12 DEF ResolveConstValue, Explained
  <2> QED  BY <1>5, <1>6, <1>9, <2>1 DEF symbols
<1>13. CASE ResolveType
  <2>1. \/ stack' = Replaced(Continue) \/ Fail
        \/ \E pair : stack' = Replaced(WithPair(pair))
    BY <1>13 DEF ResolveType, Found
  <2> QED  BY <1>5, <1>8, <1>9, <2>1
<1> QED  BY <1>7, <1>10, <1>11, <1>12, <1>13

LEMMA TypedefsCount == MInv /\ ResolveTypedefs => Counted'
<1> SUFFICES ASSUME MInv, ResolveTypedefs PROVE Counted'  OBVIOUS
<1>1. IInv /\ stack # <<>> /\ Top.phase = "symbols" /\ IsFrame(Top) /\ Good(Top)
  BY InStep DEF ResolveTypedefs
<1>2. PICK f : f = Top  OBVIOUS
<1>3. f.left = <<>> /\ IsSeq(f.typedefs)  BY <1>1, <1>2 DEF Good, InSymbols, PairsOf
<1>4. PICK g : g = [f EXCEPT !.phase = "rounds", !.todo = f.typedefs, !.count = Len(f.typedefs)]  OBVIOUS
<1>5. stack' = Replaced(g)  BY <1>2, <1>4 DEF ResolveTypedefs
<1>6. g.left = <<>> /\ g.todo = f.typedefs /\ g.count = Len(f.typedefs)
  BY <1>1, <1>2, <1>3, <1>4 DEF IsFrame
<1>7. Len(f.typedefs) \in Nat /\ Len(<<>>) = 0  BY <1>3 DEF IsSeq
<1>8. CountedIn(g)'
  <2>1. Elements(g.left) = {}  BY <1>6, NoElements
  <2> QED  BY <1>6, <1>7, <2>1 DEF CountedIn
<1> QED  BY <1>1, <1>5, <1>8, CountedOn

LEMMA AppendIs ==
  ASSUME NEW s, IsSeq(s), NEW e
  PROVE  /\ Len(Append(s, e)) = Len(s) + 1 /\ Len(s) \in Nat
         /\ Elements(Append(s, e)) = Elements(s) \cup {e}
<1> DEFINE S == {s[n] : n \in DOMAIN s} \cup {e}
           r == Append(s, e)
<1>1. s \in Seq(S)  BY DEF IsSeq
<1>2. /\ Len(r) = Len(s) + 1 /\ Len(s) \in Nat
      /\ \A n \in 1 .. Len(s) : r[n] = s[n]
      /\ r[Len(s) + 1] = e
      /\ DOMAIN r = 1 .. Len(r) /\ DOMAIN s = 1 .. Len(s)
  BY <1>1
<1> QED  BY <1>2 DEF Elements

LEMMA TypedefCounts == MInv /\ Counted /\ ResolveTypedef => Counted'
<1> SUFFICES ASSUME MInv, Counted, ResolveTypedef PROVE Counted'  OBVIOUS
<1>1. IInv /\ stack # <<>> /\ Top.phase = "rounds" /\ IsFrame(Top) /\ Good(Top)
  BY InStep DEF ResolveTypedef
<1>2. PICK f : f = Top  OBVIOUS
<1>3. IsSeq(f.left) /\ IsSeq(f.todo) /\ f.todo # <<>>
  BY <1>1, <1>2 DEF Good, InRounds, PairsOf, ResolveTypedef
<1>4. PICK p : p = It  OBVIOUS
<1>5. PICK c, l, m : c = f.count /\ l = Len(f.left) /\ m = Len(f.todo)  OBVIOUS
<1>6. /\ c \in Nat /\ l + m <= c
      /\ l + m = c => \A q \in Elements(f.left) : TypedefCategory(q) = "typedef"
  BY <1>1, <1>2, <1>5 DEF Counted, CountedIn
<1>7. Len(Tail(f.todo)) = m - 1 /\ l \in Nat /\ m \in Nat
  <2>1. l \in Nat /\ m \in Nat  BY <1>3, <1>5 DEF IsSeq
  <2> QED  BY <1>3, <1>5, <2>1, TailSeq
<1>8. CASE TypedefCategory(p) = "typedef"
  <2>1. PICK g : g = [Continue EXCEPT !.left = Append(@, p)]  OBVIOUS
  <2>2. stack' = Replaced(g) /\ categories' = categories /\ asts' = asts
    BY <1>4, <1>8, <2>1 DEF ResolveTypedef
  <2>3. g.todo = Tail(f.todo) /\ g.left = Append(f.left, p) /\ g.count = c
    BY <1>1, <1>2, <1>5, <2>1 DEF IsFrame, Continue
  <2>4. Len(g.left) = l + 1 /\ Elements(g.left) = Elements(f.left) \cup {p}
    BY <1>3, <1>5, <2>3, AppendIs
  <2>5. \A q : TypedefCategory(q)' = TypedefCategory(q)
    BY <2>2 DEF TypedefCategory, Lookup, Def
  <2>6. CountedIn(g)'
    <3>1. Len(g.left) + Len(g.todo) = l + m
      <4>1. Len(g.left) = l + 1 /\ Len(g.todo) = m - 1  BY <1>7, <2>3, <2>4
      <4>2. (l + 1) + (m - 1) = l + m  BY <1>7
      <4> QED  BY <4>1, <4>2
    <3>2. l + m = c => \A q \in Elements(g.left) : TypedefCategory(q)' = "typedef"
      BY <1>6, <1>8, <2>4, <2>5
    <3> QED  BY <1>6, <2>3, <3>1, <3>2 DEF CountedIn
  <2> QED  BY <1>1, <2>2, <2>6, CountedOn
<1>9. CASE TypedefCategory(p) # "typedef"
  <2>1. PICK g : g = Continue  OBVIOUS
  <2>2. stack' = Replaced(g)  BY <1>4, <1>9, <2>1 DEF ResolveTypedef
  <2>3. g.todo = Tail(f.todo) /\ g.left = f.left /\ g.count = c
    BY <1>1, <1>2, <1>5, <2>1 DEF IsFrame, Continue
  <2>4. Len(g.left) + Len(g.todo) <= c /\ Len(g.left) + Len(g.todo) # c
    <3>1. Len(g.left) = l /\ Len(g.todo) = m - 1  BY <1>5, <1>7, <2>3
    <3>2. l + (m - 1) <= c /\ l + (m - 1) # c  BY <1>6, <1>7
    <3> QED  BY <3>1, <3>2
  <2>5. CountedIn(g)'  BY <1>6, <2>3, <2>4 DEF CountedIn
  <2> QED  BY <1>1, <2>2, <2>5, CountedOn
<1> QED  BY <1>8, <1>9

LEMMA EndRoundCounts == MInv /\ Counted /\ EndRound => Counted'
<1> SUFFICES ASSUME MInv, Counted, EndRound PROVE Counted'  OBVIOUS
<1>1. IInv /\ stack # <<>> /\ Top.phase = "rounds" /\ IsFrame(Top) /\ Good(Top)
  BY InStep DEF EndRound
<1>2. CASE Fail  BY <1>2, CountedStill DEF Fail, symbols, EndRound
<1>3. CASE stack' = NextRound(Top)
  <2>1. PICK f : f = Top  OBVIOUS
  <2>2. PICK g : g = [f EXCEPT !.todo = f.left, !.left = <<>>, !.count = Len(f.left)]  OBVIOUS
  <2>3. stack' = Replaced(g)  BY <1>3, <2>1, <2>2 DEF NextRound
  <2>4. g.left = <<>> /\ g.todo = f.left /\ g.count = Len(f.left)
    BY <1>1, <2>1, <2>2 DEF IsFrame
  <2>5. Len(f.left) \in Nat /\ Len(<<>>) = 0  BY <1>1, <2>1 DEF IsFrame, IsSeq
  <2>6. CountedIn(g)'
    <3>1. Elements(g.left) = {}  BY <2>4, NoElements
    <3> QED  BY <2>4, <2>5, <3>1 DEF CountedIn
  <2> QED  BY <1>1, <2>3, <2>6, CountedOn
<1> QED  BY <1>2, <1>3 DEF EndRound

LEMMA ReturnCounts == MInv /\ Return => Counted'
<1> SUFFICES ASSUME MInv, Return, stack' # <<>> PROVE CountedIn(Top)'  BY DEF Counted
<1>1. IInv /\ stack # <<>>  BY InStep DEF Return
<1>2. PICK s, r : s = stack /\ r = Tail(stack)  OBVIOUS
<1>3. stack' = r /\ r # <<>>  BY <1>2 DEF Return
<1>4. IsSeq(s) /\ IsSeq(r) /\ \A n \in DOMAIN r : r[n] = s[n + 1] /\ n + 1 \in DOMAIN s
  <2>1. IsSeq(s)  BY <1>1, <1>2 DEF IInv, Frames
  <2>2. IsSeq(r) /\ Len(r) = Len(s) - 1 /\ \A n \in DOMAIN r : r[n] = s[n + 1]
    BY <1>1, <1>2, <2>1, TailSeq
  <2>3. Len(s) \in Nat /\ DOMAIN s = 1 .. Len(s) /\ DOMAIN r = 1 .. Len(r)  BY <2>1, <2>2 DEF IsSeq
  <2> QED  BY <2>1, <2>2, <2>3
<1>5. 1 \in DOMAIN r /\ Head(r) = r[1]  BY <1>3, <1>4, TailSeq
<1>6. Head(r) = s[2] /\ 2 \in DOMAIN s  BY <1>4, <1>5
<1>7. Head(r).phase = "includes"  BY <1>2, <1>6 DEF MInv, Stacked
<1>8. Top' = Head(r)  BY <1>3 DEF Top
<1> QED  BY <1>7, <1>8 DEF CountedIn

LEMMA CountedStays == MInv /\ Counted /\ [Next]_vars => Counted'
<1> SUFFICES ASSUME MInv, Counted, [Next]_vars PROVE Counted'  OBVIOUS
<1>1. CASE UNCHANGED vars  BY <1>1, CountedStill DEF vars
<1>2. CASE RegisterNames \/ AddName \/ ResolveAll \/ ResolveType \/ ResolveConstValue \/ ResolveBaseService
  <2>1. asts' = asts
    BY <1>2 DEF RegisterNames, AddName, ResolveAll, ResolveType, ResolveConstValue, ResolveBaseService
  <2> QED  BY <1>2, <2>1, EarlyCounts
<1> QED
  BY <1>1, <1>2, IncludeCounts, TypedefsCount, TypedefCounts, EndRoundCounts, ReturnCounts DEF Next
-----------------------------------------------------------------------------
LEMMA NextRInv == MInv /\ LInv /\ RInv /\ [Next]_vars => RInv'
<1> SUFFICES ASSUME MInv, LInv, RInv, [Next]_vars PROVE RInv'  OBVIOUS
<1>1. DOMAIN names \subseteq Reached /\ Counted /\ (Refused => Illegal)  BY DEF RInv
<1>2. DOMAIN names' \subseteq Reached'  BY ReachedStays
<1>3. Counted'  BY <1>1, CountedStays
<1>4. asts' = asts  BY DEF Next, vars, ResolveInclude, RegisterNames, AddName, ResolveAll, ResolveType,
        ResolveConstValue, ResolveBaseService, ResolveTypedefs, ResolveTypedef, EndRound, Return
<1>5. Illegal' = Illegal  BY <1>4, MeaningStays
<1>6. CASE Illegal  BY <1>2, <1>3, <1>5, <1>6 DEF RInv
<1>7. ASSUME ~Illegal PROVE ~Refused'
  <2>1. ~Refused  BY <1>1, <1>7
  <2>2. CASE status' = status  BY <2>1, <2>2 DEF Refused
  <2>3. CASE AddName
    <3>1. Def(Top.file, It).name \notin DOMAIN names[Top.file]
      BY <1>1, <1>7, <2>3, DuplicateIsIllegal DEF AddName
    <3> QED  BY <2>2, <2>3, <3>1 DEF AddName
  <2>4. CASE ResolveType
    <3>1. ~(TypeName(Here) \notin Builtin /\ PlacesOf(Top.file, TypeName(Here), TypeLike) = {})
      BY <1>1, <1>7, <2>4, TypeIsIllegal DEF ResolveType
    <3>2. status' = status  BY <2>4, <3>1 DEF ResolveType
    <3> QED  BY <2>2, <3>2
  <2>5. CASE ResolveConstValue
    <3>1. PICK id : id = Def(Top.file, It.def).values[It.k]  OBVIOUS
    <3>2. ~(/\ id \notin Literals
            /\ \/ GetsLost(Top.file, id)
               \/ ~GetsLost(Top.file, id) /\ Cardinality(Local(Top.file, id) \cup FromInclude(Top.file, id)) # 1)
      BY <1>1, <1>7, <2>5, <3>1, ValueIsIllegal DEF ResolveConstValue
    <3>3. status' = status  BY <2>5, <3>1, <3>2 DEF ResolveConstValue, Explained
    <3> QED  BY <2>2, <3>3
  <2>6. CASE ResolveBaseService
    <3>1. PlacesOf(Top.file, Def(Top.file, It.def).extends, {"service"}) # {}
      BY <1>1, <1>7, <2>6, BaseIsIllegal DEF ResolveBaseService
    <3>2. status' = status  BY <2>6, <3>1 DEF ResolveBaseService
    <3> QED  BY <2>2, <3>2
  <2>7. CASE EndRound
    <3>1. Len(Top.left) # Top.count  BY <1>1, <1>7, <2>7, StuckIsIllegal DEF EndRound
    <3>2. status' = status  BY <2>7, <3>1 DEF EndRound
    <3> QED  BY <2>2, <3>2
  <2>8. CASE Return  BY <2>8 DEF Return, Refused
  <2> QED  BY <2>2, <2>3, <2>4, <2>5, <2>6, <2>7, <2>8
        DEF Next, vars, ResolveInclude, RegisterNames, ResolveAll, ResolveTypedefs, ResolveTypedef
<1> QED  BY <1>2, <1>3, <1>6, <1>7 DEF RInv

\* What ResolveSymbols refuses, or never comes back from, is illegal: a name is
\* defined twice, means nothing or can be explained in none or several ways, or
\* typedefs run in a circle.  The order of definitions is no reason.
THEOREM OnlyIllegalIsRefused == Spec => []RefusedIsIllegal
<1>1. RInv => RefusedIsIllegal  BY DEF RInv, Refused, RefusedIsIllegal
<1> QED  BY <1>1, InitMInv, NextKeeps, InitLInv, NextLinks, InitRInv, NextRInv, PTL DEF Spec
-----------------------------------------------------------------------------
(***************************************************************************)
(* Where getEnum does not come back.                                       *)
(***************************************************************************)
LEMMA EndlessStays ==
  ASSUME asts' = asts
  PROVE  EndlessValue' = EndlessValue
<1>1. /\ \A file, name, kinds : Defines(file, name, kinds)' = Defines(file, name, kinds)
      /\ Reached' = Reached
  BY MeaningStays
<1>2. \A node : Circular(node)' = Circular(node)
  <2>1. Typedefs' = Typedefs  BY DEF Typedefs, Nodes, Kind, Def
  <2>2. \A node : Follows(node)' = Follows(node)  BY MeaningStays DEF Follows, Def
  <2> QED  BY <2>1, <2>2 DEF Circular
<1>3. \A file, name : Endless(file, name)' = Endless(file, name)  BY <1>1, <1>2 DEF Endless
<1>4. \A file, id : LooksUpEndless(file, id)' = LooksUpEndless(file, id)
  BY <1>3 DEF LooksUpEndless, IncludesOf, Included
<1> QED  BY <1>1, <1>4 DEF EndlessValue, Def

LostAtEndless == status = "diverged" => EndlessValue

LEMMA NextLost == MInv /\ LInv /\ RInv /\ LostAtEndless /\ [Next]_vars => LostAtEndless'
<1> SUFFICES ASSUME MInv, LInv, RInv, LostAtEndless, [Next]_vars, status' = "diverged"
             PROVE  EndlessValue'
  BY DEF LostAtEndless
<1>1. asts' = asts  BY DEF Next, vars, ResolveInclude, RegisterNames, AddName, ResolveAll, ResolveType,
        ResolveConstValue, ResolveBaseService, ResolveTypedefs, ResolveTypedef, EndRound, Return
<1> SUFFICES EndlessValue  BY <1>1, EndlessStays
<1>2. CASE status = "diverged"  BY <1>2 DEF LostAtEndless
<1>3. CASE status # "diverged"
  <2>1. ResolveConstValue
    BY <1>3 DEF Next, vars, ResolveInclude, RegisterNames, AddName, ResolveAll, ResolveType, Found,
       ResolveBaseService, ResolveTypedefs, ResolveTypedef, EndRound, Return, Fail
  <2>2. IsAt("symbols") /\ Top.todo # <<>> /\ It.what = "value"  BY <2>1 DEF ResolveConstValue, Is
  <2>3. Top.file \in DOMAIN asts /\ Top.file \in DOMAIN names /\ asts \in Documents
    BY <2>2, InStep DEF MInv, World
  <2>4. PICK file : file = Top.file  OBVIOUS
  <2>5. PICK x : x = It  OBVIOUS
  <2>6. PICK f : f = Top  OBVIOUS
  <2>7. PICK id : id = Def(file, x.def).values[x.k]  OBVIOUS
  <2>8. id \notin Literals /\ GetsLost(file, id)
    BY <1>3, <2>1, <2>4, <2>5, <2>7 DEF ResolveConstValue, Explained, Fail
  <2>9. x.def \in Defs(file) /\ x.k \in DOMAIN Def(file, x.def).values
    BY <2>2, <2>4, <2>5, <2>6, ItIs
  <2>10. id \in Names  BY <2>3, <2>4, <2>7, <2>9, DefinitionIs
  <2>11. PICK F : F = Settling(file)  OBVIOUS
  <2>12. Known(F) /\ file \in F /\ LinkedIn(F)
    <3>1. IsAt("symbols") /\ Is("value")  BY <2>1, <2>2 DEF ResolveConstValue
    <3>2. Known(F) /\ file \in F  BY <2>4, <2>11, <3>1, KnownNow
    <3>3. LinkedIn(F)  BY <2>4, <2>11, <3>1, LinkedNow
    <3> QED  BY <3>2, <3>3
  <2>13. LooksUpEndless(file, id)  BY <2>3, <2>8, <2>10, <2>12, LostLooksUpEndless
  <2>14. file \in Reached  BY <2>3, <2>4 DEF RInv
  <2> QED  BY <2>7, <2>8, <2>9, <2>13, <2>14 DEF EndlessValue, Defs
<1> QED  BY <1>2, <1>3

\* The only documents from which ResolveSymbols may never return are those that
\* Ends excludes: an identifier is looked up in a typedef of a circle.
THEOREM OnlyEndlessValuesDiverge == Spec => [](status = "diverged" => EndlessValue)
<1>1. Init => LostAtEndless  BY DEF Init, LostAtEndless
<1>2. LostAtEndless => (status = "diverged" => EndlessValue)  BY DEF LostAtEndless
<1> QED  BY <1>1, <1>2, InitMInv, NextKeeps, InitLInv, NextLinks, InitRInv, NextRInv, NextLost, PTL DEF Spec
=============================================================================
