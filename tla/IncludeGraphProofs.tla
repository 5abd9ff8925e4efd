-------------------------- MODULE IncludeGraphProofs -------------------------
(***************************************************************************)
(* For all file systems: the parser is never inside two calls for one IDL; *)
(* when it succeeds, every include leads to where search finds its name;   *)
(* CircleDetect reports a circle exactly when there is one; and without    *)
(* one the walk hands over each IDL once and after what it includes.       *)
(* Then, for all the trees that are left, PluginCall: compression sends    *)
(* each IDL once, and both sides get the whole tree back.                  *)
(***************************************************************************)
EXTENDS PluginCall, FiniteSetTheorems, WellFoundedInduction, TLAPS

FrameSet == [path : Paths, done : Nat]
IsFrames(s) == s \in Seq(FrameSet)

Types ==
  /\ memo \subseteq Paths
  /\ refs \in [Paths -> Seq(Paths)]
  /\ IsFrames(stack) /\ IsFrames(walk)
  /\ sent \in Seq(Paths) /\ seen \subseteq Paths

\* What is being parsed is in the memo; so is the main IDL, once anything is.
Parsed ==
  /\ \A i \in DOMAIN stack : stack[i].path \in memo
  /\ memo # {} => Root \in memo
  /\ phase = "parsed" => memo # {}
  /\ reader # "none" => phase \notin {"parsing", "parsed"}
  /\ reader = "none" => walk = <<>> /\ sent = <<>> /\ seen = {}

PInv == Types /\ Parsed /\ NoIdlInsideItself

Got(s) == {s[i] : i \in DOMAIN s}
PathsOf(w) == {w[i].path : i \in DOMAIN w}

\* Trees without circles: every include has a smaller rank.
Ranks(r, rf) == \A p \in Paths : \A i \in DOMAIN rf[p] : r[rf[p][i]] < r[p]
Ranked(r) == reader # "none" => Ranks(r, refs)

\* The includes that a call of dfs has done are received, but for the one
\* that the next call is for.
Next1(w, i) == IF i < Len(w) THEN {w[i + 1].path} ELSE {}
DoneOf(rf, f, next, got) ==
  /\ f.done <= Len(rf[f.path])
  /\ \A k \in 1 .. f.done : rf[f.path][k] \in got \/ rf[f.path][k] \in next

Descends(r, w) == \A i, j \in DOMAIN w : i < j => r[w[j].path] < r[w[i].path]

InOrder(rf, s) ==
  \A i \in DOMAIN s :
    /\ \A j \in 1 .. i - 1 : s[j] # s[i]
    /\ \A k \in DOMAIN rf[s[i]] : \E j \in 1 .. i - 1 : s[j] = rf[s[i]][k]

\* The walk w with the set sn, after s was received.
Good(r, rf, w, s, sn) ==
  /\ sn = Got(s) \union PathsOf(w)
  /\ Descends(r, w)
  /\ \A i \in DOMAIN w : w[i].path \notin Got(s) /\ DoneOf(rf, w[i], Next1(w, i), Got(s))
  /\ InOrder(rf, s)

WInv(r) == Good(r, refs, walk, sent, seen)
-----------------------------------------------------------------------------
LEMMA Prefix ==
  ASSUME NEW S, NEW s \in Seq(S), NEW k \in 0 .. Len(s)
  PROVE  /\ SubSeq(s, 1, k) \in Seq(S) /\ Len(SubSeq(s, 1, k)) = k
         /\ \A i \in 1 .. k : SubSeq(s, 1, k)[i] = s[i]
OBVIOUS

LEMMA PopFrames ==
  ASSUME NEW s, IsFrames(s), s # <<>>
  PROVE  /\ IsFrames(Pop(s)) /\ Len(Pop(s)) = Len(s) - 1 /\ Len(s) \in Nat \ {0}
         /\ \A i \in 1 .. Len(s) - 1 : Pop(s)[i] = s[i]
         /\ Top(s) \in FrameSet /\ Top(s) = s[Len(s)]
<1>1. s \in Seq(FrameSet) /\ Len(s) \in Nat \ {0} /\ s[Len(s)] \in FrameSet  BY DEF IsFrames
<1>2. /\ SubSeq(s, 1, Len(s) - 1) \in Seq(FrameSet)
      /\ Len(SubSeq(s, 1, Len(s) - 1)) = Len(s) - 1
      /\ \A i \in 1 .. Len(s) - 1 : SubSeq(s, 1, Len(s) - 1)[i] = s[i]
  <2>1. Len(s) - 1 \in 0 .. Len(s)  BY <1>1
  <2> QED  BY <1>1, <2>1, Prefix
<1> QED  BY <1>1, <1>2 DEF IsFrames, Pop, Top

LEMMA PushFrames ==
  ASSUME NEW s, IsFrames(s), NEW p \in Paths
  PROVE  /\ IsFrames(Append(s, Frame(p, 0)))
         /\ Len(Append(s, Frame(p, 0))) = Len(s) + 1 /\ Len(s) \in Nat
         /\ \A i \in 1 .. Len(s) : Append(s, Frame(p, 0))[i] = s[i]
         /\ Append(s, Frame(p, 0))[Len(s) + 1] = Frame(p, 0)
         /\ Frame(p, 0).path = p /\ Frame(p, 0).done = 0
<1>1. Frame(p, 0) \in FrameSet  BY DEF Frame, FrameSet
<1> QED  BY <1>1 DEF IsFrames, Frame

LEMMA AdvanceFrames ==
  ASSUME NEW s, IsFrames(s)
  PROVE  /\ IsFrames(Advance(s)) /\ Len(Advance(s)) = Len(s) /\ Len(s) \in Nat
         /\ \A i \in 1 .. Len(s) : Advance(s)[i].path = s[i].path
         /\ \A i \in 1 .. Len(s) - 1 : Advance(s)[i] = s[i]
         /\ s # <<>> => /\ Advance(s)[Len(s)].done = s[Len(s)].done + 1
                        /\ Advance(s)[Len(s)] \in FrameSet
<1>1. CASE s = <<>>  BY <1>1 DEF Advance, IsFrames
<1>2. CASE s # <<>>
  <2> DEFINE f == [s[Len(s)] EXCEPT !.done = @ + 1]
  <2>1. Len(s) \in Nat \ {0} /\ s[Len(s)] \in FrameSet  BY <1>2 DEF IsFrames
  <2>2. f \in FrameSet /\ f.path = s[Len(s)].path /\ f.done = s[Len(s)].done + 1
    BY <2>1 DEF FrameSet
  <2>3. Advance(s) = [s EXCEPT ![Len(s)] = f]  BY <1>2 DEF Advance, Set, Top
  <2>h. HIDE DEF f
  <2> QED  BY <1>2, <2>1, <2>2, <2>3 DEF IsFrames
<1> QED  BY <1>1, <1>2

\* Setting a reference keeps the references of the right type.
LEMMA AttachType ==
  ASSUME NEW r \in [Paths -> Seq(Paths)], NEW s, IsFrames(s), NEW p \in Paths
  PROVE  Attach(r, s, p) \in [Paths -> Seq(Paths)]
<1>1. CASE s = <<>>  BY <1>1 DEF Attach
<1>2. CASE s # <<>>
  <2>1. Top(s).path \in Paths  BY <1>2, PopFrames DEF FrameSet
  <2> QED  BY <1>2, <2>1 DEF Attach
<1> QED  BY <1>1, <1>2

LEMMA RootIsFixed == ASSUME UNCHANGED <<batch, source>> PROVE Root' = Root
BY DEF Root, Search, Hits, First, Exists

LEMMA PInvInit == Init => PInv
BY DEF Init, PInv, Types, Parsed, NoIdlInsideItself, IsFrames, Root

\* A call for a new IDL, one that is known, one that fails.
LEMMA CallKeeps ==
  ASSUME PInv, phase = "parsing", NEW n, NEW d, Call(n, d),
         UNCHANGED <<batch, source, walking>>,
         memo = {} => Search(n, d) = Root
  PROVE  PInv'
<1> DEFINE p == Search(n, d)
<1>1. /\ memo \subseteq Paths /\ refs \in [Paths -> Seq(Paths)] /\ IsFrames(stack)
      /\ \A i \in DOMAIN stack : stack[i].path \in memo
      /\ \A i, j \in DOMAIN stack : i # j => stack[i].path # stack[j].path
      /\ memo # {} => Root \in memo
  BY DEF PInv, Types, Parsed, NoIdlInsideItself
<1>2. IsFrames(walk)' /\ (sent \in Seq(Paths))' /\ (seen \subseteq Paths)' /\ reader = "none" /\ reader' = "none"
      /\ walk' = <<>> /\ sent' = <<>> /\ seen' = {}
  BY DEF PInv, Types, Parsed, walking, IsFrames
<1>3. Root' = Root  BY RootIsFixed
<1>4. CASE Parse(p)
  <2>1. p \in Paths /\ p \notin memo /\ memo' = memo \union {p} /\ phase' = "parsing"
        /\ stack' = Append(stack, Frame(p, 0)) /\ refs' = [refs EXCEPT ![p] = <<>>]
    BY <1>4 DEF Parse, Readable
  <2>2. IsFrames(stack') /\ Len(stack') = Len(stack) + 1 /\ Len(stack) \in Nat
        /\ (\A i \in 1 .. Len(stack) : stack'[i] = stack[i])
        /\ stack'[Len(stack) + 1].path = p
    BY <1>1, <2>1, PushFrames
  <2>3. \A i \in DOMAIN stack' : stack'[i].path \in memo'
    BY <1>1, <2>1, <2>2 DEF IsFrames
  <2>4. \A i, j \in DOMAIN stack' : i # j => stack'[i].path # stack'[j].path
    BY <1>1, <2>1, <2>2 DEF IsFrames
  <2>5. Root \in memo'  BY <1>1, <2>1
  <2>6. refs' \in [Paths -> Seq(Paths)]  BY <1>1, <2>1
  <2> QED  BY <1>1, <1>2, <1>3, <2>1, <2>2, <2>3, <2>4, <2>5, <2>6
        DEF PInv, Types, Parsed, NoIdlInsideItself
<1>5. CASE Known(p)
  <2>1. p \in Paths /\ memo' = memo /\ phase' = "parsing"
        /\ stack' = Advance(stack) /\ refs' = Attach(refs, stack, p)
    BY <1>1, <1>5 DEF Known
  <2>2. IsFrames(stack') /\ Len(stack') = Len(stack)
        /\ (\A i \in 1 .. Len(stack) : stack'[i].path = stack[i].path)
    BY <1>1, <2>1, AdvanceFrames
  <2>3. DOMAIN stack' = DOMAIN stack /\ \A i \in DOMAIN stack : stack'[i].path = stack[i].path
    BY <1>1, <2>2 DEF IsFrames
  <2>4. refs' \in [Paths -> Seq(Paths)]  BY <1>1, <2>1, AttachType
  <2>5. Types'  BY <1>1, <1>2, <2>1, <2>2, <2>4 DEF Types
  <2>6. Parsed'  BY <1>1, <1>2, <1>3, <2>1, <2>3 DEF Parsed
  <2>7. NoIdlInsideItself'  BY <1>1, <2>3 DEF NoIdlInsideItself
  <2> QED  BY <2>5, <2>6, <2>7 DEF PInv
<1>6. CASE Fail
  BY <1>1, <1>2, <1>3, <1>6 DEF Fail, PInv, Types, Parsed, NoIdlInsideItself
<1> QED  BY <1>4, <1>5, <1>6 DEF Call

LEMMA ReturnKeeps == ASSUME PInv, Return PROVE PInv'
<1> DEFINE rest == Pop(stack)
           p == Top(stack).path
<1>1. /\ memo \subseteq Paths /\ refs \in [Paths -> Seq(Paths)] /\ IsFrames(stack)
      /\ \A i \in DOMAIN stack : stack[i].path \in memo
      /\ \A i, j \in DOMAIN stack : i # j => stack[i].path # stack[j].path
      /\ memo # {} => Root \in memo
  BY DEF PInv, Types, Parsed, NoIdlInsideItself
<1>2. /\ phase = "parsing" /\ stack # <<>> /\ memo' = memo
      /\ refs' = Attach(refs, rest, p) /\ stack' = Advance(rest)
      /\ phase' \in {"parsed", "parsing"} /\ UNCHANGED <<batch, source, walking>>
  BY DEF Return
<1>3. IsFrames(rest) /\ Len(rest) = Len(stack) - 1 /\ Len(stack) \in Nat \ {0}
      /\ (\A i \in 1 .. Len(stack) - 1 : rest[i] = stack[i]) /\ Top(stack) \in FrameSet
  BY <1>1, <1>2, PopFrames
<1>h. HIDE DEF rest
<1>4. IsFrames(stack') /\ Len(stack') = Len(rest)
      /\ \A i \in 1 .. Len(rest) : stack'[i].path = rest[i].path
  BY <1>2, <1>3, AdvanceFrames
<1>5. DOMAIN stack' \subseteq DOMAIN stack /\ \A i \in DOMAIN stack' : stack'[i].path = stack[i].path
  BY <1>1, <1>3, <1>4, SMTT(30) DEF IsFrames
<1>6. refs' \in [Paths -> Seq(Paths)]
  BY <1>1, <1>2, <1>3, AttachType DEF FrameSet
<1>7. memo # {}
  BY <1>1, <1>3 DEF IsFrames
<1>8. reader = "none" /\ UNCHANGED <<walk, sent, seen, reader>>
  BY <1>2 DEF PInv, Parsed, walking
<1>9. Types'
  <2>1. Types  BY DEF PInv
  <2> QED  BY <1>1, <1>2, <1>4, <1>6, <1>8, <2>1 DEF Types, IsFrames
<1>10. Parsed'
  <2>1. Parsed  BY DEF PInv
  <2> QED  BY <1>1, <1>2, <1>5, <1>7, <1>8, <2>1, RootIsFixed DEF Parsed
<1>11. NoIdlInsideItself'  BY <1>1, <1>5 DEF NoIdlInsideItself
<1> QED  BY <1>9, <1>10, <1>11 DEF PInv

LEMMA DetectKeeps == ASSUME PInv, CircleDetect PROVE PInv'
<1>1. Root \in Paths /\ Root' = Root
  BY RootIsFixed DEF PInv, Types, Parsed, CircleDetect, parsing
<1>2. UNCHANGED <<memo, stack, refs>> /\ phase = "parsed"
  BY DEF CircleDetect, parsing
<1>3. CASE phase' = "circle" /\ UNCHANGED walking
  BY <1>1, <1>2, <1>3 DEF PInv, Types, Parsed, NoIdlInsideItself, walking
<1>4. CASE phase' = "walking" /\ reader' = "reading" /\ Enter(Root, <<>>) /\ UNCHANGED sent
  <2>1. IsFrames(<<>>)  BY DEF IsFrames
  <2>2. IsFrames(walk')  BY <1>1, <1>4, <2>1, PushFrames DEF Enter
  <2> QED  BY <1>1, <1>2, <1>4, <2>2 DEF PInv, Types, Parsed, NoIdlInsideItself, Enter
<1> QED  BY <1>3, <1>4 DEF CircleDetect

LEMMA DfsKeeps == ASSUME PInv, DfsInclude PROVE PInv'
<1> DEFINE w == Advance(walk)
           f == Top(walk)
           q == refs[f.path][f.done + 1]
<1>1. walk # <<>> /\ IsFrames(walk) /\ reader # "none"
  BY DEF DfsInclude, PInv, Types, Parsed
<1>2. IsFrames(w) /\ f \in FrameSet  BY <1>1, AdvanceFrames, PopFrames
<1>3. UNCHANGED <<batch, source, memo, stack, refs, phase, sent, reader>>
  BY DEF DfsInclude, parsing
<1>4. Root' = Root  BY <1>3, RootIsFixed
<1>5. CASE q \in seen /\ walk' = w /\ UNCHANGED seen
  BY <1>1, <1>2, <1>3, <1>4, <1>5 DEF PInv, Types, Parsed, NoIdlInsideItself
<1>6. CASE Enter(q, w)
  <2>1. f.done \in Nat /\ refs[f.path] \in Seq(Paths)
    BY <1>2 DEF PInv, Types, FrameSet
  <2>2. q \in Paths
    <3>1. ~(f.done >= Len(refs[f.path]))  BY <1>1 DEF DfsInclude, Waiting
    <3> DEFINE d == f.done
               l == refs[f.path]
    <3>2. d \in Nat /\ l \in Seq(Paths) /\ ~(d >= Len(l))  BY <2>1, <3>1
    <3>h. HIDE DEF d, l
    <3>3. d + 1 \in 1 .. Len(l)  BY ONLY <3>2
    <3>4. l[d + 1] \in Paths  BY ONLY <3>2, <3>3
    <3> QED  BY <3>4 DEF d, l
  <2> QED  BY <1>1, <1>2, <1>3, <1>4, <1>6, <2>2, PushFrames
        DEF PInv, Types, Parsed, NoIdlInsideItself, Enter
<1> QED  BY <1>5, <1>6 DEF DfsInclude

LEMMA SendKeeps == ASSUME PInv, Send PROVE PInv'
<1>1. IsFrames(walk) /\ walk # <<>> /\ walk' = Pop(walk) /\ sent' = Append(sent, Top(walk).path)
      /\ UNCHANGED <<batch, source, memo, stack, refs, phase, seen, reader>> /\ reader # "none"
  BY DEF Send, Waiting, parsing, PInv, Types
<1>2. IsFrames(walk') /\ Top(walk).path \in Paths
  BY <1>1, PopFrames DEF FrameSet
<1>3. Types'  BY <1>1, <1>2 DEF PInv, Types
<1>4. Parsed'  BY <1>1, RootIsFixed DEF PInv, Parsed
<1> QED  BY <1>1, <1>3, <1>4 DEF PInv, NoIdlInsideItself

\* Every step keeps what the first theorem needs.
LEMMA PInvStep == ASSUME PInv, [IncludeNext]_includeVars PROVE PInv'
<1>1. CASE ParseMain
  BY <1>1, CallKeeps DEF ParseMain, Root
<1>2. CASE ParseInclude
  <2>1. memo # {}
    <3>1. stack # <<>> /\ IsFrames(stack)  BY <1>2 DEF ParseInclude, Todo, PInv, Types
    <3>2. Len(stack) \in DOMAIN stack  BY <3>1, PopFrames DEF IsFrames
    <3> QED  BY <3>2 DEF PInv, Parsed
  <2> DEFINE f == Top(stack)
  <2>2. Call(Content(f.path)[f.done + 1], DirOf[f.path]) /\ phase = "parsing"
        /\ UNCHANGED <<batch, source, walking>>
    BY <1>2 DEF ParseInclude
  <2> QED  BY <2>1, <2>2, CallKeeps
<1>3. CASE Return  BY <1>3, ReturnKeeps
<1>4. CASE CircleDetect  BY <1>4, DetectKeeps
<1>5. CASE DfsInclude  BY <1>5, DfsKeeps
<1>6. CASE Send  BY <1>6, SendKeeps
<1>7. CASE GiveUp \/ SeeClosed
  <2>1. UNCHANGED <<batch, source, memo, stack, refs, walk, seen, sent>> /\ reader' # "none" /\ reader # "none"
        /\ phase' \in {"failed", "walked"}
    BY <1>7 DEF GiveUp, SeeClosed, parsing
  <2> QED  BY <2>1, RootIsFixed DEF PInv, Types, Parsed, NoIdlInsideItself
<1>8. CASE UNCHANGED includeVars
  BY <1>8, RootIsFixed DEF includeVars, parsing, walking, PInv, Types, Parsed, NoIdlInsideItself, IsFrames
<1> QED  BY <1>1, <1>2, <1>3, <1>4, <1>5, <1>6, <1>7, <1>8 DEF IncludeNext, Parsing, Walking

\* For all contents of files, circles included: the calls of
\* parseFileRecursively that are open at one time are for different IDLs.
THEOREM ParserIsNotReentered == IncludeSpec => []NoIdlInsideItself
<1>1. PInv => NoIdlInsideItself  BY DEF PInv
<1> QED  BY <1>1, PInvInit, PInvStep, PTL DEF IncludeSpec
-----------------------------------------------------------------------------
LEMMA OrderIsInOrder == ASSUME InOrder(refs, sent) PROVE IncludesComeFirst
<1> SUFFICES ASSUME NEW i \in DOMAIN sent, NEW q \in After({sent[i]})
             PROVE  \E j \in 1 .. i - 1 : sent[j] = q
  BY DEF InOrder, IncludesComeFirst
<1>1. PICK k \in DOMAIN refs[sent[i]] : q = refs[sent[i]][k]  BY DEF After
<1>2. \E j \in 1 .. i - 1 : sent[j] = refs[sent[i]][k]  BY DEF InOrder
<1> QED  BY <1>1, <1>2

LEMMA NothingYet == ASSUME NEW r, NEW rf PROVE Good(r, rf, <<>>, <<>>, {})
BY DEF Good, Got, PathsOf, Descends, InOrder

LEMMA FirstCall ==
  ASSUME NEW r, NEW rf \in [Paths -> Seq(Paths)], NEW p \in Paths
  PROVE  Good(r, rf, Append(<<>>, Frame(p, 0)), <<>>, {p})
<1> DEFINE w == Append(<<>>, Frame(p, 0))
<1>1. Len(w) = 1 /\ DOMAIN w = {1} /\ w[1].path = p /\ w[1].done = 0  BY DEF Frame
<1>2. rf[p] \in Seq(Paths)  OBVIOUS
<1>h. HIDE DEF w
<1>3. DoneOf(rf, w[1], Next1(w, 1), Got(<<>>))  BY <1>1, <1>2 DEF DoneOf
<1>4. Got(<<>>) = {} /\ PathsOf(w) = {p}  BY <1>1 DEF Got, PathsOf
<1>5. Descends(r, w) /\ InOrder(rf, <<>>)  BY <1>1 DEF Descends, InOrder
<1>6. \A i \in DOMAIN w : w[i].path \notin Got(<<>>) /\ DoneOf(rf, w[i], Next1(w, i), Got(<<>>))
  BY <1>1, <1>3, <1>4
<1>7. {p} = Got(<<>>) \union PathsOf(w)  BY <1>4
<1>8. Good(r, rf, w, <<>>, {p})  BY <1>5, <1>6, <1>7, Zenon DEF Good
<1> QED  BY <1>8 DEF w

\* The include at which the top of the walk is: it is not on the walk.
LEMMA AtInclude ==
  ASSUME NEW r \in [Paths -> Nat], NEW rf \in [Paths -> Seq(Paths)], Ranks(r, rf),
         NEW w, IsFrames(w), w # <<>>, NEW s, NEW sn, Good(r, rf, w, s, sn),
         Top(w).done < Len(rf[Top(w).path])
  PROVE  LET n == Len(w)
             q == rf[w[n].path][w[n].done + 1] IN
         /\ n \in Nat \ {0} /\ DOMAIN w = 1 .. n
         /\ w[n].done \in Nat /\ w[n].done + 1 <= Len(rf[w[n].path]) /\ Len(rf[w[n].path]) \in Nat
         /\ q \in Paths /\ q \notin PathsOf(w)
         /\ \A i \in 1 .. n : r[q] < r[w[i].path]
         /\ \A k \in 1 .. w[n].done : rf[w[n].path][k] \in Got(s)
<1> DEFINE n == Len(w)
           f == w[n]
           q == rf[f.path][f.done + 1]
<1>1. n \in Nat \ {0} /\ DOMAIN w = 1 .. n /\ f \in FrameSet /\ Top(w) = f
      /\ \A i \in 1 .. n : w[i] \in FrameSet
  BY PopFrames DEF IsFrames
<1>2. f.path \in Paths /\ f.done \in Nat /\ rf[f.path] \in Seq(Paths)
  BY <1>1 DEF FrameSet
<1>3. f.done < Len(rf[f.path]) /\ f.done + 1 \in DOMAIN rf[f.path] /\ q \in Paths
  BY <1>1, <1>2
<1>4. r[q] < r[f.path] /\ r[q] \in Nat /\ r[f.path] \in Nat
  BY <1>2, <1>3 DEF Ranks
<1>5. \A i \in 1 .. n : r[w[i].path] \in Nat  BY <1>1 DEF FrameSet
<1>6. \A i \in 1 .. n : i # n => r[f.path] < r[w[i].path]
  <2>1. Descends(r, w)  BY DEF Good
  <2>2. ASSUME NEW i \in 1 .. n, i # n  PROVE r[f.path] < r[w[i].path]
    <3>1. i < n /\ i \in DOMAIN w /\ n \in DOMAIN w
      <4> HIDE DEF f, q, n
      <4> QED  BY <1>1, <2>2
    <3> QED  BY <2>1, <3>1 DEF Descends
  <2> QED  BY <2>2
<1>h. HIDE DEF f, q, n
<1>7. \A i \in 1 .. n : r[q] < r[w[i].path]
  <2> SUFFICES ASSUME NEW i \in 1 .. n PROVE r[q] < r[w[i].path]  OBVIOUS
  <2>1. CASE i = n  BY <1>4, <2>1 DEF f
  <2>2. CASE i # n
    <3>1. r[f.path] < r[w[i].path]  BY <1>6, <2>2
    <3> QED  BY <1>4, <1>5, <3>1
  <2> QED  BY <2>1, <2>2
<1>8. q \notin PathsOf(w)
  <2> SUFFICES ASSUME NEW i \in 1 .. n, q = w[i].path PROVE FALSE  BY <1>1 DEF PathsOf
  <2>1. r[q] < r[q]  BY <1>7
  <2> QED  BY <1>4, <2>1
<1>9. \A k \in 1 .. f.done : rf[f.path][k] \in Got(s)
  <2>1. DoneOf(rf, w[n], Next1(w, n), Got(s))
    <3>1. n \in DOMAIN w  BY <1>1
    <3> QED  BY <3>1 DEF Good
  <2>2. Next1(w, n) = {}  BY <1>1 DEF Next1, n
  <2> QED  BY <2>1, <2>2 DEF DoneOf, f
<1>10. Len(rf[f.path]) \in Nat  BY <1>2
<1> QED  BY <1>1, <1>2, <1>3, <1>7, <1>8, <1>9, <1>10 DEF f, q, n

\* dfs returns at once for an IDL that is in the set.
LEMMA Skips ==
  ASSUME NEW r \in [Paths -> Nat], NEW rf \in [Paths -> Seq(Paths)], Ranks(r, rf),
         NEW w, IsFrames(w), w # <<>>, NEW s, NEW sn, Good(r, rf, w, s, sn),
         Top(w).done < Len(rf[Top(w).path]),
         rf[Top(w).path][Top(w).done + 1] \in sn
  PROVE  Good(r, rf, Advance(w), s, sn)
<1> DEFINE n == Len(w)
           q == rf[w[n].path][w[n].done + 1]
           v == Advance(w)
<1>1. /\ n \in Nat \ {0} /\ DOMAIN w = 1 .. n /\ Top(w) = w[n]
      /\ w[n].done \in Nat /\ w[n].done + 1 <= Len(rf[w[n].path]) /\ q \notin PathsOf(w)
      /\ \A k \in 1 .. w[n].done : rf[w[n].path][k] \in Got(s)
  BY AtInclude DEF Top
<1>2. /\ DOMAIN v = 1 .. n /\ Len(v) = n
      /\ \A i \in 1 .. n : v[i].path = w[i].path
      /\ \A i \in 1 .. n - 1 : v[i] = w[i]
      /\ v[n].done = w[n].done + 1
  BY <1>1, AdvanceFrames DEF IsFrames
<1>3. q \in Got(s)  BY <1>1 DEF Good
<1>h. HIDE DEF v, n
<1>4. PathsOf(v) = PathsOf(w)
  <2>1. DOMAIN v = DOMAIN w /\ \A i \in DOMAIN w : v[i].path = w[i].path  BY <1>1, <1>2
  <2> QED  BY <2>1, Zenon DEF PathsOf
<1>5. Descends(r, v)  BY <1>1, <1>2 DEF Good, Descends
<1>6. \A i \in 1 .. n - 1 : DoneOf(rf, v[i], Next1(v, i), Got(s))
  <2> SUFFICES ASSUME NEW i \in 1 .. n - 1 PROVE DoneOf(rf, v[i], Next1(v, i), Got(s))
    OBVIOUS
  <2>1. DoneOf(rf, w[i], Next1(w, i), Got(s))  BY <1>1 DEF Good
  <2>2. Next1(v, i) = Next1(w, i)
    <3>1. i + 1 \in 1 .. n  BY <1>1
    <3> QED  BY <1>1, <1>2, <3>1 DEF Next1, n
  <2> QED  BY <1>2, <2>1, <2>2
<1>7. DoneOf(rf, v[n], Next1(v, n), Got(s))
  <2>1. v[n].path = w[n].path  BY <1>1, <1>2
  <2>2. \A k \in 1 .. v[n].done : rf[w[n].path][k] \in Got(s)
    BY <1>1, <1>2, <1>3
  <2> QED  BY <1>1, <1>2, <2>1, <2>2 DEF DoneOf
<1>8. \A i \in 1 .. n : v[i].path \notin Got(s)  BY <1>1, <1>2 DEF Good
<1>9. \A i \in DOMAIN v : v[i].path \notin Got(s) /\ DoneOf(rf, v[i], Next1(v, i), Got(s))
  <2> SUFFICES ASSUME NEW i \in 1 .. n PROVE DoneOf(rf, v[i], Next1(v, i), Got(s))
    BY <1>2, <1>8
  <2> QED  BY <1>1, <1>6, <1>7, SMTT(30)
<1>10. sn = Got(s) \union PathsOf(v) /\ InOrder(rf, s)  BY <1>4 DEF Good
<1>11. Good(r, rf, v, s, sn)  BY <1>5, <1>9, <1>10, Zenon DEF Good
<1> QED  BY <1>11 DEF v

\* dfs is called for an IDL that is not in the set.
LEMMA Goes ==
  ASSUME NEW r \in [Paths -> Nat], NEW rf \in [Paths -> Seq(Paths)], Ranks(r, rf),
         NEW w, IsFrames(w), w # <<>>, NEW s, NEW sn, Good(r, rf, w, s, sn),
         Top(w).done < Len(rf[Top(w).path]),
         rf[Top(w).path][Top(w).done + 1] \notin sn
  PROVE  LET q == rf[Top(w).path][Top(w).done + 1] IN
           Good(r, rf, Append(Advance(w), Frame(q, 0)), s, sn \union {q})
<1> DEFINE n == Len(w)
           q == rf[w[n].path][w[n].done + 1]
           v == Append(Advance(w), Frame(q, 0))
<1>1. /\ n \in Nat \ {0} /\ DOMAIN w = 1 .. n /\ Top(w) = w[n]
      /\ w[n].done \in Nat /\ w[n].done + 1 <= Len(rf[w[n].path]) /\ Len(rf[w[n].path]) \in Nat
      /\ q \in Paths
      /\ \A i \in 1 .. n : r[q] < r[w[i].path]
      /\ \A k \in 1 .. w[n].done : rf[w[n].path][k] \in Got(s)
  BY AtInclude DEF Top
<1>2. /\ DOMAIN v = 1 .. n + 1 /\ Len(v) = n + 1
      /\ \A i \in 1 .. n : v[i].path = w[i].path
      /\ \A i \in 1 .. n - 1 : v[i] = w[i]
      /\ v[n].done = w[n].done + 1
      /\ v[n + 1].path = q /\ v[n + 1].done = 0
  <2> DEFINE u == Advance(w)
  <2>1. /\ IsFrames(u) /\ Len(u) = n
        /\ \A i \in 1 .. n : u[i].path = w[i].path
        /\ \A i \in 1 .. n - 1 : u[i] = w[i]
        /\ u[n].done = w[n].done + 1
    BY <1>1, AdvanceFrames
  <2>h. HIDE DEF u
  <2>3. v = Append(u, Frame(q, 0))  BY DEF u
  <2>h2. HIDE DEF n, q
  <2>2. /\ IsFrames(Append(u, Frame(q, 0))) /\ Len(Append(u, Frame(q, 0))) = Len(u) + 1
        /\ \A i \in 1 .. Len(u) : Append(u, Frame(q, 0))[i] = u[i]
        /\ Append(u, Frame(q, 0))[Len(u) + 1] = Frame(q, 0)
        /\ Frame(q, 0).path = q /\ Frame(q, 0).done = 0
    <3>1. q \in Paths /\ IsFrames(u)  BY <1>1, <2>1
    <3> QED  BY <3>1, PushFrames
  <2>h3. HIDE DEF v
  <2>6. /\ IsFrames(v) /\ Len(v) = n + 1 /\ \A i \in 1 .. n : v[i] = u[i]
        /\ v[n + 1].path = q /\ v[n + 1].done = 0
    BY <2>1, <2>2, <2>3
  <2>4. DOMAIN v = 1 .. n + 1  BY <2>6 DEF IsFrames
  <2>5. \A i \in 1 .. n - 1 : i \in 1 .. n  BY <1>1
  <2>7. n \in 1 .. n  BY <1>1
  <2> QED  BY <2>1, <2>4, <2>5, <2>6, <2>7
<1>3. q \notin Got(s) /\ sn = Got(s) \union PathsOf(w)  BY <1>1 DEF Good
<1>4. rf[q] \in Seq(Paths)  BY <1>1
<1>h. HIDE DEF v, n, q
<1>5. PathsOf(v) = PathsOf(w) \union {q}
  <2>1. DOMAIN v = DOMAIN w \union {n + 1}  BY <1>1, <1>2, SMTT(30)
  <2>2. \A i \in DOMAIN w : v[i].path = w[i].path  BY <1>1, <1>2
  <2>3. v[n + 1].path = q  BY <1>2
  <2>4. ASSUME NEW x \in PathsOf(v) PROVE x \in PathsOf(w) \union {q}
    <3>1. PICK i \in DOMAIN v : x = v[i].path  BY DEF PathsOf
    <3>2. CASE i = n + 1  BY <2>3, <3>1, <3>2
    <3>3. CASE i \in DOMAIN w  BY <2>2, <3>1, <3>3 DEF PathsOf
    <3> QED  BY <2>1, <3>2, <3>3
  <2>5. ASSUME NEW x \in PathsOf(w) PROVE x \in PathsOf(v)
    <3>1. PICK i \in DOMAIN w : x = w[i].path  BY DEF PathsOf
    <3> QED  BY <2>1, <2>2, <3>1 DEF PathsOf
  <2>6. q \in PathsOf(v)  BY <2>1, <2>3 DEF PathsOf
  <2> QED  BY <2>4, <2>5, <2>6
<1>6. Descends(r, v)
  <2> SUFFICES ASSUME NEW i \in 1 .. n + 1, NEW j \in 1 .. n + 1, i < j
               PROVE  r[v[j].path] < r[v[i].path]
    BY <1>2 DEF Descends
  <2>1. i \in 1 .. n  BY <1>1
  <2>2. CASE j = n + 1  BY <1>1, <1>2, <2>1, <2>2
  <2>3. CASE j # n + 1
    <3>1. j \in 1 .. n  BY <1>1, <2>3
    <3>2. r[w[j].path] < r[w[i].path]  BY <1>1, <2>1, <3>1 DEF Good, Descends
    <3> QED  BY <1>2, <2>1, <3>1, <3>2
  <2> QED  BY <2>2, <2>3
<1>7. \A i \in 1 .. n - 1 : DoneOf(rf, v[i], Next1(v, i), Got(s))
  <2> SUFFICES ASSUME NEW i \in 1 .. n - 1 PROVE DoneOf(rf, v[i], Next1(v, i), Got(s))
    OBVIOUS
  <2>0. i \in 1 .. n /\ i + 1 \in 1 .. n /\ i < n /\ i < n + 1  BY <1>1
  <2>1. DoneOf(rf, w[i], Next1(w, i), Got(s))
    <3>1. i \in DOMAIN w  BY <1>1, <2>0
    <3> QED  BY <3>1 DEF Good
  <2>2. Next1(v, i) = Next1(w, i)
    <3>1. i < Len(v) /\ i < Len(w)  BY <1>2, <2>0 DEF n
    <3> QED  BY <1>2, <2>0, <3>1 DEF Next1
  <2> QED  BY <1>2, <2>1, <2>2
<1>8. DoneOf(rf, v[n], Next1(v, n), Got(s))
  <2>1. v[n].path = w[n].path /\ Next1(v, n) = {q}
    <3>1. n < Len(v)  BY <1>1, <1>2
    <3> QED  BY <1>1, <1>2, <3>1 DEF Next1
  <2>2. ASSUME NEW k \in 1 .. v[n].done
        PROVE  rf[w[n].path][k] \in Got(s) \/ rf[w[n].path][k] \in {q}
    <3>1. CASE k = w[n].done + 1  BY <3>1 DEF q
    <3>2. CASE k # w[n].done + 1
      <4>1. w[n].done \in Nat /\ v[n].done = w[n].done + 1  BY <1>1, <1>2
      <4>2. k \in 1 .. v[n].done /\ k # w[n].done + 1  BY <3>2
      <4>3. k \in 1 .. w[n].done  BY ONLY <4>1, <4>2
      <4> QED  BY <1>1, <4>3
    <3> QED  BY <3>1, <3>2
  <2> QED  BY <1>1, <1>2, <2>1, <2>2 DEF DoneOf
<1>9. DoneOf(rf, v[n + 1], Next1(v, n + 1), Got(s))
  <2>1. \A k : k \notin 1 .. 0  OBVIOUS
  <2>2. 0 <= Len(rf[q])  BY <1>4
  <2> QED  BY <1>2, <2>1, <2>2 DEF DoneOf
<1>10. \A i \in 1 .. n : w[i].path \notin Got(s)  BY <1>1 DEF Good
<1>11. \A i \in DOMAIN v : v[i].path \notin Got(s) /\ DoneOf(rf, v[i], Next1(v, i), Got(s))
  <2> SUFFICES ASSUME NEW i \in 1 .. n + 1
               PROVE  v[i].path \notin Got(s) /\ DoneOf(rf, v[i], Next1(v, i), Got(s))
    BY <1>2
  <2>1. CASE i = n + 1  BY <1>2, <1>3, <1>9, <2>1
  <2>2. CASE i = n  BY <1>1, <1>2, <1>8, <1>10, <2>2, SMTT(30)
  <2>3. CASE i \in 1 .. n - 1
    <3>1. i \in 1 .. n  BY <1>1, <2>3
    <3> QED  BY <1>2, <1>7, <1>10, <2>3, <3>1
  <2>h. HIDE DEF DoneOf
  <2>4. n \in Nat /\ (i = n + 1 \/ i = n \/ i \in 1 .. n - 1)
    <3>1. n \in Nat \ {0} /\ i \in 1 .. n + 1  BY <1>1
    <3> QED  BY ONLY <3>1
  <2> QED  BY <2>1, <2>2, <2>3, <2>4
<1>12. sn \union {q} = Got(s) \union PathsOf(v) /\ InOrder(rf, s)  BY <1>3, <1>5 DEF Good
<1>13. Good(r, rf, v, s, sn \union {q})  BY <1>6, <1>11, <1>12, Zenon DEF Good
<1> QED  BY <1>1, <1>13 DEF v, q

\* A call of dfs that has done its includes hands over its IDL.
LEMMA Hands ==
  ASSUME NEW r \in [Paths -> Nat], NEW rf \in [Paths -> Seq(Paths)],
         NEW w, IsFrames(w), w # <<>>, NEW s \in Seq(Paths), NEW sn, Good(r, rf, w, s, sn),
         Top(w).done >= Len(rf[Top(w).path])
  PROVE  Good(r, rf, Pop(w), Append(s, Top(w).path), sn)
<1> DEFINE n == Len(w)
           p == w[n].path
           v == Pop(w)
           t == Append(s, p)
<1>1. /\ n \in Nat \ {0} /\ DOMAIN w = 1 .. n /\ Top(w) = w[n]
      /\ w[n] \in FrameSet /\ \A i \in 1 .. n : w[i] \in FrameSet
      /\ DOMAIN v = 1 .. n - 1 /\ Len(v) = n - 1 /\ \A i \in 1 .. n - 1 : v[i] = w[i]
  BY PopFrames DEF IsFrames
<1>2. p \in Paths /\ w[n].done \in Nat /\ rf[p] \in Seq(Paths)  BY <1>1 DEF FrameSet
<1>3. /\ Len(s) \in Nat /\ DOMAIN s = 1 .. Len(s) /\ DOMAIN t = 1 .. Len(s) + 1
      /\ t[Len(s) + 1] = p /\ \A i \in 1 .. Len(s) : t[i] = s[i]
  BY <1>2
<1>4. DoneOf(rf, w[n], Next1(w, n), Got(s)) /\ p \notin Got(s) /\ Next1(w, n) = {}
  <2>1. n \in DOMAIN w  BY <1>1
  <2>2. Next1(w, n) = {}  BY <1>1 DEF Next1
  <2>h. HIDE DEF n
  <2>3. DoneOf(rf, w[n], Next1(w, n), Got(s)) /\ w[n].path \notin Got(s)  BY <2>1 DEF Good
  <2> QED  BY <2>2, <2>3
<1>5. \A k \in DOMAIN rf[p] : rf[p][k] \in Got(s)
  <2>1. DOMAIN rf[p] \subseteq 1 .. w[n].done
    <3> DEFINE l == rf[p]
               d == w[n].done
    <3>1. l \in Seq(Paths) /\ d \in Nat /\ d >= Len(l)  BY <1>1, <1>2
    <3>h. HIDE DEF l, d
    <3>2. DOMAIN l \subseteq 1 .. d  BY ONLY <3>1
    <3> QED  BY <3>2 DEF l, d
  <2> QED  BY <1>4, <2>1 DEF DoneOf
<1>6. \A i \in 1 .. n - 1 : r[p] < r[w[i].path]
  <2> SUFFICES ASSUME NEW i \in 1 .. n - 1 PROVE r[p] < r[w[i].path]  OBVIOUS
  <2>1. i \in DOMAIN w /\ n \in DOMAIN w /\ i < n  BY <1>1
  <2> QED  BY <2>1 DEF Good, Descends
<1>r. r[p] \in Nat  BY <1>2
<1>h. HIDE DEF v, t, p, n
<1>7. Got(t) = Got(s) \union {p}
  <2>1. DOMAIN t = DOMAIN s \union {Len(s) + 1}  BY <1>3, SMTT(30)
  <2>2. t[Len(s) + 1] = p /\ \A i \in DOMAIN s : t[i] = s[i]  BY <1>3
  <2> QED  BY <2>1, <2>2, SMTT(30) DEF Got
<1>8. PathsOf(w) = PathsOf(v) \union {p}
  <2>1. DOMAIN w = DOMAIN v \union {n}  BY <1>1
  <2>2. \A i \in DOMAIN v : v[i].path = w[i].path  BY <1>1
  <2>3. w[n].path = p  BY DEF p
  <2>4. ASSUME NEW x \in PathsOf(w) PROVE x \in PathsOf(v) \union {p}
    <3>1. PICK i \in DOMAIN w : x = w[i].path  BY DEF PathsOf
    <3>2. CASE i = n  BY <2>3, <3>1, <3>2
    <3>3. CASE i \in DOMAIN v  BY <2>2, <3>1, <3>3 DEF PathsOf
    <3> QED  BY <2>1, <3>1, <3>2, <3>3
  <2>5. ASSUME NEW x \in PathsOf(v) PROVE x \in PathsOf(w)
    <3>1. PICK i \in DOMAIN v : x = v[i].path  BY DEF PathsOf
    <3> QED  BY <2>1, <2>2, <3>1 DEF PathsOf
  <2>6. p \in PathsOf(w)  BY <2>1, <2>3 DEF PathsOf
  <2> QED  BY <2>4, <2>5, <2>6
<1>9. sn = Got(t) \union PathsOf(v)  BY <1>7, <1>8 DEF Good
<1>10. Descends(r, v)
  <2>1. DOMAIN v \subseteq DOMAIN w /\ \A i \in DOMAIN v : v[i] = w[i]  BY <1>1
  <2> QED  BY <2>1, Zenon DEF Good, Descends
<1>11. ASSUME NEW i \in DOMAIN v
       PROVE  v[i].path \notin Got(t) /\ DoneOf(rf, v[i], Next1(v, i), Got(t))
  <2>1. i \in 1 .. n - 1 /\ i \in DOMAIN w /\ v[i] = w[i]  BY <1>1
  <2>2. v[i].path \notin Got(s) /\ DoneOf(rf, v[i], Next1(w, i), Got(s))  BY <2>1 DEF Good
  <2>3. v[i].path # p
    <3>1. r[p] < r[v[i].path]  BY <1>6, <2>1
    <3> QED  BY <1>r, <3>1
  <2>4. Next1(w, i) \subseteq Next1(v, i) \union {p}
    <3>1. CASE i < n - 1
      <4>1. i < Len(v) /\ i + 1 \in 1 .. n - 1  BY <1>1, <2>1, <3>1
      <4>2. v[i + 1] = w[i + 1]  BY <1>1, <4>1
      <4> QED  BY <4>1, <4>2 DEF Next1
    <3>2. CASE i = n - 1
      <4>1. i + 1 = n  BY <1>1, <3>2
      <4> QED  BY <4>1 DEF Next1, p
    <3> QED  BY <1>1, <2>1, <3>1, <3>2
  <2> QED  BY <1>7, <2>2, <2>3, <2>4, Zenon DEF DoneOf
<1>12. InOrder(rf, t)
  <2> SUFFICES ASSUME NEW i \in 1 .. Len(s) + 1
               PROVE  /\ \A j \in 1 .. i - 1 : t[j] # t[i]
                      /\ \A k \in DOMAIN rf[t[i]] : \E j \in 1 .. i - 1 : t[j] = rf[t[i]][k]
    BY <1>3, Zenon DEF InOrder
  <2>1. CASE i \in 1 .. Len(s)
    <3>1. \A j \in 1 .. i - 1 : t[j] = s[j]  BY <1>3, <2>1
    <3>2. /\ \A j \in 1 .. i - 1 : s[j] # s[i]
          /\ \A k \in DOMAIN rf[s[i]] : \E j \in 1 .. i - 1 : s[j] = rf[s[i]][k]
      BY <1>3, <2>1 DEF Good, InOrder
    <3>3. t[i] = s[i]  BY <1>3, <2>1
    <3> QED  BY <3>1, <3>2, <3>3
  <2>2. CASE i = Len(s) + 1
    <3>1. t[i] = p /\ 1 .. i - 1 = DOMAIN s /\ \A j \in DOMAIN s : t[j] = s[j]
      BY <1>3, <2>2
    <3>2. \A j \in DOMAIN s : s[j] # p  BY <1>4 DEF Got
    <3>3. \A k \in DOMAIN rf[p] : \E j \in DOMAIN s : s[j] = rf[p][k]  BY <1>5, Zenon DEF Got
    <3>4. \A j \in 1 .. i - 1 : t[j] # t[i]  BY <3>1, <3>2
    <3>5. ASSUME NEW k \in DOMAIN rf[t[i]] PROVE \E j \in 1 .. i - 1 : t[j] = rf[t[i]][k]
      <4>1. PICK j \in DOMAIN s : s[j] = rf[p][k]  BY <3>1, <3>3
      <4> QED  BY <3>1, <4>1
    <3> QED  BY <3>4, <3>5
  <2> QED  BY <1>3, <2>1, <2>2
<1>13. Good(r, rf, v, t, sn)  BY <1>9, <1>10, <1>11, <1>12, Zenon DEF Good
<1> QED  BY <1>1, <1>13 DEF v, t, p

\* Every step of a walk of a tree without circles keeps the order.
LEMMA WInvStep ==
  ASSUME NEW r \in [Paths -> Nat], PInv, WInv(r), Ranked(r), Ranked(r)',
         [IncludeNext]_includeVars
  PROVE  WInv(r)'
<1> USE DEF WInv
<1>1. refs \in [Paths -> Seq(Paths)] /\ IsFrames(walk) /\ sent \in Seq(Paths)
  BY DEF PInv, Types
<1>2. CASE Parsing
  <2>1. UNCHANGED walking /\ phase \in {"parsing", "parsed"}
    BY <1>2 DEF Parsing, ParseMain, ParseInclude, Return
  <2>2. walk' = <<>> /\ sent' = <<>> /\ seen' = {}
    BY <2>1 DEF PInv, Parsed, walking
  <2> QED  BY <2>2, NothingYet
<1>3. CASE CircleDetect
  <2>1. reader = "none" /\ walk = <<>> /\ sent = <<>> /\ seen = {} /\ refs' = refs
    BY <1>3 DEF CircleDetect, PInv, Parsed
  <2>2. Root \in Paths  BY <1>3 DEF CircleDetect, PInv, Types, Parsed
  <2>3. CASE UNCHANGED walking
    <3>1. walk' = <<>> /\ sent' = <<>> /\ seen' = {}  BY <2>1, <2>3 DEF walking
    <3> QED  BY <3>1, NothingYet
  <2>4. CASE Enter(Root, <<>>) /\ UNCHANGED sent
    <3>1. walk' = Append(<<>>, Frame(Root, 0)) /\ seen' = {Root} /\ sent' = <<>>
      BY <2>1, <2>4 DEF Enter
    <3> QED  BY <1>1, <2>1, <2>2, <3>1, FirstCall
  <2> QED  BY <1>3, <2>3, <2>4 DEF CircleDetect
<1>4. CASE DfsInclude
  <2> DEFINE q == refs[Top(walk).path][Top(walk).done + 1]
  <2>1. walk # <<>> /\ UNCHANGED <<refs, sent>> /\ reader # "none"
    BY <1>4 DEF DfsInclude, PInv, Parsed
  <2>2. Ranks(r, refs)  BY <2>1 DEF Ranked
  <2>3. Top(walk).done < Len(refs[Top(walk).path])
    <3>1. Top(walk).done \in Nat /\ Len(refs[Top(walk).path]) \in Nat
      BY <1>1, <2>1, PopFrames DEF FrameSet
    <3> QED  BY <1>4, <2>1, <3>1 DEF DfsInclude, Waiting
  <2>4. CASE q \in seen
    <3>1. walk' = Advance(walk) /\ seen' = seen  BY <1>4, <2>4 DEF DfsInclude
    <3> QED  BY <1>1, <2>1, <2>2, <2>3, <2>4, <3>1, Skips
  <2>5. CASE q \notin seen
    <3>1. walk' = Append(Advance(walk), Frame(q, 0)) /\ seen' = seen \union {q}
      BY <1>4, <2>5 DEF DfsInclude, Enter
    <3> QED  BY <1>1, <2>1, <2>2, <2>3, <2>5, <3>1, Goes
  <2> QED  BY <2>4, <2>5
<1>5. CASE Send
  <2>1. walk # <<>> /\ Top(walk).done >= Len(refs[Top(walk).path])
        /\ walk' = Pop(walk) /\ sent' = Append(sent, Top(walk).path) /\ UNCHANGED <<refs, seen>>
    BY <1>5 DEF Send, Waiting
  <2> QED  BY <1>1, <2>1, Hands
<1>6. CASE SeeClosed \/ GiveUp \/ UNCHANGED includeVars
  <2>1. UNCHANGED <<refs, walk, seen, sent>>
    BY <1>6 DEF SeeClosed, GiveUp, includeVars, walking
  <2> QED  BY <2>1
<1> QED  BY <1>2, <1>3, <1>4, <1>5, <1>6 DEF IncludeNext, Walking
-----------------------------------------------------------------------------
\* Where the includes of each IDL lead, once set.
Wanted == [p \in Paths |-> [i \in DOMAIN Content(p) |-> Search(Content(p)[i], DirOf[p])]]

\* Of the IDL p exactly the first k includes have been set, as the contents c
\* and the wanted references w say, and lead to IDLs of the memo m.
SetTo(c, w, m, rf, p, k) ==
  /\ k \in 0 .. Len(c[p]) /\ DOMAIN rf[p] = 1 .. k
  /\ \A i \in 1 .. k : rf[p][i] = w[p][i] /\ rf[p][i] \in m /\ rf[p][i] # Nowhere

\* The call i + 1 of the parser is for the include that call i is at.
Link(c, w, s, i) ==
  /\ s[i].done < Len(c[s[i].path])
  /\ s[i + 1].path = w[s[i].path][s[i].done + 1]
  /\ s[i + 1].path # Nowhere

\* What is being parsed is set as far as its call is, the rest is complete.
Whole(c, w, m, rf, s) ==
  /\ \A i \in DOMAIN s : SetTo(c, w, m, rf, s[i].path, s[i].done)
  /\ \A i \in 1 .. Len(s) - 1 : Link(c, w, s, i)
  /\ \A p \in m : p \notin PathsOf(s) => SetTo(c, w, m, rf, p, Len(c[p]))

WholeInv ==
  /\ source \in Sources /\ memo \subseteq Readable
  /\ Whole(source, Wanted, memo, refs, stack)
  /\ Settled \/ reader # "none" => stack = <<>> /\ memo # {}
-----------------------------------------------------------------------------
\* An IDL that is parsed has a list of names, and each has been looked for.
LEMMA ContentIsNames ==
  ASSUME source \in Sources, NEW p \in Readable
  PROVE  /\ p \in Paths /\ source[p] \in Seq(Names) /\ Len(source[p]) \in Nat
         /\ \A i \in 1 .. Len(source[p]) :
              Wanted[p][i] = Search(Content(p)[i], DirOf[p])
<1>1. p \in Paths /\ p \in DOMAIN source /\ source[p] # Broken  BY DEF Readable
<1>2. source \in [DOMAIN source -> Seq(Names) \union {Broken}]  BY IncludeAssumption
<1>3. source[p] \in Seq(Names)  BY <1>1, <1>2
<1>4. Len(source[p]) \in Nat /\ DOMAIN source[p] = 1 .. Len(source[p])  BY <1>3
<1> QED  BY <1>1, <1>3, <1>4 DEF Wanted, Content

LEMMA WantedIsFixed ==
  ASSUME UNCHANGED <<batch, source>> PROVE Wanted' = Wanted /\ Readable' = Readable
BY DEF Wanted, Content, Search, Hits, First, Exists, Readable

\* A call for a new IDL.
LEMMA WholeParse ==
  ASSUME NEW c, NEW w, NEW m, NEW rf \in [Paths -> Seq(Paths)], NEW s, IsFrames(s),
         Whole(c, w, m, rf, s), \A i \in DOMAIN s : s[i].path \in m,
         NEW p \in Paths, p \notin m, Len(c[p]) \in Nat,
         s # <<>> => /\ s[Len(s)].done < Len(c[s[Len(s)].path])
                     /\ p = w[s[Len(s)].path][s[Len(s)].done + 1] /\ p # Nowhere
  PROVE  Whole(c, w, m \union {p}, [rf EXCEPT ![p] = <<>>], Append(s, Frame(p, 0)))
<1> DEFINE n == Len(s)
           v == Append(s, Frame(p, 0))
           r == [rf EXCEPT ![p] = <<>>]
<1>1. /\ n \in Nat /\ Len(v) = n + 1 /\ DOMAIN s = 1 .. n /\ DOMAIN v = 1 .. n + 1
      /\ \A i \in 1 .. n : v[i] = s[i]
      /\ v[n + 1].path = p /\ v[n + 1].done = 0
  BY PushFrames DEF IsFrames
<1>2. r[p] = <<>> /\ \A q : q # p => r[q] = rf[q]  OBVIOUS
<1>3. DOMAIN r[p] = 1 .. 0  BY <1>2
<1>h. HIDE DEF n, v, r
<1>4. ASSUME NEW q, NEW k, q # p, SetTo(c, w, m, rf, q, k)
      PROVE  SetTo(c, w, m \union {p}, r, q, k)
  BY <1>2, <1>4 DEF SetTo
<1>5. SetTo(c, w, m \union {p}, r, p, 0)  BY <1>3 DEF SetTo
<1>6. ASSUME NEW i \in DOMAIN v
      PROVE  SetTo(c, w, m \union {p}, r, v[i].path, v[i].done)
  <2>1. CASE i = n + 1  BY <1>1, <1>5, <2>1
  <2>2. CASE i # n + 1
    <3>1. i \in DOMAIN s /\ v[i] = s[i]  BY <1>1, <2>2
    <3>2. SetTo(c, w, m, rf, s[i].path, s[i].done) /\ s[i].path # p  BY <3>1 DEF Whole
    <3> QED  BY <1>4, <3>1, <3>2
  <2> QED  BY <2>1, <2>2
<1>7. ASSUME NEW i \in 1 .. Len(v) - 1 PROVE Link(c, w, v, i)
  <2>1. CASE i = n
    <3>1. s # <<>> /\ v[n] = s[n]  BY <1>1, <1>7, <2>1
    <3> QED  BY <1>1, <2>1, <3>1 DEF Link, n
  <2>2. CASE i # n
    <3>1. i \in 1 .. n - 1 /\ i \in 1 .. n /\ i + 1 \in 1 .. n  BY <1>1, <2>2
    <3>2. v[i] = s[i] /\ v[i + 1] = s[i + 1]  BY <1>1, <3>1
    <3>3. Link(c, w, s, i)  BY <3>1 DEF Whole, n
    <3> QED  BY <3>2, <3>3 DEF Link
  <2> QED  BY <2>1, <2>2
<1>8. ASSUME NEW q \in m \union {p}, q \notin PathsOf(v)
      PROVE  SetTo(c, w, m \union {p}, r, q, Len(c[q]))
  <2>1. n + 1 \in DOMAIN v  BY <1>1
  <2>2. q # p  BY <1>1, <1>8, <2>1 DEF PathsOf
  <2>3. q \notin PathsOf(s)  BY <1>1, <1>8 DEF PathsOf
  <2>4. SetTo(c, w, m, rf, q, Len(c[q]))  BY <2>2, <2>3 DEF Whole
  <2> QED  BY <1>4, <2>2, <2>4
<1>9. Whole(c, w, m \union {p}, r, v)  BY <1>6, <1>7, <1>8 DEF Whole
<1> QED  BY <1>9 DEF r, v

\* The include that the innermost call is at leads to an IDL of the memo.
LEMMA WholeAdvance ==
  ASSUME NEW c, NEW w, NEW m, NEW rf \in [Paths -> Seq(Paths)], NEW s, IsFrames(s),
         Whole(c, w, m, rf, s), s # <<>>,
         \A i, j \in DOMAIN s : i # j => s[i].path # s[j].path,
         Len(c[Top(s).path]) \in Nat, Top(s).done < Len(c[Top(s).path]),
         NEW q \in Paths, q \in m, q # Nowhere, q = w[Top(s).path][Top(s).done + 1]
  PROVE  Whole(c, w, m, Attach(rf, s, q), Advance(s))
<1> DEFINE n == Len(s)
           t == s[n].path
           k == s[n].done
           l == rf[t]
           r == [rf EXCEPT ![t] = Append(l, q)]
           v == Advance(s)
<1>1. /\ n \in Nat \ {0} /\ DOMAIN s = 1 .. n /\ s[n] \in FrameSet
      /\ Len(v) = n /\ DOMAIN v = 1 .. n
      /\ \A i \in 1 .. n : v[i].path = s[i].path
      /\ \A i \in 1 .. n - 1 : v[i] = s[i]
      /\ v[n].done = k + 1
  BY AdvanceFrames, PopFrames DEF IsFrames
<1>2. t \in Paths /\ k \in Nat /\ Top(s) = s[n]  BY <1>1 DEF FrameSet, Top
<1>3. Attach(rf, s, q) = r /\ l \in Seq(Paths)  BY <1>2 DEF Attach
<1>4. r[t] = Append(l, q) /\ \A p : p # t => r[p] = rf[p]  BY <1>2
<1>5. k < Len(c[t]) /\ Len(c[t]) \in Nat /\ q = w[t][k + 1]  BY <1>2
<1>6. SetTo(c, w, m, rf, t, k)
  <2>1. n \in DOMAIN s  BY <1>1
  <2> HIDE DEF n
  <2> QED  BY <2>1 DEF Whole
<1>h. HIDE DEF r, v, n, t, k
<1>7. SetTo(c, w, m, r, t, k + 1)
  <2>1. DOMAIN l = 1 .. k /\ \A i \in 1 .. k : l[i] = w[t][i] /\ l[i] \in m /\ l[i] # Nowhere
    BY <1>6 DEF SetTo
  <2>h. HIDE DEF l
  <2>2. Len(l) = k /\ DOMAIN Append(l, q) = 1 .. k + 1 /\ Append(l, q)[k + 1] = q
        /\ \A i \in 1 .. k : Append(l, q)[i] = l[i]
    BY <1>2, <1>3, <2>1
  <2>3. DOMAIN r[t] = 1 .. k + 1 /\ k + 1 \in 0 .. Len(c[t])  BY <1>2, <1>4, <1>5, <2>2
  <2>4. ASSUME NEW i \in 1 .. k + 1
        PROVE  r[t][i] = w[t][i] /\ r[t][i] \in m /\ r[t][i] # Nowhere
    <3>1. CASE i = k + 1  BY <1>4, <1>5, <2>2, <3>1
    <3>2. CASE i # k + 1
      <4>1. i \in 1 .. k  BY <1>2, <3>2
      <4> QED  BY <1>4, <2>1, <2>2, <4>1
    <3> QED  BY <3>1, <3>2
  <2> QED  BY <2>3, <2>4 DEF SetTo
<1>8. ASSUME NEW p, NEW j, p # t, SetTo(c, w, m, rf, p, j) PROVE SetTo(c, w, m, r, p, j)
  BY <1>4, <1>8 DEF SetTo
<1>9. ASSUME NEW i \in DOMAIN v PROVE SetTo(c, w, m, r, v[i].path, v[i].done)
  <2>1. CASE i = n  BY <1>1, <1>7, <2>1 DEF t
  <2>2. CASE i # n
    <3>1. i \in 1 .. n - 1 /\ i \in DOMAIN s /\ n \in DOMAIN s /\ v[i] = s[i]  BY <1>1, <2>2
    <3>2. s[i].path # t /\ SetTo(c, w, m, rf, s[i].path, s[i].done)
      BY <2>2, <3>1 DEF Whole, t
    <3> QED  BY <1>8, <3>1, <3>2
  <2> QED  BY <2>1, <2>2
<1>10. ASSUME NEW i \in 1 .. Len(v) - 1 PROVE Link(c, w, v, i)
  <2>1. i \in 1 .. n - 1 /\ i + 1 \in 1 .. n  BY <1>1
  <2>2. v[i] = s[i] /\ v[i + 1].path = s[i + 1].path  BY <1>1, <2>1
  <2>3. Link(c, w, s, i)  BY <2>1 DEF Whole, n
  <2> QED  BY <2>2, <2>3 DEF Link
<1>11. ASSUME NEW p \in m, p \notin PathsOf(v) PROVE SetTo(c, w, m, r, p, Len(c[p]))
  <2>1. p \notin PathsOf(s)  BY <1>1, <1>11 DEF PathsOf
  <2>2. n \in DOMAIN s  BY <1>1
  <2>3. p # t  BY <2>1, <2>2 DEF PathsOf, t
  <2>4. SetTo(c, w, m, rf, p, Len(c[p]))  BY <2>1 DEF Whole
  <2> QED  BY <1>8, <2>3, <2>4
<1>12. Whole(c, w, m, r, v)  BY <1>9, <1>10, <1>11 DEF Whole
<1> QED  BY <1>3, <1>12 DEF v

\* The innermost call is complete.
LEMMA WholePop ==
  ASSUME NEW c, NEW w, NEW m, NEW rf, NEW s, IsFrames(s), s # <<>>,
         Whole(c, w, m, rf, s), Top(s).done = Len(c[Top(s).path])
  PROVE  Whole(c, w, m, rf, Pop(s))
<1> DEFINE n == Len(s)
           v == Pop(s)
<1>1. /\ n \in Nat \ {0} /\ DOMAIN s = 1 .. n /\ Top(s) = s[n]
      /\ Len(v) = n - 1 /\ DOMAIN v = 1 .. n - 1 /\ \A i \in 1 .. n - 1 : v[i] = s[i]
  BY PopFrames DEF IsFrames
<1>h. HIDE DEF v, n
<1>2. ASSUME NEW i \in DOMAIN v PROVE SetTo(c, w, m, rf, v[i].path, v[i].done)
  <2>1. i \in DOMAIN s /\ v[i] = s[i]  BY <1>1
  <2> QED  BY <2>1 DEF Whole
<1>3. ASSUME NEW i \in 1 .. Len(v) - 1 PROVE Link(c, w, v, i)
  <2>1. i \in 1 .. n - 1 /\ i + 1 \in 1 .. n - 1  BY <1>1
  <2>2. v[i] = s[i] /\ v[i + 1] = s[i + 1]  BY <1>1, <2>1
  <2>3. Link(c, w, s, i)  BY <2>1 DEF Whole, n
  <2> QED  BY <2>2, <2>3 DEF Link
<1>4. ASSUME NEW p \in m, p \notin PathsOf(v) PROVE SetTo(c, w, m, rf, p, Len(c[p]))
  <2>1. CASE p = s[n].path
    <3>1. n \in DOMAIN s /\ s[n].done = Len(c[p])  BY <1>1, <2>1
    <3> QED  BY <2>1, <3>1 DEF Whole
  <2>2. CASE p # s[n].path
    <3>1. p \notin PathsOf(s)
      <4> SUFFICES ASSUME NEW i \in DOMAIN s, p = s[i].path PROVE FALSE  BY DEF PathsOf
      <4>1. i \in 1 .. n - 1  BY <1>1, <2>2
      <4> QED  BY <1>1, <1>4, <4>1 DEF PathsOf
    <3> QED  BY <3>1 DEF Whole
  <2> QED  BY <2>1, <2>2
<1>5. Whole(c, w, m, rf, v)  BY <1>2, <1>3, <1>4 DEF Whole
<1> QED  BY <1>5 DEF v

LEMMA WholeInit == Init => WholeInv
<1> SUFFICES ASSUME Init PROVE WholeInv  OBVIOUS
<1>1. memo = {} /\ stack = <<>> /\ phase = "parsing" /\ source \in Sources /\ reader = "none"
  BY DEF Init
<1> QED  BY <1>1 DEF WholeInv, Whole, Settled

\* A call for the main IDL, or for the include that the innermost call is at.
LEMMA WholeCall ==
  ASSUME PInv, WholeInv, phase = "parsing", NEW n, NEW d, Call(n, d),
         UNCHANGED <<batch, source, walking>>,
         stack = <<>> => memo = {},
         stack # <<>> => /\ Top(stack).done < Len(source[Top(stack).path])
                         /\ Search(n, d) = Wanted[Top(stack).path][Top(stack).done + 1]
  PROVE  WholeInv'
<1> DEFINE p == Search(n, d)
<1>1. /\ memo \subseteq Paths /\ refs \in [Paths -> Seq(Paths)] /\ IsFrames(stack)
      /\ \A i \in DOMAIN stack : stack[i].path \in memo
      /\ \A i, j \in DOMAIN stack : i # j => stack[i].path # stack[j].path
  BY DEF PInv, Types, Parsed, NoIdlInsideItself
<1>2. source \in Sources /\ memo \subseteq Readable /\ Whole(source, Wanted, memo, refs, stack)
  BY DEF WholeInv
<1>3. source' = source /\ Wanted' = Wanted /\ Readable' = Readable /\ reader' = "none"
  BY WantedIsFixed DEF PInv, Parsed, walking
<1>4. stack # <<>> => Top(stack) = stack[Len(stack)] /\ Len(stack) \in DOMAIN stack
  BY <1>1, PopFrames DEF IsFrames
<1>h. HIDE DEF p
<1>5. CASE p # Nowhere /\ Parse(p)
  <2>1. /\ p \in Readable /\ p \notin memo /\ memo' = memo \union {p} /\ phase' = "parsing"
        /\ stack' = Append(stack, Frame(p, 0)) /\ refs' = [refs EXCEPT ![p] = <<>>]
    BY <1>5 DEF Parse
  <2>2. p \in Paths /\ Len(source[p]) \in Nat  BY <1>2, <2>1, ContentIsNames
  <2>3. stack # <<>> => /\ stack[Len(stack)].done < Len(source[stack[Len(stack)].path])
                        /\ p = Wanted[stack[Len(stack)].path][stack[Len(stack)].done + 1]
                        /\ p # Nowhere
    BY <1>4, <1>5 DEF p
  <2>4. Whole(source, Wanted, memo', refs', stack')
    BY <1>1, <1>2, <2>1, <2>2, <2>3, WholeParse
  <2> QED  BY <1>2, <1>3, <2>1, <2>4 DEF WholeInv, Settled
<1>6. CASE p # Nowhere /\ Known(p)
  <2>1. p \in memo /\ memo' = memo /\ phase' = "parsing"
        /\ refs' = Attach(refs, stack, p) /\ stack' = Advance(stack)
    BY <1>6 DEF Known
  <2>2. stack # <<>>  BY <2>1
  <2>3. Top(stack).path \in memo  BY <1>1, <1>4, <2>2
  <2>4. Len(source[Top(stack).path]) \in Nat  BY <1>2, <2>3, ContentIsNames
  <2>5. p = Wanted[Top(stack).path][Top(stack).done + 1]  BY <2>2 DEF p
  <2>6. p \in Paths  BY <1>1, <2>1
  <2>7. Whole(source, Wanted, memo, Attach(refs, stack, p), Advance(stack))
    BY <1>1, <1>2, <1>6, <2>1, <2>2, <2>4, <2>5, <2>6, WholeAdvance
  <2> QED  BY <1>2, <1>3, <2>1, <2>7 DEF WholeInv, Settled
<1>7. CASE Fail
  BY <1>2, <1>3, <1>7 DEF Fail, WholeInv, Settled
<1> QED  BY <1>5, <1>6, <1>7 DEF Call, p

LEMMA WholeReturn == ASSUME PInv, WholeInv, Return PROVE WholeInv'
<1> DEFINE rest == Pop(stack)
           p == Top(stack).path
<1>1. /\ memo \subseteq Paths /\ refs \in [Paths -> Seq(Paths)] /\ IsFrames(stack)
      /\ \A i \in DOMAIN stack : stack[i].path \in memo
      /\ \A i, j \in DOMAIN stack : i # j => stack[i].path # stack[j].path
  BY DEF PInv, Types, Parsed, NoIdlInsideItself
<1>2. /\ phase = "parsing" /\ stack # <<>> /\ memo' = memo /\ ~Todo(stack)
      /\ refs' = Attach(refs, rest, p) /\ stack' = Advance(rest)
      /\ phase' = IF rest = <<>> THEN "parsed" ELSE "parsing"
      /\ UNCHANGED <<batch, source, walking>>
  BY DEF Return
<1>3. source \in Sources /\ memo \subseteq Readable /\ Whole(source, Wanted, memo, refs, stack)
  BY DEF WholeInv
<1>4. source' = source /\ Wanted' = Wanted /\ Readable' = Readable /\ reader' = "none"
  BY <1>2, WantedIsFixed DEF PInv, Parsed, walking
<1> DEFINE n == Len(stack)
<1>5. /\ n \in Nat \ {0} /\ DOMAIN stack = 1 .. n /\ n \in DOMAIN stack /\ Top(stack) = stack[n]
      /\ IsFrames(rest) /\ Len(rest) = n - 1 /\ DOMAIN rest = 1 .. n - 1
      /\ \A i \in 1 .. n - 1 : rest[i] = stack[i]
  BY <1>1, <1>2, PopFrames DEF IsFrames
<1>6. p \in memo /\ p \in Paths  BY <1>1, <1>5
<1>7. Top(stack).done = Len(source[p])
  <2>1. SetTo(source, Wanted, memo, refs, stack[n].path, stack[n].done)
    BY <1>3, <1>5 DEF Whole
  <2>2. Len(source[p]) \in Nat  BY <1>3, <1>6, ContentIsNames
  <2>3. Top(stack).done \in 0 .. Len(source[p])  BY <1>5, <2>1 DEF SetTo
  <2>4. ~(Top(stack).done < Len(source[p]))  BY <1>2 DEF Todo, Content
  <2> QED  BY <2>2, <2>3, <2>4
<1>8. Whole(source, Wanted, memo, refs, rest)  BY <1>1, <1>2, <1>3, <1>7, WholePop
<1>h. HIDE DEF rest, p
<1>9. CASE rest = <<>>
  <2>1. refs' = refs /\ stack' = rest  BY <1>2, <1>9 DEF Attach, Advance
  <2> QED  BY <1>2, <1>3, <1>4, <1>6, <1>8, <1>9, <2>1 DEF WholeInv
<1>10. CASE rest # <<>>
  <2> DEFINE t == Top(rest)
  <2>1. n - 1 \in 1 .. n - 1 /\ n - 1 \in DOMAIN stack /\ (n - 1) + 1 = n  BY <1>5, <1>10
  <2>2. t = stack[n - 1] /\ t.path \in memo  BY <1>1, <1>5, <2>1 DEF Top
  <2>3. Link(source, Wanted, stack, n - 1)  BY <1>3, <2>1 DEF Whole
  <2>4. /\ t.done < Len(source[t.path])
        /\ p = Wanted[t.path][t.done + 1] /\ p # Nowhere
    BY <1>5, <2>1, <2>2, <2>3 DEF Link, p
  <2>5. Len(source[t.path]) \in Nat  BY <1>3, <2>2, ContentIsNames
  <2>6. \A i, j \in DOMAIN rest : i # j => rest[i].path # rest[j].path  BY <1>1, <1>5
  <2>7. Whole(source, Wanted, memo, Attach(refs, rest, p), Advance(rest))
    <3>h. HIDE DEF n
    <3> QED  BY <1>1, <1>5, <1>6, <1>8, <1>10, <2>4, <2>5, <2>6, WholeAdvance
  <2> QED  BY <1>2, <1>3, <1>4, <1>10, <2>7 DEF WholeInv, Settled
<1> QED  BY <1>9, <1>10

LEMMA WholeStep == ASSUME PInv, WholeInv, [IncludeNext]_includeVars PROVE WholeInv'
<1>1. CASE ParseMain
  <2>1. stack = <<>>
    <3>1. IsFrames(stack) /\ memo = {} /\ \A i \in DOMAIN stack : stack[i].path \in memo
      BY <1>1 DEF ParseMain, PInv, Types, Parsed
    <3>2. DOMAIN stack = {}  BY <3>1
    <3> QED  BY <3>1, <3>2 DEF IsFrames
  <2> QED  BY <1>1, <2>1, WholeCall DEF ParseMain
<1>2. CASE ParseInclude
  <2> DEFINE f == Top(stack)
  <2>1. /\ phase = "parsing" /\ stack # <<>> /\ f.done < Len(Content(f.path))
        /\ Call(Content(f.path)[f.done + 1], DirOf[f.path])
        /\ UNCHANGED <<batch, source, walking>>
    BY <1>2 DEF ParseInclude, Todo
  <2>2. IsFrames(stack) /\ f = stack[Len(stack)] /\ f \in FrameSet /\ f.path \in memo
        /\ source \in Sources /\ memo \subseteq Readable
    BY <2>1, PopFrames DEF PInv, Types, Parsed, WholeInv, IsFrames
  <2>3. f.done \in Nat  BY <2>2 DEF FrameSet
  <2>4. Len(source[f.path]) \in Nat /\ f.done < Len(source[f.path])
    BY <2>1, <2>2, ContentIsNames DEF Content
  <2>h. HIDE DEF f
  <2>5. f.done + 1 \in 1 .. Len(source[f.path])  BY <2>3, <2>4
  <2>6. Wanted[f.path][f.done + 1] = Search(Content(f.path)[f.done + 1], DirOf[f.path])
    BY <2>2, <2>5, ContentIsNames
  <2> QED  BY <2>1, <2>4, <2>6, WholeCall DEF f
<1>3. CASE Return  BY <1>3, WholeReturn
<1>4. CASE CircleDetect \/ Walking \/ GiveUp \/ UNCHANGED includeVars
  <2>1. UNCHANGED <<batch, source, memo, stack, refs>>
    BY <1>4 DEF CircleDetect, Walking, DfsInclude, Send, SeeClosed, GiveUp, parsing, includeVars
  <2>3. \/ phase = "parsed" \/ reader # "none"
        \/ phase' = phase /\ reader' = reader
    <3>1. CASE CircleDetect  BY <3>1 DEF CircleDetect
    <3>2. CASE DfsInclude  BY <3>2 DEF DfsInclude
    <3>3. CASE Send \/ SeeClosed \/ GiveUp  BY <3>3 DEF Send, SeeClosed, GiveUp
    <3>4. CASE UNCHANGED includeVars  BY <3>4 DEF walking, includeVars
    <3> QED  BY <1>4, <3>1, <3>2, <3>3, <3>4 DEF Walking
  <2>2. Wanted' = Wanted /\ Readable' = Readable  BY <2>1, WantedIsFixed
  <2> QED  BY <2>1, <2>2, <2>3 DEF WholeInv, Settled
<1> QED  BY <1>1, <1>2, <1>3, <1>4 DEF IncludeNext, Parsing
-----------------------------------------------------------------------------
\* Where search finds a name, it is at the first of the candidates.
LEMMA FirstIsFirst ==
  ASSUME NEW n, NEW d \in Dirs, Search(n, d) # Nowhere
  PROVE  LET c == Candidates(n, d) IN
           \E k \in DOMAIN c : /\ Exists(c[k]) /\ Norm[c[k]] = Search(n, d)
                               /\ \A l \in 1 .. k - 1 : ~Exists(c[l])
<1> DEFINE c == Candidates(n, d)
           T == Hits(c)
           R == OpToRel(<, Nat)
<1>1. DOMAIN c \subseteq Nat /\ \A k \in DOMAIN c : \A l \in 1 .. k - 1 : l \in DOMAIN c
  <2> DEFINE J(x) == Join[x, n]
             S == {J(x) : x \in Dirs}
             u == <<J(Cwd), J(d)>>
             v == [i \in DOMAIN IncludeDirs |-> J(IncludeDirs[i])]
  <2>1. Cwd \in Dirs /\ IncludeDirs \in Seq(Dirs)  BY IncludeAssumption
  <2>4. c = u \o v  BY DEF Candidates
  <2>h1. HIDE DEF J
  <2>2. u \in Seq(S)
    <3>1. J(Cwd) \in S /\ J(d) \in S  BY <2>1
    <3> DEFINE a == J(Cwd)
               b == J(d)
    <3>h. HIDE DEF S, a, b
    <3>2. <<a, b>> \in Seq(S)  BY <3>1 DEF a, b
    <3> QED  BY <3>2 DEF a, b
  <2>3. v \in Seq(S)  BY <2>1
  <2>h. HIDE DEF S, u, v, c
  <2>5. c \in Seq(S)  BY <2>2, <2>3, <2>4
  <2>6. Len(c) \in Nat /\ DOMAIN c = 1 .. Len(c)  BY <2>5
  <2> QED  BY <2>6
<1>2. T # {} /\ Search(n, d) = First(c, T)  BY DEF Search
<1>3. T \subseteq DOMAIN c /\ \A i \in DOMAIN c : i \in T <=> Exists(c[i])  BY DEF Hits
<1>4. \A x, y \in Nat : y < x => <<y, x>> \in R  BY DEF OpToRel
<1>h. HIDE DEF R, T, c
<1>5. IsWellFoundedOn(R, Nat)  BY NatLessThanWellFounded DEF R
<1>6. PICK x \in T : \A y \in T : ~ (<<y, x>> \in R)
  BY <1>1, <1>2, <1>3, <1>5, WFMin
<1>7. \A y \in T : x <= y
  <2> SUFFICES ASSUME NEW y \in T PROVE x <= y  OBVIOUS
  <2>1. x \in Nat /\ y \in Nat  BY <1>1, <1>3
  <2>2. ~ (y < x)  BY <2>1, <1>4, <1>6
  <2> QED  BY <2>1, <2>2
<1> DEFINE k == CHOOSE i \in T : \A j \in T : i <= j
<1>8. k \in T /\ \A j \in T : k <= j  BY <1>7
<1>9. First(c, T) = Norm[c[k]]  BY DEF First
<1>h2. HIDE DEF k
<1>10. ASSUME NEW l \in 1 .. k - 1 PROVE ~Exists(c[l])
  <2>1. l \in DOMAIN c /\ k \in Nat /\ l < k  BY <1>1, <1>3, <1>8
  <2> QED  BY <1>1, <1>3, <1>8, <2>1
<1> QED  BY <1>2, <1>3, <1>8, <1>9, <1>10 DEF c

\* For all contents of files, in a map or on a disk, and all include
\* directories: when the parser succeeds, all includes of all IDLs are set, to
\* the first file that exists among the candidates.
THEOREM AllIncludesAreSet == IncludeSpec => []ParsedWhole
<1>1. PInv /\ WholeInv => ParsedWhole
  <2> SUFFICES ASSUME PInv, WholeInv, Settled PROVE ParsedWhole  BY DEF ParsedWhole
  <2>1. /\ stack = <<>> /\ memo # {} /\ source \in Sources /\ memo \subseteq Readable
        /\ Whole(source, Wanted, memo, refs, stack)
    BY DEF WholeInv
  <2>2. Root \in memo /\ refs \in [Paths -> Seq(Paths)]  BY <2>1 DEF PInv, Parsed, Types
  <2> SUFFICES ASSUME NEW p \in memo
               PROVE  /\ Len(refs[p]) = Len(Content(p))
                      /\ \A i \in DOMAIN refs[p] :
                           LET c == Candidates(Content(p)[i], DirOf[p]) IN
                             /\ refs[p][i] \in memo
                             /\ \E k \in DOMAIN c : /\ Exists(c[k]) /\ Norm[c[k]] = refs[p][i]
                                                    /\ \A l \in 1 .. k - 1 : ~Exists(c[l])
    BY <2>2 DEF ParsedWhole
  <2>3. p \notin PathsOf(stack)  BY <2>1 DEF PathsOf
  <2>4. SetTo(source, Wanted, memo, refs, p, Len(source[p]))  BY <2>1, <2>3 DEF Whole
  <2>5. /\ p \in Paths /\ Len(source[p]) \in Nat
        /\ \A i \in 1 .. Len(source[p]) : Wanted[p][i] = Search(Content(p)[i], DirOf[p])
    BY <2>1, ContentIsNames
  <2>6. DOMAIN refs[p] = 1 .. Len(source[p]) /\ refs[p] \in Seq(Paths)
    BY <2>2, <2>4, <2>5 DEF SetTo
  <2>7. Len(refs[p]) = Len(Content(p))  BY <2>5, <2>6 DEF Content
  <2>8. ASSUME NEW i \in DOMAIN refs[p]
        PROVE  /\ refs[p][i] \in memo /\ refs[p][i] # Nowhere
               /\ refs[p][i] = Search(Content(p)[i], DirOf[p])
    BY <2>4, <2>5, <2>6 DEF SetTo
  <2>9. DirOf[p] \in Dirs  BY <2>5, IncludeAssumption
  <2> QED  BY <2>7, <2>8, <2>9, FirstIsFirst
<1>2. Init => PInv /\ WholeInv  BY PInvInit, WholeInit
<1>3. PInv /\ WholeInv /\ [IncludeNext]_includeVars => PInv' /\ WholeInv'
  BY PInvStep, WholeStep
<1>h. HIDE DEF PInv, WholeInv, ParsedWhole
<1> QED  BY <1>1, <1>2, <1>3, PTL DEF IncludeSpec
-----------------------------------------------------------------------------
(***************************************************************************)
(* searchCircle follows all includes until it meets an IDL it comes from.  *)
(***************************************************************************)

\* A set of numbers has a smallest one.
LEMMA LeastNumber ==
  ASSUME NEW T, T \subseteq Nat, T # {}
  PROVE  \E k \in T : \A l \in T : k <= l
<1> DEFINE R == OpToRel(<, Nat)
<1>1. \A x, y \in Nat : y < x => <<y, x>> \in R  BY DEF OpToRel
<1>2. IsWellFoundedOn(R, Nat)  BY NatLessThanWellFounded
<1>h. HIDE DEF R
<1>3. PICK k \in T : \A y \in T : ~ (<<y, k>> \in R)  BY <1>2, WFMin
<1>4. \A y \in T : ~ (y < k)  BY <1>1, <1>3
<1> QED  BY <1>3, <1>4

\* The first include with a circle.
LEMMA FirstOfFacts ==
  ASSUME NEW n \in Nat, NEW s, DOMAIN s = 1 .. n
  PROVE  /\ FirstOf(s) = <<>> <=> \A i \in 1 .. n : s[i] = <<>>
         /\ FirstOf(s) # <<>> => \E i \in 1 .. n : FirstOf(s) = s[i]
<1>1. CASE \A i \in 1 .. n : s[i] = <<>>
  BY <1>1 DEF FirstOf
<1>2. CASE ~ \A i \in 1 .. n : s[i] = <<>>
  <2> DEFINE T == {i \in 1 .. n : s[i] # <<>>}
             IsFirst(i) == s[i] # <<>> /\ \A j \in 1 .. i - 1 : s[j] = <<>>
  <2>1. T \subseteq Nat /\ T # {}  BY <1>2
  <2>2. PICK k \in T : \A l \in T : k <= l
    <3> HIDE DEF T
    <3> QED  BY <2>1, LeastNumber
  <2>3. \A j \in 1 .. k - 1 : j \in 1 .. n /\ ~ (k <= j)  BY <2>2
  <2>4. k \in DOMAIN s /\ IsFirst(k)  BY <2>2, <2>3
  <2>5. FirstOf(s) = s[CHOOSE i \in DOMAIN s : IsFirst(i)]  BY <1>2 DEF FirstOf
  <2>6. (CHOOSE i \in DOMAIN s : IsFirst(i)) \in DOMAIN s
        /\ IsFirst(CHOOSE i \in DOMAIN s : IsFirst(i))
    <3> HIDE DEF IsFirst
    <3> QED  BY <2>4
  <2> QED  BY <1>2, <2>5, <2>6
<1> QED  BY <1>1, <1>2

\* Where searchCircle is: an IDL, and those above it.
Searching == Paths \X Seq(Paths)

Below(r, x, i) == <<r[x[1]][i], Append(x[2], x[1])>>

SearchStep(r, f, x) ==
  IF x[1] \in {x[2][i] : i \in DOMAIN x[2]} THEN Append(x[2], x[1])
  ELSE FirstOf([i \in DOMAIN r[x[1]] |-> f[Below(r, x, i)]])

Searches(r, f) == f = [x \in Searching |-> SearchStep(r, f, x)]

Searched(r) == CHOOSE f : Searches(r, f)

LEMMA SearchIsSearched ==
  \A r, root : SearchCircle(r, root) = Searched(r)[<<root, <<>>>>]
BY DEF SearchCircle, Searched, Searches, Searching, SearchStep, Below

LEMMA GotMore ==
  ASSUME NEW S, NEW s \in Seq(S), NEW e \in S
  PROVE  Append(s, e) \in Seq(S) /\ Got(Append(s, e)) = Got(s) \union {e}
<1> DEFINE t == Append(s, e)
<1>1. /\ t \in Seq(S) /\ Len(s) \in Nat
      /\ DOMAIN s = 1 .. Len(s) /\ DOMAIN t = 1 .. Len(s) + 1
      /\ \A j \in 1 .. Len(s) : t[j] = s[j]
      /\ t[Len(s) + 1] = e
  OBVIOUS
<1>2. 1 .. Len(s) + 1 = (1 .. Len(s)) \union {Len(s) + 1}  BY <1>1
<1> HIDE DEF t
<1>3. {t[j] : j \in DOMAIN t} = {s[j] : j \in DOMAIN s} \union {e}  BY <1>1, <1>2
<1>4. Got(t) = Got(s) \union {e}  BY <1>3 DEF Got
<1> QED  BY <1>1, <1>4 DEF t

\* How many IDLs are not above.
Left(x) == Cardinality(Paths \ Got(x[2]))

LEMMA LeftType == ASSUME NEW x \in Searching PROVE Left(x) \in 0 .. Cardinality(Paths)
<1> DEFINE S == Paths \ Got(x[2])
<1>1. S \in SUBSET Paths /\ IsFiniteSet(Paths)  BY IncludeAssumption
<1> HIDE DEF S
<1>2. IsFiniteSet(S) /\ Cardinality(S) <= Cardinality(Paths)  BY ONLY <1>1, FS_Subset
<1>3. Cardinality(S) \in Nat /\ Cardinality(Paths) \in Nat
  BY ONLY <1>1, <1>2, FS_CardinalityType
<1>4. Cardinality(S) \in 0 .. Cardinality(Paths)  BY ONLY <1>2, <1>3
<1> QED  BY <1>4 DEF S, Left

\* Every step down leaves fewer.
LEMMA Descent ==
  ASSUME NEW r \in [Paths -> Seq(Paths)], NEW x \in Searching, x[1] \notin Got(x[2]),
         NEW i \in DOMAIN r[x[1]]
  PROVE  Below(r, x, i) \in Searching /\ Left(Below(r, x, i)) < Left(x)
<1> DEFINE p == x[1]
           s == x[2]
           t == Append(s, p)
           y == Below(r, x, i)
<1>1. p \in Paths /\ s \in Seq(Paths) /\ p \notin Got(s)  BY DEF Searching
<1>2. r[p][i] \in Paths  BY <1>1
<1>3. y = <<r[p][i], t>> /\ y[2] = t  BY DEF Below
<1>h. HIDE DEF p, s, y
<1>4. t \in Seq(Paths) /\ Got(t) = Got(s) \union {p}  BY <1>1, GotMore
<1>5. y \in Searching  BY <1>2, <1>3, <1>4 DEF Searching
<1> DEFINE S == Paths \ Got(s)
<1>6. Paths \ Got(t) = S \ {p} /\ p \in S /\ S \in SUBSET Paths  BY <1>1, <1>4
<1>h2. HIDE DEF S
<1>7. IsFiniteSet(S)  BY <1>6, IncludeAssumption, FS_Subset
<1>8. Cardinality(S \ {p}) = Cardinality(S) - 1 /\ Cardinality(S) \in Nat
  BY ONLY <1>6, <1>7, FS_RemoveElement, FS_CardinalityType
<1>9. Left(y) = Cardinality(S) - 1  BY <1>3, <1>6, <1>8 DEF Left
<1>10. Left(x) = Cardinality(S)  BY DEF Left, S, s
<1>11. Left(y) < Left(x)  BY <1>8, <1>9, <1>10
<1> QED  BY <1>5, <1>11 DEF y

\* The recursion of searchCircle ends, in circles too.
LEMMA SearchIsDefined ==
  ASSUME NEW r \in [Paths -> Seq(Paths)] PROVE Searches(r, Searched(r))
<1> DEFINE Upto(k) == {x \in Searching : Left(x) <= k}
           P(k) == \E f : \A x \in Upto(k) : f[x] = SearchStep(r, f, x)
           T == {k \in Nat : ~ P(k)}
           K == Cardinality(Paths)
<1>1. T = {}
  <2> SUFFICES ASSUME T # {} PROVE FALSE  OBVIOUS
  <2>1. PICK k \in T : \A l \in T : k <= l
    <3>1. T \subseteq Nat  OBVIOUS
    <3> HIDE DEF T
    <3> QED  BY <3>1, LeastNumber
  <2>2. \E f : k # 0 => \A x \in Upto(k - 1) : f[x] = SearchStep(r, f, x)
    <3>1. CASE k = 0  BY <3>1
    <3>2. CASE k # 0
      <4>1. k - 1 \in Nat /\ ~ (k <= k - 1)  BY <3>2
      <4>2. P(k - 1)  BY <2>1, <4>1
      <4> QED  BY <4>2
    <3> QED  BY <3>1, <3>2
  <2>3. PICK f : k # 0 => \A x \in Upto(k - 1) : f[x] = SearchStep(r, f, x)  BY <2>2
  <2> DEFINE g == [x \in Searching |-> SearchStep(r, f, x)]
  <2>4. ASSUME NEW x \in Upto(k), x[1] \notin Got(x[2]), NEW i \in DOMAIN r[x[1]]
        PROVE  g[Below(r, x, i)] = f[Below(r, x, i)]
    <3> DEFINE y == Below(r, x, i)
    <3>1. y \in Searching /\ Left(y) < Left(x)  BY <2>4, Descent
    <3>2. Left(y) \in Nat /\ Left(x) \in Nat /\ Left(x) <= k /\ k \in Nat  BY <2>1, <3>1, LeftType
    <3>3. k # 0 /\ y \in Upto(k - 1)  BY <3>1, <3>2
    <3> HIDE DEF y
    <3>4. f[y] = SearchStep(r, f, y)  BY <2>3, <3>3
    <3>5. g[y] = SearchStep(r, f, y)  BY <3>1
    <3> QED  BY <3>4, <3>5 DEF y
  <2>5. ASSUME NEW x \in Upto(k) PROVE g[x] = SearchStep(r, g, x)
    <3>1. g[x] = SearchStep(r, f, x)  OBVIOUS
    <3> HIDE DEF g
    <3>2. CASE x[1] \in Got(x[2])  BY <3>1, <3>2 DEF SearchStep, Got
    <3>3. CASE x[1] \notin Got(x[2])
      <4>1. [i \in DOMAIN r[x[1]] |-> g[Below(r, x, i)]]
              = [i \in DOMAIN r[x[1]] |-> f[Below(r, x, i)]]
        BY <2>4, <3>3
      <4> QED  BY <3>1, <3>3, <4>1 DEF SearchStep, Got
    <3> QED  BY <3>2, <3>3
  <2>6. P(k)
    <3> HIDE DEF g
    <3> QED  BY <2>5
  <2> QED  BY <2>1, <2>6
<1>2. K \in Nat  BY IncludeAssumption, FS_CardinalityType
<1>3. Upto(K) = Searching  BY LeftType
<1>4. PICK f : \A x \in Searching : f[x] = SearchStep(r, f, x)
  <2>1. P(K)  BY <1>1, <1>2
  <2> QED  BY <1>3, <2>1
<1> DEFINE h == [x \in Searching |-> f[x]]
<1>5. ASSUME NEW x \in Searching PROVE h[x] = SearchStep(r, h, x)
  <2>1. h[x] = SearchStep(r, f, x)  BY <1>4
  <2>2. CASE x[1] \in Got(x[2])
    <3> HIDE DEF h
    <3> QED  BY <2>1, <2>2 DEF SearchStep, Got
  <2>3. CASE x[1] \notin Got(x[2])
    <3>1. ASSUME NEW i \in DOMAIN r[x[1]] PROVE h[Below(r, x, i)] = f[Below(r, x, i)]
      BY <2>3, Descent
    <3> HIDE DEF h
    <3>2. [i \in DOMAIN r[x[1]] |-> h[Below(r, x, i)]]
            = [i \in DOMAIN r[x[1]] |-> f[Below(r, x, i)]]
      BY <3>1
    <3> QED  BY <2>1, <2>3, <3>2 DEF SearchStep, Got
  <2> QED  BY <2>2, <2>3
<1>6. Searches(r, h)
  <2>1. h = [x \in Searching |-> h[x]]  OBVIOUS
  <2> HIDE DEF h
  <2>2. [x \in Searching |-> h[x]] = [x \in Searching |-> SearchStep(r, h, x)]  BY <1>5
  <2> QED  BY <2>1, <2>2 DEF Searches
<1> QED  BY <1>6 DEF Searched

LEMMA SearchEquation ==
  ASSUME NEW r \in [Paths -> Seq(Paths)], NEW x \in Searching
  PROVE  Searched(r)[x] = SearchStep(r, Searched(r), x)
<1> DEFINE f == Searched(r)
<1>1. Searches(r, f)  BY SearchIsDefined
<1> HIDE DEF f
<1>2. f[x] = SearchStep(r, f, x)  BY <1>1 DEF Searches
<1> QED  BY <1>2 DEF f

\* Nothing is found from an IDL: it is not above itself, and nothing is found
\* from what it includes.
LEMMA NothingFound ==
  ASSUME NEW r \in [Paths -> Seq(Paths)], NEW x \in Searching, Searched(r)[x] = <<>>
  PROVE  /\ x[1] \notin Got(x[2])
         /\ \A i \in DOMAIN r[x[1]] : Below(r, x, i) \in Searching /\ Searched(r)[Below(r, x, i)] = <<>>
<1> DEFINE f == Searched(r)
           s == [i \in DOMAIN r[x[1]] |-> f[Below(r, x, i)]]
<1>1. SearchStep(r, f, x) = <<>>  BY SearchEquation
<1>2. x[1] \in Paths /\ x[2] \in Seq(Paths)  BY DEF Searching
<1>3. Append(x[2], x[1]) # <<>>
  <2> DEFINE t == Append(x[2], x[1])
  <2>1. Len(t) = Len(x[2]) + 1 /\ Len(x[2]) \in Nat  BY <1>2
  <2> HIDE DEF t
  <2>2. Len(t) # 0  BY ONLY <2>1
  <2>3. t # <<>>  BY ONLY <2>2
  <2> QED  BY <2>3 DEF t
<1>4. x[1] \notin Got(x[2])  BY <1>1, <1>3 DEF SearchStep, Got
<1>5. FirstOf(s) = <<>>  BY <1>1, <1>4 DEF SearchStep, Got
<1>6. r[x[1]] \in Seq(Paths)  BY <1>2
<1> DEFINE n == Len(r[x[1]])
<1>7. n \in Nat /\ DOMAIN s = 1 .. n  BY <1>6
<1>8. \A i \in 1 .. n : s[i] = <<>>
  <2> HIDE DEF s, n
  <2> QED  BY <1>5, <1>7, FirstOfFacts
<1>9. \A i \in DOMAIN r[x[1]] : f[Below(r, x, i)] = <<>>  BY <1>7, <1>8
<1> QED  BY <1>4, <1>9, Descent

\* What is found from an IDL that is above itself or leads to one that is.
LEMMA SomethingFound ==
  ASSUME NEW r \in [Paths -> Seq(Paths)], NEW x \in Searching, Searched(r)[x] # <<>>
  PROVE  \/ x[1] \in Got(x[2]) /\ Searched(r)[x] = Append(x[2], x[1])
         \/ /\ x[1] \notin Got(x[2])
            /\ \E i \in DOMAIN r[x[1]] : Searched(r)[x] = Searched(r)[Below(r, x, i)]
<1> DEFINE f == Searched(r)
           s == [i \in DOMAIN r[x[1]] |-> f[Below(r, x, i)]]
<1>1. f[x] = SearchStep(r, f, x)  BY SearchEquation
<1>2. CASE x[1] \in Got(x[2])  BY <1>1, <1>2 DEF SearchStep, Got
<1>3. CASE x[1] \notin Got(x[2])
  <2>1. f[x] = FirstOf(s)  BY <1>1, <1>3 DEF SearchStep, Got
  <2>2. r[x[1]] \in Seq(Paths)  BY DEF Searching
  <2> DEFINE n == Len(r[x[1]])
  <2>3. n \in Nat /\ DOMAIN s = 1 .. n /\ DOMAIN r[x[1]] = 1 .. n  BY <2>2
  <2>4. \E i \in 1 .. n : FirstOf(s) = s[i]
    <3> HIDE DEF s, n
    <3> QED  BY <2>1, <2>3, FirstOfFacts
  <2> QED  BY <1>3, <2>1, <2>3, <2>4
<1> QED  BY <1>2, <1>3
-----------------------------------------------------------------------------
(***************************************************************************)
(* Without a circle the includes have a rank.                              *)
(***************************************************************************)
Closed(r, C) == \A p \in C : \A i \in DOMAIN r[p] : r[p][i] \in C

\* What an IDL leads to, itself among it.
From(r, p) == {q \in Paths : \A C \in SUBSET Paths : p \in C /\ Closed(r, C) => q \in C}

LEMMA FromFacts ==
  ASSUME NEW r \in [Paths -> Seq(Paths)], NEW p \in Paths
  PROVE  /\ From(r, p) \in SUBSET Paths /\ p \in From(r, p)
         /\ \A i \in DOMAIN r[p] : r[p][i] \in Paths /\ From(r, r[p][i]) \subseteq From(r, p)
<1>1. From(r, p) \in SUBSET Paths /\ p \in From(r, p)  BY DEF From
<1>2. ASSUME NEW i \in DOMAIN r[p], NEW q \in From(r, r[p][i])  PROVE q \in From(r, p)
  <2> SUFFICES ASSUME NEW C \in SUBSET Paths, p \in C, Closed(r, C) PROVE q \in C
    BY <1>2 DEF From
  <2>1. r[p][i] \in C  BY <1>2 DEF Closed
  <2> QED  BY <1>2, <2>1 DEF From
<1>3. \A i \in DOMAIN r[p] : r[p][i] \in Paths  OBVIOUS
<1> QED  BY <1>1, <1>2, <1>3

\* The IDLs from which searchCircle found nothing.
Safe(r) == {p \in Paths : \E s \in Seq(Paths) : Searched(r)[<<p, s>>] = <<>>}

LEMMA SafeIsClosed ==
  ASSUME NEW r \in [Paths -> Seq(Paths)] PROVE Closed(r, Safe(r))
<1> SUFFICES ASSUME NEW p \in Safe(r), NEW i \in DOMAIN r[p] PROVE r[p][i] \in Safe(r)
  BY DEF Closed
<1>1. PICK s \in Seq(Paths) : Searched(r)[<<p, s>>] = <<>>  BY DEF Safe
<1> DEFINE x == <<p, s>>
<1>2. x \in Searching /\ x[1] = p /\ x[2] = s  BY DEF Safe, Searching
<1>h. HIDE DEF x
<1>3. Below(r, x, i) \in Searching /\ Searched(r)[Below(r, x, i)] = <<>>
  BY <1>1, <1>2, NothingFound DEF x
<1>4. Below(r, x, i) = <<r[p][i], Append(s, p)>>  BY <1>2 DEF Below
<1>5. r[p][i] \in Paths /\ Append(s, p) \in Seq(Paths)  BY <1>3, <1>4 DEF Searching
<1> QED  BY <1>3, <1>4, <1>5 DEF Safe

\* No include of such an IDL leads back to it.
LEMMA NoWayBack ==
  ASSUME NEW r \in [Paths -> Seq(Paths)], NEW p \in Safe(r), NEW i \in DOMAIN r[p]
  PROVE  p \notin From(r, r[p][i])
<1> DEFINE After1 == {q \in Paths : \E s \in Seq(Paths) : p \in Got(s) /\ Searched(r)[<<q, s>>] = <<>>}
<1>1. ASSUME NEW q \in Paths, NEW s \in Seq(Paths), Searched(r)[<<q, s>>] = <<>>
      PROVE  /\ q \notin Got(s)
             /\ \A j \in DOMAIN r[q] :
                  /\ r[q][j] \in Paths /\ Append(s, q) \in Seq(Paths)
                  /\ Got(Append(s, q)) = Got(s) \union {q}
                  /\ Searched(r)[<<r[q][j], Append(s, q)>>] = <<>>
  <2> DEFINE x == <<q, s>>
  <2>1. x \in Searching /\ x[1] = q /\ x[2] = s  BY DEF Searching
  <2>h. HIDE DEF x
  <2>2. q \notin Got(s) /\ \A j \in DOMAIN r[q] : Searched(r)[Below(r, x, j)] = <<>>
    BY <1>1, <2>1, NothingFound DEF x
  <2>3. \A j : Below(r, x, j) = <<r[q][j], Append(s, q)>>  BY <2>1 DEF Below
  <2>4. Append(s, q) \in Seq(Paths) /\ Got(Append(s, q)) = Got(s) \union {q}  BY GotMore
  <2>5. \A j \in DOMAIN r[q] : r[q][j] \in Paths  OBVIOUS
  <2> QED  BY <2>2, <2>3, <2>4, <2>5
<1>2. Closed(r, After1)
  <2> SUFFICES ASSUME NEW q \in After1, NEW j \in DOMAIN r[q] PROVE r[q][j] \in After1
    BY DEF Closed
  <2>1. PICK s \in Seq(Paths) : p \in Got(s) /\ Searched(r)[<<q, s>>] = <<>>  OBVIOUS
  <2>2. q \in Paths /\ s \in Seq(Paths) /\ Searched(r)[<<q, s>>] = <<>>  BY <2>1
  <2>3. /\ r[q][j] \in Paths /\ Append(s, q) \in Seq(Paths)
        /\ Got(Append(s, q)) = Got(s) \union {q}
        /\ Searched(r)[<<r[q][j], Append(s, q)>>] = <<>>
    <3> HIDE DEF After1
    <3> QED  BY <1>1, <2>2
  <2>4. p \in Got(Append(s, q))  BY <2>1, <2>3
  <2> QED  BY <2>3, <2>4
<1>3. r[p][i] \in After1
  <2>1. PICK s \in Seq(Paths) : Searched(r)[<<p, s>>] = <<>>  BY DEF Safe
  <2>2. p \in Paths  BY DEF Safe
  <2>3. /\ r[p][i] \in Paths /\ Append(s, p) \in Seq(Paths)
        /\ Got(Append(s, p)) = Got(s) \union {p}
        /\ Searched(r)[<<r[p][i], Append(s, p)>>] = <<>>
    <3> HIDE DEF After1
    <3> QED  BY <1>1, <2>1, <2>2
  <2>4. p \in Got(Append(s, p))  BY <2>3
  <2> QED  BY <2>3, <2>4
<1>4. p \notin After1  BY <1>1
<1>5. After1 \in SUBSET Paths  OBVIOUS
<1> HIDE DEF After1
<1> QED  BY <1>2, <1>3, <1>4, <1>5 DEF From

\* How many IDLs an IDL leads to.
Depth(r) == [p \in Paths |-> Cardinality(From(r, p))]

NoCircle(r) == \A p \in Paths : r[p] = <<>> \/ p \in Safe(r)

LEMMA DepthType ==
  ASSUME NEW r \in [Paths -> Seq(Paths)]
  PROVE  /\ Depth(r) \in [Paths -> Nat]
         /\ \A p \in Paths : IsFiniteSet(From(r, p)) /\ Cardinality(From(r, p)) \in Nat
<1>1. ASSUME NEW p \in Paths
      PROVE  IsFiniteSet(From(r, p)) /\ Cardinality(From(r, p)) \in Nat
  <2> DEFINE S == From(r, p)
  <2>1. S \in SUBSET Paths /\ IsFiniteSet(Paths)  BY FromFacts, IncludeAssumption
  <2> HIDE DEF S
  <2>2. IsFiniteSet(S)  BY ONLY <2>1, FS_Subset
  <2>3. Cardinality(S) \in Nat  BY ONLY <2>2, FS_CardinalityType
  <2> QED  BY <2>2, <2>3 DEF S
<1> QED  BY <1>1 DEF Depth

LEMMA DepthIsRank ==
  ASSUME NEW r \in [Paths -> Seq(Paths)], NoCircle(r)
  PROVE  Ranks(Depth(r), r)
<1>1. ASSUME NEW p \in Paths, NEW i \in DOMAIN r[p]
      PROVE  Cardinality(From(r, r[p][i])) < Cardinality(From(r, p))
  <2> DEFINE S == From(r, p)
             U == From(r, r[p][i])
  <2>1. p \in Safe(r)  BY <1>1 DEF NoCircle
  <2>2. U \in SUBSET S /\ p \in S /\ p \notin U /\ r[p][i] \in Paths
    BY <2>1, FromFacts, NoWayBack
  <2>3. IsFiniteSet(S) /\ Cardinality(S) \in Nat /\ Cardinality(U) \in Nat
    BY <2>2, DepthType
  <2> HIDE DEF S, U
  <2>4. Cardinality(U) <= Cardinality(S) /\ (Cardinality(S) = Cardinality(U) => S = U)
    BY ONLY <2>2, <2>3, FS_Subset
  <2>5. Cardinality(U) # Cardinality(S)  BY <2>2, <2>4
  <2>6. Cardinality(U) < Cardinality(S)  BY ONLY <2>3, <2>4, <2>5
  <2> QED  BY <2>6 DEF S, U
<1>2. \A p \in Paths : \A i \in DOMAIN r[p] : r[p][i] \in Paths  OBVIOUS
<1> QED  BY <1>1, <1>2 DEF Depth, Ranks
-----------------------------------------------------------------------------
(***************************************************************************)
(* What searchCircle finds is a circle.                                    *)
(***************************************************************************)
IsWay(r, s) == \A i \in 1 .. Len(s) - 1 : \E k \in DOMAIN r[s[i]] : s[i + 1] = r[s[i]][k]

IsLoop(r, s) == IsWay(r, s) /\ \E i \in 1 .. Len(s) - 1 : s[i] = s[Len(s)]

LEMMA WayOn ==
  ASSUME NEW r \in [Paths -> Seq(Paths)], NEW s \in Seq(Paths), NEW p \in Paths,
         IsWay(r, Append(s, p)), NEW k \in DOMAIN r[p]
  PROVE  IsWay(r, Append(Append(s, p), r[p][k]))
<1> DEFINE t == Append(s, p)
           q == r[p][k]
           u == Append(t, q)
<1>1. q \in Paths  OBVIOUS
<1>2. t \in Seq(Paths) /\ Len(s) \in Nat /\ Len(t) = Len(s) + 1 /\ t[Len(t)] = p  OBVIOUS
<1> HIDE DEF t, q
<1>3. Len(u) = Len(t) + 1 /\ u[Len(t) + 1] = q /\ \A i \in 1 .. Len(t) : u[i] = t[i]
  BY <1>1, <1>2
<1> HIDE DEF u
<1>4. ASSUME NEW i \in 1 .. Len(u) - 1 PROVE \E l \in DOMAIN r[u[i]] : u[i + 1] = r[u[i]][l]
  <2>1. CASE i = Len(t)
    <3>1. Len(t) \in 1 .. Len(t)  BY <1>2
    <3>2. u[i] = t[i] /\ u[i + 1] = q  BY <1>3, <2>1, <3>1
    <3>3. u[i] = p  BY <1>2, <2>1, <3>2
    <3> QED  BY <3>2, <3>3 DEF q
  <2>2. CASE i # Len(t)
    <3>1. i \in 1 .. Len(t) - 1 /\ i \in 1 .. Len(t) /\ i + 1 \in 1 .. Len(t)
      BY <1>2, <1>3, <2>2, SMTT(30)
    <3>2. \E l \in DOMAIN r[t[i]] : t[i + 1] = r[t[i]][l]  BY <3>1 DEF IsWay, t
    <3> QED  BY <1>3, <3>1, <3>2
  <2> QED  BY <2>1, <2>2
<1>5. IsWay(r, u)  BY <1>4 DEF IsWay
<1> QED  BY <1>5 DEF u, t, q

LEMMA FoundIsLoop ==
  ASSUME NEW r \in [Paths -> Seq(Paths)], NEW root \in Paths, SearchCircle(r, root) # <<>>
  PROVE  IsLoop(r, SearchCircle(r, root))
<1> DEFINE f == Searched(r)
           Bad == {x \in Searching : /\ IsWay(r, Append(x[2], x[1])) /\ f[x] # <<>>
                                     /\ ~ IsLoop(r, f[x])}
           T == {Left(x) : x \in Bad}
<1>1. Bad = {}
  <2> SUFFICES ASSUME Bad # {} PROVE FALSE  OBVIOUS
  <2>1. T \subseteq Nat /\ T # {}  BY LeftType
  <2>2. PICK n \in T : \A l \in T : n <= l
    <3> HIDE DEF T
    <3> QED  BY <2>1, LeastNumber
  <2>3. PICK x \in Bad : Left(x) = n  BY <2>2
  <2>4. x \in Searching /\ IsWay(r, Append(x[2], x[1])) /\ f[x] # <<>> /\ ~ IsLoop(r, f[x])
    BY <2>3
  <2>5. x[1] \in Paths /\ x[2] \in Seq(Paths)  BY <2>4 DEF Searching
  <2>6. CASE x[1] \in Got(x[2]) /\ f[x] = Append(x[2], x[1])
    <3> DEFINE s == x[2]
               p == x[1]
               t == Append(s, p)
    <3>1. PICK i \in DOMAIN s : s[i] = p  BY <2>6 DEF Got
    <3>2. DOMAIN s = 1 .. Len(s) /\ Len(s) \in Nat /\ Len(t) = Len(s) + 1
          /\ t[Len(t)] = p /\ \A j \in 1 .. Len(s) : t[j] = s[j]
      BY <2>5
    <3> HIDE DEF t, s, p
    <3>3. i \in 1 .. Len(t) - 1 /\ t[i] = t[Len(t)]  BY <3>1, <3>2
    <3>4. IsWay(r, t)  BY <2>4 DEF t, s, p
    <3>5. IsLoop(r, t)  BY <3>3, <3>4 DEF IsLoop
    <3>6. f[x] = t  BY <2>6 DEF t, s, p
    <3> HIDE DEF f
    <3> QED  BY <2>4, <3>5, <3>6
  <2>7. CASE x[1] \notin Got(x[2]) /\ \E i \in DOMAIN r[x[1]] : f[x] = f[Below(r, x, i)]
    <3>1. PICK i \in DOMAIN r[x[1]] : f[x] = f[Below(r, x, i)]  BY <2>7
    <3> DEFINE y == Below(r, x, i)
    <3>2. y \in Searching /\ Left(y) < Left(x)  BY <2>4, <2>7, Descent
    <3>3. y[1] = r[x[1]][i] /\ y[2] = Append(x[2], x[1])  BY DEF Below
    <3>4. IsWay(r, Append(y[2], y[1]))  BY <2>4, <2>5, <3>3, WayOn
    <3> HIDE DEF y, f
    <3>5. f[y] = f[x]  BY <3>1 DEF y
    <3>6. y \in Bad  BY <2>4, <3>2, <3>4, <3>5
    <3>7. Left(y) \in T  BY <3>6
    <3>8. n <= Left(y)  BY <2>2, <3>7
    <3>9. Left(y) \in Nat /\ Left(x) \in Nat  BY <2>4, <3>2, LeftType
    <3> QED  BY <2>3, <3>2, <3>8, <3>9
  <2>8. \/ x[1] \in Got(x[2]) /\ f[x] = Append(x[2], x[1])
        \/ x[1] \notin Got(x[2]) /\ \E i \in DOMAIN r[x[1]] : f[x] = f[Below(r, x, i)]
    BY <2>4, SomethingFound
  <2> QED  BY <2>6, <2>7, <2>8
<1> DEFINE z == <<root, <<>>>>
<1>2. z \in Searching /\ z[1] = root /\ z[2] = <<>>
  <2>1. <<>> \in Seq(Paths)  OBVIOUS
  <2> QED  BY <2>1 DEF Searching
<1>3. SearchCircle(r, root) = f[z]  BY SearchIsSearched
<1>4. IsWay(r, Append(z[2], z[1]))
  <2> DEFINE t == Append(<<>>, root)
  <2>1. Len(t) = 1  OBVIOUS
  <2> HIDE DEF t
  <2>2. 1 .. Len(t) - 1 = {}  BY <2>1
  <2>3. IsWay(r, t)  BY <2>2 DEF IsWay
  <2> QED  BY <1>2, <2>3 DEF t
<1>5. z \notin Bad  BY <1>1
<1> HIDE DEF f, z
<1>6. IsLoop(r, f[z])  BY <1>2, <1>3, <1>4, <1>5
<1> QED  BY <1>3, <1>6

LEMMA LoopIsCircle ==
  ASSUME NEW c, IsLoop(refs, c) PROVE IsCircle(c)
<1>1. ASSUME NEW i \in 1 .. Len(c) - 1 PROVE c[i + 1] \in After({c[i]})
  <2>1. PICK k \in DOMAIN refs[c[i]] : c[i + 1] = refs[c[i]][k]  BY DEF IsLoop, IsWay
  <2> QED  BY <2>1 DEF After
<1> QED  BY <1>1 DEF IsLoop, IsCircle, Top
-----------------------------------------------------------------------------
(***************************************************************************)
(* Where includes have a rank nothing is reached from itself.              *)
(***************************************************************************)
Layers(R, p, n) ==
  R = [k \in 0 .. n |-> IF k = 0 THEN After({p}) ELSE R[k - 1] \union After(R[k - 1])]

LEMMA LayersAreDefined ==
  ASSUME NEW p, NEW n \in Nat PROVE \E R : Layers(R, p, n)
<1> DEFINE Next1To(R, k) == IF k = 0 THEN After({p}) ELSE R[k - 1] \union After(R[k - 1])
           P(k) == \E R : \A i \in 0 .. k : R[i] = Next1To(R, i)
           T == {k \in Nat : ~ P(k)}
<1>1. T = {}
  <2> SUFFICES ASSUME T # {} PROVE FALSE  OBVIOUS
  <2>1. PICK k \in T : \A l \in T : k <= l
    <3>1. T \subseteq Nat  OBVIOUS
    <3> HIDE DEF T
    <3> QED  BY <3>1, LeastNumber
  <2>2. k \in Nat  BY <2>1
  <2>3. \E R : k # 0 => \A i \in 0 .. k - 1 : R[i] = Next1To(R, i)
    <3>1. CASE k = 0  BY <3>1
    <3>2. CASE k # 0
      <4>1. k - 1 \in Nat /\ ~ (k <= k - 1)  BY <2>2, <3>2
      <4>2. P(k - 1)  BY <2>1, <4>1
      <4> QED  BY <4>2
    <3> QED  BY <3>1, <3>2
  <2>4. PICK R : k # 0 => \A i \in 0 .. k - 1 : R[i] = Next1To(R, i)  BY <2>3
  <2> DEFINE g == [i \in 0 .. k |-> Next1To(R, i)]
  <2>5. ASSUME NEW i \in 0 .. k PROVE g[i] = Next1To(g, i)
    <3>1. g[i] = Next1To(R, i)  OBVIOUS
    <3>2. CASE i = 0
      <4> HIDE DEF g
      <4> QED  BY <3>1, <3>2
    <3>3. CASE i # 0
      <4> DEFINE j == i - 1
      <4>1. j \in 0 .. k /\ j \in 0 .. k - 1 /\ k # 0  BY <2>2, <3>3
      <4> HIDE DEF j, Next1To
      <4>2. g[j] = Next1To(R, j) /\ R[j] = Next1To(R, j)  BY <2>4, <4>1
      <4>3. g[j] = R[j]  BY <4>2
      <4> HIDE DEF g
      <4> QED  BY <3>1, <3>3, <4>3 DEF Next1To, j
    <3> QED  BY <3>2, <3>3
  <2>6. P(k)
    <3> HIDE DEF g, Next1To
    <3> QED  BY <2>5
  <2> QED  BY <2>1, <2>6
<1>2. PICK R : \A i \in 0 .. n : R[i] = Next1To(R, i)
  <2>1. P(n)  BY <1>1
  <2> QED  BY <2>1
<1> DEFINE h == [i \in 0 .. n |-> R[i]]
<1>3. ASSUME NEW i \in 0 .. n PROVE h[i] = Next1To(h, i)
  <2>1. h[i] = Next1To(R, i)  BY <1>2
  <2>2. i # 0 => h[i - 1] = R[i - 1]
    <3>1. i # 0 => i - 1 \in 0 .. n  OBVIOUS
    <3> QED  BY <3>1
  <2> HIDE DEF h
  <2> QED  BY <2>1, <2>2
<1>4. Layers(h, p, n)
  <2>1. h = [i \in 0 .. n |-> h[i]]  OBVIOUS
  <2> HIDE DEF h
  <2>2. [i \in 0 .. n |-> h[i]] = [i \in 0 .. n |-> Next1To(h, i)]  BY <1>3
  <2> QED  BY <2>1, <2>2 DEF Layers
<1> HIDE DEF h
<1> QED  BY <1>4

LEMMA ReachedIsLower ==
  ASSUME refs \in [Paths -> Seq(Paths)], NEW r \in [Paths -> Nat], Ranks(r, refs),
         NEW p \in Paths, NEW n \in Nat
  PROVE  p \notin Reached(p, n)
<1> DEFINE R == CHOOSE R : Layers(R, p, n)
           Lower == {q \in Paths : r[q] < r[p]}
           T == {k \in 0 .. n : ~ (R[k] \subseteq Lower)}
<1>1. Layers(R, p, n)  BY LayersAreDefined
<1>2. Reached(p, n) = R[n]  BY DEF Reached, Layers
<1> HIDE DEF R
<1>3. \A k \in 0 .. n : R[k] = IF k = 0 THEN After({p}) ELSE R[k - 1] \union After(R[k - 1])
  BY <1>1 DEF Layers
<1>4. ASSUME NEW q \in Paths, NEW x \in After({q})
      PROVE  x \in Paths /\ r[x] < r[q] /\ r[x] \in Nat /\ r[q] \in Nat
  <2>1. PICK i \in DOMAIN refs[q] : x = refs[q][i]  BY DEF After
  <2>2. refs[q] \in Seq(Paths)  OBVIOUS
  <2> QED  BY <2>1, <2>2 DEF Ranks
<1>5. ASSUME NEW S, S \subseteq Lower PROVE After(S) \subseteq Lower
  <2> SUFFICES ASSUME NEW x \in After(S) PROVE x \in Lower  OBVIOUS
  <2>1. PICK q \in S : x \in After({q})  BY DEF After
  <2>2. q \in Paths /\ r[q] < r[p] /\ r[p] \in Nat  BY <1>5
  <2>3. x \in Paths /\ r[x] < r[q] /\ r[x] \in Nat /\ r[q] \in Nat  BY <1>4, <2>1, <2>2
  <2> QED  BY <2>2, <2>3
<1>6. T = {}
  <2> SUFFICES ASSUME T # {} PROVE FALSE  OBVIOUS
  <2>1. PICK k \in T : \A l \in T : k <= l
    <3>1. T \subseteq Nat  OBVIOUS
    <3> HIDE DEF T
    <3> QED  BY <3>1, LeastNumber
  <2>2. k \in 0 .. n /\ ~ (R[k] \subseteq Lower)  BY <2>1
  <2>3. k # 0
    <3>1. After({p}) \subseteq Lower  BY <1>4
    <3> QED  BY <1>3, <2>2, <3>1
  <2>4. k - 1 \in 0 .. n /\ ~ (k <= k - 1)  BY <2>2, <2>3
  <2>5. R[k - 1] \subseteq Lower  BY <2>1, <2>4
  <2> DEFINE S == R[k - 1]
  <2>6. R[k] = S \union After(S)  BY <1>3, <2>2, <2>3
  <2> HIDE DEF S, Lower
  <2>7. After(S) \subseteq Lower  BY <1>5, <2>5 DEF S
  <2> QED  BY <2>2, <2>5, <2>6, <2>7 DEF S
<1>7. R[n] \subseteq Lower /\ p \notin Lower
  <2>1. n \in 0 .. n /\ ~ (r[p] < r[p])  OBVIOUS
  <2>2. n \notin T  BY <1>6
  <2> QED  BY <2>1, <2>2
<1> QED  BY <1>2, <1>7
-----------------------------------------------------------------------------
(***************************************************************************)
(* The memo holds only what the main IDL leads to, and CircleDetect has    *)
(* looked at all of it.                                                    *)
(***************************************************************************)
LeadsOn(c, w, m, C) == \A p \in C \intersect m : \A i \in 1 .. Len(c[p]) : w[p][i] \in C

Reaches(c, w, root, m) == \A C \in SUBSET Paths : root \in C /\ LeadsOn(c, w, m, C) => m \subseteq C

CircleInv ==
  /\ \A p \in Paths : p \notin memo => refs[p] = <<>>
  /\ Reaches(source, Wanted, Root, memo)
  /\ phase = "circle" => /\ reader = "none" /\ Root \in Paths
                         /\ SearchCircle(refs, Root) # <<>>
  /\ reader # "none" => NoCircle(refs)

LEMMA CircleInit == Init => CircleInv
<1> SUFFICES ASSUME Init PROVE CircleInv  OBVIOUS
<1>1. memo = {} /\ phase = "parsing" /\ reader = "none" /\ refs = [p \in Paths |-> <<>>]
  BY DEF Init
<1> QED  BY <1>1 DEF CircleInv, Reaches

\* Setting an include of an IDL that is in the memo.
LEMMA LooseAttach ==
  ASSUME NEW r \in [Paths -> Seq(Paths)], NEW s, NEW m, s # <<>> => Top(s).path \in m,
         \A p \in Paths : p \notin m => r[p] = <<>>, NEW q
  PROVE  \A p \in Paths : p \notin m => Attach(r, s, q)[p] = <<>>
BY DEF Attach

LEMMA ReachesMore ==
  ASSUME NEW c, NEW w, NEW root, NEW m, Reaches(c, w, root, m), NEW p,
         \/ p = root
         \/ \E q \in m : \E i \in 1 .. Len(c[q]) : p = w[q][i]
  PROVE  Reaches(c, w, root, m \union {p})
<1> SUFFICES ASSUME NEW C \in SUBSET Paths, root \in C, LeadsOn(c, w, m \union {p}, C)
             PROVE  m \subseteq C /\ p \in C
  BY DEF Reaches
<1>1. LeadsOn(c, w, m, C)  BY DEF LeadsOn
<1>2. m \subseteq C  BY <1>1 DEF Reaches
<1>3. CASE p = root  BY <1>2, <1>3
<1>4. CASE \E q \in m : \E i \in 1 .. Len(c[q]) : p = w[q][i]
  <2>1. PICK q \in m : \E i \in 1 .. Len(c[q]) : p = w[q][i]  BY <1>4
  <2>2. q \in C \intersect (m \union {p})  BY <1>2, <2>1
  <2> QED  BY <1>2, <2>1, <2>2 DEF LeadsOn
<1> QED  BY <1>3, <1>4

LEMMA CircleCall ==
  ASSUME PInv, WholeInv, CircleInv, phase = "parsing", NEW n, NEW d, Call(n, d),
         UNCHANGED <<batch, source, walking>>,
         \/ Search(n, d) = Root
         \/ \E q \in memo : \E i \in 1 .. Len(source[q]) : Search(n, d) = Wanted[q][i]
  PROVE  CircleInv'
<1> DEFINE p == Search(n, d)
<1>1. /\ refs \in [Paths -> Seq(Paths)] /\ IsFrames(stack) /\ reader = "none"
      /\ \A i \in DOMAIN stack : stack[i].path \in memo
  BY DEF PInv, Types, Parsed
<1>2. /\ source' = source /\ Wanted' = Wanted /\ Root' = Root /\ reader' = "none"
  BY <1>1, WantedIsFixed, RootIsFixed DEF walking
<1>3. stack # <<>> => Top(stack).path \in memo
  BY <1>1, PopFrames DEF IsFrames
<1>4. /\ \A q \in Paths : q \notin memo => refs[q] = <<>>
      /\ Reaches(source, Wanted, Root, memo)
  BY DEF CircleInv
<1>5. CASE Parse(p)
  <2>1. memo' = memo \union {p} /\ refs' = [refs EXCEPT ![p] = <<>>] /\ phase' = "parsing"
    BY <1>5 DEF Parse
  <2>2. Reaches(source, Wanted, Root, memo \union {p})  BY <1>4, ReachesMore
  <2>3. \A q \in Paths : q \notin memo' => refs'[q] = <<>>  BY <1>1, <1>4, <2>1
  <2> QED  BY <1>2, <2>1, <2>2, <2>3 DEF CircleInv
<1>6. CASE Known(p)
  <2>1. memo' = memo /\ refs' = Attach(refs, stack, p) /\ phase' = "parsing"
    BY <1>6 DEF Known
  <2>2. \A q \in Paths : q \notin memo => refs'[q] = <<>>
    <3>1. \A q \in Paths : q \notin memo => Attach(refs, stack, p)[q] = <<>>
      <4> HIDE DEF p
      <4> QED  BY ONLY <1>1, <1>3, <1>4, LooseAttach
    <3> QED  BY <2>1, <3>1
  <2> QED  BY <1>2, <1>4, <2>1, <2>2 DEF CircleInv
<1>7. CASE Fail
  BY <1>2, <1>4, <1>7 DEF Fail, CircleInv
<1> QED  BY <1>5, <1>6, <1>7 DEF Call

LEMMA CircleReturn == ASSUME PInv, CircleInv, Return PROVE CircleInv'
<1> DEFINE rest == Pop(stack)
           p == Top(stack).path
<1>1. /\ refs \in [Paths -> Seq(Paths)] /\ IsFrames(stack) /\ reader = "none"
      /\ \A i \in DOMAIN stack : stack[i].path \in memo
  BY DEF PInv, Types, Parsed, Return
<1>2. /\ stack # <<>> /\ memo' = memo /\ refs' = Attach(refs, rest, p)
      /\ phase' \in {"parsed", "parsing"} /\ UNCHANGED <<batch, source, walking>>
  BY DEF Return
<1>3. /\ source' = source /\ Wanted' = Wanted /\ Root' = Root /\ reader' = "none"
  BY <1>1, <1>2, WantedIsFixed, RootIsFixed DEF walking
<1> HIDE DEF rest, p
<1>4. rest # <<>> => Top(rest).path \in memo
  <2>1. /\ Len(stack) \in Nat /\ DOMAIN stack = 1 .. Len(stack) /\ IsFrames(rest)
        /\ Len(rest) = Len(stack) - 1 /\ \A i \in 1 .. Len(stack) - 1 : rest[i] = stack[i]
    BY <1>1, <1>2, PopFrames DEF IsFrames, rest
  <2>2. rest # <<>> => Len(rest) # 0  BY <2>1 DEF IsFrames
  <2>3. rest # <<>> => Len(rest) \in 1 .. Len(stack) - 1 /\ Len(rest) \in DOMAIN stack
    BY <2>1, <2>2
  <2>4. rest # <<>> => Top(rest) = stack[Len(rest)]  BY <2>1, <2>3 DEF Top
  <2> QED  BY <1>1, <2>3, <2>4
<1>5. /\ \A q \in Paths : q \notin memo => refs[q] = <<>>
      /\ Reaches(source, Wanted, Root, memo)
  BY DEF CircleInv
<1>6. \A q \in Paths : q \notin memo => refs'[q] = <<>>
  BY <1>1, <1>2, <1>4, <1>5, LooseAttach
<1> QED  BY <1>2, <1>3, <1>5, <1>6 DEF CircleInv

\* CircleDetect has looked at the whole memo.
LEMMA LookedAtAll ==
  ASSUME PInv, WholeInv, CircleInv, phase = "parsed", SearchCircle(refs, Root) = <<>>
  PROVE  NoCircle(refs)
<1>1. refs \in [Paths -> Seq(Paths)] /\ memo \subseteq Paths /\ memo # {} /\ Root \in memo
  BY DEF PInv, Types, Parsed
<1>2. /\ stack = <<>> /\ source \in Sources /\ memo \subseteq Readable
      /\ Whole(source, Wanted, memo, refs, stack)
  BY DEF WholeInv, Settled
<1>3. Root \in Safe(refs)
  <2>1. <<>> \in Seq(Paths)  OBVIOUS
  <2>2. Searched(refs)[<<Root, <<>>>>] = <<>>  BY SearchIsSearched
  <2> QED  BY <1>1, <2>1, <2>2 DEF Safe
<1>4. LeadsOn(source, Wanted, memo, Safe(refs))
  <2> SUFFICES ASSUME NEW p \in Safe(refs), p \in memo, NEW i \in 1 .. Len(source[p])
               PROVE  Wanted[p][i] \in Safe(refs)
    BY DEF LeadsOn
  <2>1. p \notin PathsOf(stack)  BY <1>2 DEF PathsOf
  <2>2. SetTo(source, Wanted, memo, refs, p, Len(source[p]))  BY <1>2, <2>1 DEF Whole
  <2>3. i \in DOMAIN refs[p] /\ refs[p][i] = Wanted[p][i]  BY <2>2 DEF SetTo
  <2> QED  BY <1>1, <2>3, SafeIsClosed DEF Closed
<1>5. Safe(refs) \in SUBSET Paths  BY DEF Safe
<1>6. memo \subseteq Safe(refs)  BY <1>3, <1>4, <1>5 DEF CircleInv, Reaches
<1> QED  BY <1>6 DEF CircleInv, NoCircle

LEMMA CircleStep ==
  ASSUME PInv, WholeInv, CircleInv, [IncludeNext]_includeVars PROVE CircleInv'
<1>1. CASE ParseMain
  BY <1>1, CircleCall DEF ParseMain, Root
<1>2. CASE ParseInclude
  <2> DEFINE f == Top(stack)
  <2>1. /\ phase = "parsing" /\ stack # <<>> /\ f.done < Len(Content(f.path))
        /\ Call(Content(f.path)[f.done + 1], DirOf[f.path])
        /\ UNCHANGED <<batch, source, walking>>
    BY <1>2 DEF ParseInclude, Todo
  <2>2. IsFrames(stack) /\ f = stack[Len(stack)] /\ f \in FrameSet /\ f.path \in memo
        /\ source \in Sources /\ memo \subseteq Readable
    BY <2>1, PopFrames DEF PInv, Types, Parsed, WholeInv, IsFrames
  <2>3. f.done \in Nat  BY <2>2 DEF FrameSet
  <2>4. Len(source[f.path]) \in Nat /\ f.done < Len(source[f.path])
    BY <2>1, <2>2, ContentIsNames DEF Content
  <2>h. HIDE DEF f
  <2>5. f.done + 1 \in 1 .. Len(source[f.path])  BY <2>3, <2>4
  <2>6. Search(Content(f.path)[f.done + 1], DirOf[f.path]) = Wanted[f.path][f.done + 1]
    BY <2>2, <2>5, ContentIsNames
  <2>7. \E q \in memo : \E i \in 1 .. Len(source[q]) :
          Search(Content(f.path)[f.done + 1], DirOf[f.path]) = Wanted[q][i]
    BY <2>2, <2>5, <2>6
  <2> QED  BY <2>1, <2>7, CircleCall
<1>3. CASE Return  BY <1>3, CircleReturn
<1>4. CASE CircleDetect
  <2>1. UNCHANGED <<batch, source, memo, refs>> /\ phase = "parsed"
    BY <1>4 DEF CircleDetect, parsing
  <2>2. Wanted' = Wanted /\ Root' = Root  BY <2>1, WantedIsFixed, RootIsFixed
  <2>3. reader = "none" /\ Root \in Paths  BY <2>1 DEF PInv, Types, Parsed
  <2>4. CASE SearchCircle(refs, Root) # <<>>
    <3>1. phase' = "circle" /\ reader' = "none"  BY <1>4, <2>3, <2>4 DEF CircleDetect, walking
    <3>2. SearchCircle(refs, Root)' # <<>>
      BY <2>1, <2>2, <2>4, SearchIsSearched
    <3> QED  BY <2>1, <2>2, <2>3, <3>1, <3>2 DEF CircleInv
  <2>5. CASE SearchCircle(refs, Root) = <<>>
    <3>1. phase' = "walking"  BY <1>4, <2>5 DEF CircleDetect
    <3>2. NoCircle(refs)  BY <2>1, <2>5, LookedAtAll
    <3> QED  BY <2>1, <2>2, <3>1, <3>2 DEF CircleInv
  <2> QED  BY <2>4, <2>5
<1>5. CASE Walking \/ GiveUp
  <2>1. /\ UNCHANGED <<batch, source, memo, refs>> /\ phase' # "circle" /\ reader # "none"
    <3>1. CASE DfsInclude
      <4>1. UNCHANGED <<batch, source, memo, refs, phase>> /\ walk # <<>>
        BY <3>1 DEF DfsInclude, parsing
      <4>2. reader # "none"  BY <4>1 DEF PInv, Parsed
      <4> QED  BY <4>1, <4>2 DEF CircleInv
    <3>2. CASE Send
      <4>1. UNCHANGED <<batch, source, memo, refs, phase>> /\ reader = "reading"
        BY <3>2 DEF Send, parsing
      <4> QED  BY <4>1 DEF CircleInv
    <3>3. CASE SeeClosed \/ GiveUp  BY <3>3 DEF SeeClosed, GiveUp, parsing
    <3> QED  BY <1>5, <3>1, <3>2, <3>3 DEF Walking
  <2>2. Wanted' = Wanted /\ Root' = Root  BY <2>1, WantedIsFixed, RootIsFixed
  <2> QED  BY <2>1, <2>2 DEF CircleInv
<1>6. CASE UNCHANGED includeVars
  <2>1. UNCHANGED <<batch, source, memo, refs, phase, reader>>
    BY <1>6 DEF includeVars, parsing, walking
  <2>2. Wanted' = Wanted /\ Root' = Root  BY <2>1, WantedIsFixed, RootIsFixed
  <2> QED  BY <2>1, <2>2 DEF CircleInv
<1> QED  BY <1>1, <1>2, <1>3, <1>4, <1>5, <1>6 DEF IncludeNext, Parsing, Walking

LEMMA CircleAlways == IncludeSpec => [](PInv /\ WholeInv /\ CircleInv)
<1>1. Init => PInv /\ WholeInv /\ CircleInv  BY PInvInit, WholeInit, CircleInit
<1>2. PInv /\ WholeInv /\ CircleInv /\ [IncludeNext]_includeVars
      => PInv' /\ WholeInv' /\ CircleInv'
  BY PInvStep, WholeStep, CircleStep
<1>h. HIDE DEF PInv, WholeInv, CircleInv
<1> QED  BY <1>1, <1>2, PTL DEF IncludeSpec

\* For all contents of files: what CircleDetect reports is a circle, and when
\* it reports none, no IDL that was parsed includes itself, through however
\* many others.
THEOREM CirclesAreReported == IncludeSpec => []CirclesAreFound
<1>1. PInv /\ WholeInv /\ CircleInv => CirclesAreFound
  <2> SUFFICES ASSUME PInv, WholeInv, CircleInv PROVE CirclesAreFound  OBVIOUS
  <2>1. /\ refs \in [Paths -> Seq(Paths)] /\ memo \subseteq Paths
        /\ IsFrames(walk) /\ sent \in Seq(Paths)
    BY DEF PInv, Types
  <2>2. ASSUME phase = "circle" PROVE IsCircle(SearchCircle(refs, Root))
    <3>1. Root \in Paths /\ SearchCircle(refs, Root) # <<>>  BY <2>2 DEF CircleInv
    <3> QED  BY <2>1, <3>1, FoundIsLoop, LoopIsCircle
  <2>3. ASSUME reader # "none", NEW p \in memo
        PROVE  p \notin Reached(p, Len(sent) + Len(walk) + 4)
    <3>1. NoCircle(refs)  BY <2>3 DEF CircleInv
    <3>2. Len(sent) + Len(walk) + 4 \in Nat
      <4>1. Len(sent) \in Nat /\ Len(walk) \in Nat  BY <2>1 DEF IsFrames
      <4> QED  BY <4>1
    <3>3. Depth(refs) \in [Paths -> Nat] /\ Ranks(Depth(refs), refs)
      BY <2>1, <3>1, DepthType, DepthIsRank
    <3> QED  BY <2>1, <3>2, <3>3, ReachedIsLower
  <2> QED  BY <2>2, <2>3 DEF CirclesAreFound
<1>h. HIDE DEF PInv, WholeInv, CircleInv, CirclesAreFound
<1> QED  BY <1>1, CircleAlways, PTL

\* The walk is in order, with the rank that the includes have.
OrderInv == WInv(Depth(refs))

LEMMA OrderStep ==
  ASSUME PInv, CircleInv, CircleInv', OrderInv, [IncludeNext]_includeVars PROVE OrderInv'
<1>1. CASE Parsing
  <2>1. UNCHANGED walking /\ phase \in {"parsing", "parsed"}
    BY <1>1 DEF Parsing, ParseMain, ParseInclude, Return
  <2>2. walk' = <<>> /\ sent' = <<>> /\ seen' = {}
    BY <2>1 DEF PInv, Parsed, walking
  <2> QED  BY <2>2, NothingYet DEF OrderInv, WInv
<1>2. CASE ~Parsing
  <2>1. refs' = refs
    BY <1>2 DEF IncludeNext, CircleDetect, Walking, DfsInclude, Send, SeeClosed, GiveUp, includeVars
  <2>2. PICK r : r = Depth(refs)  OBVIOUS
  <2>3. refs \in [Paths -> Seq(Paths)]  BY DEF PInv, Types
  <2>4. r \in [Paths -> Nat]  BY <2>2, <2>3, DepthType
  <2>5. Ranked(r)  BY <2>2, <2>3, DepthIsRank DEF Ranked, CircleInv
  <2>6. Ranked(r)'
    <3>1. ASSUME reader' # "none" PROVE Ranks(r, refs')
      <4>1. NoCircle(refs)  BY <2>1, <3>1 DEF CircleInv
      <4> QED  BY <2>1, <2>2, <2>3, <4>1, DepthIsRank
    <3> QED  BY <3>1 DEF Ranked
  <2>7. WInv(r)  BY <2>2 DEF OrderInv
  <2>8. WInv(r)'  BY <2>4, <2>5, <2>6, <2>7, WInvStep
  <2> QED  BY <2>1, <2>2, <2>8 DEF OrderInv, WInv
<1> QED  BY <1>1, <1>2

\* For all contents of files: the caller of DepthFirstSearch receives an IDL
\* once and after all that it includes, wherever it stops.
THEOREM WalkIsInOrder == IncludeSpec => []IncludesComeFirst
<1>1. Init => OrderInv
  <2>1. Init => walk = <<>> /\ sent = <<>> /\ seen = {}  BY DEF Init
  <2> QED  BY <2>1, NothingYet DEF OrderInv, WInv
<1>2. PInv /\ CircleInv /\ CircleInv' /\ OrderInv /\ [IncludeNext]_includeVars
      => OrderInv'
  BY OrderStep
<1>3. OrderInv => IncludesComeFirst  BY OrderIsInOrder DEF OrderInv, WInv, Good
<1>h. HIDE DEF PInv, WholeInv, CircleInv, OrderInv, IncludesComeFirst
<1> QED  BY <1>1, <1>2, <1>3, CircleAlways, PTL DEF IncludeSpec
-----------------------------------------------------------------------------
(***************************************************************************)
(* Compression keeps one reference to every IDL but the main one.          *)
(***************************************************************************)
\* The tree that was parsed: closed, without a circle, and led to by the root.
Tree(rf, m, root) ==
  /\ rf \in [Paths -> Seq(Paths)] /\ m \in SUBSET Paths /\ root \in m
  /\ Closed(rf, m)
  /\ \A C \in SUBSET m : root \in C /\ Closed(rf, C) => C = m

\* References of some IDLs, and those that the calls w of compressThriftInclude
\* have behind them.
EdgesOf(rf, P) == {e \in Paths \X Nat : e[1] \in P /\ e[2] \in DOMAIN rf[e[1]]}
Behind(rf, P, w) ==
  {e \in EdgesOf(rf, P) : \A j \in DOMAIN w : w[j].path = e[1] => e[2] <= w[j].done}
Lead(rf, e) == rf[e[1]][e[2]]

\* The calls w, the IDLs K of which a reference was kept, the stubs st.
CallsAre(rf, P, w) ==
  /\ IsFrames(w)
  /\ \A j \in DOMAIN w : w[j].path \in P /\ w[j].done <= Len(rf[w[j].path])
  /\ \A i, j \in DOMAIN w : w[i].path = w[j].path => i = j
KeptOnce(rf, K, B, st) ==
  /\ st \subseteq B
  /\ \A e \in B : Lead(rf, e) \in K
  /\ \A v \in K : \E e \in B \ st : Lead(rf, e) = v
  /\ \A e, f \in B \ st : Lead(rf, e) = Lead(rf, f) => e = f
Pressed(rf, r, root, w, K, st) ==
  /\ CallsAre(rf, K \union {root}, w)
  /\ KeptOnce(rf, K, Behind(rf, K \union {root}, w), st)
  /\ \A v \in K : r[v] < r[root]

\* The reference the top of the calls is at.
RefAt(w) == <<Top(w).path, Top(w).done + 1>>

LEMMA AtReference ==
  ASSUME NEW rf \in [Paths -> Seq(Paths)], NEW P \in SUBSET Paths, NEW w,
         CallsAre(rf, P, w), w # <<>>, ~ (Top(w).done >= Len(rf[Top(w).path]))
  PROVE  /\ RefAt(w) \in EdgesOf(rf, P)
         /\ CallsAre(rf, P, Advance(w))
         /\ Behind(rf, P, Advance(w)) = Behind(rf, P, w) \union {RefAt(w)}
         /\ RefAt(w) \notin Behind(rf, P, w)
<1> DEFINE n == Len(w)
           e == RefAt(w)
           a == Advance(w)
<1>1. /\ IsFrames(w) /\ n \in Nat \ {0} /\ DOMAIN w = 1 .. n /\ Top(w) = w[n]
      /\ n \in DOMAIN w /\ w[n] \in FrameSet
  BY PopFrames DEF CallsAre, IsFrames
<1>2. /\ IsFrames(a) /\ DOMAIN a = DOMAIN w
      /\ \A i \in DOMAIN w : a[i].path = w[i].path
      /\ \A i \in DOMAIN w : i # n => a[i].done = w[i].done
      /\ a[n].done = w[n].done + 1
  <2>1. /\ IsFrames(a) /\ Len(a) = n /\ \A i \in 1 .. n : a[i].path = w[i].path
        /\ \A i \in 1 .. n - 1 : a[i] = w[i]
        /\ a[n].done = w[n].done + 1
    BY <1>1, AdvanceFrames
  <2>2. DOMAIN a = 1 .. n  BY <2>1 DEF IsFrames
  <2> HIDE DEF a
  <2>3. \A i \in DOMAIN w : i # n => i \in 1 .. n - 1  BY <1>1
  <2> QED  BY <1>1, <2>1, <2>2, <2>3
<1>3. w[n].done \in Nat /\ w[n].path \in P /\ w[n].path \in Paths /\ rf[w[n].path] \in Seq(Paths)
  BY <1>1 DEF FrameSet, CallsAre
<1>4. w[n].done + 1 \in DOMAIN rf[w[n].path] /\ w[n].done + 1 <= Len(rf[w[n].path])
  <2> DEFINE d == w[n].done
             l == rf[w[n].path]
  <2>1. d \in Nat /\ l \in Seq(Paths) /\ ~ (d >= Len(l))  BY <1>1, <1>3
  <2> HIDE DEF d, l
  <2>2. d + 1 \in DOMAIN l /\ d + 1 <= Len(l)  BY <2>1
  <2> QED  BY <2>2 DEF d, l
<1>5. e[1] = w[n].path /\ e[2] = w[n].done + 1 /\ e = <<e[1], e[2]>> /\ e \in Paths \X Nat
  BY <1>1, <1>3 DEF RefAt
<1>6. e \in EdgesOf(rf, P)  BY <1>3, <1>4, <1>5 DEF EdgesOf
<1>7. CallsAre(rf, P, a)  BY <1>1, <1>2, <1>4 DEF CallsAre
<1> HIDE DEF a, n, e
<1>8. e \notin Behind(rf, P, w)
  <2>1. ~ (w[n].done + 1 <= w[n].done)  BY <1>3
  <2> QED  BY <1>1, <1>5, <2>1 DEF Behind
<1>9. ASSUME NEW x \in EdgesOf(rf, P)
      PROVE  x \in Behind(rf, P, a) <=> x \in Behind(rf, P, w) \/ x = e
  <2>1. x[2] \in Nat /\ x = <<x[1], x[2]>>  BY DEF EdgesOf
  <2>2. CASE x[1] = w[n].path
    <3>1. \A j \in DOMAIN w : w[j].path = x[1] <=> j = n  BY <1>1, <2>2 DEF CallsAre
    <3>2. x \in Behind(rf, P, w) <=> x[2] <= w[n].done  BY <1>1, <3>1 DEF Behind
    <3>3. x \in Behind(rf, P, a) <=> x[2] <= w[n].done + 1
      BY <1>1, <1>2, <3>1, SMTT(30) DEF Behind
    <3>4. x = e <=> x[2] = w[n].done + 1  BY <1>5, <2>1, <2>2
    <3> QED  BY <1>3, <2>1, <3>2, <3>3, <3>4
  <2>3. CASE x[1] # w[n].path
    <3>1. x \in Behind(rf, P, a) <=> x \in Behind(rf, P, w)
      BY <1>2, <2>3 DEF Behind
    <3> QED  BY <1>5, <2>3, <3>1
  <2> QED  BY <2>2, <2>3
<1>10. Behind(rf, P, a) = Behind(rf, P, w) \union {e}
  BY <1>6, <1>9 DEF Behind
<1> QED  BY <1>6, <1>7, <1>8, <1>10 DEF a, e

\* A reference to an IDL of which one was kept becomes a stub.
LEMMA PressStub ==
  ASSUME NEW rf \in [Paths -> Seq(Paths)], NEW r, NEW root \in Paths, NEW K \in SUBSET Paths,
         NEW w, NEW st, Pressed(rf, r, root, w, K, st),
         w # <<>>, ~ (Top(w).done >= Len(rf[Top(w).path])),
         NEW e, e = RefAt(w), Lead(rf, e) \in K
  PROVE  Pressed(rf, r, root, Advance(w), K, st \union {e})
<1> DEFINE P == K \union {root}
           B == Behind(rf, P, w)
           C == Behind(rf, P, Advance(w))
<1>1. P \in SUBSET Paths /\ CallsAre(rf, P, w)  BY DEF Pressed
<1>2. CallsAre(rf, P, Advance(w)) /\ C = B \union {e} /\ e \notin B
  BY <1>1, AtReference
<1>3. KeptOnce(rf, K, B, st)  BY DEF Pressed
<1>4. KeptOnce(rf, K, C, st \union {e})
  <2> HIDE DEF B, C
  <2>1. C \ (st \union {e}) = B \ st  BY <1>2
  <2> QED  BY <1>2, <1>3, <2>1 DEF KeptOnce
<1> QED  BY <1>2, <1>4 DEF Pressed

\* The first reference to an IDL is kept, and the IDL is gone on from.
LEMMA PressKeep ==
  ASSUME NEW rf \in [Paths -> Seq(Paths)], NEW r \in [Paths -> Nat], Ranks(r, rf),
         NEW root \in Paths, NEW K \in SUBSET Paths,
         NEW w, NEW st, Pressed(rf, r, root, w, K, st),
         w # <<>>, ~ (Top(w).done >= Len(rf[Top(w).path])),
         NEW e, e = RefAt(w), NEW p, p = Lead(rf, e), p \notin K
  PROVE  Pressed(rf, r, root, Append(Advance(w), Frame(p, 0)), K \union {p}, st)
<1> DEFINE P == K \union {root}
           Q == (K \union {p}) \union {root}
           B == Behind(rf, P, w)
           a == Advance(w)
           u == Append(a, Frame(p, 0))
           C == Behind(rf, Q, u)
<1>1. P \in SUBSET Paths /\ CallsAre(rf, P, w) /\ \A v \in K : r[v] < r[root]
  BY DEF Pressed
<1>2. /\ e \in EdgesOf(rf, P) /\ CallsAre(rf, P, a) /\ e \notin B
      /\ Behind(rf, P, a) = B \union {e}
  BY <1>1, AtReference
<1>3. /\ e[1] \in P /\ e[1] \in Paths /\ e[2] \in DOMAIN rf[e[1]] /\ rf[e[1]] \in Seq(Paths)
  BY <1>1, <1>2 DEF EdgesOf
<1>4. p \in Paths /\ r[p] < r[e[1]]  BY <1>3, SMTT(30) DEF Lead, Ranks
<1>5. r[p] < r[root]
  <2>1. e[1] = root \/ r[e[1]] < r[root]  BY <1>1, <1>3
  <2>2. r[p] \in Nat /\ r[e[1]] \in Nat /\ r[root] \in Nat  BY <1>3, <1>4
  <2> QED  BY <1>4, <2>1, <2>2
<1>6. p # root /\ p \notin P
  <2>1. r[root] \in Nat  OBVIOUS
  <2> QED  BY <1>5, <2>1
<1>7. /\ IsFrames(u) /\ Len(a) \in Nat /\ DOMAIN a = 1 .. Len(a) /\ DOMAIN u = 1 .. Len(a) + 1
      /\ \A i \in 1 .. Len(a) : u[i] = a[i]
      /\ u[Len(a) + 1].path = p /\ u[Len(a) + 1].done = 0
  <2>1. IsFrames(a)  BY <1>2 DEF CallsAre
  <2> HIDE DEF a
  <2>2. /\ IsFrames(u) /\ Len(u) = Len(a) + 1 /\ Len(a) \in Nat
        /\ \A i \in 1 .. Len(a) : u[i] = a[i]
        /\ u[Len(a) + 1] = Frame(p, 0) /\ Frame(p, 0).path = p /\ Frame(p, 0).done = 0
    BY <1>4, <2>1, PushFrames
  <2>3. DOMAIN a = 1 .. Len(a) /\ DOMAIN u = 1 .. Len(u)  BY <2>1, <2>2 DEF IsFrames
  <2> QED  BY <2>2, <2>3
<1> DEFINE z == Len(a) + 1
<1>14. /\ \A i \in DOMAIN u : i \in DOMAIN a \/ i = z
       /\ \A i \in DOMAIN a : i \in DOMAIN u /\ u[i] = a[i]
       /\ z \in DOMAIN u /\ u[z].path = p /\ u[z].done = 0
  <2> HIDE DEF a, u
  <2> QED  BY <1>7
<1> HIDE DEF a, u, z
<1>8. CallsAre(rf, Q, u)
  <2>1. rf[p] \in Seq(Paths) /\ 0 <= Len(rf[p])  BY <1>4
  <2>2. ASSUME NEW j \in DOMAIN u PROVE u[j].path \in Q /\ u[j].done <= Len(rf[u[j].path])
    <3>1. CASE j = z  BY <1>14, <2>1, <3>1
    <3>2. CASE j \in DOMAIN a  BY <1>2, <1>14, <3>2 DEF CallsAre
    <3> QED  BY <1>14, <3>1, <3>2
  <2>3. ASSUME NEW i \in DOMAIN u, NEW j \in DOMAIN u, u[i].path = u[j].path PROVE i = j
    <3>1. \A k \in DOMAIN a : u[k].path # p
      BY <1>2, <1>6, <1>14 DEF CallsAre
    <3>2. CASE i \in DOMAIN a /\ j \in DOMAIN a
      BY <1>2, <1>14, <2>3, <3>2 DEF CallsAre
    <3>3. CASE i = z \/ j = z
      BY <1>14, <2>3, <3>1, <3>3
    <3> QED  BY <1>14, <3>2, <3>3
  <2> QED  BY <1>7, <2>2, <2>3 DEF CallsAre
<1>9. C = B \union {e}
  <2>1. ASSUME NEW x \in Paths \X Nat PROVE x \in C <=> x \in Behind(rf, P, a)
    <3>1. CASE x[1] = p
      <4>2. x \in C => x[2] <= 0  BY <1>14, <3>1 DEF Behind
      <4>3. x \in C => x[2] >= 1
        <5>1. rf[p] \in Seq(Paths)  BY <1>4
        <5>2. x \in C => x[2] \in DOMAIN rf[p]  BY <3>1 DEF Behind, EdgesOf
        <5> QED  BY <5>1, <5>2
      <4>4. x[2] \in Nat  OBVIOUS
      <4>5. x \notin C  BY <4>2, <4>3, <4>4
      <4>6. x \notin Behind(rf, P, a)  BY <1>6, <3>1 DEF Behind, EdgesOf
      <4> QED  BY <4>5, <4>6
    <3>2. CASE x[1] # p
      <4>1. x[1] \in P <=> x[1] \in Q  BY <3>2
      <4>2. (\A j \in DOMAIN u : u[j].path = x[1] => x[2] <= u[j].done)
            <=> (\A j \in DOMAIN a : a[j].path = x[1] => x[2] <= a[j].done)
        BY <1>14, <3>2
      <4> QED  BY <4>1, <4>2 DEF Behind, EdgesOf
    <3> QED  BY <3>1, <3>2
  <2>2. C \subseteq Paths \X Nat /\ Behind(rf, P, a) \subseteq Paths \X Nat
    BY DEF Behind, EdgesOf
  <2>3. C = Behind(rf, P, a)  BY <2>1, <2>2
  <2> QED  BY <1>2, <2>3
<1>10. KeptOnce(rf, K, B, st)  BY DEF Pressed
<1> HIDE DEF B, C
<1>11. KeptOnce(rf, K \union {p}, C, st)
  <2>1. C \ st = (B \ st) \union {e}  BY <1>2, <1>9, <1>10 DEF KeptOnce
  <2>2. \A x \in B : Lead(rf, x) \in K /\ Lead(rf, x) # p  BY <1>10 DEF KeptOnce
  <2>3. \A v \in K \union {p} : \E x \in C \ st : Lead(rf, x) = v
    BY <1>10, <2>1 DEF KeptOnce
  <2>4. \A x, y \in C \ st : Lead(rf, x) = Lead(rf, y) => x = y
    BY <1>10, <2>1, <2>2 DEF KeptOnce
  <2>5. st \subseteq C /\ \A x \in C : Lead(rf, x) \in K \union {p}
    BY <1>9, <1>10 DEF KeptOnce
  <2> QED  BY <2>3, <2>4, <2>5 DEF KeptOnce
<1>12. \A v \in K \union {p} : r[v] < r[root]  BY <1>1, <1>5
<1>13. Pressed(rf, r, root, u, K \union {p}, st)  BY <1>8, <1>11, <1>12 DEF Pressed, C
<1> QED  BY <1>13 DEF u, a

\* A call of compressThriftInclude ends.
LEMMA PressPop ==
  ASSUME NEW rf \in [Paths -> Seq(Paths)], NEW r, NEW root \in Paths, NEW K \in SUBSET Paths,
         NEW w, NEW st, Pressed(rf, r, root, w, K, st),
         w # <<>>, Top(w).done >= Len(rf[Top(w).path])
  PROVE  Pressed(rf, r, root, Pop(w), K, st)
<1> DEFINE P == K \union {root}
           n == Len(w)
           u == Pop(w)
<1>1. CallsAre(rf, P, w) /\ IsFrames(w)  BY DEF Pressed, CallsAre
<1>2. /\ IsFrames(u) /\ n \in Nat \ {0} /\ DOMAIN w = 1 .. n /\ DOMAIN u = 1 .. n - 1
      /\ \A i \in 1 .. n - 1 : u[i] = w[i]
      /\ Top(w) = w[n] /\ w[n] \in FrameSet
  <2>1. IsFrames(u) /\ Len(u) = n - 1 /\ n \in Nat \ {0} /\ Top(w) = w[n] /\ Top(w) \in FrameSet
        /\ \A i \in 1 .. n - 1 : u[i] = w[i]
    BY <1>1, PopFrames
  <2>2. DOMAIN w = 1 .. n /\ DOMAIN u = 1 .. Len(u)  BY <1>1, <2>1 DEF IsFrames
  <2> QED  BY <2>1, <2>2
<1>7. /\ \A i \in DOMAIN u : i \in DOMAIN w /\ u[i] = w[i]
      /\ \A i \in DOMAIN w : i = n \/ i \in DOMAIN u
      /\ n \in DOMAIN w
  <2> HIDE DEF u, n
  <2> QED  BY <1>2
<1> HIDE DEF u, n, P
<1>3. CallsAre(rf, P, u)  BY <1>1, <1>2, <1>7 DEF CallsAre
<1>4. ASSUME NEW x \in EdgesOf(rf, P)
      PROVE  x \in Behind(rf, P, u) <=> x \in Behind(rf, P, w)
  <2>1. x[1] = w[n].path => x[2] <= w[n].done
    <3> SUFFICES ASSUME x[1] = w[n].path PROVE x[2] <= w[n].done  OBVIOUS
    <3> DEFINE l == rf[x[1]]
    <3>1. x[2] \in DOMAIN l /\ l \in Seq(Paths) /\ w[n].done \in Nat
      BY <1>2 DEF EdgesOf, FrameSet
    <3>2. w[n].done >= Len(l)  BY <1>2
    <3> HIDE DEF l
    <3> QED  BY <3>1, <3>2
  <2> QED  BY <1>7, <2>1 DEF Behind
<1>5. Behind(rf, P, u) = Behind(rf, P, w)  BY <1>4 DEF Behind
<1>6. Pressed(rf, r, root, u, K, st)  BY <1>3, <1>5 DEF Pressed, P
<1> QED  BY <1>6 DEF u

LEMMA PressFirst ==
  ASSUME NEW rf \in [Paths -> Seq(Paths)], NEW r, NEW root \in Paths
  PROVE  Pressed(rf, r, root, <<Frame(root, 0)>>, {}, {})
<1> DEFINE w == <<Frame(root, 0)>>
           B == Behind(rf, {} \union {root}, w)
<1>1. DOMAIN w = {1} /\ w[1].path = root /\ w[1].done = 0  BY DEF Frame
<1>2. IsFrames(w)  BY DEF IsFrames, Frame, FrameSet
<1>3. rf[root] \in Seq(Paths) /\ 0 <= Len(rf[root])  OBVIOUS
<1> HIDE DEF w
<1>4. CallsAre(rf, {} \union {root}, w)  BY <1>1, <1>2, <1>3 DEF CallsAre
<1>5. B = {}
  <2> SUFFICES ASSUME NEW x \in B PROVE FALSE  OBVIOUS
  <2>1. x[1] = root /\ x[2] \in DOMAIN rf[root] /\ x[2] <= 0  BY <1>1 DEF Behind, EdgesOf
  <2> QED  BY <1>3, <2>1
<1>6. KeptOnce(rf, {}, B, {})  BY <1>5 DEF KeptOnce
<1>7. Pressed(rf, r, root, w, {}, {})  BY <1>4, <1>6 DEF Pressed
<1> QED  BY <1>7 DEF w

\* When compression is over, what was kept is the tree.
LEMMA PressedAll ==
  ASSUME NEW rf, NEW m, NEW root, Tree(rf, m, root), NEW r, NEW K \in SUBSET m, NEW st,
         Pressed(rf, r, root, <<>>, K, st)
  PROVE  KeptOnce(rf, K, EdgesOf(rf, m), st) /\ K \union {root} = m /\ root \in m
<1> DEFINE P == K \union {root}
<1>1. Behind(rf, P, <<>>) = EdgesOf(rf, P)  BY DEF Behind
<1>2. KeptOnce(rf, K, EdgesOf(rf, P), st)  BY <1>1 DEF Pressed
<1>3. rf \in [Paths -> Seq(Paths)] /\ P \in SUBSET Paths /\ P \in SUBSET m /\ root \in m  BY DEF Tree
<1>4. Closed(rf, P)
  <2> SUFFICES ASSUME NEW p \in P, NEW i \in DOMAIN rf[p] PROVE rf[p][i] \in K
    BY DEF Closed
  <2>1. p \in Paths /\ i \in Nat  BY <1>3
  <2>2. <<p, i>> \in EdgesOf(rf, P)  BY <2>1 DEF EdgesOf
  <2>3. Lead(rf, <<p, i>>) \in K  BY <1>2, <2>2 DEF KeptOnce
  <2> QED  BY <2>3 DEF Lead
<1>5. P = m  BY <1>3, <1>4 DEF Tree
<1> QED  BY <1>2, <1>3, <1>5

\* The references that were kept lead to every IDL.
LEMMA KeptAreReached ==
  ASSUME NEW rf, NEW m, NEW root, Tree(rf, m, root),
         NEW r \in [Paths -> Nat], Ranks(r, rf), NEW K \in SUBSET m, NEW st,
         Pressed(rf, r, root, <<>>, K, st),
         NEW C, \A e \in EdgesOf(rf, {root} \union C) \ st : Lead(rf, e) \in C
  PROVE  K \subseteq C
<1> SUFFICES ASSUME ~ (K \subseteq C) PROVE FALSE  OBVIOUS
<1>1. KeptOnce(rf, K, EdgesOf(rf, m), st) /\ K \union {root} = m /\ m \in SUBSET Paths /\ root \in Paths
  <2>1. m \in SUBSET Paths /\ root \in Paths  BY DEF Tree
  <2> QED  BY <2>1, PressedAll
<1>2. \A v \in K : r[v] < r[root] /\ r[v] \in Nat /\ r[root] \in Nat
  BY <1>1 DEF Pressed
<1> DEFINE T == {r[root] - r[v] : v \in K \ C}
<1>3. T \subseteq Nat  BY <1>2
<1>4. T # {}  OBVIOUS
<1>5. PICK t \in T : \A u \in T : t <= u
  <2> HIDE DEF T
  <2> QED  BY ONLY <1>3, <1>4, LeastNumber
<1>6. PICK v \in K \ C : t = r[root] - r[v]  BY <1>5
<1>7. \A u \in K \ C : r[root] - r[v] <= r[root] - r[u]  BY <1>5, <1>6
<1>8. PICK e \in EdgesOf(rf, m) \ st : Lead(rf, e) = v
  BY <1>1, <1>6 DEF KeptOnce
<1>9. e[1] \in m /\ e[2] \in DOMAIN rf[e[1]] /\ e[1] \in Paths  BY <1>8 DEF EdgesOf
<1>10. r[v] < r[e[1]]  BY <1>8, <1>9 DEF Lead, Ranks
<1>11. e[1] \in {root} \union C
  <2> SUFFICES ASSUME e[1] \in K \ C PROVE FALSE  BY <1>1, <1>9
  <2> QED  BY <1>2, <1>6, <1>7, <1>10
<1>12. e \in EdgesOf(rf, {root} \union C) \ st  BY <1>8, <1>11 DEF EdgesOf
<1> QED  BY <1>6, <1>8, <1>12

LEMMA RefsAreEdges ==
  ASSUME refs \in [Paths -> Seq(Paths)], NEW P \in SUBSET Paths
  PROVE  UNION {Refs(p) : p \in P} = EdgesOf(refs, P) /\ \A e : To(e) = Lead(refs, e)
<1>1. ASSUME NEW p \in P, NEW i \in DOMAIN refs[p] PROVE p \in Paths /\ i \in Nat
  OBVIOUS
<1>2. ASSUME NEW x \in UNION {Refs(p) : p \in P} PROVE x \in EdgesOf(refs, P)
  <2>1. PICK p \in P : x \in Refs(p)  OBVIOUS
  <2>2. PICK i \in DOMAIN refs[p] : x = <<p, i>>  BY <2>1 DEF Refs
  <2> QED  BY <1>1, <2>2 DEF EdgesOf
<1>3. ASSUME NEW x \in EdgesOf(refs, P) PROVE x \in UNION {Refs(p) : p \in P}
  <2>1. x = <<x[1], x[2]>> /\ x[1] \in P /\ x[2] \in DOMAIN refs[x[1]]  BY DEF EdgesOf
  <2>2. x \in Refs(x[1])  BY <2>1 DEF Refs
  <2> QED  BY <2>1, <2>2
<1> QED  BY <1>2, <1>3 DEF To, Lead

LEMMA CollectsWhatIsKept ==
  ASSUME Tree(refs, memo, Root), NEW r \in [Paths -> Nat], Ranks(r, refs),
         kept \in SUBSET memo, Pressed(refs, r, Root, <<>>, kept, stubs)
  PROVE  kept \subseteq Collect(stubs)
<1> SUFFICES ASSUME NEW p \in kept, NEW found \in SUBSET memo,
                    Follow({Root} \union found, stubs) \subseteq found
             PROVE  p \in found
  BY DEF Collect
<1> DEFINE P == {Root} \union found
<1>1. refs \in [Paths -> Seq(Paths)] /\ P \in SUBSET Paths  BY DEF Tree
<1>2. UNION {Refs(q) : q \in P} = EdgesOf(refs, P) /\ \A e : To(e) = Lead(refs, e)
  BY <1>1, RefsAreEdges
<1>3. \A e \in EdgesOf(refs, P) \ stubs : Lead(refs, e) \in found
  <2> SUFFICES ASSUME NEW e \in EdgesOf(refs, P) \ stubs PROVE Lead(refs, e) \in found  OBVIOUS
  <2>1. e \in (UNION {Refs(q) : q \in P}) \ stubs  BY <1>2
  <2>2. To(e) \in Follow(P, stubs)  BY <2>1 DEF Follow
  <2> QED  BY <1>2, <2>2
<1>4. kept \subseteq found
  <2>1. PICK root : root = Root  OBVIOUS
  <2> QED  BY <1>3, <2>1, KeptAreReached, SMTT(30)
<1> QED  BY <1>4

LEMMA CollectsTheTree ==
  ASSUME Tree(refs, memo, Root) PROVE memo \subseteq {Root} \union Collect({})
<1> SUFFICES ASSUME NEW p \in memo, p # Root, NEW found \in SUBSET memo,
                    Follow({Root} \union found, {}) \subseteq found
             PROVE  p \in found
  BY DEF Collect
<1> DEFINE P == {Root} \union found
<1>1. refs \in [Paths -> Seq(Paths)] /\ P \in SUBSET memo /\ P \in SUBSET Paths  BY DEF Tree
<1>2. Closed(refs, P)
  <2> SUFFICES ASSUME NEW q \in P, NEW i \in DOMAIN refs[q] PROVE refs[q][i] \in found
    BY DEF Closed
  <2>1. <<q, i>> \in UNION {Refs(x) : x \in P}  BY DEF Refs
  <2>2. To(<<q, i>>) \in found  BY <2>1 DEF Follow
  <2> QED  BY <2>2 DEF To
<1>3. P = memo  BY <1>1, <1>2 DEF Tree
<1> QED  BY <1>3

\* decompressThriftInclude puts every reference back for which it has the IDL.
LEMMA RestoresAll ==
  ASSUME Tree(refs, memo, Root), stubs \subseteq EdgesOf(refs, memo),
         NEW m, \A e \in stubs : Lead(refs, e) \in m
  PROVE  Restored(stubs, m) = {}
<1>1. \A e \in stubs : e[1] \in memo  BY DEF EdgesOf
<1>2. memo \subseteq {Root} \union Collect({})  BY CollectsTheTree
<1>3. \A e \in stubs : To(e) \in m  BY DEF To, Lead
<1> QED  BY <1>1, <1>2, <1>3 DEF Restored

LEMMA TreeOfParser ==
  ASSUME PInv, WholeInv, CircleInv, reader # "none"
  PROVE  /\ Tree(refs, memo, Root)
         /\ Depth(refs) \in [Paths -> Nat] /\ Ranks(Depth(refs), refs)
<1>1. refs \in [Paths -> Seq(Paths)] /\ memo \in SUBSET Paths  BY DEF PInv, Types
<1>2. stack = <<>> /\ memo # {} /\ Whole(source, Wanted, memo, refs, stack)  BY DEF WholeInv
<1>3. Root \in memo  BY <1>2 DEF PInv, Parsed
<1>4. \A p \in memo : SetTo(source, Wanted, memo, refs, p, Len(source[p]))
  BY <1>2 DEF Whole, PathsOf
<1>5. Closed(refs, memo)  BY <1>4 DEF Closed, SetTo
<1>6. ASSUME NEW C \in SUBSET memo, Root \in C, Closed(refs, C) PROVE C = memo
  <2>1. LeadsOn(source, Wanted, memo, C)
    <3> SUFFICES ASSUME NEW p \in C, NEW i \in 1 .. Len(source[p]) PROVE Wanted[p][i] \in C
      BY DEF LeadsOn
    <3>1. i \in DOMAIN refs[p] /\ refs[p][i] = Wanted[p][i]  BY <1>4 DEF SetTo
    <3> QED  BY <1>6, <3>1 DEF Closed
  <2>2. C \in SUBSET Paths  BY <1>1
  <2>3. memo \subseteq C  BY <1>6, <2>1, <2>2 DEF CircleInv, Reaches
  <2> QED  BY <2>3
<1>7. Tree(refs, memo, Root)  BY <1>1, <1>3, <1>5, <1>6 DEF Tree
<1>8. NoCircle(refs)  BY DEF CircleInv
<1> QED  BY <1>1, <1>7, <1>8, DepthType, DepthIsRank

\* Between two calls nothing is a stub, and a plugin is called when the IDLs
\* have been handed out; what was kept and what became a stub is known at
\* every step of compressThriftInclude and until it is undone.
CallInv ==
  /\ phase \in {"walking", "walked"} => reader # "none"
  /\ step # "idle" => reader # "none"
  /\ seenBy = {}
  /\ step = "compressing" => trailer
  /\ step = "idle" \/ ~trailer => stubs = {}
  /\ step # "idle" /\ trailer =>
       /\ kept \in SUBSET memo
       /\ step # "compressing" => visits = <<>>
       /\ Pressed(refs, Depth(refs), Root, visits, kept, stubs)

LEMMA CallInvInit == CallInit => CallInv
BY DEF CallInit, Init, CallInv

\* Once the caller has begun to read, the tree stays.
LEMMA TreeStays ==
  ASSUME PInv, [IncludeNext]_includeVars, phase \in {"walking", "walked"} => reader # "none"
  PROVE  /\ phase' \in {"walking", "walked"} => reader' # "none"
         /\ reader # "none" =>
              /\ reader' # "none" /\ UNCHANGED <<batch, source, memo, refs>>
              /\ Root' = Root
<1>1. CASE Parsing
  <2>1. phase = "parsing" /\ phase' \in {"parsing", "parsed", "failed"} /\ UNCHANGED walking
    BY <1>1 DEF Parsing, ParseMain, ParseInclude, Return, Call, Parse, Known, Fail
  <2> QED  BY <2>1 DEF PInv, Parsed, walking
<1>2. CASE CircleDetect
  <2>1. phase = "parsed" /\ (phase' = "circle" \/ reader' = "reading")
    BY <1>2 DEF CircleDetect
  <2> QED  BY <2>1 DEF PInv, Parsed
<1>3. CASE Walking \/ GiveUp \/ UNCHANGED includeVars
  <2>1. UNCHANGED <<batch, source, memo, refs>>
    BY <1>3 DEF Walking, DfsInclude, Send, SeeClosed, GiveUp, parsing, includeVars
  <2>2. UNCHANGED <<phase, reader>> \/ reader' \in {"gone", "done"}
    BY <1>3 DEF Walking, DfsInclude, Send, SeeClosed, GiveUp, parsing, walking, includeVars
  <2> QED  BY <2>1, <2>2, RootIsFixed
<1> QED  BY <1>1, <1>2, <1>3 DEF IncludeNext

LEMMA CompressIncludeKeeps ==
  ASSUME PInv, WholeInv, CircleInv, CallInv, CompressInclude PROVE CallInv'
<1>1. /\ step = "compressing" /\ visits # <<>> /\ ~Waiting(visits)
      /\ UNCHANGED <<step, trailer, seenBy, refs, memo, phase, reader>> /\ Root' = Root
  BY RootIsFixed DEF CompressInclude, includeVars, parsing, walking
<1>2. /\ reader # "none" /\ trailer /\ kept \in SUBSET memo
      /\ Pressed(refs, Depth(refs), Root, visits, kept, stubs)
  BY <1>1 DEF CallInv
<1>3. Tree(refs, memo, Root) /\ Depth(refs) \in [Paths -> Nat] /\ Ranks(Depth(refs), refs)
  BY <1>2, TreeOfParser
<1>4. /\ refs \in [Paths -> Seq(Paths)] /\ memo \in SUBSET Paths /\ Root \in memo
      /\ Closed(refs, memo) /\ Root \in Paths /\ kept \in SUBSET Paths
  BY <1>2, <1>3 DEF Tree
<1>5. ~ (Top(visits).done >= Len(refs[Top(visits).path]))  BY <1>1 DEF Waiting
<1> DEFINE e == RefAt(visits)
           p == To(e)
           r == Depth(refs)
<1>6. p = Lead(refs, e)  BY DEF To, Lead
<1>7. p \in memo
  <2> DEFINE P == kept \union {Root}
  <2>1. P \in SUBSET Paths /\ P \in SUBSET memo /\ CallsAre(refs, P, visits)
    BY <1>2, <1>4 DEF Pressed
  <2>2. e \in EdgesOf(refs, P)
    <3> HIDE DEF P
    <3> QED  BY <1>1, <1>4, <1>5, <2>1, AtReference
  <2> QED  BY <1>4, <1>6, <2>1, <2>2 DEF EdgesOf, Lead, Closed
<1> HIDE DEF p, r
<1>8. CASE p \in kept
  <2>1. stubs' = stubs \union {e} /\ visits' = Advance(visits) /\ kept' = kept
    BY <1>8 DEF CompressInclude, RefAt, p
  <2>2. Pressed(refs, r, Root, Advance(visits), kept, stubs \union {e})
    BY <1>1, <1>2, <1>4, <1>5, <1>6, <1>8, PressStub DEF r
  <2> QED  BY <1>1, <1>2, <2>1, <2>2 DEF CallInv, r
<1>9. CASE p \notin kept
  <2>1. /\ kept' = kept \union {p} /\ stubs' = stubs
        /\ visits' = Append(Advance(visits), Frame(p, 0))
    BY <1>9 DEF CompressInclude, RefAt, p
  <2>2. Pressed(refs, r, Root, Append(Advance(visits), Frame(p, 0)), kept \union {p}, stubs)
    BY <1>1, <1>2, <1>3, <1>4, <1>5, <1>6, <1>9, PressKeep DEF r
  <2> QED  BY <1>1, <1>2, <1>7, <2>1, <2>2 DEF CallInv, r
<1> QED  BY <1>8, <1>9

LEMMA CompressReturnKeeps ==
  ASSUME PInv, WholeInv, CircleInv, CallInv, CompressReturn PROVE CallInv'
<1>1. /\ step = "compressing" /\ visits # <<>> /\ Top(visits).done >= Len(refs[Top(visits).path])
      /\ visits' = Pop(visits) /\ step' \in {"compressing", "marshalled"}
      /\ step' # "compressing" => visits' = <<>>
      /\ UNCHANGED <<trailer, kept, stubs, seenBy, refs, memo, phase, reader>> /\ Root' = Root
  BY RootIsFixed DEF CompressReturn, Waiting, includeVars, parsing, walking
<1>2. /\ reader # "none" /\ trailer /\ kept \in SUBSET memo
      /\ Pressed(refs, Depth(refs), Root, visits, kept, stubs)
  BY <1>1 DEF CallInv
<1>3. Tree(refs, memo, Root)  BY <1>2, TreeOfParser
<1>4. refs \in [Paths -> Seq(Paths)] /\ Root \in Paths /\ kept \in SUBSET Paths
  BY <1>2, <1>3 DEF Tree
<1>5. Pressed(refs, Depth(refs), Root, Pop(visits), kept, stubs)
  BY <1>1, <1>2, <1>4, PressPop
<1> QED  BY <1>1, <1>2, <1>5 DEF CallInv

\* With the calls done, both tables undo all stubs.
LEMMA AllComeBack ==
  ASSUME PInv, WholeInv, CircleInv, CallInv, step # "idle", step # "compressing", trailer
  PROVE  /\ Restored(stubs, kept) = {} /\ Restored(stubs, Collect(stubs)) = {}
         /\ KeptOnce(refs, kept, EdgesOf(refs, memo), stubs) /\ kept \union {Root} = memo
         /\ kept \subseteq Collect(stubs)
<1>1. /\ reader # "none" /\ kept \in SUBSET memo
      /\ Pressed(refs, Depth(refs), Root, <<>>, kept, stubs)
  BY DEF CallInv
<1>2. Tree(refs, memo, Root) /\ Depth(refs) \in [Paths -> Nat] /\ Ranks(Depth(refs), refs)
  BY <1>1, TreeOfParser
<1>3. PICK root : root = Root  OBVIOUS
<1>4. KeptOnce(refs, kept, EdgesOf(refs, memo), stubs) /\ kept \union {Root} = memo
  BY <1>1, <1>2, <1>3, PressedAll
<1>5. kept \subseteq Collect(stubs)  BY <1>1, <1>2, CollectsWhatIsKept
<1>6. stubs \subseteq EdgesOf(refs, memo) /\ \A e \in stubs : Lead(refs, e) \in kept
  BY <1>4 DEF KeptOnce
<1>7. Restored(stubs, kept) = {}  BY <1>2, <1>6, RestoresAll
<1>8. \A e \in stubs : Lead(refs, e) \in Collect(stubs)  BY <1>5, <1>6
<1>9. Restored(stubs, Collect(stubs)) = {}
  <2>1. PICK m : m = Collect(stubs)  OBVIOUS
  <2> QED  BY <1>2, <1>6, <1>8, <2>1, RestoresAll
<1> QED  BY <1>4, <1>5, <1>7, <1>9

LEMMA NothingToRestore == ASSUME NEW m PROVE Restored({}, m) = {}
BY DEF Restored

LEMMA CallInvStep ==
  ASSUME PInv, WholeInv, CircleInv, CallInv, [Next]_vars PROVE CallInv'
<1>1. CASE (IncludeNext /\ UNCHANGED calling) \/ UNCHANGED vars
  <2>1. [IncludeNext]_includeVars /\ UNCHANGED calling  BY <1>1 DEF vars
  <2>2. UNCHANGED <<stubs, step, trailer, kept, visits, seenBy>>  BY <2>1 DEF calling
  <2>3. phase \in {"walking", "walked"} => reader # "none"  BY DEF CallInv
  <2>4. /\ phase' \in {"walking", "walked"} => reader' # "none"
        /\ reader # "none" =>
             reader' # "none" /\ UNCHANGED <<batch, source, memo, refs>> /\ Root' = Root
    BY <2>1, <2>3, TreeStays
  <2>5. CASE step = "idle"  BY <2>2, <2>4, <2>5 DEF CallInv
  <2>6. CASE step # "idle"
    <3>1. UNCHANGED <<memo, refs>> /\ Root' = Root /\ reader' # "none"
      BY <2>4, <2>6 DEF CallInv
    <3> QED  BY <2>2, <2>4, <3>1 DEF CallInv
  <2> QED  BY <2>5, <2>6
<1>2. CASE Calling
  <2>1. UNCHANGED <<batch, source, memo, refs, phase, reader>> /\ Root' = Root
    BY <1>2, RootIsFixed DEF Calling, Compressing, Begin, CompressInclude, CompressReturn, Deliver,
        Answer, NeverRan, ReturnFromExecute, includeVars, parsing, walking
  <2>2. CASE Begin
    <3>1. /\ step = "idle" /\ phase = "walked" /\ kept' = {} /\ UNCHANGED <<stubs, seenBy>>
          /\ step' = (IF trailer' THEN "compressing" ELSE "marshalled")
          /\ trailer' \in BOOLEAN /\ (trailer' => visits' = <<Frame(Root, 0)>>)
      BY <2>2 DEF Begin
    <3>2. stubs = {} /\ reader # "none"  BY <3>1 DEF CallInv
    <3>3. Tree(refs, memo, Root)  BY <3>2, TreeOfParser
    <3>4. Pressed(refs, Depth(refs), Root, <<Frame(Root, 0)>>, {}, {})
      <4>1. refs \in [Paths -> Seq(Paths)] /\ Root \in Paths  BY <3>3 DEF Tree
      <4> QED  BY <4>1, PressFirst
    <3> QED  BY <2>1, <3>1, <3>2, <3>4 DEF CallInv
  <2>3. CASE CompressInclude  BY <2>3, CompressIncludeKeeps
  <2>4. CASE CompressReturn  BY <2>4, CompressReturnKeeps
  <2>5. CASE Deliver
    <3>1. /\ step = "marshalled" /\ step' = "delivered" /\ seenBy' = Received
          /\ UNCHANGED <<stubs, trailer, kept, visits>>
      BY <2>5 DEF Deliver
    <3>2. Received = {}
      <4>1. CASE trailer  BY <3>1, <4>1, AllComeBack DEF Received
      <4>2. CASE ~trailer  BY <4>2 DEF Received, CallInv
      <4> QED  BY <4>1, <4>2
    <3> QED  BY <2>1, <3>1, <3>2 DEF CallInv
  <2>6. CASE Answer \/ NeverRan
    <3>1. /\ step \in {"delivered", "marshalled"} /\ step' = "ended"
          /\ UNCHANGED <<stubs, trailer, kept, visits, seenBy>>
      BY <2>6 DEF Answer, NeverRan, Ended
    <3> QED  BY <2>1, <3>1 DEF CallInv
  <2>7. CASE ReturnFromExecute
    <3>1. /\ step = "ended" /\ step' = "idle" /\ seenBy' = seenBy
          /\ stubs' = IF trailer THEN Restored(stubs, kept) ELSE stubs
      BY <2>7 DEF ReturnFromExecute
    <3>2. stubs' = {}
      <4>1. CASE trailer  BY <3>1, <4>1, AllComeBack
      <4>2. CASE ~trailer  BY <3>1, <4>2 DEF CallInv
      <4> QED  BY <4>1, <4>2
    <3> QED  BY <2>1, <3>1, <3>2 DEF CallInv
  <2> QED  BY <1>2, <2>2, <2>3, <2>4, <2>5, <2>6, <2>7 DEF Calling, Compressing
<1> QED  BY <1>1, <1>2 DEF Next

\* A command that calls plugins parses and walks as IncludeSpec says.
LEMMA SpecIncludes == Spec => IncludeSpec
<1>1. CallInit => Init  BY DEF CallInit
<1>2. [Next]_vars => [IncludeNext]_includeVars
  <2>1. Calling => UNCHANGED includeVars
    BY DEF Calling, Compressing, Begin, CompressInclude, CompressReturn, Deliver, Answer, NeverRan,
        ReturnFromExecute
  <2> QED  BY <2>1 DEF Next, vars
<1> QED  BY <1>1, <1>2, PTL DEF Spec, IncludeSpec

LEMMA CallAlways == Spec => [](PInv /\ WholeInv /\ CircleInv /\ CallInv)
<1>1. PInv /\ WholeInv /\ CircleInv /\ CallInv /\ [Next]_vars => CallInv'
  BY CallInvStep
<1>h. HIDE DEF PInv, WholeInv, CircleInv, CallInv
<1> QED  BY <1>1, CallInvInit, SpecIncludes, CircleAlways, PTL DEF Spec

\* For all trees of includes, and whatever becomes of the plugins: when
\* Execute is over no reference of the AST is a stub.
THEOREM AstComesBack == Spec => []AstIsRestored
<1>1. CallInv => AstIsRestored  BY DEF CallInv, AstIsRestored
<1>h. HIDE DEF PInv, WholeInv, CircleInv, CallInv, AstIsRestored
<1> QED  BY <1>1, CallAlways, PTL

\* Whatever a plugin has of an AST after UnmarshalRequest has no stub: the
\* references that were sent in full lead to all IDLs.
THEOREM PluginsSeeTheTree == Spec => []PluginSeesEverything
<1>1. CallInv => PluginSeesEverything  BY DEF CallInv, PluginSeesEverything
<1>h. HIDE DEF PInv, WholeInv, CircleInv, CallInv, PluginSeesEverything
<1> QED  BY <1>1, CallAlways, PTL

\* In a compressed request every included IDL is written once, at a place that
\* is reached without going through a stub.
THEOREM RequestIsCompressed == Spec => []EveryIdlIsSentOnce
<1>1. PInv /\ WholeInv /\ CircleInv /\ CallInv => EveryIdlIsSentOnce
  <2> SUFFICES ASSUME PInv, WholeInv, CircleInv, CallInv, step = "marshalled", trailer,
                      NEW p \in memo \ {Root}
               PROVE  /\ Cardinality({e \in UNION {Refs(q) : q \in memo} :
                                        To(e) = p /\ e \notin stubs}) = 1
                      /\ p \in Collect(stubs)
    BY DEF EveryIdlIsSentOnce
  <2>1. /\ KeptOnce(refs, kept, EdgesOf(refs, memo), stubs) /\ p \in kept
        /\ kept \subseteq Collect(stubs)
    BY AllComeBack
  <2>2. refs \in [Paths -> Seq(Paths)] /\ memo \in SUBSET Paths  BY DEF PInv, Types
  <2>3. UNION {Refs(q) : q \in memo} = EdgesOf(refs, memo) /\ \A e : To(e) = Lead(refs, e)
    BY <2>2, RefsAreEdges
  <2>4. PICK e \in EdgesOf(refs, memo) \ stubs : Lead(refs, e) = p
    BY <2>1 DEF KeptOnce
  <2> DEFINE S == {x \in UNION {Refs(q) : q \in memo} : To(x) = p /\ x \notin stubs}
  <2>5. S = {e}  BY <2>1, <2>3, <2>4 DEF KeptOnce
  <2> HIDE DEF S
  <2>6. Cardinality(S) = 1  BY <2>5, FS_Singleton
  <2> QED  BY <2>1, <2>6 DEF S
<1>h. HIDE DEF PInv, WholeInv, CircleInv, CallInv, EveryIdlIsSentOnce
<1> QED  BY <1>1, CallAlways, PTL
=============================================================================
