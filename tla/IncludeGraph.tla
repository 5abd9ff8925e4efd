------------------------------ MODULE IncludeGraph ---------------------------
(***************************************************************************)
(* parser/parser.go, parser/circle_detect.go and DepthFirstSearch of       *)
(* parser/AST-extend.go: an IDL is parsed with everything it includes,     *)
(* each file once; circles of includes are looked for; and the IDLs are    *)
(* handed one by one, through a channel without a buffer, from a goroutine *)
(* to a caller that may give up at any of them.                            *)
(***************************************************************************)
EXTENDS Integers, Sequences, FiniteSets

CONSTANTS
  Spellings,    \* file names before they are normalised, joined to a directory
  Paths,        \* the normalised ones
  Names,        \* what include statements say
  Dirs,
  Join,         \* Join[d, n]: filepath.Join of a directory and a name, and for
                \* the working directory the name as it is
  Norm,         \* normalizeFilename
  DirOf,        \* filepath.Dir
  IncludeDirs,  \* the -i options
  Cwd,          \* where names that are not joined are looked for
  Main,         \* the name of the main IDL
  Broken,       \* the content of a file that the grammar refuses
  Sources       \* what a disk, or the map of ParseBatchString, may hold

ASSUME IncludeAssumption ==
  /\ Paths \subseteq Spellings /\ IsFiniteSet(Paths)
  /\ Join \in [Dirs \X Names -> Spellings]
  /\ Norm \in [Spellings -> Paths] /\ \A p \in Paths : Norm[p] = p
  /\ DirOf \in [Paths -> Dirs]
  /\ IncludeDirs \in Seq(Dirs) /\ Cwd \in Dirs /\ Main \in Names
  /\ Broken \notin Seq(Names)
  /\ \A s \in Sources : /\ DOMAIN s \subseteq Spellings
                        /\ s \in [DOMAIN s -> Seq(Names) \union {Broken}]

VARIABLES
  batch,    \* ParseBatchString with a map, rather than ParseFile with a disk
  source,   \* the contents: the names each file includes
  memo,     \* thriftMap: the paths of the IDLs that exist
  refs,     \* refs[p]: where the includes of p lead, those set so far
  stack,    \* calls of parseFileRecursively: an IDL, how many includes it has done
  phase,    \* how far the caller is
  walk,     \* calls of dfs
  seen,     \* set of dfs
  sent,     \* what the caller has received
  open,     \* the channel is not closed
  reader    \* the caller

parsing == <<batch, source, memo, stack>>
walking == <<walk, seen, sent, open, reader>>
includeVars == <<parsing, refs, phase, walking>>

Nowhere == "not found"

-----------------------------------------------------------------------------
(* search and searchForThriftContentMap *)

Candidates(n, d) ==
  <<Join[Cwd, n], Join[d, n]>>
    \o [i \in DOMAIN IncludeDirs |-> Join[IncludeDirs[i], n]]

Exists(s) == IF batch THEN s \in DOMAIN source ELSE Norm[s] \in DOMAIN source

Hits(c) == {i \in DOMAIN c : Exists(c[i])}

First(c, hits) == Norm[c[CHOOSE i \in hits : \A j \in hits : i <= j]]

Search(n, d) ==
  LET c == Candidates(n, d) IN
    IF Hits(c) = {} THEN Nowhere ELSE First(c, Hits(c))

-----------------------------------------------------------------------------
(* parseFileRecursively and parseBatchStringRecursively *)

Frame(p, i) == [path |-> p, done |-> i]
Top(s) == s[Len(s)]
Pop(s) == SubSeq(s, 1, Len(s) - 1)
Set(s, f) == [s EXCEPT ![Len(s)] = f]

\* What an IDL includes, and what of that is still to do.
Content(p) == source[p]
Todo(s) == stack # <<>> /\ Top(s).done < Len(Content(Top(s).path))

\* What is there under its normalised path and is accepted by the grammar.
Readable == {p \in DOMAIN source \intersect Paths : source[p] # Broken}

Fail == phase' = "failed" /\ UNCHANGED <<memo, refs, stack>>

\* inc.Reference = t for the include the top of the stack is at.
Attach(r, s, p) == IF s = <<>> THEN r ELSE [r EXCEPT ![Top(s).path] = Append(@, p)]
Advance(s) == IF s = <<>> THEN s ELSE Set(s, [Top(s) EXCEPT !.done = @ + 1])

\* Mutant: the IDL enters the memo when it is complete.
ParseLate(p) ==
  /\ p \notin memo /\ p \in Readable
  /\ refs' = [refs EXCEPT ![p] = <<>>]
  /\ stack' = Append(stack, Frame(p, 0))
  /\ UNCHANGED <<memo, phase>>

\* A new IDL: it is in the memo before its includes are parsed.
Parse(p) ==
  /\ p \notin memo /\ p \in Readable
  /\ memo' = memo \union {p}
  /\ refs' = [refs EXCEPT ![p] = <<>>]
  /\ stack' = Append(stack, Frame(p, 0))
  /\ UNCHANGED phase

\* Mutant: for an IDL that is in the memo the reference is not set.
KnownUnset(p) ==
  /\ p \in memo
  /\ stack' = Advance(stack)
  /\ UNCHANGED <<memo, refs, phase>>

\* An IDL that is in the memo, complete or not.
Known(p) ==
  /\ p \in memo
  /\ refs' = Attach(refs, stack, p)
  /\ stack' = Advance(stack)
  /\ UNCHANGED <<memo, phase>>

\* A call for the name n from an IDL in the directory d.
Call(n, d) ==
  LET p == Search(n, d) IN
    \/ p # Nowhere /\ Parse(p)
    \/ p # Nowhere /\ Known(p)
    \/ p \notin memo /\ p \notin Readable /\ Fail

MainDir == DirOf[Norm[Join[Cwd, Main]]]

ParseMain ==
  /\ phase = "parsing" /\ memo = {}
  /\ Call(Main, MainDir)
  /\ UNCHANGED <<batch, source, walking>>

ParseInclude ==
  /\ phase = "parsing" /\ Todo(stack)
  /\ LET f == Top(stack) IN Call(Content(f.path)[f.done + 1], DirOf[f.path])
  /\ UNCHANGED <<batch, source, walking>>

\* return t, nil
Return ==
  /\ phase = "parsing" /\ stack # <<>> /\ ~Todo(stack)
  /\ LET p == Top(stack).path
         rest == Pop(stack) IN
       /\ refs' = Attach(refs, rest, p)
       /\ stack' = Advance(rest)
       /\ phase' = IF rest = <<>> THEN "parsed" ELSE "parsing"
  /\ UNCHANGED <<batch, source, memo, walking>>

Root == Search(Main, MainDir)

-----------------------------------------------------------------------------
(* CircleDetect *)

\* Where a call of searchCircle goes on: the first include with a circle.
FirstOf(s) == IF \A i \in DOMAIN s : s[i] = <<>> THEN <<>>
              ELSE s[CHOOSE i \in DOMAIN s : s[i] # <<>> /\ \A j \in 1 .. i - 1 : s[j] = <<>>]

\* Mutant: only the root is compared with.
SearchCircleToRoot(r, root) ==
  LET search[call \in Paths \X Seq(Paths)] ==
        LET cur == call[1]
            nodes == call[2]
        IN  IF nodes # <<>> /\ cur = nodes[1] THEN Append(nodes, cur)
            ELSE IF cur \in {nodes[i] : i \in DOMAIN nodes} THEN <<>>
            ELSE FirstOf([i \in DOMAIN r[cur] |-> search[<<r[cur][i], Append(nodes, cur)>>]])
  IN search[<<root, <<>>>>]

\* The circle found first, or <<>>.
SearchCircle(r, root) ==
  LET search[call \in Paths \X Seq(Paths)] ==
        LET cur == call[1]
            nodes == call[2]
        IN  IF cur \in {nodes[i] : i \in DOMAIN nodes} THEN Append(nodes, cur)
            ELSE FirstOf([i \in DOMAIN r[cur] |-> search[<<r[cur][i], Append(nodes, cur)>>]])
  IN search[<<root, <<>>>>]

-----------------------------------------------------------------------------
(* DepthFirstSearch *)

\* A call of dfs for an IDL that is not in the set.
Enter(p, w) ==
  /\ walk' = Append(w, Frame(p, 0))
  /\ seen' = seen \union {p}

CircleDetect ==
  /\ phase = "parsed"
  /\ IF SearchCircle(refs, Root) # <<>>
       THEN phase' = "circle" /\ UNCHANGED walking
       ELSE /\ phase' = "walking"
            /\ reader' = "reading" /\ open' = TRUE
            /\ Enter(Root, <<>>)
            /\ UNCHANGED sent
  /\ UNCHANGED <<parsing, refs>>

Waiting(w) == w # <<>> /\ Top(w).done >= Len(refs[Top(w).path])

DfsInclude ==
  /\ walk # <<>> /\ ~Waiting(walk)
  /\ LET f == Top(walk)
         p == refs[f.path][f.done + 1]
         w == Advance(walk) IN
       IF p \in seen THEN walk' = w /\ UNCHANGED seen ELSE Enter(p, w)
  /\ UNCHANGED <<parsing, refs, phase, sent, open, reader>>

\* Mutant: an IDL is sent although its includes are not done.
SendEarly ==
  /\ walk # <<>> /\ reader = "reading"
  /\ LET p == Top(walk).path IN
       /\ sent' = Append(sent, p)
       /\ walk' = Pop(walk)
       /\ open' = (p # Root)
  /\ UNCHANGED <<parsing, refs, phase, seen, reader>>

\* Mutant: the channel is never closed.
SendOnly ==
  /\ Waiting(walk) /\ reader = "reading"
  /\ sent' = Append(sent, Top(walk).path)
  /\ walk' = Pop(walk)
  /\ UNCHANGED <<parsing, refs, phase, seen, open, reader>>

\* out <- t meets the caller's receive.
Send ==
  /\ Waiting(walk) /\ reader = "reading"
  /\ LET p == Top(walk).path IN
       /\ sent' = Append(sent, p)
       /\ walk' = Pop(walk)
       /\ open' = (p # Root)
  /\ UNCHANGED <<parsing, refs, phase, seen, reader>>

\* The caller leaves its loop with an error: CheckAll, executeTemplates, the
\* check of options, Generate of the fastgo backend.
GiveUp ==
  /\ reader = "reading" /\ sent # <<>>
  /\ reader' = "gone"
  /\ phase' = "failed"
  /\ UNCHANGED <<parsing, refs, walk, seen, sent, open>>

\* The loop ends because the channel is closed.
SeeClosed ==
  /\ reader = "reading" /\ ~open
  /\ reader' = "done"
  /\ phase' = "walked"
  /\ UNCHANGED <<parsing, refs, walk, seen, sent, open>>

-----------------------------------------------------------------------------
Init ==
  /\ batch \in BOOLEAN
  /\ source \in Sources /\ (batch \/ DOMAIN source \subseteq Paths)
  /\ memo = {} /\ stack = <<>> /\ phase = "parsing"
  /\ refs = [p \in Paths |-> <<>>]
  /\ walk = <<>> /\ seen = {} /\ sent = <<>>
  /\ open = FALSE /\ reader = "none"

Parsing == ParseMain \/ ParseInclude \/ Return
Walking == DfsInclude \/ Send \/ SeeClosed
IncludeNext == Parsing \/ CircleDetect \/ Walking \/ GiveUp
IncludeSpec == Init /\ [][IncludeNext]_includeVars
-----------------------------------------------------------------------------
(* Properties *)

\* Every variable has its type: what exists is a known path, calls of the
\* parser and of dfs are for IDLs that exist.
TypeOK ==
  /\ batch \in BOOLEAN
  /\ source \in [DOMAIN source -> Seq(Names) \union {Broken}]
  /\ memo \subseteq Paths
  /\ refs \in [Paths -> Seq(Paths)]
  /\ stack \in Seq([path : memo, done : Nat])
  /\ walk \in Seq([path : Paths, done : Nat])
  /\ phase \in {"parsing", "parsed", "failed", "circle", "walking", "walked"}
  /\ seen \subseteq Paths /\ sent \in Seq(Paths)
  /\ open \in BOOLEAN /\ reader \in {"none", "reading", "gone", "done"}

\* However IDLs include each other, in circles too, parseFileRecursively is
\* never inside two calls for one IDL, so its depth is bounded and it ends.
NoIdlInsideItself ==
  \A i, j \in DOMAIN stack : i # j => stack[i].path # stack[j].path

Settled == phase \notin {"parsing", "failed"}

\* When the parser succeeds every include of every IDL has been set, to what
\* search finds from the directory of that IDL, even where the IDL it leads
\* to was still being parsed: the main directory first, then the including
\* one, then those of the options.
ParsedWhole ==
  Settled =>
    /\ Root \in memo
    /\ \A p \in memo :
         /\ Len(refs[p]) = Len(Content(p))
         /\ \A i \in DOMAIN refs[p] :
              LET c == Candidates(Content(p)[i], DirOf[p]) IN
                /\ refs[p][i] \in memo
                /\ \E k \in DOMAIN c : /\ Exists(c[k]) /\ Norm[c[k]] = refs[p][i]
                                       /\ \A l \in 1 .. k - 1 : ~Exists(c[l])

\* What can be reached from p by one include or more.
After(ps) == UNION {{refs[p][i] : i \in DOMAIN refs[p]} : p \in ps}
Reached(p, n) ==
  LET R[k \in 0 .. n] == IF k = 0 THEN After({p}) ELSE R[k - 1] \union After(R[k - 1])
  IN R[n]

IsCircle(c) ==
  /\ \A i \in 1 .. Len(c) - 1 : c[i + 1] \in After({c[i]})
  /\ \E i \in 1 .. Len(c) - 1 : c[i] = Top(c)

\* CircleDetect reports a circle exactly when an IDL of the tree includes
\* itself, directly or not, whether or not the root is on the circle, and
\* the path it prints is one.
CirclesAreFound ==
  /\ phase = "circle" => IsCircle(SearchCircle(refs, Root))
  /\ reader # "none" => \A p \in memo : p \notin Reached(p, Len(sent) + Len(walk) + 4)

\* What the caller has received is in an order in which every IDL comes after
\* all it includes, and comes once: backends and CheckAll rely on both.
IncludesComeFirst ==
  \A i \in DOMAIN sent :
    /\ \A j \in 1 .. i - 1 : sent[j] # sent[i]
    /\ \A q \in After({sent[i]}) : \E j \in 1 .. i - 1 : sent[j] = q

\* Parsing ends in every tree of includes; then the walk ends, or its caller
\* gives up.
IncludesEnd == <>(phase \in {"failed", "circle", "walked"})
=============================================================================
