------------------------------- MODULE PluginCall ----------------------------
(***************************************************************************)
(* plugin/plugin.go: Execute of an external plugin.  The AST is sent to    *)
(* another process as a tree, so an IDL that is included twice would be    *)
(* sent twice.  For a plugin that understands it, all but the first of the *)
(* references to an IDL are therefore replaced by stubs, in the AST        *)
(* itself, and are put back when Execute returns, whatever came of the     *)
(* plugin.  The AST is the one IncludeGraph parsed and found no circle in. *)
(***************************************************************************)
EXTENDS IncludeGraph

CONSTANTS
  MaxCalls   \* bound on the plugins of a command

ASSUME PluginAssumption == MaxCalls \in Nat

VARIABLES
  stubs,    \* the references that are stubs: an IDL and a position
  step,     \* how far Execute is
  trailer,  \* the plugin's version knows the data trailer, and the
            \* environment enables it
  kept,     \* m: the IDLs of which a reference was kept
  visits,   \* calls of compressThriftInclude
  seenBy,   \* what the plugin has after UnmarshalRequest: its stubs
  left,     \* the plugins that are still to run
  response

calling == <<stubs, step, trailer, kept, visits, seenBy, left, response>>
vars == <<includeVars, calling>>

Refs(p) == {<<p, i>> : i \in DOMAIN refs[p]}
To(e) == refs[e[1]][e[2]]

-----------------------------------------------------------------------------
(* collectThriftInclude and decompressThriftInclude: what they arrive at   *)

\* Where the references of IDLs lead that are not stubs.
Follow(ps, ss) == {To(e) : e \in (UNION {Refs(p) : p \in ps}) \ ss}

\* What collectThriftInclude finds: it does not follow stubs.
Collect(ss) ==
  {p \in memo : \A found \in SUBSET memo : Follow({Root} \union found, ss) \subseteq found => p \in found}

\* decompressThriftInclude goes through what it has put back, hence everywhere.
\* A stub whose IDL is not in m would make it panic; here it stays.
Restored(ss, m) ==
  {e \in ss : ~ (e[1] \in {Root} \union Collect({}) /\ To(e) \in m)}

-----------------------------------------------------------------------------
\* Execute up to the compression.  The old plugins know no trailer.
Begin ==
  /\ phase = "walked" /\ step = "idle" /\ left > 0
  /\ \E t \in BOOLEAN :
       /\ trailer' = t
       /\ step' = IF t THEN "compressing" ELSE "marshalled"
       /\ visits' = IF t THEN <<Frame(Root, 0)>> ELSE <<>>
  /\ kept' = {} /\ left' = left - 1
  /\ UNCHANGED <<includeVars, stubs, seenBy, response>>

\* Mutant: an IDL is not remembered, so that every reference to it is kept.
CompressForgetful ==
  /\ step = "compressing" /\ visits # <<>> /\ ~Waiting(visits)
  /\ LET e == <<Top(visits).path, Top(visits).done + 1>> IN
       IF To(e) \in kept
       THEN stubs' = stubs \union {e} /\ visits' = Advance(visits)
       ELSE visits' = Append(Advance(visits), Frame(To(e), 0)) /\ UNCHANGED stubs
  /\ UNCHANGED <<includeVars, step, trailer, kept, seenBy, left, response>>

\* The next include of compressThriftInclude: the first reference to an IDL is
\* kept and gone on from, the others become stubs.
CompressInclude ==
  /\ step = "compressing" /\ visits # <<>> /\ ~Waiting(visits)
  /\ LET e == <<Top(visits).path, Top(visits).done + 1>> IN
       IF To(e) \in kept
       THEN stubs' = stubs \union {e} /\ visits' = Advance(visits) /\ UNCHANGED kept
       ELSE /\ kept' = kept \union {To(e)}
            /\ visits' = Append(Advance(visits), Frame(To(e), 0))
            /\ UNCHANGED stubs
  /\ UNCHANGED <<includeVars, step, trailer, seenBy, left, response>>

\* The end of a call of compressThriftInclude; after the first one the request
\* is marshalled.
CompressReturn ==
  /\ step = "compressing" /\ Waiting(visits)
  /\ visits' = Pop(visits)
  /\ step' = IF visits' = <<>> THEN "marshalled" ELSE step
  /\ UNCHANGED <<includeVars, stubs, trailer, kept, seenBy, left, response>>

\* Mutant: the plugin does not know that there are stubs.
ReceivedAsSent == stubs

\* UnmarshalRequest on the other side: the trailer says that there are stubs.
Received == IF trailer THEN Restored(stubs, Collect(stubs)) ELSE stubs

Deliver ==
  /\ step = "marshalled"
  /\ seenBy' = Received
  /\ step' = "delivered"
  /\ UNCHANGED <<includeVars, stubs, trailer, kept, visits, left, response>>

\* The ways cmd.Run and UnmarshalResponse can end.
Ended ==
  \E exit \in {"success", "failure", "killed"}, whole \in BOOLEAN :
    /\ step' = "ended"
    /\ response' = IF exit # "success" \/ ~whole THEN "error" ELSE "plugin"

\* The process answers, fails, or is killed at MaxExecutionTime, before or
\* after it wrote its response.
Answer ==
  /\ step = "delivered" /\ Ended
  /\ UNCHANGED <<includeVars, stubs, trailer, kept, visits, seenBy, left>>

\* The process cannot be started, or is killed before it has read.
NeverRan ==
  /\ step = "marshalled"
  /\ step' = "ended" /\ response' = "error"
  /\ UNCHANGED <<includeVars, stubs, trailer, kept, visits, seenBy, left>>

\* Mutant: the references are put back only after a response.
ReturnRestoringSuccess ==
  /\ step = "ended"
  /\ stubs' = IF trailer /\ response = "plugin" THEN Restored(stubs, kept) ELSE stubs
  /\ step' = "idle"
  /\ UNCHANGED <<includeVars, trailer, kept, visits, seenBy, left, response>>

\* Every return runs the deferred decompressThriftInclude.
ReturnFromExecute ==
  /\ step = "ended"
  /\ stubs' = IF trailer THEN Restored(stubs, kept) ELSE stubs
  /\ step' = "idle"
  /\ UNCHANGED <<includeVars, trailer, kept, visits, seenBy, left, response>>

CallInit ==
  /\ Init
  /\ stubs = {} /\ step = "idle" /\ trailer = FALSE /\ kept = {} /\ visits = <<>>
  /\ seenBy = {} /\ left = MaxCalls /\ response = "none"

Compressing == CompressInclude \/ CompressReturn
Calling == Begin \/ Compressing \/ Deliver \/ Answer \/ NeverRan \/ ReturnFromExecute

Next == (IncludeNext /\ UNCHANGED calling) \/ Calling

Spec == CallInit /\ [][Next]_vars

\* A goroutine that can go on does, and so does the caller; giving up is the
\* caller's choice.
FairSpec ==
  /\ Spec
  /\ WF_vars((Parsing \/ CircleDetect) /\ UNCHANGED calling)
  /\ WF_vars((DfsInclude \/ Send) /\ UNCHANGED calling)
  /\ WF_vars(SeeClosed /\ UNCHANGED calling)
  /\ WF_vars(Begin \/ Compressing) /\ WF_vars(Deliver \/ Answer \/ NeverRan) /\ WF_vars(ReturnFromExecute)
-----------------------------------------------------------------------------
(* Properties *)

\* When Execute is over, however it ended and whatever the plugins before it
\* understood, the AST is as it was: no reference of it is a stub.
AstIsRestored == step = "idle" => stubs = {}

\* In a compressed request every IDL but the main one is written exactly
\* once: one reference to it was kept, and the kept ones reach all of them.
EveryIdlIsSentOnce ==
  step = "marshalled" /\ trailer =>
    \A p \in memo \ {Root} :
      /\ Cardinality({e \in UNION {Refs(q) : q \in memo} : To(e) = p /\ e \notin stubs}) = 1
      /\ p \in Collect(stubs)

\* A plugin gets every IDL in full, at every place: one that does not know
\* the trailer is sent no stubs, one that knows it can undo them without the
\* table the sender had.
PluginSeesEverything == seenBy = {}
=============================================================================
