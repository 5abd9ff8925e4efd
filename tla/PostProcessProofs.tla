-------------------------- MODULE PostProcessProofs --------------------------
(***************************************************************************)
(* What holds of PostProcess for every number of files and processors: the *)
(* channels and the wait group count what they should, at most             *)
(* "concurrency" files are in work, no goroutine works once Persist has    *)
(* returned, and Persist keeps the promise stated in module Persist.       *)
(***************************************************************************)
EXTENDS PostProcess, FiniteSetTheorems, TLAPS

Points == Holding \cup {"none", "ended"}

-----------------------------------------------------------------------------
(***************************************************************************)
(* Counting the goroutines at a set of program points.                     *)
(***************************************************************************)

LEMMA AtFinite ==
  ASSUME NEW S  PROVE IsFiniteSet(At(S)) /\ Cardinality(At(S)) \in Nat
<1>1. IsFiniteSet(Jobs)  BY FS_Interval, PostProcessAssumption DEF Jobs
<1>2. At(S) \subseteq Jobs  BY DEF At
<1> QED  BY <1>1, <1>2, FS_Subset, FS_CardinalityType

\* A goroutine that enters the points is counted once more.
LEMMA CountEnter ==
  ASSUME NEW S, NEW j \in Jobs, NEW to, worker \in [Jobs -> Points],
         worker' = [worker EXCEPT ![j] = to], worker[j] \notin S, to \in S
  PROVE  Cardinality(At(S)') = Cardinality(At(S)) + 1
<1>1. At(S)' = At(S) \cup {j} /\ j \notin At(S)  BY DEF At
<1> QED  BY <1>1, AtFinite, FS_AddElement

\* A goroutine that leaves the points is no longer counted.
LEMMA CountLeave ==
  ASSUME NEW S, NEW j \in Jobs, NEW to, worker \in [Jobs -> Points],
         worker' = [worker EXCEPT ![j] = to], worker[j] \in S, to \notin S
  PROVE  Cardinality(At(S)') = Cardinality(At(S)) - 1
<1>1. At(S)' = At(S) \ {j} /\ j \in At(S)  BY DEF At
<1> QED  BY <1>1, AtFinite, FS_RemoveElement

\* A move inside the points, or outside of them, changes no count.
LEMMA CountStay ==
  ASSUME NEW S, NEW j \in Jobs, NEW to, worker \in [Jobs -> Points],
         worker' = [worker EXCEPT ![j] = to], worker[j] \in S <=> to \in S
  PROVE  Cardinality(At(S)') = Cardinality(At(S))
<1>1. At(S)' = At(S)  BY DEF At
<1> QED  BY <1>1

-----------------------------------------------------------------------------
(***************************************************************************)
(* The inductive invariant.                                                *)
(***************************************************************************)

Types ==
  /\ main \in {"persist", "loop", "drain", "wait", "returned"}
  /\ jobs \in 0..MaxJobs /\ next \in 1..(jobs + 1) /\ concurrency \in Int
  /\ taken \in 0..MaxJobs
  /\ worker \in [Jobs -> Points]
  /\ errs \in Seq(Jobs)
  /\ written \subseteq Jobs /\ failed \subseteq Jobs

Counts ==
  /\ wg = Cardinality(At(Counted))
  /\ processing = Cardinality(At(Holding))

\* The goroutines run for the jobs before "next", and only for these.
Started == \A j \in Jobs : worker[j] = "none" <=> j >= next

\* What main's program point says of the rest.
Phases ==
  /\ main = "persist" => next = 1 /\ written = {} /\ failed = {}
  /\ main = "wait" => next > jobs
  /\ main \in {"persist", "loop", "wait"} => taken = 0
  /\ main = "drain" => taken # 0
  /\ result \in {"none", "nil", "error"}
  /\ result = "none" <=> main # "returned"
  /\ main \notin {"persist", "returned"} => processing <= concurrency

\* A file is written or has failed when its goroutine is past that point.
Outcomes ==
  \A j \in Jobs :
    /\ worker[j] \in {"none", "process", "write"} => j \notin written \cup failed
    /\ worker[j] = "report" => j \in failed
    /\ worker[j] \in {"done", "release", "ended"} => j \in written \cup failed

IInv ==
  /\ Types /\ Counts /\ Started /\ Phases /\ Outcomes /\ ErrorsAccounted
  /\ QuietAfterReturn /\ ResultIsRight

LEMMA InitInv == Init => IInv
<1> SUFFICES ASSUME Init PROVE IInv  OBVIOUS
<1> USE PostProcessAssumption DEF Init
<1>1. Types  BY DEF Types, Points
<1>2. At(Counted) = {} /\ At(Holding) = {}  BY DEF At, Counted, Holding
<1>3. Counts  BY <1>2, FS_EmptySet DEF Counts
<1>4. Started  BY DEF Started, Jobs
<1>5. Phases /\ QuietAfterReturn /\ ResultIsRight
  BY DEF Phases, QuietAfterReturn, ResultIsRight
<1>6. Outcomes  BY DEF Outcomes
<1>7. ErrorsAccounted  BY DEF ErrorsAccounted, Jobs
<1> QED  BY <1>1, <1>3, <1>4, <1>5, <1>6, <1>7 DEF IInv

\* No goroutine is counted exactly when the wait group lets main pass.
LEMMA WaitMeans == IInv => (wg = 0 <=> At(Counted) = {})
BY AtFinite, FS_EmptySet DEF IInv, Counts

\* Removing the head of errs and taking it accounts for the same errors.
LEMMA TakingAccounts ==
  ASSUME IInv, errs # <<>>, taken = 0,
         taken' = Head(errs), errs' = Tail(errs), UNCHANGED <<worker, failed>>
  PROVE  ErrorsAccounted' /\ taken' \in failed /\ taken' \in Jobs /\ errs' \in Seq(Jobs)
<1>1. errs \in Seq(Jobs) /\ ErrorsAccounted  BY DEF IInv, Types
<1>2. 0 \notin Jobs  BY DEF Jobs
<1>3. /\ errs[1] \in Jobs /\ 1 \in DOMAIN errs /\ taken' = errs[1]
      /\ errs' \in Seq(Jobs)
  BY <1>1
<1>4. taken' \in failed  BY <1>1, <1>3 DEF ErrorsAccounted
<1>5. ASSUME NEW j \in Jobs
      PROVE  (\E i \in DOMAIN errs' : errs'[i] = j) \/ taken' = j
               <=> \E i \in DOMAIN errs : errs[i] = j
  <2>1. DOMAIN errs = 1..Len(errs) /\ Len(errs) \in Nat
        /\ DOMAIN errs' = 1..(Len(errs) - 1)
        /\ \A i \in DOMAIN errs' : errs'[i] = errs[i + 1]
    BY <1>1
  <2>2. ASSUME NEW i \in DOMAIN errs, errs[i] = j, i # 1
        PROVE  \E k \in DOMAIN errs' : errs'[k] = j
    <3>1. i - 1 \in DOMAIN errs' /\ errs'[i - 1] = errs[i]  BY <2>1, <2>2
    <3> QED  BY <2>2, <3>1
  <2>3. ASSUME NEW i \in DOMAIN errs', errs'[i] = j
        PROVE  \E k \in DOMAIN errs : errs[k] = j
    <3>1. i + 1 \in DOMAIN errs /\ errs[i + 1] = errs'[i]  BY <2>1
    <3> QED  BY <2>3, <3>1
  <2> QED  BY <1>3, <2>2, <2>3
<1>6. ErrorsAccounted'  BY <1>1, <1>2, <1>5 DEF ErrorsAccounted
<1> QED  BY <1>3, <1>4, <1>6

\* A step of main that starts no goroutine and takes no error.
LEMMA MainStep ==
  ASSUME IInv, UNCHANGED <<next, processing, errs, wg, worker, taken, outcome>>,
         Types', Phases', QuietAfterReturn', ResultIsRight'
  PROVE  IInv'
<1> USE DEF IInv, outcome
<1>1. Counts' /\ Started'  BY DEF Counts, At, Started
<1>2. Outcomes' /\ ErrorsAccounted'  BY DEF Outcomes, ErrorsAccounted
<1> QED  BY <1>1, <1>2

\* A goroutine at work is one that main has started and still waits for.
LEMMA AtWork ==
  ASSUME IInv, NEW j \in Jobs, worker[j] \in Holding
  PROVE  /\ j < next /\ j \in 1..jobs /\ main # "persist"
         /\ worker[j] \in Counted => main # "returned" /\ result = "none"
<1>1. worker[j] # "none" /\ j \in Nat /\ next \in 1..(jobs + 1) /\ jobs \in Nat
      /\ j >= 1
  BY PostProcessAssumption DEF IInv, Types, Holding, Jobs
<1>2. j < next  BY <1>1 DEF IInv, Started
<1>3. main # "persist"  BY <1>1, <1>2 DEF IInv, Phases
<1>4. worker[j] \in Counted => main # "returned" /\ result = "none"
  BY DEF IInv, QuietAfterReturn, Phases, At
<1> QED  BY <1>1, <1>2, <1>3, <1>4

\* A step of a goroutine leaves main alone, and main only cares for the counts.
LEMMA WorkerStep ==
  ASSUME IInv, NEW j \in Jobs, NEW from \in Holding, NEW to \in Holding \cup {"ended"},
         Moves(j, from, to), UNCHANGED mainVars,
         errs' \in Seq(Jobs), written' \subseteq Jobs, failed' \subseteq Jobs,
         Counts', Outcomes', ErrorsAccounted',
         processing' \in {processing, processing - 1},
         from \in Counted \/ (to \notin Counted /\ UNCHANGED outcome)
  PROVE  IInv'
<1> USE DEF mainVars
<1>1. /\ worker[j] = from /\ worker' = [worker EXCEPT ![j] = to]
      /\ worker \in [Jobs -> Points] /\ to # "none" /\ from # "none"
  BY DEF Moves, IInv, Types, Holding
<1>2. Types'  BY <1>1 DEF IInv, Types, Points
<1>3. Started'  BY <1>1 DEF IInv, Started
<1>4. processing \in Nat /\ processing' \in Int
  BY AtFinite DEF IInv, Counts
<1>5. main # "persist" /\ (from \in Counted => main # "returned" /\ result = "none")
  BY <1>1, AtWork
<1>6. Phases'  BY <1>4, <1>5 DEF IInv, Phases, Types
<1>7. QuietAfterReturn'
  BY <1>1, <1>5 DEF IInv, QuietAfterReturn, At
<1>8. ResultIsRight'
  BY <1>5 DEF IInv, ResultIsRight, outcome
<1> QED  BY <1>2, <1>3, <1>6, <1>7, <1>8 DEF IInv

LEMMA ProcessInv == ASSUME IInv, NEW j \in Jobs, Process(j)  PROVE IInv'
<1> USE DEF IInv
<1>1. /\ UNCHANGED <<mainVars, processing, errs, wg, written>>
      /\ worker[j] = "process" /\ worker \in [Jobs -> Points]
      /\ j \notin written \cup failed
      /\ processing' \in {processing, processing - 1}
  BY AtFinite DEF Process, Moves, Types, Outcomes, Counts
<1>2. CASE Moves(j, "process", "write") /\ UNCHANGED failed
  <2>1. worker' = [worker EXCEPT ![j] = "write"]  BY <1>2 DEF Moves
  <2>2. Counts'
    BY <1>1, <2>1, CountStay DEF Counts, Counted, Holding
  <2>3. Outcomes' /\ ErrorsAccounted'
    BY <1>1, <1>2, <2>1 DEF Outcomes, ErrorsAccounted, mainVars
  <2> QED  BY <1>1, <1>2, <2>2, <2>3, WorkerStep DEF Holding, Counted, Types
<1>3. CASE Moves(j, "process", "report") /\ failed' = failed \cup {j}
  <2>1. worker' = [worker EXCEPT ![j] = "report"]  BY <1>3 DEF Moves
  <2>2. Counts'
    BY <1>1, <2>1, CountStay DEF Counts, Counted, Holding
  <2>3. Outcomes'
    BY <1>1, <1>3, <2>1 DEF Outcomes
  <2>4. ErrorsAccounted'
    BY <1>1, <1>3, <2>1 DEF ErrorsAccounted, mainVars
  <2> QED  BY <1>1, <1>3, <2>2, <2>3, <2>4, WorkerStep DEF Holding, Counted, Types
<1> QED  BY <1>2, <1>3 DEF Process

LEMMA WriteInv == ASSUME IInv, NEW j \in Jobs, Write(j)  PROVE IInv'
<1> USE DEF IInv
<1>1. /\ UNCHANGED <<mainVars, processing, errs, wg>>
      /\ worker[j] = "write" /\ worker \in [Jobs -> Points]
      /\ j \notin written \cup failed
      /\ processing' \in {processing, processing - 1}
  BY AtFinite DEF Write, Moves, Types, Outcomes, Counts
<1>2. CASE Moves(j, "write", "done") /\ written' = written \cup {j} /\ UNCHANGED failed
  <2>1. worker' = [worker EXCEPT ![j] = "done"]  BY <1>2 DEF Moves
  <2>2. Counts'
    BY <1>1, <2>1, CountStay DEF Counts, Counted, Holding
  <2>3. Outcomes'
    BY <1>1, <1>2, <2>1 DEF Outcomes
  <2>4. ErrorsAccounted'
    BY <1>1, <1>2, <2>1 DEF ErrorsAccounted, mainVars
  <2> QED  BY <1>1, <1>2, <2>2, <2>3, <2>4, WorkerStep DEF Holding, Counted, Types
<1>3. CASE Moves(j, "write", "report") /\ failed' = failed \cup {j} /\ UNCHANGED written
  <2>1. worker' = [worker EXCEPT ![j] = "report"]  BY <1>3 DEF Moves
  <2>2. Counts'
    BY <1>1, <2>1, CountStay DEF Counts, Counted, Holding
  <2>3. Outcomes'
    BY <1>1, <1>3, <2>1 DEF Outcomes
  <2>4. ErrorsAccounted'
    BY <1>1, <1>3, <2>1 DEF ErrorsAccounted, mainVars
  <2> QED  BY <1>1, <1>3, <2>2, <2>3, <2>4, WorkerStep DEF Holding, Counted, Types
<1> QED  BY <1>2, <1>3 DEF Write

LEMMA ReportInv == ASSUME IInv, NEW j \in Jobs, Report(j)  PROVE IInv'
<1> USE DEF IInv, outcome
<1>1. /\ UNCHANGED <<mainVars, processing, wg, outcome>>
      /\ Moves(j, "report", "done") /\ errs' = Append(errs, j)
      /\ worker[j] = "report" /\ worker \in [Jobs -> Points]
      /\ worker' = [worker EXCEPT ![j] = "done"] /\ errs \in Seq(Jobs)
      /\ j \in failed
      /\ processing' \in {processing, processing - 1}
  BY AtFinite DEF Report, Moves, Types, Outcomes, Counts
<1>2. Counts'  BY <1>1, CountStay DEF Counts, Counted, Holding
<1>3. Outcomes'  BY <1>1 DEF Outcomes
<1>4. ASSUME NEW k \in Jobs
      PROVE  (\E i \in DOMAIN errs' : errs'[i] = k)
               <=> k = j \/ \E i \in DOMAIN errs : errs[i] = k
  <2>1. /\ DOMAIN errs = 1..Len(errs) /\ Len(errs) \in Nat
        /\ DOMAIN errs' = 1..(Len(errs) + 1)
        /\ \A i \in 1..Len(errs) : errs'[i] = errs[i]
        /\ errs'[Len(errs) + 1] = j
    BY <1>1
  <2> QED  BY <2>1
<1>5. ErrorsAccounted'  BY <1>1, <1>4 DEF ErrorsAccounted, mainVars
<1>6. errs' \in Seq(Jobs)  BY <1>1
<1> QED  BY <1>1, <1>2, <1>3, <1>5, <1>6, WorkerStep DEF Holding, Counted, Types

LEMMA DoneInv == ASSUME IInv, NEW j \in Jobs, Done(j)  PROVE IInv'
<1> USE DEF IInv, outcome
<1>1. /\ UNCHANGED <<mainVars, processing, errs, outcome>> /\ wg' = wg - 1
      /\ Moves(j, "done", "release")
      /\ worker[j] = "done" /\ worker \in [Jobs -> Points]
      /\ worker' = [worker EXCEPT ![j] = "release"]
      /\ processing' \in {processing, processing - 1}
  BY AtFinite DEF Done, Moves, Types, Counts
<1>2. /\ Cardinality(At(Counted)') = Cardinality(At(Counted)) - 1
      /\ Cardinality(At(Holding)') = Cardinality(At(Holding))
  BY <1>1, CountLeave, CountStay DEF Counted, Holding
<1>3. Counts'  BY <1>1, <1>2 DEF Counts
<1>4. Outcomes' /\ ErrorsAccounted'
  BY <1>1 DEF Outcomes, ErrorsAccounted, mainVars
<1> QED  BY <1>1, <1>3, <1>4, WorkerStep DEF Holding, Counted, Types

LEMMA ReleaseInv == ASSUME IInv, NEW j \in Jobs, Release(j)  PROVE IInv'
<1> USE DEF IInv, outcome
<1>1. /\ UNCHANGED <<mainVars, errs, wg, outcome>> /\ processing' = processing - 1
      /\ Moves(j, "release", "ended")
      /\ worker[j] = "release" /\ worker \in [Jobs -> Points]
      /\ worker' = [worker EXCEPT ![j] = "ended"]
      /\ processing' \in {processing, processing - 1}
  BY AtFinite DEF Release, Moves, Types, Counts
<1>2. /\ Cardinality(At(Counted)') = Cardinality(At(Counted))
      /\ Cardinality(At(Holding)') = Cardinality(At(Holding)) - 1
  BY <1>1, CountLeave, CountStay DEF Counted, Holding
<1>3. Counts'  BY <1>1, <1>2 DEF Counts
<1>4. Outcomes' /\ ErrorsAccounted'
  BY <1>1 DEF Outcomes, ErrorsAccounted, mainVars
<1> QED  BY <1>1, <1>3, <1>4, WorkerStep DEF Holding, Counted, Types

\* Before the loop no goroutine has been started.
LEMMA NothingStarted ==
  ASSUME IInv, main = "persist"
  PROVE  At(Counted) = {} /\ At(Holding) = {} /\ processing = 0 /\ result = "none"
<1>1. next = 1 /\ result = "none"  BY DEF IInv, Phases
<1>2. \A j \in Jobs : worker[j] = "none"
  BY <1>1, PostProcessAssumption DEF IInv, Started, Jobs
<1>3. At(Counted) = {} /\ At(Holding) = {}  BY <1>2 DEF At, Counted, Holding
<1> QED  BY <1>1, <1>3, FS_EmptySet DEF IInv, Counts

LEMMA LaunchInv == ASSUME IInv, Launch  PROVE IInv'
<1> USE DEF IInv, outcome
<1>1. /\ main = "loop" /\ next \in Jobs /\ next <= jobs
      /\ UNCHANGED <<main, jobs, concurrency, errs, result, taken, outcome>>
      /\ processing' = processing + 1 /\ wg' = wg + 1 /\ next' = next + 1
      /\ processing \in Nat /\ processing < concurrency /\ concurrency \in Int
      /\ worker[next] = "none" /\ worker \in [Jobs -> Points]
      /\ worker' = [worker EXCEPT ![next] = "process"]
  BY AtFinite, PostProcessAssumption DEF Launch, Moves, Types, Counts, Slots, Jobs
<1>2. Types'  BY <1>1, PostProcessAssumption DEF Types, Points, Holding
<1>3. /\ Cardinality(At(Counted)') = Cardinality(At(Counted)) + 1
      /\ Cardinality(At(Holding)') = Cardinality(At(Holding)) + 1
  BY <1>1, CountEnter DEF Counted, Holding
<1>4. Counts'  BY <1>1, <1>3 DEF Counts
<1>5. Started'
  <2>1. \A j \in Jobs : j \in Int  BY DEF Jobs
  <2>2. next \in Int  BY <2>1, <1>1
  <2> QED  BY <1>1, <2>1, <2>2 DEF Started
<1>6. Phases'  BY <1>1 DEF Phases
<1>7. Outcomes'  BY <1>1 DEF Outcomes
<1>8. ErrorsAccounted'  BY <1>1 DEF ErrorsAccounted
<1>9. QuietAfterReturn' /\ ResultIsRight'
  BY <1>1 DEF QuietAfterReturn, ResultIsRight, Phases
<1> QED  BY <1>2, <1>4, <1>5, <1>6, <1>7, <1>8, <1>9

LEMMA TakeErrorInv == ASSUME IInv, TakeError  PROVE IInv'
<1> USE DEF IInv, outcome
<1>1. /\ main = "loop" /\ main' = "drain" /\ taken = 0 /\ errs # <<>>
      /\ taken' = Head(errs) /\ errs' = Tail(errs) /\ result = "none"
      /\ UNCHANGED <<jobs, concurrency, next, processing, wg, worker, result,
                     written, failed>>
  BY DEF TakeError, Phases
<1>2. ErrorsAccounted' /\ taken' \in Jobs /\ errs' \in Seq(Jobs)
  BY <1>1, TakingAccounts
<1>3. taken' \in 0..MaxJobs /\ taken' # 0  BY <1>2, PostProcessAssumption DEF Jobs
<1>4. Types'  BY <1>1, <1>2, <1>3 DEF Types
<1>5. Counts' /\ Started' /\ Outcomes'
  BY <1>1 DEF Counts, At, Started, Outcomes
<1>6. Phases' /\ QuietAfterReturn' /\ ResultIsRight'
  BY <1>1, <1>3 DEF Phases, QuietAfterReturn, ResultIsRight
<1> QED  BY <1>2, <1>4, <1>5, <1>6

LEMMA ReturnTakenInv == ASSUME IInv, ReturnTaken  PROVE IInv'
<1> USE DEF IInv
<1>1. /\ main = "drain" /\ main' = "returned" /\ wg = 0 /\ result' = "error"
      /\ UNCHANGED <<jobs, concurrency, next, processing, errs, wg, worker,
                     taken, outcome>>
      /\ UNCHANGED <<written, failed>>
  BY DEF ReturnTaken, AllDone, outcome
<1>2. At(Counted) = {}  BY <1>1, WaitMeans
<1>3. taken \in Jobs  BY <1>1, PostProcessAssumption DEF Types, Phases, Jobs
<1>4. failed # {}  BY <1>3 DEF ErrorsAccounted
<1>5. Types' /\ Phases'  BY <1>1 DEF Types, Phases
<1>6. QuietAfterReturn' /\ ResultIsRight'
  BY <1>1, <1>2, <1>4 DEF QuietAfterReturn, At, ResultIsRight
<1> QED  BY <1>1, <1>5, <1>6, MainStep

\* When the loop has started every job and nobody is counted, the files that
\* did not fail are on disk.
LEMMA AllAccounted ==
  ASSUME IInv, next > jobs, At(Counted) = {}, taken = 0, errs = <<>>
  PROVE  written = 1..jobs
<1> USE DEF IInv
<1>1. jobs \in 0..MaxJobs /\ MaxJobs \in Nat /\ next \in Int
      /\ worker \in [Jobs -> Points]
  BY PostProcessAssumption DEF Types
<1>2. failed \cap {j \in Jobs : worker[j] # "report"} = {}
  BY <1>1 DEF ErrorsAccounted, Jobs
<1>3. ASSUME NEW j \in 1..jobs  PROVE j \in written
  <2>1. j \in Jobs /\ j < next  BY <1>1 DEF Jobs
  <2>2. worker[j] # "none"  BY <1>1, <2>1 DEF Started, Jobs
  <2>3. worker[j] \notin Counted  BY <2>1 DEF At
  <2>4. worker[j] \in {"release", "ended"}
    BY <1>1, <2>1, <2>2, <2>3 DEF Points, Holding, Counted
  <2>5. j \in written \cup failed  BY <2>1, <2>4 DEF Outcomes
  <2> QED  BY <1>2, <2>1, <2>4, <2>5
<1>4. ASSUME NEW j \in written  PROVE j \in 1..jobs
  <2>1. j \in Jobs /\ worker[j] # "none"  BY DEF Types, Outcomes
  <2>2. j < next /\ next <= jobs + 1  BY <1>1, <2>1 DEF Started, Types, Jobs
  <2> QED  BY <1>1, <2>1, <2>2 DEF Jobs
<1> QED  BY <1>3, <1>4

LEMMA ReturnLastInv == ASSUME IInv, ReturnLast  PROVE IInv'
<1> USE DEF IInv
<1>1. /\ main = "wait" /\ main' = "returned" /\ wg = 0 /\ next > jobs /\ taken = 0
      /\ UNCHANGED <<jobs, concurrency, next, processing, wg, worker,
                     written, failed>>
  BY DEF ReturnLast, AllDone, outcome, Phases
<1>2. At(Counted) = {}  BY <1>1, WaitMeans
<1>3. CASE errs = <<>>
  <2>1. result' = "nil" /\ UNCHANGED <<taken, errs>>
    BY <1>3 DEF ReturnLast, ErrorLeft
  <2>2. written = 1..jobs  BY <1>1, <1>2, <1>3, AllAccounted
  <2>3. Types' /\ Phases'  BY <1>1, <2>1 DEF Types, Phases
  <2>4. QuietAfterReturn' /\ ResultIsRight'
    BY <1>1, <1>2, <2>1, <2>2 DEF QuietAfterReturn, At, ResultIsRight
  <2> QED  BY <1>1, <2>1, <2>3, <2>4, MainStep DEF outcome
<1>4. CASE errs # <<>>
  <2>1. result' = "error" /\ taken' = Head(errs) /\ errs' = Tail(errs)
    BY <1>4 DEF ReturnLast, ErrorLeft
  <2>2. /\ ErrorsAccounted' /\ taken' \in failed /\ taken' \in Jobs
        /\ errs' \in Seq(Jobs)
    BY <1>1, <1>4, <2>1, TakingAccounts
  <2>3. taken' \in 0..MaxJobs  BY <2>2, PostProcessAssumption DEF Jobs
  <2>4. Types' /\ Phases'  BY <1>1, <2>1, <2>2, <2>3 DEF Types, Phases
  <2>5. Counts' /\ Started' /\ Outcomes'
    BY <1>1 DEF Counts, At, Started, Outcomes
  <2>6. QuietAfterReturn' /\ ResultIsRight'
    BY <1>1, <1>2, <2>1, <2>2 DEF QuietAfterReturn, At, ResultIsRight
  <2> QED  BY <2>2, <2>4, <2>5, <2>6
<1> QED  BY <1>3, <1>4

LEMMA StepInv == IInv /\ [Next]_vars => IInv'
<1> SUFFICES ASSUME IInv, [Next]_vars PROVE IInv'  OBVIOUS
<1>1. Types /\ Phases /\ QuietAfterReturn /\ ResultIsRight  BY DEF IInv
<1>a. CASE UNCHANGED vars
  BY <1>1, <1>a, MainStep
  DEF vars, outcome, Types, Phases, QuietAfterReturn, At, ResultIsRight
<1>b. CASE Add
  <2>1. /\ jobs' \in 0..MaxJobs /\ next \in 1..(jobs' + 1) /\ main = "persist"
        /\ UNCHANGED <<main, concurrency, next, processing, errs, wg, worker,
                       result, taken, outcome>>
        /\ UNCHANGED <<written, failed>>
    BY <1>1, <1>b, PostProcessAssumption DEF Add, Types, outcome
  <2>2. Types' /\ Phases'  BY <1>1, <2>1 DEF Types, Phases
  <2>3. QuietAfterReturn' /\ ResultIsRight'
    BY <1>1, <2>1, NothingStarted DEF QuietAfterReturn, ResultIsRight
  <2> QED  BY <2>1, <2>2, <2>3, MainStep
<1>c. CASE PersistFails
  <2>1. /\ main = "persist" /\ main' = "returned" /\ result' = "error"
        /\ UNCHANGED <<jobs, concurrency, next, processing, errs, wg, worker,
                       taken, outcome>>
        /\ UNCHANGED <<written, failed>>
    BY <1>c DEF PersistFails, outcome
  <2>2. Types' /\ Phases'  BY <1>1, <2>1 DEF Types, Phases
  <2>3. QuietAfterReturn' /\ ResultIsRight'
    BY <1>1, <2>1, NothingStarted DEF QuietAfterReturn, At, ResultIsRight, Phases
  <2> QED  BY <2>1, <2>2, <2>3, MainStep
<1>d. CASE OnFinished
  <2>1. /\ main = "persist" /\ main' = "loop" /\ concurrency' \in Int
        /\ concurrency' >= 1 /\ processing = 0 /\ result = "none"
        /\ UNCHANGED <<jobs, next, processing, errs, wg, worker, result, taken,
                       outcome>>
        /\ UNCHANGED <<written, failed>>
    BY <1>1, <1>d, NothingStarted DEF OnFinished, AtLeastOne, outcome, Types
  <2>2. Types' /\ Phases'  BY <1>1, <2>1 DEF Types, Phases
  <2>3. QuietAfterReturn' /\ ResultIsRight'
    BY <2>1 DEF QuietAfterReturn, ResultIsRight
  <2> QED  BY <2>1, <2>2, <2>3, MainStep
<1>e. CASE Launch  BY <1>e, LaunchInv
<1>f. CASE TakeError  BY <1>f, TakeErrorInv
<1>g. CASE EndLoop
  <2>1. /\ main = "loop" /\ main' = "wait" /\ next > jobs
        /\ UNCHANGED <<jobs, concurrency, next, processing, errs, wg, worker,
                       result, taken, outcome>>
        /\ UNCHANGED <<written, failed>>
    BY <1>g DEF EndLoop, outcome
  <2>2. Types' /\ Phases'  BY <1>1, <2>1 DEF Types, Phases
  <2>3. QuietAfterReturn' /\ ResultIsRight'
    BY <1>1, <2>1 DEF QuietAfterReturn, ResultIsRight, Phases
  <2> QED  BY <2>1, <2>2, <2>3, MainStep
<1>h. CASE ReturnTaken  BY <1>h, ReturnTakenInv
<1>i. CASE ReturnLast  BY <1>i, ReturnLastInv
<1>j. ASSUME NEW j \in Jobs, Worker(j)  PROVE IInv'
  BY <1>j, ProcessInv, WriteInv, ReportInv, DoneInv, ReleaseInv DEF Worker
<1> QED
  BY <1>a, <1>b, <1>c, <1>d, <1>e, <1>f, <1>g, <1>h, <1>i, <1>j DEF Next, Main

-----------------------------------------------------------------------------
(***************************************************************************)
(* Room in the channel errs: as many errors are in it, or were taken from  *)
(* it, as goroutines have failed and are past the send.                    *)
(***************************************************************************)

Reported == {j \in failed : worker[j] # "report"}

RoomInv == Len(errs) + (IF taken = 0 THEN 0 ELSE 1) = Cardinality(Reported)

LEMMA ReportedFinite ==
  IInv => /\ Reported \subseteq Jobs
          /\ IsFiniteSet(Reported) /\ Cardinality(Reported) \in Nat
<1> SUFFICES ASSUME IInv
             PROVE  /\ Reported \subseteq Jobs
                    /\ IsFiniteSet(Reported) /\ Cardinality(Reported) \in Nat
  OBVIOUS
<1>1. IsFiniteSet(Jobs)  BY FS_Interval, PostProcessAssumption DEF Jobs
<1>2. Reported \subseteq Jobs  BY DEF Reported, IInv, Types
<1> QED  BY <1>1, <1>2, FS_Subset, FS_CardinalityType

LEMMA InitRoom == Init => RoomInv
<1> SUFFICES ASSUME Init PROVE RoomInv  OBVIOUS
<1>1. Reported = {}  BY DEF Init, Reported
<1> QED  BY <1>1, FS_EmptySet DEF Init, RoomInv

LEMMA StepRoom == IInv /\ RoomInv /\ [Next]_vars => RoomInv'
<1> SUFFICES ASSUME IInv, RoomInv, [Next]_vars PROVE RoomInv'  OBVIOUS
<1>1. errs \in Seq(Jobs) /\ Len(errs) \in Nat /\ worker \in [Jobs -> Points]
      /\ Outcomes /\ Phases /\ failed \subseteq Jobs
  BY DEF IInv, Types
\* Steps that neither report nor take an error.
<1>2. ASSUME UNCHANGED <<errs, taken>>, Reported' = Reported  PROVE RoomInv'
  BY <1>2 DEF RoomInv
\* Taking an error moves one from the channel to "taken".
<1>3. ASSUME errs # <<>>, taken = 0, taken' = Head(errs), errs' = Tail(errs),
             UNCHANGED <<failed, worker>>
      PROVE  RoomInv'
  <2>1. Reported' = Reported  BY <1>3 DEF Reported
  <2>2. Len(errs') = Len(errs) - 1 /\ taken' \in Jobs  BY <1>1, <1>3
  <2>3. taken' # 0  BY <2>2 DEF Jobs
  <2> QED  BY <1>1, <1>3, <2>1, <2>2, <2>3 DEF RoomInv
<1>a. CASE UNCHANGED vars \/ Add \/ PersistFails \/ OnFinished \/ EndLoop
           \/ ReturnTaken
  BY <1>2, <1>a
  DEF vars, outcome, Add, PersistFails, OnFinished, EndLoop, ReturnTaken, Reported
<1>b. CASE Launch
  <2>1. worker[next] = "none" /\ worker' = [worker EXCEPT ![next] = "process"]
        /\ UNCHANGED <<errs, taken, failed>>
    BY <1>b DEF Launch, Moves, outcome
  <2>2. Reported' = Reported  BY <1>1, <2>1 DEF Reported
  <2> QED  BY <1>2, <2>1, <2>2
<1>c. CASE TakeError
  BY <1>1, <1>3, <1>c DEF TakeError, Phases, outcome
<1>d. CASE ReturnLast
  <2>1. CASE errs = <<>>
    BY <1>2, <1>d, <2>1 DEF ReturnLast, ErrorLeft, outcome, Reported
  <2>2. CASE errs # <<>>
    BY <1>1, <1>3, <1>d, <2>2 DEF ReturnLast, ErrorLeft, Phases, outcome
  <2> QED  BY <2>1, <2>2
<1>e. ASSUME NEW j \in Jobs, Process(j) \/ Write(j)  PROVE RoomInv'
  <2>1. /\ worker[j] \in {"process", "write"} /\ UNCHANGED <<errs, taken>>
        /\ \E to : /\ worker' = [worker EXCEPT ![j] = to]
                  /\ failed' = IF to = "report" THEN failed \cup {j} ELSE failed
    BY <1>e DEF Process, Write, Moves, mainVars
  <2>2. j \notin failed  BY <1>1, <2>1 DEF Outcomes
  <2>3. Reported' = Reported  BY <1>1, <2>1, <2>2 DEF Reported
  <2> QED  BY <1>2, <2>1, <2>3
<1>f. ASSUME NEW j \in Jobs, Report(j)  PROVE RoomInv'
  <2>1. /\ worker[j] = "report" /\ worker' = [worker EXCEPT ![j] = "done"]
        /\ errs' = Append(errs, j) /\ UNCHANGED <<taken, failed>> /\ j \in failed
    BY <1>1, <1>f DEF Report, Moves, mainVars, outcome, Outcomes
  <2>2. Reported' = Reported \cup {j} /\ j \notin Reported
    BY <1>1, <2>1 DEF Reported
  <2>3. Cardinality(Reported') = Cardinality(Reported) + 1
    BY <2>2, ReportedFinite, FS_AddElement
  <2>4. Len(errs') = Len(errs) + 1  BY <1>1, <2>1
  <2> QED  BY <1>1, <2>1, <2>3, <2>4, ReportedFinite DEF RoomInv
<1>g. ASSUME NEW j \in Jobs, Done(j) \/ Release(j)  PROVE RoomInv'
  <2>1. /\ worker[j] # "report" /\ UNCHANGED <<errs, taken, failed>>
        /\ \E to : to # "report" /\ worker' = [worker EXCEPT ![j] = to]
    BY <1>g DEF Done, Release, Moves, mainVars, outcome
  <2>2. Reported' = Reported  BY <1>1, <2>1 DEF Reported
  <2> QED  BY <1>2, <2>1, <2>2
<1> QED
  BY <1>a, <1>b, <1>c, <1>d, <1>e, <1>f, <1>g DEF Next, Main, Worker

-----------------------------------------------------------------------------
(***************************************************************************)
(* The theorems.                                                           *)
(***************************************************************************)

\* The counters and channels of OnFinished count what they stand for.
THEOREM TypeCorrect == Spec => []TypeOK
<1>1. IInv => TypeOK
  BY DEF IInv, Types, Counts, Phases, TypeOK, Points
<1> QED  BY <1>1, InitInv, StepInv, PTL DEF Spec

\* At most "concurrency" files are post-processed and written at a time.
THEOREM ConcurrencyIsBounded == Spec => []BoundedConcurrency
<1>1. IInv => BoundedConcurrency
  <2> SUFFICES ASSUME IInv, main \notin {"persist", "returned"}
               PROVE  Cardinality(At(Counted)) <= concurrency
    BY DEF BoundedConcurrency
  <2>1. At(Counted) \subseteq At(Holding)  BY DEF At, Counted, Holding
  <2>2. Cardinality(At(Counted)) <= Cardinality(At(Holding))
    BY <2>1, AtFinite, FS_Subset
  <2>3. Cardinality(At(Holding)) <= concurrency  BY DEF IInv, Phases, Counts
  <2> QED  BY <2>2, <2>3, AtFinite DEF IInv, Types
<1> QED  BY <1>1, InitInv, StepInv, PTL DEF Spec

\* No goroutine works on a file once Persist has returned, and what Persist
\* returned is right: nil only if every file was written.
THEOREM ResultIsFinal == Spec => [](QuietAfterReturn /\ ResultIsRight)
<1>1. IInv => QuietAfterReturn /\ ResultIsRight  BY DEF IInv
<1> QED  BY <1>1, InitInv, StepInv, PTL DEF Spec

\* The pool of goroutines implements the promise of Persist, step by step.
THEOREM ImplementsPersist == Spec => KeepsPromise
<1> USE DEF P!Want, P!WriteOne, P!FailOne, P!ReturnNil, P!ReturnError
<1>1. Init => P!PersistInit
  BY PostProcessAssumption DEF Init, P!PersistInit
<1>2. IInv /\ [Next]_vars => [P!PersistNext]_(P!persistVars)
  <2> SUFFICES ASSUME IInv, [Next]_vars
               PROVE  P!PersistNext \/ UNCHANGED P!persistVars
    OBVIOUS
  <2>1. /\ Types /\ Phases /\ Outcomes /\ jobs \in Nat /\ MaxJobs \in Nat
        /\ jobs \in 0..MaxJobs
    BY PostProcessAssumption DEF IInv, Types
  <2>2. ASSUME UNCHANGED <<jobs, outcome, result>>  PROVE UNCHANGED P!persistVars
    BY <2>2 DEF P!persistVars, outcome
  <2>3. CASE UNCHANGED vars  BY <2>2, <2>3 DEF vars, outcome
  <2>4. CASE Add
    <3>1. /\ main = "persist" /\ jobs < MaxJobs /\ jobs' = jobs + 1
          /\ result = "none" /\ written = {} /\ failed = {}
          /\ UNCHANGED <<written, failed, result>>
      BY <2>1, <2>4 DEF Add, Phases, outcome
    <3>2. jobs + 1 \in Jobs \ 1..jobs /\ 1..jobs' = 1..jobs \cup {jobs + 1}
      BY <2>1, <3>1 DEF Jobs
    <3> QED  BY <3>1, <3>2 DEF P!PersistNext
  <2>5. CASE PersistFails
    BY <2>1, <2>5 DEF PersistFails, Phases, outcome, P!PersistNext
  <2>6. CASE OnFinished \/ Launch \/ TakeError \/ EndLoop
    BY <2>2, <2>6 DEF OnFinished, Launch, TakeError, EndLoop
  <2>7. CASE ReturnTaken
    <3>1. IInv'  BY <2>7, ReturnTakenInv
    <3>2. result = "none" /\ result' = "error"
          /\ UNCHANGED <<jobs, written, failed>>
      BY <2>1, <2>7 DEF ReturnTaken, Phases, outcome
    <3>3. failed # {} \/ written = {}
      BY <3>1, <3>2 DEF IInv, ResultIsRight
    <3> QED  BY <3>2, <3>3 DEF P!PersistNext
  <2>8. CASE ReturnLast
    <3>1. IInv'  BY <2>8, ReturnLastInv
    <3>2. result = "none" /\ result' \in {"error", "nil"}
          /\ UNCHANGED <<jobs, written, failed>>
      BY <2>1, <2>8 DEF ReturnLast, Phases, outcome
    <3>3. result' = "error" => failed # {} \/ written = {}
      BY <3>1, <3>2 DEF IInv, ResultIsRight
    <3>4. result' = "nil" => written = 1..jobs
      BY <3>1, <3>2 DEF IInv, ResultIsRight
    <3> QED  BY <3>2, <3>3, <3>4 DEF P!PersistNext
  <2>9. ASSUME NEW j \in Jobs, Worker(j)
        PROVE  P!PersistNext \/ UNCHANGED P!persistVars
    <3>1. ASSUME worker[j] \in {"process", "write"}
          PROVE  j \in 1..jobs \ (written \cup failed) /\ result = "none"
      BY <2>1, <3>1, AtWork DEF Holding, Counted, Outcomes
    <3>2. CASE Process(j)
      BY <2>2, <3>1, <3>2
      DEF Process, Moves, mainVars, outcome, P!PersistNext
    <3>3. CASE Write(j)
      BY <3>1, <3>3 DEF Write, Moves, mainVars, P!PersistNext
    <3>4. CASE Report(j) \/ Done(j) \/ Release(j)
      BY <2>2, <3>4 DEF Report, Done, Release, mainVars
    <3> QED  BY <2>9, <3>2, <3>3, <3>4 DEF Worker
  <2> QED
    BY <2>3, <2>4, <2>5, <2>6, <2>7, <2>8, <2>9 DEF Next, Main
<1> QED  BY <1>1, <1>2, InitInv, StepInv, PTL DEF Spec, KeepsPromise, P!PersistSpec

\* Sending an error never blocks, for any number of files and failures: the
\* channel has room for every goroutine that can still fail.
THEOREM ReportingNeverBlocks == Spec => []ReportNeverBlocks
<1>1. IInv /\ RoomInv => ReportNeverBlocks
  <2> SUFFICES ASSUME IInv, RoomInv, NEW j \in Jobs, worker[j] = "report"
               PROVE  Len(errs) < jobs
    BY DEF ReportNeverBlocks, ErrsCapacity
  <2>1. j \in 1..jobs /\ jobs \in Nat
    BY AtWork, PostProcessAssumption DEF IInv, Types, Holding
  <2>2. ASSUME NEW k \in Reported  PROVE k \in (1..jobs) \ {j}
    <3>1. k \in Jobs /\ k \in failed /\ k # j
      BY <2>2, ReportedFinite DEF Reported
    <3>2. worker[k] # "none"  BY <3>1 DEF IInv, Outcomes
    <3>3. k < next /\ next \in 1..(jobs + 1)
      BY <3>1, <3>2, <2>1 DEF IInv, Started, Types, Jobs
    <3> QED  BY <2>1, <3>1, <3>3 DEF Jobs
  <2>3. /\ IsFiniteSet(1..jobs) /\ Cardinality(1..jobs) = jobs
    BY <2>1, FS_Interval
  <2>4. /\ IsFiniteSet((1..jobs) \ {j})
        /\ Cardinality((1..jobs) \ {j}) = jobs - 1
    BY <2>1, <2>3, FS_RemoveElement
  <2>5. Cardinality(Reported) <= jobs - 1
    BY <2>2, <2>4, FS_Subset
  <2>6. Len(errs) \in Nat  BY DEF IInv, Types
  <2> QED  BY <2>1, <2>5, <2>6, ReportedFinite DEF RoomInv
<1>2. Init => IInv /\ RoomInv  BY InitInv, InitRoom
<1>3. (IInv /\ RoomInv) /\ [Next]_vars => (IInv /\ RoomInv)'
  BY StepInv, StepRoom
<1> QED  BY <1>1, <1>2, <1>3, PTL DEF Spec
=============================================================================
