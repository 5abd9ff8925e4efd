------------------------------ MODULE PostProcess ----------------------------
(***************************************************************************)
(* generator/generator.go: Persist and the asyncPostProcess it runs.       *)
(*                                                                         *)
(* Persist turns every file of the response into a job.  OnFinished starts *)
(* one goroutine per job, at most "concurrency" at a time: a token in the  *)
(* buffered channel "processing" is a slot.  A goroutine post-processes    *)
(* its file, writes it, and sends its error, if any, to the channel        *)
(* "errs".  The main loop waits for a slot or for an error, whichever the  *)
(* select statement picks; after an error it starts no more jobs.  Before  *)
(* it returns it waits for the goroutines it has started.                  *)
(***************************************************************************)
EXTENDS Integers, Sequences, FiniteSets

CONSTANTS
  MaxJobs,   \* bound on the files of the response
  Procs      \* values of runtime.GOMAXPROCS(0) that are considered

ASSUME PostProcessAssumption == MaxJobs \in Nat /\ Procs \subseteq Int

Jobs == 1..MaxJobs

VARIABLES
  main,         \* where Persist and OnFinished are
  jobs,         \* asyncPostProcess.jobs: how many there are
  concurrency,  \* asyncPostProcess.concurrency
  next,         \* the job the main loop starts next
  processing,   \* channel: number of tokens in it
  errs,         \* channel: the jobs whose errors are in it
  wg,           \* sync.WaitGroup: its counter
  worker,       \* where the goroutine of each job is
  result,       \* what Persist returns
  taken,        \* the error the loop received, or 0
  written,      \* history: files that were written
  failed        \* history: files that could not be processed or written

mainVars == <<main, jobs, concurrency, next, result, taken>>
outcome  == <<written, failed>>
vars == <<main, jobs, concurrency, next, processing, errs, wg, worker,
          result, taken, written, failed>>

\* A goroutine moves on from one of its program points to another.
Moves(j, from, to) ==
  /\ worker[j] = from
  /\ worker' = [worker EXCEPT ![j] = to]

-----------------------------------------------------------------------------
(***************************************************************************)
(* Persist and the main goroutine of OnFinished.                           *)
(***************************************************************************)

Init ==
  /\ main = "persist" /\ jobs = 0 /\ concurrency \in Procs /\ next = 1
  /\ processing = 0 /\ errs = <<>> /\ wg = 0
  /\ worker = [j \in Jobs |-> "none"]
  /\ result = "none" /\ taken = 0 /\ written = {} /\ failed = {}

Add ==
  /\ main = "persist" /\ jobs < MaxJobs
  /\ jobs' = jobs + 1
  /\ UNCHANGED <<main, concurrency, next, processing, errs, wg, worker,
                 result, taken, outcome>>

\* The response is an error, a file has no name, or there is no directory to
\* put a relative name in.
PersistFails ==
  /\ main = "persist"
  /\ main' = "returned" /\ result' = "error"
  /\ UNCHANGED <<jobs, concurrency, next, processing, errs, wg, worker,
                 taken, outcome>>

\* Mutant: errs has one place per slot.
ErrsPerSlot == concurrency

\* make(chan error, len(p.jobs)): one place for the error of every job.
ErrsCapacity == jobs

\* make(chan struct{}, p.concurrency)
Slots == concurrency

\* Mutant: a concurrency of zero is taken as it is.
Unguarded(c) == c

AtLeastOne(c) == IF c <= 0 THEN 1 ELSE c

\* Mutant: nobody waits for the goroutines.
NotWaiting == TRUE

\* wg.Wait() returns
AllDone == wg = 0

\* The select statement at the end receives an error.
ErrorLeft == errs # <<>>

OnFinished ==
  /\ main = "persist"
  /\ main' = "loop"
  /\ concurrency' = AtLeastOne(concurrency)
  /\ UNCHANGED <<jobs, next, processing, errs, wg, worker, result, taken,
                 outcome>>

\* case processing <- struct{}{}: a slot is free, the job gets its goroutine.
Launch ==
  /\ main = "loop" /\ next <= jobs
  /\ processing < Slots
  /\ processing' = processing + 1
  /\ wg' = wg + 1
  /\ Moves(next, "none", "process")
  /\ next' = next + 1
  /\ UNCHANGED <<main, jobs, concurrency, errs, result, taken, outcome>>

\* case err := <-errs: a job has failed, no more jobs are started.
TakeError ==
  /\ main = "loop" /\ next <= jobs
  /\ errs # <<>>
  /\ taken' = Head(errs) /\ errs' = Tail(errs)
  /\ main' = "drain"
  /\ UNCHANGED <<jobs, concurrency, next, processing, wg, worker, result,
                 outcome>>

EndLoop ==
  /\ main = "loop" /\ next > jobs
  /\ main' = "wait"
  /\ UNCHANGED <<jobs, concurrency, next, processing, errs, wg, worker,
                 result, taken, outcome>>

\* wg.Wait(); return err
ReturnTaken ==
  /\ main = "drain" /\ AllDone
  /\ main' = "returned" /\ result' = "error"
  /\ UNCHANGED <<jobs, concurrency, next, processing, errs, wg, worker,
                 taken, outcome>>

\* wg.Wait(), then the select with a default: an error if there is one.
ReturnLast ==
  /\ main = "wait" /\ AllDone
  /\ main' = "returned"
  /\ IF ErrorLeft
     THEN result' = "error" /\ taken' = Head(errs) /\ errs' = Tail(errs)
     ELSE result' = "nil" /\ UNCHANGED <<taken, errs>>
  /\ UNCHANGED <<jobs, concurrency, next, processing, wg, worker, outcome>>

-----------------------------------------------------------------------------
(***************************************************************************)
(* The goroutine of one job.                                               *)
(***************************************************************************)

\* p.pp.PostProcess(path, content), or nothing when there is no processor.
Process(j) ==
  /\ \/ Moves(j, "process", "write") /\ UNCHANGED failed
     \/ Moves(j, "process", "report") /\ failed' = failed \cup {j}
  /\ UNCHANGED <<mainVars, processing, errs, wg, written>>

\* f(path, content): make the directory and write the file.
Write(j) ==
  /\ \/ Moves(j, "write", "done") /\ written' = written \cup {j} /\ UNCHANGED failed
     \/ Moves(j, "write", "report") /\ failed' = failed \cup {j} /\ UNCHANGED written
  /\ UNCHANGED <<mainVars, processing, errs, wg>>

\* errs <- err, which blocks while the channel is full.
Report(j) ==
  /\ Moves(j, "report", "done")
  /\ Len(errs) < ErrsCapacity
  /\ errs' = Append(errs, j)
  /\ UNCHANGED <<mainVars, processing, wg, outcome>>

\* wg.Done(), the first half of the deferred function.
Done(j) ==
  /\ Moves(j, "done", "release")
  /\ wg' = wg - 1
  /\ UNCHANGED <<mainVars, processing, errs, outcome>>

\* <-processing, the second half.
Release(j) ==
  /\ Moves(j, "release", "ended")
  /\ processing > 0
  /\ processing' = processing - 1
  /\ UNCHANGED <<mainVars, errs, wg, outcome>>

-----------------------------------------------------------------------------

Main ==
  \/ Add \/ PersistFails \/ OnFinished
  \/ Launch \/ TakeError \/ EndLoop \/ ReturnTaken \/ ReturnLast

Worker(j) == Process(j) \/ Write(j) \/ Report(j) \/ Done(j) \/ Release(j)

Next == Main \/ \E j \in Jobs : Worker(j)

Spec == Init /\ [][Next]_vars

\* The Go scheduler runs every goroutine that can run, the post-processor and
\* the file system return, and the response has finitely many files.
FairSpec == Spec /\ WF_vars(Main) /\ \A j \in Jobs : WF_vars(Worker(j))

-----------------------------------------------------------------------------
(***************************************************************************)
(* Properties.                                                             *)
(***************************************************************************)

\* The program points of a goroutine that holds a slot, and of one that the
\* wait group counts.
Holding == {"process", "write", "report", "done", "release"}
Counted == {"process", "write", "report", "done"}

At(points) == {j \in Jobs : worker[j] \in points}

\* The counters and channels count what they stand for.
TypeOK ==
  /\ main \in {"persist", "loop", "drain", "wait", "returned"}
  /\ result \in {"none", "nil", "error"}
  /\ jobs \in 0..MaxJobs /\ next \in 1..(jobs + 1) /\ concurrency \in Int
  /\ taken \in 0..MaxJobs
  /\ worker \in [Jobs -> Holding \cup {"none", "ended"}]
  /\ errs \in Seq(Jobs)
  /\ wg = Cardinality(At(Counted))
  /\ processing = Cardinality(At(Holding))
  /\ written \subseteq Jobs /\ failed \subseteq Jobs

\* No more than "concurrency" files are in work at any time, whatever mix of
\* slots, errors and endings the loop has seen.
BoundedConcurrency ==
  main \notin {"persist", "returned"} => Cardinality(At(Counted)) <= concurrency

\* When Persist has returned, no goroutine works on a file or reports any more.
QuietAfterReturn ==
  main = "returned" => At(Counted) = {}

\* Sending an error never blocks, or Persist would wait forever for the
\* goroutine that sends: main no longer receives once it waits.
ReportNeverBlocks ==
  \A j \in Jobs : worker[j] = "report" => Len(errs) < ErrsCapacity

\* An error is neither lost nor invented: it is in the channel or was taken.
ErrorsAccounted ==
  \A j \in Jobs :
    (\E i \in DOMAIN errs : errs[i] = j) \/ taken = j
      <=> j \in failed /\ worker[j] # "report"

\* Success means every file is on disk, an error that some file failed or
\* that nothing was begun.
ResultIsRight ==
  /\ result = "nil" => written = 1..jobs
  /\ result = "error" => failed # {} \/ written = {}

\* Persist returns, whatever fails and however the goroutines interleave.
Returns == <>(main = "returned")

\* Persist keeps its promise: see Persist.
P == INSTANCE Persist WITH wanted <- 1..jobs

KeepsPromise == P!PersistSpec
=============================================================================
