-------------------------- MODULE MatrixScheduler --------------------------
(***************************************************************************)
(* benchmark/workload/scheduler.py: MatrixScheduler.run and the worker     *)
(* processes of its ProcessPoolExecutor.  The cells, numbered in list      *)
(* order, are all submitted to the pool and collected as they complete.    *)
(* The executor is the standard library's: a worker process that dies      *)
(* breaks the pool, which fails every future that is not done yet and      *)
(* refuses further submissions.                                            *)
(***************************************************************************)
EXTENDS Integers, Sequences, FiniteSets

CONSTANTS
  NumCells,      \* cells are 1..NumCells
  MaxWorkers,    \* worker processes
  Normalized,    \* cells whose worker finds shifted timestamps in the dataset
  MayHang        \* cells whose worker may never come back

Cells == 1..NumCells

ASSUME MatrixAssumption ==
  /\ NumCells \in Nat
  /\ MaxWorkers \in Nat \ {0}
  /\ Normalized \subseteq Cells /\ MayHang \subseteq Cells

VARIABLES
  pc,          \* ready | submit | collect | draining | returned | raised
  state,       \* idle | pending | running | done | collected, per cell
  future,      \* what a done future holds: none | ok | failed | exception
  broken,      \* the pool lost a worker process
  results,     \* the list run() builds: <<success>>
  normFrom     \* cell whose answer set normalization_meta, 0 if none

vars == <<pc, state, future, broken, results, normFrom>>

Running == {c \in Cells : state[c] = "running"}
Reported == {results[i][1] : i \in 1..Len(results)}

(* What _run_cell_worker answers.  "failed" is its own result dict with    *)
(* success False; "early" the same, from before the dataset was looked at; *)
(* "exception" is raised while the cell is rebuilt, before the try.        *)
Answers == {"ok", "failed", "early", "exception"}

(* Futures that the death of a worker process fails.  Mutant: only those   *)
(* that were being worked on.                                              *)
FailedByDeathOfRunning == Running
FailedByDeath == {c \in Cells : state[c] \in {"pending", "running"}}

(* What the futures it fails are given.                                    *)
LostWorker == "exception"

(* The result made of a future.  Mutant: any answer is a success.          *)
SuccessIfAnswered(f) == f # "exception"
Success(f) == f = "ok"

(* All futures have been handed out by as_completed.  Mutant: the loop     *)
(* ends when no worker is busy.                                            *)
NoneRunning == Running = {}
AllCollected == \A c \in Cells : state[c] = "collected"

(* The answer carries timestamp normalization that applied: the worker     *)
(* read it before it ran the scenarios, so a failed cell may have it too.  *)
CarriesNormalization(c) == c \in Normalized /\ future[c] \in {"ok", "failed"}

Init ==
  /\ pc = "ready"
  /\ state = [c \in Cells |-> "idle"]
  /\ future = [c \in Cells |-> "none"]
  /\ broken = FALSE
  /\ results = <<>>
  /\ normFrom = 0

(* run(): the executor is made, nothing is submitted yet. *)
Start ==
  /\ pc = "ready"
  /\ pc' = "submit"
  /\ UNCHANGED <<state, future, broken, results, normFrom>>

(* executor.submit of the next cell of the list. *)
Submit(c) ==
  /\ pc = "submit" /\ ~ broken
  /\ state[c] = "idle" /\ \A d \in Cells : d < c => state[d] # "idle"
  /\ state' = [state EXCEPT ![c] = "pending"]
  /\ UNCHANGED <<pc, future, broken, results, normFrom>>

(* submit on a broken pool raises BrokenProcessPool out of run(); the with *)
(* statement shuts the executor down on the way.                           *)
SubmitRefused ==
  /\ pc = "submit" /\ broken
  /\ \E c \in Cells : state[c] = "idle"
  /\ pc' = "draining"
  /\ UNCHANGED <<state, future, broken, results, normFrom>>

Submitted ==
  /\ pc = "submit"
  /\ \A c \in Cells : state[c] # "idle"
  /\ pc' = "collect"
  /\ UNCHANGED <<state, future, broken, results, normFrom>>

(* One turn of the as_completed loop: result(timeout=300) of a done future *)
(* answers at once, so its TimeoutError branch is never the time limit.    *)
Collect(c) ==
  /\ pc = "collect"
  /\ state[c] = "done"
  /\ normFrom' = IF normFrom = 0 /\ CarriesNormalization(c) THEN c ELSE normFrom
  /\ results' = Append(results, <<c, Success(future[c])>>)
  /\ state' = [state EXCEPT ![c] = "collected"]
  /\ UNCHANGED <<pc, future, broken>>

(* progress_callback raises, or the user interrupts. *)
Raise ==
  /\ pc \in {"submit", "collect"}
  /\ pc' = "draining"
  /\ UNCHANGED <<state, future, broken, results, normFrom>>

Return ==
  /\ pc = "collect"
  /\ AllCollected
  /\ pc' = "returned"
  /\ UNCHANGED <<state, future, broken, results, normFrom>>

(* shutdown(wait=True) on the way out of an exception. *)
Drain ==
  /\ pc = "draining"
  /\ \A c \in Cells : state[c] \notin {"pending", "running"}
  /\ pc' = "raised"
  /\ UNCHANGED <<state, future, broken, results, normFrom>>

(* The executor hands the pending cells to its processes in order. *)
WorkerTake(c) ==
  /\ ~ broken
  /\ state[c] = "pending" /\ \A d \in Cells : state[d] = "pending" => c <= d
  /\ Cardinality(Running) < MaxWorkers
  /\ state' = [state EXCEPT ![c] = "running"]
  /\ UNCHANGED <<pc, future, broken, results, normFrom>>

WorkerAnswer(c, a) ==
  /\ state[c] = "running"
  /\ state' = [state EXCEPT ![c] = "done"]
  /\ future' = [future EXCEPT ![c] = a]
  /\ UNCHANGED <<pc, broken, results, normFrom>>

(* A worker process is killed (out of memory): the pool is broken. *)
WorkerDies(c) ==
  /\ state[c] = "running"
  /\ broken' = TRUE
  /\ state' = [d \in Cells |-> IF d \in FailedByDeath THEN "done" ELSE state[d]]
  /\ future' = [d \in Cells |-> IF d \in FailedByDeath THEN LostWorker ELSE future[d]]
  /\ UNCHANGED <<pc, results, normFrom>>

Done == pc \in {"returned", "raised"} /\ UNCHANGED vars

MainStep ==
  \/ Start
  \/ \E c \in Cells : Submit(c)
  \/ SubmitRefused
  \/ Submitted
  \/ \E c \in Cells : Collect(c)
  \/ Return
  \/ Drain

Next ==
  \/ MainStep
  \/ \E c \in Cells : WorkerTake(c)
  \/ \E c \in Cells, a \in Answers : WorkerAnswer(c, a)
  \/ \E c \in Cells : WorkerDies(c)
  \/ Raise
  \/ Done

Fairness ==
  /\ WF_vars(MainStep)
  /\ \A c \in Cells :
       /\ WF_vars(WorkerTake(c))
       /\ WF_vars(c \notin MayHang /\ \E a \in Answers : WorkerAnswer(c, a))

Spec == Init /\ [][Next]_vars
FairSpec == Spec /\ Fairness

(***************************************************************************)
(* Properties.                                                             *)
(***************************************************************************)

(* A cell is reported as a success only if its own worker said so, even    *)
(* when the process of another cell died and took the pool with it; no     *)
(* cell has two results.                                                   *)
NoFalseSuccess ==
  /\ \A i \in 1..Len(results) : results[i][2] => future[results[i][1]] = "ok"
  /\ \A i, j \in 1..Len(results) : results[i][1] = results[j][1] => i = j

(* run() comes to an end, by returning or by raising. *)
RunEnds == pc = "submit" ~> pc \in {"returned", "raised"}

(* The comment on the TimeoutError branch of the loop: "Worker hung past   *)
(* 5 min - cancel the future to avoid zombie subprocess."  The loop gives  *)
(* a cell up if its worker does not come back.                             *)
HungCellGivenUp ==
  \A c \in Cells :
    pc = "collect" /\ state[c] = "running" ~> state[c] # "running" \/ pc = "raised" \/ pc = "draining"

(* What a caller of run() can tell. *)
CallStatus ==
  CASE pc \in {"ready", "returned"} -> "closed"
    [] pc \in {"draining", "raised"} -> "lost"
    [] OTHER -> "open"
Owed == IF pc = "ready" THEN {} ELSE Cells \ Reported
Delivered == {results[i] : i \in 1..Len(results)}

Promise == INSTANCE BatchRun WITH
  status <- CallStatus, todo <- Owed, reported <- Delivered

(* MatrixScheduler implements BatchRun: run() returns a result for every   *)
(* cell or does not return.                                                *)
ImplementsBatchRun == Promise!Spec
=============================================================================
