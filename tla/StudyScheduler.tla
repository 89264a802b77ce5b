--------------------------- MODULE StudyScheduler ---------------------------
(***************************************************************************)
(* benchmark/workload/study_scheduler.py: StudyScheduler.run, the worker   *)
(* threads of its ThreadPoolExecutor, and the CellCheckpointer that writes *)
(* one CSV row per finished cell.  One scheduler object serves a sequence  *)
(* of runs (the phases and seeds of a study, scripts/study_runner.py), so  *)
(* the checkpoint file outlives a run.                                     *)
(*                                                                         *)
(* Cells are numbered in list order.  Their strategy decides where they    *)
(* run: a strategy outside SafeInThreadPool runs in the main thread, one   *)
(* after the other, before the pool is opened; the others run in the pool. *)
(* What a cell measures is abstracted to success or failure.               *)
(***************************************************************************)
EXTENDS Integers, Sequences, FiniteSets

CONSTANTS
  NumCells,       \* cells are 1..NumCells, in list order
  StrategyOf,     \* canonical retrieval strategy of each cell
  NumRuns,        \* how many times run() is called on this scheduler
  Batch,          \* the cells given to each of these calls
  MaxWorkers,     \* min(requested workers, cpu_count - 1)
  MayHang         \* cells whose worker may never come back

Cells == 1..NumCells
Runs == 1..NumRuns

(* The strategies a study can name (study_matrix.py), and those of them    *)
(* that load a torch model and so use the GPU context of the process.      *)
TorchStrategies == {"semantic", "hybrid", "llm_rerank", "colbert", "adaptive"}
Strategies == TorchStrategies \cup {"bm25", "bm25l", "recency"}

ASSUME SchedulerAssumption ==
  /\ NumCells \in Nat /\ NumRuns \in Nat
  /\ StrategyOf \in [Cells -> Strategies]
  /\ Batch \in [Runs -> SUBSET Cells]
  /\ MaxWorkers \in Nat \ {0}
  /\ MayHang \subseteq Cells

(* Mutant: colbert, which loads sentence-transformers, is put in the pool. *)
SafeInThreadPoolWithColbert == {"bm25", "bm25l", "recency", "colbert"}

(* _STRATEGIES_SAFE_IN_THREADPOOL *)
SafeInThreadPool == {"bm25", "bm25l", "recency"}

NeedsDirectExecution(c) == StrategyOf[c] \notin SafeInThreadPool

VARIABLES
  pc,             \* where the main thread is
  run,            \* number of the current (or last) call of run()
  cell,           \* the cell the main thread works on, 0 if none
  state,          \* idle | queued | running | finished | collected, per cell
  outcome,        \* what the worker produced: none | ok | failed | raised
  results,        \* the list run() builds: <<cell, success>>
  completed,      \* the running count given to the progress callback
  headerWritten,  \* CellCheckpointer._header_written
  csv             \* the checkpoint file: Header and <<run, cell, success>> rows

vars == <<pc, run, cell, state, outcome, results, completed, headerWritten, csv>>

Header == <<0, 0, FALSE>>
Outcomes == {"ok", "failed", "raised"}

Direct == {c \in Batch[run] : NeedsDirectExecution(c)}
Parallel == {c \in Batch[run] : ~ NeedsDirectExecution(c)}
EffectiveWorkers == IF Cardinality(Parallel) < MaxWorkers
                    THEN Cardinality(Parallel) ELSE MaxWorkers
Running == {c \in Cells : state[c] = "running"}
Reported == {results[i][1] : i \in 1..Len(results)}

(* The direct loop is over.  Mutant: the pool does not wait for it.        *)
DirectLoopNeverChecked == TRUE
DirectLoopOver == \A d \in Direct : state[d] = "collected"

(* as_completed yields a future once, when it is finished, whatever it     *)
(* holds.  Mutant: a failed one never is.                                  *)
YieldedUnlessRaised(c) == state[c] = "finished" /\ outcome[c] # "raised"
Yielded(c) == state[c] = "finished"

(* shutdown(wait=True) has joined the pool.  Mutant: wait=False.           *)
PoolJoinedAtOnce == TRUE
PoolJoined == \A c \in Parallel : state[c] \in {"finished", "collected"}

(* The success flag of a result.  Mutant: the exception kept in the future *)
(* is read as an answer.                                                   *)
SuccessUnlessFailed(o) == o # "failed"
Success(o) == o = "ok"

(* The row of the checkpoint a result becomes, and whether a header goes   *)
(* before it.  Mutant: the header is decided per run.                      *)
HeaderMissingInRun == completed = 1
HeaderMissing == ~ headerWritten

Row(i) == <<run, results[i][1], results[i][2]>>

Init ==
  /\ pc = "ready" /\ run = 0 /\ cell = 0
  /\ state = [c \in Cells |-> "idle"]
  /\ outcome = [c \in Cells |-> "none"]
  /\ results = <<>> /\ completed = 0
  /\ headerWritten = FALSE /\ csv = <<>>

(***************************************************************************)
(* The main thread.                                                        *)
(***************************************************************************)

(* run(): the batch is split, the counters start from zero. *)
StartRun ==
  /\ pc = "ready" /\ run < NumRuns
  /\ pc' = "direct"
  /\ run' = run + 1
  /\ state' = [c \in Cells |-> "idle"]
  /\ outcome' = [c \in Cells |-> "none"]
  /\ results' = <<>> /\ completed' = 0
  /\ UNCHANGED <<cell, headerWritten, csv>>

(* for cell_dict in direct_dicts: the worker function is called in place.  *)
StartDirect(c) ==
  /\ pc = "direct"
  /\ c \in Direct /\ state[c] = "idle"
  /\ \A d \in Direct : d < c => state[d] = "collected"
  /\ pc' = "directCell"
  /\ cell' = c
  /\ state' = [state EXCEPT ![c] = "running"]
  /\ completed' = completed + 1
  /\ UNCHANGED <<run, outcome, results, headerWritten, csv>>

(* The in-place call comes back: a result dict (success or failure), or an *)
(* exception, which becomes an error result.                               *)
FinishDirect(o) ==
  /\ pc = "directCell"
  /\ pc' = "report"
  /\ state' = [state EXCEPT ![cell] = "collected"]
  /\ outcome' = [outcome EXCEPT ![cell] = o]
  /\ results' = Append(results, <<cell, Success(o)>>)
  /\ UNCHANGED <<run, cell, completed, headerWritten, csv>>

(* CellCheckpointer.on_cell_done, first write: the header, once per        *)
(* checkpointer.                                                           *)
CheckpointHeader ==
  /\ pc = "report"
  /\ IF HeaderMissing THEN csv' = Append(csv, Header) ELSE UNCHANGED csv
  /\ pc' = "row"
  /\ headerWritten' = TRUE
  /\ UNCHANGED <<run, cell, state, outcome, results, completed>>

(* on_cell_done, second write: the row, flushed at once. *)
CheckpointRow ==
  /\ pc = "row"
  /\ csv' = Append(csv, Row(Len(results)))
  /\ pc' = IF NeedsDirectExecution(cell) THEN "direct" ELSE "collect"
  /\ cell' = 0
  /\ UNCHANGED <<run, state, outcome, results, completed, headerWritten>>

(* if not parallel_dicts: return results *)
ReturnDirectOnly ==
  /\ pc = "direct"
  /\ Parallel = {}
  /\ DirectLoopOver
  /\ pc' = "ready"
  /\ UNCHANGED <<run, cell, state, outcome, results, completed, headerWritten, csv>>

(* Every pool cell is submitted at once. *)
OpenPool ==
  /\ pc = "direct"
  /\ Parallel # {}
  /\ DirectLoopOver
  /\ pc' = "collect"
  /\ state' = [c \in Cells |-> IF c \in Parallel THEN "queued" ELSE state[c]]
  /\ UNCHANGED <<run, cell, outcome, results, completed, headerWritten, csv>>

(* for future in as_completed(futures): some finished future is yielded,   *)
(* so result(timeout=300) never has to wait; an exception kept in the      *)
(* future becomes an error result.                                         *)
Collect(c) ==
  /\ pc = "collect"
  /\ c \in Parallel /\ Yielded(c)
  /\ pc' = "report"
  /\ cell' = c
  /\ state' = [state EXCEPT ![c] = "collected"]
  /\ completed' = completed + 1
  /\ results' = Append(results, <<c, Success(outcome[c])>>)
  /\ UNCHANGED <<run, outcome, headerWritten, csv>>

(* The loop ends, the executor is shut down, run() returns its list. *)
ReturnPool ==
  /\ pc = "collect"
  /\ \A c \in Parallel : state[c] = "collected"
  /\ pc' = "ready"
  /\ UNCHANGED <<run, cell, state, outcome, results, completed, headerWritten, csv>>

(* An exception leaves run(): the callback failed (a full disk) or the     *)
(* user interrupted it.  In the pool part the with statement first waits   *)
(* for all submitted cells, queued ones included.                          *)
Raise ==
  /\ pc \in {"direct", "directCell", "report", "row", "collect"}
  /\ pc' = IF \E c \in Parallel : state[c] # "idle" THEN "draining" ELSE "raised"
  /\ state' = [c \in Cells |-> IF c \in Direct /\ state[c] = "running"
                               THEN "idle" ELSE state[c]]
  /\ cell' = 0
  /\ UNCHANGED <<run, outcome, results, completed, headerWritten, csv>>

(* ThreadPoolExecutor.__exit__: shutdown(wait=True) is over. *)
Drain ==
  /\ pc = "draining"
  /\ PoolJoined
  /\ pc' = "raised"
  /\ UNCHANGED <<run, cell, state, outcome, results, completed, headerWritten, csv>>

(* The process dies at any point; only the file is left. *)
Crash ==
  /\ pc \notin {"raised", "crashed"}
  /\ pc' = "crashed"
  /\ state' = [c \in Cells |-> IF state[c] \in {"queued", "running"}
                               THEN "idle" ELSE state[c]]
  /\ cell' = 0
  /\ UNCHANGED <<run, outcome, results, completed, headerWritten, csv>>

(***************************************************************************)
(* The worker threads: at most EffectiveWorkers cells at a time, taken     *)
(* from the queue in submission order.  Only _run_study_cell_worker runs   *)
(* there; it turns its own exceptions into a failed result, except those   *)
(* raised while it builds the cell.                                        *)
(***************************************************************************)
WorkerStart(c) ==
  /\ state[c] = "queued"
  /\ \A d \in Cells : state[d] = "queued" => c <= d
  /\ Cardinality(Running) < EffectiveWorkers
  /\ state' = [state EXCEPT ![c] = "running"]
  /\ UNCHANGED <<pc, run, cell, outcome, results, completed, headerWritten, csv>>

WorkerFinish(c, o) ==
  /\ state[c] = "running" /\ c \in Parallel
  /\ state' = [state EXCEPT ![c] = "finished"]
  /\ outcome' = [outcome EXCEPT ![c] = o]
  /\ UNCHANGED <<pc, run, cell, results, completed, headerWritten, csv>>

(* run() was called for the last time, or its process is over. *)
Stopped == pc \in {"raised", "crashed"} \/ (pc = "ready" /\ run = NumRuns)

Done == Stopped /\ UNCHANGED vars

MainStep ==
  \/ StartRun
  \/ \E c \in Cells : StartDirect(c)
  \/ \E o \in Outcomes : FinishDirect(o)
  \/ CheckpointHeader
  \/ CheckpointRow
  \/ ReturnDirectOnly
  \/ OpenPool
  \/ \E c \in Cells : Collect(c)
  \/ ReturnPool
  \/ Drain

Next ==
  \/ MainStep
  \/ \E c \in Cells : WorkerStart(c)
  \/ \E c \in Cells, o \in Outcomes : WorkerFinish(c, o)
  \/ Raise
  \/ Crash
  \/ Done

(* The main thread and every worker whose cell cannot hang are scheduled   *)
(* as long as they can step.  Exceptions and crashes are never owed.       *)
Fairness ==
  /\ WF_vars(MainStep /\ (pc = "directCell" => cell \notin MayHang))
  /\ \A c \in Cells :
       /\ WF_vars(WorkerStart(c))
       /\ WF_vars(/\ c \notin MayHang
                  /\ \E o \in Outcomes : WorkerFinish(c, o))

Spec == Init /\ [][Next]_vars
FairSpec == Spec /\ Fairness

(***************************************************************************)
(* Properties.                                                             *)
(***************************************************************************)

(* Every variable keeps its type. *)
TypeOK ==
  /\ pc \in {"ready", "direct", "directCell", "report", "row", "collect",
             "draining", "raised", "crashed"}
  /\ run \in 0..NumRuns
  /\ cell \in 0..NumCells
  /\ state \in [Cells -> {"idle", "queued", "running", "finished", "collected"}]
  /\ outcome \in [Cells -> Outcomes \cup {"none"}]
  /\ results \in Seq(Cells \X BOOLEAN)
  /\ completed \in Nat
  /\ headerWritten \in BOOLEAN
  /\ csv \in Seq((0..NumRuns) \X (0..NumCells) \X BOOLEAN)

(* Two cells never share the GPU context: while a cell whose strategy      *)
(* loads a torch model is running, no other cell runs, in any thread.      *)
DeviceExclusive ==
  \A c, d \in Running : c # d => StrategyOf[c] \notin TorchStrategies

(* The list run() builds never holds two results for a cell, and a result  *)
(* says success exactly if the worker of that cell came back with one.     *)
ResultsMatchWork ==
  /\ \A i, j \in 1..Len(results) : results[i][1] = results[j][1] => i = j
  /\ \A i \in 1..Len(results) :
       outcome[results[i][1]] # "none" /\ results[i][2] = (outcome[results[i][1]] = "ok")

(* What is on disk at any point, in particular after a crash: one header,  *)
(* first; no row twice; the rows of the current run are its results, of    *)
(* which only the newest may be missing; the rows of earlier runs cover    *)
(* their batches.                                                          *)
CheckpointRecoverable ==
  /\ \A i \in 1..Len(csv) : (csv[i] = Header) = (i = 1)
  /\ \A i, j \in 1..Len(csv) : csv[i] = csv[j] => i = j
  /\ \A i \in 1..Len(csv) : csv[i][1] = run /\ i > 1 =>
       \E k \in 1..Len(results) : csv[i] = <<run, results[k][1], results[k][2]>>
  /\ \A k \in 1..Len(results) :
       \/ \E i \in 1..Len(csv) : csv[i] = <<run, results[k][1], results[k][2]>>
       \/ /\ k = Len(results)
          /\ pc \in {"report", "row", "draining", "raised", "crashed"}
  /\ \A r \in 1..(run - 1), c \in Cells : c \in Batch[r] =>
       \E i \in 1..Len(csv) : csv[i][1] = r /\ csv[i][2] = c

(* No worker thread outlives the call of run() that started it, whether    *)
(* run() returns or raises.                                                *)
NoOrphanWorkers ==
  pc \in {"ready", "raised"} => \A c \in Cells : state[c] \notin {"queued", "running"}

(* A run that starts is over some day: it returns, raises, or the process  *)
(* dies.                                                                   *)
RunEnds == pc = "direct" ~> pc \in {"ready", "raised", "crashed"}

(* What a caller of run() can tell: whether the call is open, what it      *)
(* still owes and what it has so far.                                      *)
CallStatus ==
  CASE pc = "ready" -> "closed"
    [] pc \in {"draining", "raised", "crashed"} -> "lost"
    [] OTHER -> "open"
Owed == IF run = 0 THEN {} ELSE Batch[run] \ Reported
Delivered == {results[i] : i \in 1..Len(results)}

Promise == INSTANCE BatchRun WITH
  status <- CallStatus, todo <- Owed, reported <- Delivered

(* StudyScheduler implements BatchRun: in particular run() returns only    *)
(* when each cell of its batch has a result.                               *)
ImplementsBatchRun == Promise!Spec
=============================================================================
