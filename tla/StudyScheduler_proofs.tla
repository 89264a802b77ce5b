----------------------- MODULE StudyScheduler_proofs -----------------------
(***************************************************************************)
(* Proofs about StudyScheduler, for any number of cells, any strategies,   *)
(* any batches and any number of workers.  The safety theorems follow from *)
(* one inductive invariant, IInv; for the checkpoint file there is a       *)
(* second one, RowsInv.                                                    *)
(***************************************************************************)
EXTENDS StudyScheduler, TLAPS

(* The main thread holds a cell exactly while it measures or reports one,  *)
(* and what it reports is the newest result.                               *)
CellHeld ==
  /\ pc = "directCell" => cell \in Direct /\ state[cell] = "running"
  /\ pc \in {"report", "row"} =>
       /\ cell \in Batch[run]
       /\ Len(results) > 0
       /\ results[Len(results)][1] = cell
  /\ pc \in {"direct", "directCell", "report", "row", "collect", "draining"} => run \in Runs

(* A direct cell is never queued, and runs only in the main thread.        *)
DirectInMainThread ==
  \A c \in Cells : NeedsDirectExecution(c) =>
    /\ state[c] \notin {"queued", "finished"}
    /\ state[c] = "running" => pc = "directCell" /\ c = cell

(* The pool cells have not been touched while direct cells are left.       *)
PoolAfterDirect ==
  (pc \in {"direct", "directCell"} \/ (pc \in {"report", "row"} /\ NeedsDirectExecution(cell)))
    => \A c \in Cells : ~ NeedsDirectExecution(c) => state[c] = "idle"

(* Once the pool is open every direct cell has its result.                 *)
DirectBeforePool ==
  (pc = "collect" \/ (pc \in {"report", "row"} /\ ~ NeedsDirectExecution(cell)))
    => DirectLoopOver

(* Only cells of the batch leave idle, and no worker is left behind.       *)
OnlyTheBatch ==
  /\ \A c \in Cells : state[c] # "idle" => run \in Runs /\ c \in Batch[run]
  /\ pc \in {"ready", "raised", "crashed"} =>
       \A c \in Cells : state[c] \notin {"queued", "running"}

(* The cells with a result are exactly the collected ones, once each, and  *)
(* the result says what the worker answered.                               *)
ResultsAreCollected ==
  /\ \A i \in 1..Len(results) :
       /\ state[results[i][1]] = "collected"
       /\ results[i][2] = (outcome[results[i][1]] = "ok")
  /\ \A c \in Cells : state[c] = "collected" => \E i \in 1..Len(results) : results[i][1] = c
  /\ \A i, j \in 1..Len(results) : results[i][1] = results[j][1] => i = j
  /\ \A c \in Cells : state[c] \in {"finished", "collected"} => outcome[c] # "none"

IInv ==
  /\ TypeOK
  /\ CellHeld
  /\ DirectInMainThread
  /\ PoolAfterDirect
  /\ DirectBeforePool
  /\ OnlyTheBatch
  /\ ResultsAreCollected

(* What appending does to a sequence. *)
LEMMA Appending ==
  ASSUME NEW T, NEW s \in Seq(T), NEW e \in T
  PROVE  /\ Append(s, e) \in Seq(T)
         /\ Len(Append(s, e)) = Len(s) + 1
         /\ \A i \in 1..Len(s) : Append(s, e)[i] = s[i]
         /\ Append(s, e)[Len(s) + 1] = e
  OBVIOUS

(* What the entries of a typed result list are. *)
LEMMA Entries ==
  ASSUME NEW C, NEW s \in Seq(C \X BOOLEAN)
  PROVE  /\ Len(s) \in Nat
         /\ \A i \in 1..Len(s) : s[i][1] \in C /\ s[i][2] \in BOOLEAN
  OBVIOUS

(* A list with one more entry: each of its entries is an old one or the    *)
(* new one.                                                                *)
LEMMA OneMore ==
  ASSUME NEW C, NEW s \in Seq(C \X BOOLEAN), NEW e \in C \X BOOLEAN, NEW t, t = Append(s, e)
  PROVE  /\ Len(s) \in Nat /\ Len(t) = Len(s) + 1
         /\ \A i \in 1..Len(s) : i \in 1..Len(t) /\ t[i] = s[i]
         /\ \A i \in 1..Len(t) : i \notin 1..Len(s) => i = Len(t) /\ t[i] = e
         /\ Len(t) \in 1..Len(t) /\ t[Len(t)] = e
<1>1. Len(s) \in Nat /\ Len(t) = Len(s) + 1 /\ t[Len(s) + 1] = e
  BY Appending
<1>2. \A i \in 1..Len(s) : t[i] = s[i]
  BY Appending
<1>3. QED
  BY <1>1, <1>2

(* The empty list has every type. *)
LEMMA EmptyList == \A T : <<>> \in Seq(T) /\ Len(<<>>) = 0
  OBVIOUS

(* Initially nothing is running and nothing has a result. *)
LEMMA InitIInv == Init => IInv
<1> SUFFICES ASSUME Init PROVE IInv
  OBVIOUS
<1>1. results = <<>> /\ csv = <<>> /\ Len(results) = 0
  BY DEF Init
<1>2. TypeOK
  <2>1. results \in Seq(Cells \X BOOLEAN)
    BY <1>1, EmptyList
  <2>2. csv \in Seq((0..NumRuns) \X (0..NumCells) \X BOOLEAN)
    BY <1>1, EmptyList
  <2>3. pc = "ready" /\ run \in 0..NumRuns /\ cell \in 0..NumCells /\ completed \in Nat
    BY SchedulerAssumption DEF Init
  <2>4. /\ state \in [Cells -> {"idle", "queued", "running", "finished", "collected"}]
        /\ outcome \in [Cells -> Outcomes \cup {"none"}]
    BY DEF Init
  <2>5. headerWritten \in BOOLEAN
    BY DEF Init
  <2>6. QED
    BY <2>1, <2>2, <2>3, <2>4, <2>5 DEF TypeOK
<1> USE SchedulerAssumption DEF Init, Cells, Runs
<1>3. CellHeld /\ DirectInMainThread /\ PoolAfterDirect /\ DirectBeforePool /\ OnlyTheBatch
  BY DEF CellHeld, DirectInMainThread, PoolAfterDirect, DirectBeforePool, OnlyTheBatch
<1>4. ResultsAreCollected
  BY <1>1 DEF ResultsAreCollected
<1>5. QED
  BY <1>2, <1>3, <1>4 DEF IInv

(* Giving a result to a running or finished cell keeps the results those   *)
(* of the collected cells, once each.                                      *)
LEMMA ResultAppended ==
  ASSUME TypeOK, ResultsAreCollected,
         NEW c \in Cells, NEW o \in Outcomes,
         state[c] \in {"running", "finished"},
         results' = Append(results, <<c, Success(o)>>),
         state' = [state EXCEPT ![c] = "collected"],
         outcome' = [outcome EXCEPT ![c] = o]
  PROVE  ResultsAreCollected'
<1>1. /\ results \in Seq(Cells \X BOOLEAN)
      /\ <<c, Success(o)>> \in Cells \X BOOLEAN
  BY DEF TypeOK, Success
<1>2. /\ Len(results) \in Nat /\ Len(results') = Len(results) + 1
      /\ \A i \in 1..Len(results) : i \in 1..Len(results') /\ results'[i] = results[i]
      /\ \A i \in 1..Len(results') :
           i \notin 1..Len(results) => i = Len(results') /\ results'[i] = <<c, Success(o)>>
      /\ Len(results') \in 1..Len(results') /\ results'[Len(results')] = <<c, Success(o)>>
  BY <1>1, OneMore
<1>3. \A i \in 1..Len(results) : results[i][1] \in Cells /\ results[i][1] # c
  BY <1>1, Entries DEF ResultsAreCollected
<1>4. /\ state'[c] = "collected" /\ outcome'[c] = o
      /\ \A d \in Cells : d # c => state'[d] = state[d] /\ outcome'[d] = outcome[d]
  BY DEF TypeOK
<1>5. \A i \in 1..Len(results') :
        i \in 1..Len(results) \/ (results'[i][1] = c /\ results'[i][2] = Success(o))
  BY <1>2
<1>6. \A i \in 1..Len(results') :
        /\ state'[results'[i][1]] = "collected"
        /\ results'[i][2] = (outcome'[results'[i][1]] = "ok")
  BY <1>2, <1>3, <1>4, <1>5 DEF ResultsAreCollected, Success
<1>7. \A d \in Cells : state'[d] = "collected" => \E i \in 1..Len(results') : results'[i][1] = d
  BY <1>2, <1>4 DEF ResultsAreCollected
<1>8. \A i, j \in 1..Len(results') : results'[i][1] = results'[j][1] => i = j
  BY <1>2, <1>3 DEF ResultsAreCollected
<1>9. \A d \in Cells : state'[d] \in {"finished", "collected"} => outcome'[d] # "none"
  BY <1>4 DEF ResultsAreCollected, Outcomes
<1>10. QED
  BY <1>6, <1>7, <1>8, <1>9 DEF ResultsAreCollected

LEMMA StartRunIInv ==
  ASSUME IInv, StartRun
  PROVE  IInv'
<1> USE SchedulerAssumption DEF IInv, Cells, Runs, Direct, Parallel
<1>1. TypeOK'
  BY DEF TypeOK, StartRun, CellHeld, Row, Header, HeaderMissing, Success, Outcomes
<1>2. CellHeld'
  BY DEF TypeOK, StartRun, CellHeld, Success, PoolAfterDirect
<1>3. DirectInMainThread'
  BY DEF TypeOK, StartRun, CellHeld, DirectInMainThread
<1>4. PoolAfterDirect'
  BY DEF TypeOK, StartRun, CellHeld, PoolAfterDirect
<1>5. DirectBeforePool'
  BY DEF TypeOK, StartRun, CellHeld, DirectBeforePool, DirectLoopOver, DirectInMainThread, Yielded
<1>6. OnlyTheBatch'
  BY DEF TypeOK, StartRun, CellHeld, OnlyTheBatch, DirectInMainThread, PoolJoined
<1>7. ResultsAreCollected'
  BY DEF TypeOK, StartRun, CellHeld, ResultsAreCollected, Success, Outcomes, Yielded
<1>8. QED
  BY <1>1, <1>2, <1>3, <1>4, <1>5, <1>6, <1>7

LEMMA StartDirectIInv ==
  ASSUME IInv, NEW c \in Cells, StartDirect(c)
  PROVE  IInv'
<1> USE SchedulerAssumption DEF IInv, Cells, Runs, Direct, Parallel
<1>1. TypeOK'
  BY DEF TypeOK, StartDirect, CellHeld, Row, Header, HeaderMissing, Success, Outcomes
<1>2. CellHeld'
  BY DEF TypeOK, StartDirect, CellHeld, Success, PoolAfterDirect
<1>3. DirectInMainThread'
  BY DEF TypeOK, StartDirect, CellHeld, DirectInMainThread
<1>4. PoolAfterDirect'
  BY DEF TypeOK, StartDirect, CellHeld, PoolAfterDirect
<1>5. DirectBeforePool'
  BY DEF TypeOK, StartDirect, CellHeld, DirectBeforePool, DirectLoopOver, DirectInMainThread, Yielded
<1>6. OnlyTheBatch'
  BY DEF TypeOK, StartDirect, CellHeld, OnlyTheBatch, DirectInMainThread, PoolJoined
<1>7. ResultsAreCollected'
  BY DEF TypeOK, StartDirect, CellHeld, ResultsAreCollected, Success, Outcomes, Yielded
<1>8. QED
  BY <1>1, <1>2, <1>3, <1>4, <1>5, <1>6, <1>7

LEMMA FinishDirectIInv ==
  ASSUME IInv, NEW o \in Outcomes, FinishDirect(o)
  PROVE  IInv'
<1> USE SchedulerAssumption DEF IInv, Cells, Runs, Direct, Parallel
<1>0. /\ cell \in Cells /\ <<cell, Success(o)>> \in Cells \X BOOLEAN
      /\ results \in Seq(Cells \X BOOLEAN)
  BY DEF TypeOK, FinishDirect, CellHeld, Success
<1>1. TypeOK'
  BY <1>0, Appending DEF TypeOK, FinishDirect
<1>2. CellHeld'
  BY DEF TypeOK, FinishDirect, CellHeld, Success, PoolAfterDirect
<1>3. DirectInMainThread'
  BY DEF TypeOK, FinishDirect, CellHeld, DirectInMainThread
<1>4. PoolAfterDirect'
  BY DEF TypeOK, FinishDirect, CellHeld, PoolAfterDirect
<1>5. DirectBeforePool'
  BY DEF TypeOK, FinishDirect, CellHeld, DirectBeforePool, DirectLoopOver, DirectInMainThread, Yielded
<1>6. OnlyTheBatch'
  BY DEF TypeOK, FinishDirect, CellHeld, OnlyTheBatch, DirectInMainThread, PoolJoined
<1>7. ResultsAreCollected'
  BY ResultAppended DEF TypeOK, FinishDirect, CellHeld
<1>8. QED
  BY <1>1, <1>2, <1>3, <1>4, <1>5, <1>6, <1>7

LEMMA CheckpointHeaderIInv ==
  ASSUME IInv, CheckpointHeader
  PROVE  IInv'
<1> USE SchedulerAssumption DEF IInv, Cells, Runs, Direct, Parallel
<1>1. TypeOK'
  <2> DEFINE Rows == (0..NumRuns) \X (0..NumCells) \X BOOLEAN
  <2>0. 0 \in 0..NumRuns /\ 0 \in 0..NumCells
    OBVIOUS
  <2>1. Header \in Rows
    BY <2>0, Zenon DEF Header
  <2>2. csv \in Seq(Rows)
    BY DEF TypeOK
  <2>3. csv' = csv \/ csv' = Append(csv, Header)
    BY DEF CheckpointHeader
  <2>4. csv' \in Seq(Rows)
    <3> HIDE DEF Rows
    <3>1. QED
      BY <2>1, <2>2, <2>3, Appending
  <2>5. QED
    BY <2>4 DEF TypeOK, CheckpointHeader
<1>2. CellHeld'
  BY DEF TypeOK, CheckpointHeader, CellHeld, Success, PoolAfterDirect
<1>3. DirectInMainThread'
  BY DEF TypeOK, CheckpointHeader, CellHeld, DirectInMainThread
<1>4. PoolAfterDirect'
  BY DEF TypeOK, CheckpointHeader, CellHeld, PoolAfterDirect
<1>5. DirectBeforePool'
  BY DEF TypeOK, CheckpointHeader, CellHeld, DirectBeforePool, DirectLoopOver, DirectInMainThread, Yielded
<1>6. OnlyTheBatch'
  BY DEF TypeOK, CheckpointHeader, CellHeld, OnlyTheBatch, DirectInMainThread, PoolJoined
<1>7. ResultsAreCollected'
  BY DEF TypeOK, CheckpointHeader, CellHeld, ResultsAreCollected, Success, Outcomes, Yielded
<1>8. QED
  BY <1>1, <1>2, <1>3, <1>4, <1>5, <1>6, <1>7

LEMMA CheckpointRowIInv ==
  ASSUME IInv, CheckpointRow
  PROVE  IInv'
<1> USE SchedulerAssumption DEF IInv, Cells, Runs, Direct, Parallel
<1>1. TypeOK'
  BY DEF TypeOK, CheckpointRow, CellHeld, Row, Header, HeaderMissing, Success, Outcomes
<1>2. CellHeld'
  BY DEF TypeOK, CheckpointRow, CellHeld, Success, PoolAfterDirect
<1>3. DirectInMainThread'
  BY DEF TypeOK, CheckpointRow, CellHeld, DirectInMainThread
<1>4. PoolAfterDirect'
  BY DEF TypeOK, CheckpointRow, CellHeld, PoolAfterDirect
<1>5. DirectBeforePool'
  BY DEF TypeOK, CheckpointRow, CellHeld, DirectBeforePool, DirectLoopOver, DirectInMainThread, Yielded
<1>6. OnlyTheBatch'
  BY DEF TypeOK, CheckpointRow, CellHeld, OnlyTheBatch, DirectInMainThread, PoolJoined
<1>7. ResultsAreCollected'
  BY DEF TypeOK, CheckpointRow, CellHeld, ResultsAreCollected, Success, Outcomes, Yielded
<1>8. QED
  BY <1>1, <1>2, <1>3, <1>4, <1>5, <1>6, <1>7

LEMMA ReturnDirectOnlyIInv ==
  ASSUME IInv, ReturnDirectOnly
  PROVE  IInv'
<1> USE SchedulerAssumption DEF IInv, Cells, Runs, Direct, Parallel
<1>1. TypeOK'
  BY DEF TypeOK, ReturnDirectOnly, CellHeld, Row, Header, HeaderMissing, Success, Outcomes
<1>2. CellHeld'
  BY DEF TypeOK, ReturnDirectOnly, CellHeld, Success, PoolAfterDirect
<1>3. DirectInMainThread'
  BY DEF TypeOK, ReturnDirectOnly, CellHeld, DirectInMainThread
<1>4. PoolAfterDirect'
  BY DEF TypeOK, ReturnDirectOnly, CellHeld, PoolAfterDirect
<1>5. DirectBeforePool'
  BY DEF TypeOK, ReturnDirectOnly, CellHeld, DirectBeforePool, DirectLoopOver, DirectInMainThread, Yielded
<1>6. OnlyTheBatch'
  BY DEF TypeOK, ReturnDirectOnly, CellHeld, OnlyTheBatch, DirectInMainThread, PoolJoined
<1>7. ResultsAreCollected'
  BY DEF TypeOK, ReturnDirectOnly, CellHeld, ResultsAreCollected, Success, Outcomes, Yielded
<1>8. QED
  BY <1>1, <1>2, <1>3, <1>4, <1>5, <1>6, <1>7

LEMMA OpenPoolIInv ==
  ASSUME IInv, OpenPool
  PROVE  IInv'
<1> USE SchedulerAssumption DEF IInv, Cells, Runs, Direct, Parallel
<1>1. TypeOK'
  BY DEF TypeOK, OpenPool, CellHeld, Row, Header, HeaderMissing, Success, Outcomes
<1>2. CellHeld'
  BY DEF TypeOK, OpenPool, CellHeld, Success, PoolAfterDirect
<1>3. DirectInMainThread'
  BY DEF TypeOK, OpenPool, CellHeld, DirectInMainThread
<1>4. PoolAfterDirect'
  BY DEF TypeOK, OpenPool, CellHeld, PoolAfterDirect
<1>5. DirectBeforePool'
  BY DEF TypeOK, OpenPool, CellHeld, DirectBeforePool, DirectLoopOver, DirectInMainThread, Yielded
<1>6. OnlyTheBatch'
  BY DEF TypeOK, OpenPool, CellHeld, OnlyTheBatch, DirectInMainThread, PoolJoined
<1>7. ResultsAreCollected'
  <2>1. \A i \in 1..Len(results) : results[i][1] \in Cells
    BY Entries DEF TypeOK
  <2>2. \A i \in 1..Len(results) : state'[results[i][1]] = "collected" /\ outcome'[results[i][1]] = outcome[results[i][1]]
    BY <2>1 DEF TypeOK, OpenPool, ResultsAreCollected, PoolAfterDirect
  <2>3. \A d \in Cells : state'[d] = "collected" => state[d] = "collected"
    BY DEF TypeOK, OpenPool
  <2>4. \A d \in Cells : state'[d] \in {"finished", "collected"} => outcome'[d] # "none"
    BY DEF TypeOK, OpenPool, ResultsAreCollected, Outcomes
  <2>5. QED
    BY <2>2, <2>3, <2>4 DEF OpenPool, ResultsAreCollected
<1>8. QED
  BY <1>1, <1>2, <1>3, <1>4, <1>5, <1>6, <1>7

LEMMA CollectIInv ==
  ASSUME IInv, NEW c \in Cells, Collect(c)
  PROVE  IInv'
<1> USE SchedulerAssumption DEF IInv, Cells, Runs, Direct, Parallel
<1>0. /\ <<c, Success(outcome[c])>> \in Cells \X BOOLEAN
      /\ results \in Seq(Cells \X BOOLEAN)
  BY DEF TypeOK, Collect, Success
<1>1. TypeOK'
  BY <1>0, Appending DEF TypeOK, Collect
<1>2. CellHeld'
  BY DEF TypeOK, Collect, CellHeld, Success, PoolAfterDirect
<1>3. DirectInMainThread'
  BY DEF TypeOK, Collect, CellHeld, DirectInMainThread
<1>4. PoolAfterDirect'
  BY DEF TypeOK, Collect, CellHeld, PoolAfterDirect
<1>5. DirectBeforePool'
  BY DEF TypeOK, Collect, CellHeld, DirectBeforePool, DirectLoopOver, DirectInMainThread, Yielded
<1>6. OnlyTheBatch'
  BY DEF TypeOK, Collect, CellHeld, OnlyTheBatch, DirectInMainThread, PoolJoined
<1>7. ResultsAreCollected'
  <2>1. outcome \in [Cells -> Outcomes \cup {"none"}]
    BY DEF TypeOK
  <2>2. outcome[c] \in Outcomes
    BY <2>1 DEF Collect, Yielded, ResultsAreCollected
  <2>3. outcome' = [outcome EXCEPT ![c] = outcome[c]]
    BY <2>1 DEF Collect
  <2>4. state[c] \in {"running", "finished"}
    BY DEF Collect, Yielded
  <2>5. QED
    BY <2>2, <2>3, <2>4, ResultAppended DEF Collect
<1>8. QED
  BY <1>1, <1>2, <1>3, <1>4, <1>5, <1>6, <1>7

LEMMA ReturnPoolIInv ==
  ASSUME IInv, ReturnPool
  PROVE  IInv'
<1> USE SchedulerAssumption DEF IInv, Cells, Runs, Direct, Parallel
<1>1. TypeOK'
  BY DEF TypeOK, ReturnPool, CellHeld, Row, Header, HeaderMissing, Success, Outcomes
<1>2. CellHeld'
  BY DEF TypeOK, ReturnPool, CellHeld, Success, PoolAfterDirect
<1>3. DirectInMainThread'
  BY DEF TypeOK, ReturnPool, CellHeld, DirectInMainThread
<1>4. PoolAfterDirect'
  BY DEF TypeOK, ReturnPool, CellHeld, PoolAfterDirect
<1>5. DirectBeforePool'
  BY DEF TypeOK, ReturnPool, CellHeld, DirectBeforePool, DirectLoopOver, DirectInMainThread, Yielded
<1>6. OnlyTheBatch'
  BY DEF TypeOK, ReturnPool, CellHeld, OnlyTheBatch, DirectInMainThread, PoolJoined
<1>7. ResultsAreCollected'
  BY DEF TypeOK, ReturnPool, CellHeld, ResultsAreCollected, Success, Outcomes, Yielded
<1>8. QED
  BY <1>1, <1>2, <1>3, <1>4, <1>5, <1>6, <1>7

LEMMA DrainIInv ==
  ASSUME IInv, Drain
  PROVE  IInv'
<1> USE SchedulerAssumption DEF IInv, Cells, Runs, Direct, Parallel
<1>1. TypeOK'
  BY DEF TypeOK, Drain, CellHeld, Row, Header, HeaderMissing, Success, Outcomes
<1>2. CellHeld'
  BY DEF TypeOK, Drain, CellHeld, Success, PoolAfterDirect
<1>3. DirectInMainThread'
  BY DEF TypeOK, Drain, CellHeld, DirectInMainThread
<1>4. PoolAfterDirect'
  BY DEF TypeOK, Drain, CellHeld, PoolAfterDirect
<1>5. DirectBeforePool'
  BY DEF TypeOK, Drain, CellHeld, DirectBeforePool, DirectLoopOver, DirectInMainThread, Yielded
<1>6. OnlyTheBatch'
  BY DEF TypeOK, Drain, CellHeld, OnlyTheBatch, DirectInMainThread, PoolJoined
<1>7. ResultsAreCollected'
  BY DEF TypeOK, Drain, CellHeld, ResultsAreCollected, Success, Outcomes, Yielded
<1>8. QED
  BY <1>1, <1>2, <1>3, <1>4, <1>5, <1>6, <1>7

LEMMA WorkerStartIInv ==
  ASSUME IInv, NEW c \in Cells, WorkerStart(c)
  PROVE  IInv'
<1> USE SchedulerAssumption DEF IInv, Cells, Runs, Direct, Parallel
<1>1. TypeOK'
  BY DEF TypeOK, WorkerStart, CellHeld, Row, Header, HeaderMissing, Success, Outcomes
<1>2. CellHeld'
  BY DEF TypeOK, WorkerStart, CellHeld, Success, PoolAfterDirect
<1>3. DirectInMainThread'
  BY DEF TypeOK, WorkerStart, CellHeld, DirectInMainThread
<1>4. PoolAfterDirect'
  BY DEF TypeOK, WorkerStart, CellHeld, PoolAfterDirect
<1>5. DirectBeforePool'
  BY DEF TypeOK, WorkerStart, CellHeld, DirectBeforePool, DirectLoopOver, DirectInMainThread, Yielded
<1>6. OnlyTheBatch'
  BY DEF TypeOK, WorkerStart, CellHeld, OnlyTheBatch, DirectInMainThread, PoolJoined
<1>7. ResultsAreCollected'
  <2>1. \A i \in 1..Len(results) : results[i][1] \in Cells
    BY Entries DEF TypeOK
  <2>2. \A i \in 1..Len(results) : state'[results[i][1]] = "collected" /\ outcome'[results[i][1]] = outcome[results[i][1]]
    BY <2>1 DEF TypeOK, WorkerStart, ResultsAreCollected
  <2>3. \A d \in Cells : state'[d] = "collected" => state[d] = "collected"
    BY DEF TypeOK, WorkerStart
  <2>4. \A d \in Cells : state'[d] \in {"finished", "collected"} => outcome'[d] # "none"
    BY DEF TypeOK, WorkerStart, ResultsAreCollected, Outcomes
  <2>5. QED
    BY <2>2, <2>3, <2>4 DEF WorkerStart, ResultsAreCollected
<1>8. QED
  BY <1>1, <1>2, <1>3, <1>4, <1>5, <1>6, <1>7

LEMMA WorkerFinishIInv ==
  ASSUME IInv, NEW c \in Cells, NEW o \in Outcomes, WorkerFinish(c, o)
  PROVE  IInv'
<1> USE SchedulerAssumption DEF IInv, Cells, Runs, Direct, Parallel
<1>1. TypeOK'
  BY DEF TypeOK, WorkerFinish, CellHeld, Row, Header, HeaderMissing, Success, Outcomes
<1>2. CellHeld'
  BY DEF TypeOK, WorkerFinish, CellHeld, Success, PoolAfterDirect
<1>3. DirectInMainThread'
  BY DEF TypeOK, WorkerFinish, CellHeld, DirectInMainThread
<1>4. PoolAfterDirect'
  BY DEF TypeOK, WorkerFinish, CellHeld, PoolAfterDirect
<1>5. DirectBeforePool'
  BY DEF TypeOK, WorkerFinish, CellHeld, DirectBeforePool, DirectLoopOver, DirectInMainThread, Yielded
<1>6. OnlyTheBatch'
  BY DEF TypeOK, WorkerFinish, CellHeld, OnlyTheBatch, DirectInMainThread, PoolJoined
<1>7. ResultsAreCollected'
  <2>1. \A i \in 1..Len(results) : results[i][1] \in Cells
    BY Entries DEF TypeOK
  <2>2. \A i \in 1..Len(results) : state'[results[i][1]] = "collected" /\ outcome'[results[i][1]] = outcome[results[i][1]]
    BY <2>1 DEF TypeOK, WorkerFinish, ResultsAreCollected
  <2>3. \A d \in Cells : state'[d] = "collected" => state[d] = "collected"
    BY DEF TypeOK, WorkerFinish
  <2>4. \A d \in Cells : state'[d] \in {"finished", "collected"} => outcome'[d] # "none"
    BY DEF TypeOK, WorkerFinish, ResultsAreCollected, Outcomes
  <2>5. QED
    BY <2>2, <2>3, <2>4 DEF WorkerFinish, ResultsAreCollected
<1>8. QED
  BY <1>1, <1>2, <1>3, <1>4, <1>5, <1>6, <1>7

LEMMA RaiseIInv ==
  ASSUME IInv, Raise
  PROVE  IInv'
<1> USE SchedulerAssumption DEF IInv, Cells, Runs, Direct, Parallel
<1>1. TypeOK'
  BY DEF TypeOK, Raise, CellHeld, Row, Header, HeaderMissing, Success, Outcomes
<1>2. CellHeld'
  BY DEF TypeOK, Raise, CellHeld, Success, PoolAfterDirect
<1>3. DirectInMainThread'
  BY DEF TypeOK, Raise, CellHeld, DirectInMainThread
<1>4. PoolAfterDirect'
  BY DEF TypeOK, Raise, CellHeld, PoolAfterDirect
<1>5. DirectBeforePool'
  BY DEF TypeOK, Raise, CellHeld, DirectBeforePool, DirectLoopOver, DirectInMainThread, Yielded
<1>6. OnlyTheBatch'
  BY DEF TypeOK, Raise, CellHeld, OnlyTheBatch, DirectInMainThread, PoolJoined
<1>7. ResultsAreCollected'
  <2>1. \A i \in 1..Len(results) : results[i][1] \in Cells
    BY Entries DEF TypeOK
  <2>2. \A i \in 1..Len(results) : state'[results[i][1]] = "collected" /\ outcome'[results[i][1]] = outcome[results[i][1]]
    BY <2>1 DEF TypeOK, Raise, ResultsAreCollected
  <2>3. \A d \in Cells : state'[d] = "collected" => state[d] = "collected"
    BY DEF TypeOK, Raise
  <2>4. \A d \in Cells : state'[d] \in {"finished", "collected"} => outcome'[d] # "none"
    BY DEF TypeOK, Raise, ResultsAreCollected, Outcomes
  <2>5. QED
    BY <2>2, <2>3, <2>4 DEF Raise, ResultsAreCollected
<1>8. QED
  BY <1>1, <1>2, <1>3, <1>4, <1>5, <1>6, <1>7

LEMMA CrashIInv ==
  ASSUME IInv, Crash
  PROVE  IInv'
<1> USE SchedulerAssumption DEF IInv, Cells, Runs, Direct, Parallel
<1>1. TypeOK'
  BY DEF TypeOK, Crash, CellHeld, Row, Header, HeaderMissing, Success, Outcomes
<1>2. CellHeld'
  BY DEF TypeOK, Crash, CellHeld, Success, PoolAfterDirect
<1>3. DirectInMainThread'
  BY DEF TypeOK, Crash, CellHeld, DirectInMainThread
<1>4. PoolAfterDirect'
  BY DEF TypeOK, Crash, CellHeld, PoolAfterDirect
<1>5. DirectBeforePool'
  BY DEF TypeOK, Crash, CellHeld, DirectBeforePool, DirectLoopOver, DirectInMainThread, Yielded
<1>6. OnlyTheBatch'
  BY DEF TypeOK, Crash, CellHeld, OnlyTheBatch, DirectInMainThread, PoolJoined
<1>7. ResultsAreCollected'
  BY DEF TypeOK, Crash, CellHeld, ResultsAreCollected, Success, Outcomes, Yielded
<1>8. QED
  BY <1>1, <1>2, <1>3, <1>4, <1>5, <1>6, <1>7

(* IInv is inductive: the steps of the main thread, of the workers, and    *)
(* the failures.                                                           *)
LEMMA NextIInv == IInv /\ [Next]_vars => IInv'
<1> SUFFICES ASSUME IInv, [Next]_vars PROVE IInv'
  OBVIOUS
<1>1. CASE MainStep
  BY <1>1, StartRunIInv, StartDirectIInv, FinishDirectIInv, CheckpointHeaderIInv,
     CheckpointRowIInv, ReturnDirectOnlyIInv, OpenPoolIInv, CollectIInv,
     ReturnPoolIInv, DrainIInv DEF MainStep
<1>2. CASE \E c \in Cells : WorkerStart(c)
  BY <1>2, WorkerStartIInv
<1>3. CASE \E c \in Cells, o \in Outcomes : WorkerFinish(c, o)
  BY <1>3, WorkerFinishIInv
<1>4. CASE Raise
  BY <1>4, RaiseIInv
<1>5. CASE Crash
  BY <1>5, CrashIInv
<1>6. CASE Done \/ UNCHANGED vars
  <2>1. UNCHANGED vars
    BY <1>6 DEF Done
  <2> USE <2>1 DEF IInv, vars
  <2>2. TypeOK' /\ CellHeld'
    BY DEF TypeOK, CellHeld, Direct
  <2>3. DirectInMainThread' /\ PoolAfterDirect' /\ DirectBeforePool'
    BY DEF DirectInMainThread, PoolAfterDirect, DirectBeforePool, DirectLoopOver, Direct
  <2>4. OnlyTheBatch' /\ ResultsAreCollected'
    BY DEF OnlyTheBatch, ResultsAreCollected
  <2>5. QED
    BY <2>2, <2>3, <2>4
<1>7. QED
  BY <1>1, <1>2, <1>3, <1>4, <1>5, <1>6 DEF Next

THEOREM Invariance == Spec => []IInv
  BY InitIInv, NextIInv, PTL DEF Spec

(* Type correctness of the scheduler and its checkpoint file. *)
THEOREM TypeCorrect == Spec => []TypeOK
<1>1. IInv => TypeOK
  BY DEF IInv
<1>2. QED
  BY <1>1, Invariance, PTL

(* A strategy that loads a torch model is never put in the pool. *)
LEMMA TorchIsDirect ==
  ASSUME NEW c \in Cells, StrategyOf[c] \in TorchStrategies
  PROVE  NeedsDirectExecution(c)
  BY DEF TorchStrategies, NeedsDirectExecution, SafeInThreadPool

(* Whatever the batch, a cell that uses the GPU context runs alone.        *)
THEOREM DeviceSafety == Spec => []DeviceExclusive
<1>1. ASSUME IInv PROVE DeviceExclusive
  <2> SUFFICES ASSUME NEW c \in Running, NEW d \in Running, c # d,
                      StrategyOf[c] \in TorchStrategies
               PROVE  FALSE
    BY DEF DeviceExclusive
  <2>1. /\ c \in Cells /\ d \in Cells
        /\ state[c] = "running" /\ state[d] = "running"
    BY DEF Running
  <2>2. pc = "directCell" /\ c = cell
    BY <1>1, <2>1, TorchIsDirect DEF IInv, DirectInMainThread
  <2>3. ~ NeedsDirectExecution(d)
    BY <1>1, <2>1, <2>2 DEF IInv, DirectInMainThread
  <2>4. QED
    BY <1>1, <2>1, <2>2, <2>3 DEF IInv, PoolAfterDirect
<1>2. QED
  BY <1>1, Invariance, PTL

(* Each result belongs to one cell and says what its worker answered.      *)
THEOREM ResultSafety == Spec => []ResultsMatchWork
<1>1. ASSUME IInv PROVE ResultsMatchWork
  <2>1. \A i \in 1..Len(results) : results[i][1] \in Cells
    BY <1>1, Entries DEF IInv, TypeOK
  <2>2. QED
    BY <1>1, <2>1 DEF IInv, ResultsAreCollected, ResultsMatchWork
<1>2. QED
  BY <1>1, Invariance, PTL

(* run() leaves no worker behind. *)
THEOREM WorkersJoined == Spec => []NoOrphanWorkers
<1>1. IInv => NoOrphanWorkers
  BY DEF IInv, OnlyTheBatch, NoOrphanWorkers
<1>2. QED
  BY <1>1, Invariance, PTL

(* The cells with a result are the collected ones. *)
LEMMA ReportedIsCollected ==
  ASSUME IInv
  PROVE  \A c \in Cells : c \in Reported <=> state[c] = "collected"
<1>1. \A i \in 1..Len(results) : results[i][1] \in Cells
  BY Entries DEF IInv, TypeOK
<1>2. QED
  BY <1>1 DEF Reported, IInv, ResultsAreCollected

(* Giving one more cell its result is a Report step of BatchRun.           *)
LEMMA ReportStep ==
  ASSUME IInv, NEW c \in Cells, NEW ok \in BOOLEAN,
         run \in Runs, run' = run, c \in Batch[run], state[c] # "collected",
         results' = Append(results, <<c, ok>>),
         CallStatus = "open", CallStatus' = "open"
  PROVE  Promise!Report(c, ok)
<1>1. results \in Seq(Cells \X BOOLEAN) /\ <<c, ok>> \in Cells \X BOOLEAN
  BY DEF IInv, TypeOK
<1>2. /\ Len(results) \in Nat /\ Len(results') = Len(results) + 1
      /\ \A i \in 1..Len(results) : i \in 1..Len(results') /\ results'[i] = results[i]
      /\ \A i \in 1..Len(results') : i \notin 1..Len(results) => i = Len(results') /\ results'[i] = <<c, ok>>
      /\ Len(results') \in 1..Len(results') /\ results'[Len(results')] = <<c, ok>>
  BY <1>1, OneMore
<1>3. Delivered' = Delivered \cup {<<c, ok>>}
  BY <1>2 DEF Delivered
<1>4. Reported' = Reported \cup {c}
  BY <1>2 DEF Reported
<1>5. run # 0
  BY SchedulerAssumption DEF Runs
<1>6. c \in Owed
  BY <1>5, ReportedIsCollected DEF Owed
<1>7. Owed' = Owed \ {c}
  BY <1>4, <1>5 DEF Owed
<1>8. QED
  BY <1>3, <1>6, <1>7 DEF Promise!Report

(* run() may return only when nothing is owed. *)
LEMMA NothingOwed ==
  ASSUME IInv, run \in Runs, \A c \in Batch[run] : state[c] = "collected"
  PROVE  Owed = {}
  BY SchedulerAssumption, ReportedIsCollected DEF Owed, Runs

(* Every step of the scheduler is a step of BatchRun or none.              *)
LEMMA StepSimulation == IInv /\ [Next]_vars => [Promise!Next]_(Promise!vars)
<1> SUFFICES ASSUME IInv, [Next]_vars PROVE [Promise!Next]_(Promise!vars)
  OBVIOUS
<1> USE DEF Promise!vars
<1>0. ASSUME UNCHANGED <<run, results>>
      PROVE  UNCHANGED <<Owed, Delivered>>
  BY <1>0 DEF Owed, Reported, Delivered
<1>1. CASE StartRun
  <2>1. CallStatus = "closed" /\ CallStatus' = "open"
    BY <1>1 DEF StartRun, CallStatus
  <2>2. run' \in Runs /\ results' = <<>>
    BY <1>1, SchedulerAssumption DEF StartRun, IInv, TypeOK, Runs
  <2>3. Delivered' = {}
    BY <2>2 DEF Delivered
  <2>4. Owed' \in SUBSET Cells
    BY <2>2, SchedulerAssumption DEF Owed, Runs
  <2>5. QED
    BY <2>1, <2>3, <2>4 DEF Promise!Next, Promise!Begin
<1>2. ASSUME NEW c \in Cells, StartDirect(c) PROVE UNCHANGED Promise!vars
  BY <1>0, <1>2 DEF StartDirect, CallStatus
<1>3. ASSUME NEW o \in Outcomes, FinishDirect(o) PROVE Promise!Next
  <2>1. /\ cell \in Cells /\ cell \in Batch[run] /\ run \in Runs /\ state[cell] = "running"
    BY <1>3, SchedulerAssumption DEF FinishDirect, IInv, CellHeld, Direct
  <2>2. CallStatus = "open" /\ CallStatus' = "open"
    BY <1>3 DEF FinishDirect, CallStatus
  <2>3. Success(o) \in BOOLEAN
    BY DEF Success
  <2>4. Promise!Report(cell, Success(o))
    BY <1>3, <2>1, <2>2, <2>3, ReportStep DEF FinishDirect
  <2>5. QED
    BY <2>1, <2>3, <2>4 DEF Promise!Next
<1>4. CASE CheckpointHeader \/ CheckpointRow \/ OpenPool \/ Drain
  BY <1>0, <1>4 DEF CheckpointHeader, CheckpointRow, OpenPool, Drain, CallStatus
<1>5. CASE ReturnDirectOnly \/ ReturnPool
  <2>1. CallStatus = "open" /\ CallStatus' = "closed"
    BY <1>5 DEF ReturnDirectOnly, ReturnPool, CallStatus
  <2>2. run \in Runs
    BY <1>5 DEF ReturnDirectOnly, ReturnPool, IInv, CellHeld
  <2>3. \A c \in Batch[run] : state[c] = "collected"
    BY <1>5 DEF ReturnDirectOnly, ReturnPool, IInv, DirectBeforePool, DirectLoopOver, Direct, Parallel
  <2>4. Owed = {} /\ UNCHANGED <<Owed, Delivered>>
    BY <1>0, <1>5, <2>2, <2>3, NothingOwed DEF ReturnDirectOnly, ReturnPool
  <2>5. QED
    BY <2>1, <2>4 DEF Promise!Next, Promise!Return
<1>6. ASSUME NEW c \in Cells, Collect(c) PROVE Promise!Next
  <2>1. /\ c \in Batch[run] /\ run \in Runs /\ state[c] = "finished"
    BY <1>6 DEF Collect, Yielded, IInv, CellHeld, Parallel
  <2>2. CallStatus = "open" /\ CallStatus' = "open"
    BY <1>6 DEF Collect, CallStatus
  <2>3. Success(outcome[c]) \in BOOLEAN
    BY DEF Success
  <2>4. Promise!Report(c, Success(outcome[c]))
    BY <1>6, <2>1, <2>2, <2>3, ReportStep DEF Collect
  <2>5. QED
    BY <2>3, <2>4 DEF Promise!Next
<1>7. CASE Raise \/ Crash
  <2>1. UNCHANGED <<run, results>> /\ CallStatus' = "lost"
    BY <1>7 DEF Raise, Crash, CallStatus
  <2>2. QED
    BY <1>0, <2>1 DEF Promise!Next, Promise!Lose
<1>8. ASSUME NEW c \in Cells, WorkerStart(c) PROVE UNCHANGED Promise!vars
  BY <1>0, <1>8 DEF WorkerStart, CallStatus
<1>9. ASSUME NEW c \in Cells, NEW o \in Outcomes, WorkerFinish(c, o) PROVE UNCHANGED Promise!vars
  BY <1>0, <1>9 DEF WorkerFinish, CallStatus
<1>10. CASE Done \/ UNCHANGED vars
  BY <1>0, <1>10 DEF Done, vars, CallStatus
<1>11. QED
  BY <1>1, <1>2, <1>3, <1>4, <1>5, <1>6, <1>7, <1>8, <1>9, <1>10 DEF Next, MainStep

(* The scheduler implements BatchRun: one result for each cell of the      *)
(* batch, and no return before the last of them.                           *)
THEOREM Implementation == Spec => ImplementsBatchRun
<1>1. Init => Promise!Init
  <2> SUFFICES ASSUME Init PROVE Promise!Init
    OBVIOUS
  <2>1. results = <<>> /\ run = 0 /\ pc = "ready"
    BY DEF Init
  <2>2. Delivered = {}
    BY <2>1 DEF Delivered
  <2>3. QED
    BY <2>1, <2>2 DEF Promise!Init, CallStatus, Owed
<1>2. QED
  BY <1>1, Invariance, StepSimulation, PTL DEF Spec, Promise!Spec, ImplementsBatchRun

(***************************************************************************)
(* The checkpoint file.                                                    *)
(***************************************************************************)
Reporting == pc \in {"report", "row"}
Interrupted == pc \in {"report", "row", "draining", "raised", "crashed"}
HasRow(k) == \E i \in 1..Len(csv) : csv[i] = Row(k)

(* The header is the first line and no other.                              *)
HeaderFirst ==
  /\ headerWritten <=> Len(csv) > 0
  /\ pc = "row" => headerWritten
  /\ \A i \in 1..Len(csv) : (csv[i] = Header) = (i = 1)
(* No run is recorded ahead, and a row of this one is that of a result,    *)
(* which is not the one just being reported.                               *)
RowsOfRuns ==
  /\ \A i \in 1..Len(csv) : csv[i][1] <= run
  /\ \A i \in 1..Len(csv) : csv[i][1] = run /\ i > 1 =>
       \E k \in 1..Len(results) : csv[i] = Row(k) /\ (Reporting => k # Len(results))
RowsOnce == \A i, j \in 1..Len(csv) : csv[i] = csv[j] => i = j
ResultsHaveRows ==
  \A k \in 1..Len(results) : HasRow(k) \/ (k = Len(results) /\ Interrupted)
(* A run that has returned owes nothing, and neither did those before it.  *)
Returned == pc = "ready" /\ run > 0 => \A c \in Batch[run] : state[c] = "collected"
EarlierRuns ==
  \A r \in 1..(run - 1), c \in Cells : c \in Batch[r] =>
    \E i \in 1..Len(csv) : csv[i][1] = r /\ csv[i][2] = c

RowsInv == HeaderFirst /\ RowsOfRuns /\ RowsOnce /\ ResultsHaveRows /\ Returned /\ EarlierRuns

(* The lines of a typed file.                                              *)
LEMMA Lines ==
  ASSUME NEW R, NEW C, NEW s \in Seq(R \X C \X BOOLEAN)
  PROVE  /\ Len(s) \in Nat
         /\ \A i \in 1..Len(s) : s[i][1] \in R
  OBVIOUS

(* Steps that touch neither the file nor the results, and end no report    *)
(* but by an exception or a crash.                                         *)
LEMMA RowsFrame ==
  ASSUME RowsInv, UNCHANGED <<run, results, csv, headerWritten>>,
         Reporting' => pc' = pc, Interrupted => Interrupted', Returned'
  PROVE  RowsInv'
<1>1. HeaderFirst'
  BY DEF RowsInv, HeaderFirst, Reporting
<1>2. \A k : Row(k)' = Row(k) /\ HasRow(k)' = HasRow(k)
  BY DEF Row, HasRow
<1>3. RowsOfRuns'
  BY <1>2 DEF RowsInv, RowsOfRuns, Reporting
<1>4. ResultsHaveRows'
  BY <1>2 DEF RowsInv, ResultsHaveRows
<1>5. RowsOnce' /\ EarlierRuns'
  BY DEF RowsInv, RowsOnce, EarlierRuns
<1> QED BY <1>1, <1>3, <1>4, <1>5 DEF RowsInv

(* A new result: all the others have their rows.                           *)
LEMMA RowsReport ==
  ASSUME IInv, RowsInv, NEW e \in Cells \X BOOLEAN,
         UNCHANGED <<run, csv, headerWritten>>, results' = Append(results, e),
         ~Interrupted, pc' = "report"
  PROVE  RowsInv'
<1>1. /\ Len(results) \in Nat /\ Len(results') = Len(results) + 1
      /\ \A k \in 1..Len(results) : k \in 1..Len(results') /\ results'[k] = results[k]
      /\ \A k \in 1..Len(results') : k \notin 1..Len(results) => k = Len(results')
  BY OneMore DEF IInv, TypeOK
<1>2. \A k \in 1..Len(results) : Row(k)' = Row(k) /\ HasRow(k)' = HasRow(k)
  BY <1>1 DEF Row, HasRow
<1>3. RowsOfRuns'
  <2>1. \A i \in 1..Len(csv) : csv[i][1] = run /\ i > 1 =>
          \E k \in 1..Len(results') : csv[i] = Row(k)' /\ k # Len(results')
    BY <1>1, <1>2 DEF RowsInv, RowsOfRuns
  <2> QED BY <2>1 DEF RowsInv, RowsOfRuns, Reporting
<1>4. ResultsHaveRows'
  BY <1>1, <1>2 DEF RowsInv, ResultsHaveRows, Interrupted
<1>5. HeaderFirst' /\ RowsOnce' /\ Returned' /\ EarlierRuns'
  BY DEF RowsInv, HeaderFirst, RowsOnce, Returned, EarlierRuns
<1> QED BY <1>3, <1>4, <1>5 DEF RowsInv

LEMMA RowsStartRun ==
  ASSUME IInv, RowsInv, StartRun
  PROVE  RowsInv'
<1> USE DEF StartRun
<1>1. run \in Nat /\ run' = run + 1 /\ results' = <<>> /\ Len(results') = 0
  BY EmptyList, SchedulerAssumption DEF IInv, TypeOK
<1>2. \A i \in 1..Len(csv) : csv[i][1] \in 0..NumRuns /\ csv[i][1] <= run
  BY Lines DEF IInv, TypeOK, RowsInv, RowsOfRuns
<1>3. RowsOfRuns' /\ ResultsHaveRows'
  BY <1>1, <1>2, SchedulerAssumption DEF RowsOfRuns, ResultsHaveRows
<1>4. EarlierRuns'
  <2> SUFFICES ASSUME NEW r \in 1..run, NEW c \in Cells, c \in Batch[r]
               PROVE  \E i \in 1..Len(csv) : csv[i][1] = r /\ csv[i][2] = c
    BY <1>1 DEF EarlierRuns
  <2>1. CASE r # run
    BY <1>1, <2>1 DEF RowsInv, EarlierRuns
  <2>2. CASE r = run
    <3>1. state[c] = "collected"
      BY <2>2, <1>1 DEF RowsInv, Returned
    <3>2. PICK k \in 1..Len(results) : results[k][1] = c
      BY <3>1 DEF IInv, ResultsAreCollected
    <3>3. HasRow(k)
      BY DEF RowsInv, ResultsHaveRows, Interrupted
    <3> QED BY <2>2, <3>2, <3>3 DEF HasRow, Row
  <2> QED BY <2>1, <2>2
<1>5. HeaderFirst' /\ RowsOnce' /\ Returned'
  BY DEF RowsInv, HeaderFirst, RowsOnce, Returned
<1> QED BY <1>3, <1>4, <1>5 DEF RowsInv

(* The first write: the header, if the file has none.                      *)
LEMMA RowsHeader ==
  ASSUME IInv, RowsInv, CheckpointHeader
  PROVE  RowsInv'
<1> USE DEF CheckpointHeader
<1>1. CASE headerWritten
  <2>1. UNCHANGED <<run, results, csv, headerWritten>>
    BY <1>1 DEF HeaderMissing, IInv, TypeOK
  <2>2. \A k : Row(k)' = Row(k) /\ HasRow(k)' = HasRow(k)
    BY <2>1 DEF Row, HasRow
  <2> QED BY <1>1, <2>1, <2>2 DEF RowsInv, HeaderFirst, RowsOfRuns, Reporting, RowsOnce,
            ResultsHaveRows, Interrupted, Returned, EarlierRuns
<1>2. CASE ~headerWritten
  <2>1. Len(csv) = 0
    BY <1>2, Lines DEF RowsInv, HeaderFirst, IInv, TypeOK
  <2>2. Len(csv') = 1 /\ csv'[1] = Header
    <3>1. csv' = Append(csv, Header)
      BY <1>2 DEF HeaderMissing
    <3>2. PICK T : T = (0..NumRuns) \X (0..NumCells) \X BOOLEAN
      OBVIOUS
    <3>3. csv \in Seq(T)
      BY <3>2 DEF IInv, TypeOK
    <3>4. Header \in T
      <4>1. 0 \in 0..NumRuns /\ 0 \in 0..NumCells
        BY SchedulerAssumption
      <4> QED BY <3>2, <4>1, Zenon DEF Header
    <3> QED BY <2>1, <3>1, <3>3, <3>4, Appending
  <2>3. run \in Nat /\ UNCHANGED <<run, results, state>> /\ Reporting /\ pc' = "row" /\ headerWritten'
    BY SchedulerAssumption DEF IInv, TypeOK, Reporting
  <2>4. HeaderFirst' /\ RowsOnce'
    BY <2>2, <2>3 DEF HeaderFirst, RowsOnce
  <2>5. RowsOfRuns'
    BY <2>2, <2>3 DEF RowsOfRuns, Header
  <2>6. ResultsHaveRows'
    BY <2>1, <2>3 DEF RowsInv, ResultsHaveRows, HasRow, Interrupted
  <2>7. Returned' /\ EarlierRuns'
    BY <2>1, <2>3 DEF RowsInv, EarlierRuns, Returned
  <2> QED BY <2>4, <2>5, <2>6, <2>7 DEF RowsInv
<1> QED BY <1>1, <1>2

(* The second write: the row of the newest result, which has none yet.     *)
LEMMA RowsRow ==
  ASSUME IInv, RowsInv, CheckpointRow
  PROVE  RowsInv'
<1> USE DEF CheckpointRow
<1> DEFINE n == Len(results)
           m == Len(csv)
           new == Row(n)
<1>1. /\ run \in Runs /\ n \in Nat /\ n \in 1..n /\ results[n][1] \in Cells
      /\ \A k \in 1..n : results[k][1] \in Cells
  <2>1. n \in Nat /\ \A k \in 1..n : results[k][1] \in Cells
    BY Entries DEF IInv, TypeOK
  <2> QED BY <2>1 DEF IInv, CellHeld
<1>2. new \in (0..NumRuns) \X (0..NumCells) \X BOOLEAN /\ new[1] = run /\ new # Header
  <2>1. results[n][2] \in BOOLEAN
    BY <1>1, Entries DEF IInv, TypeOK
  <2>2. run \in 0..NumRuns /\ results[n][1] \in 0..NumCells /\ run # 0
    BY <1>1, SchedulerAssumption DEF Cells, Runs
  <2>3. PICK r \in 0..NumRuns, c \in 0..NumCells, b \in BOOLEAN : new = <<r, c, b>> /\ r = run
    BY <2>1, <2>2 DEF Row
  <2> HIDE DEF new
  <2>4. <<r, c, b>> \in (0..NumRuns) \X (0..NumCells) \X BOOLEAN
    OBVIOUS
  <2>5. <<r, c, b>>[1] = r /\ <<r, c, b>> # Header
    BY <2>2, <2>3 DEF Header
  <2> QED BY <2>3, <2>4, <2>5
<1>3. /\ m \in Nat /\ m > 0 /\ Len(csv') = m + 1
      /\ \A i \in 1..m : csv'[i] = csv[i]
      /\ csv'[m + 1] = new
  <2>1. csv \in Seq((0..NumRuns) \X (0..NumCells) \X BOOLEAN)
    BY DEF IInv, TypeOK
  <2>2. m \in Nat /\ m > 0
    BY <2>1, Lines DEF RowsInv, HeaderFirst
  <2> QED BY <1>2, <2>1, <2>2, Appending
<1>4. \A k : Row(k)' = Row(k)
  BY DEF Row
<1>5. \A i \in 1..Len(csv') : i \in 1..m \/ i = m + 1
  BY <1>3
<1>6. \A i \in 1..m : csv[i] # new
  <2> SUFFICES ASSUME NEW i \in 1..m, csv[i] = new PROVE FALSE
    OBVIOUS
  <2>1. i # 1
    BY <1>2 DEF RowsInv, HeaderFirst
  <2>2. csv[i][1] = run /\ i > 1
    BY <1>2, <2>1
  <2>3. PICK k \in 1..n : csv[i] = Row(k) /\ k # n
    BY <2>2 DEF RowsInv, RowsOfRuns, Reporting
  <2>4. results[k][1] = results[n][1]
    BY <2>3 DEF Row
  <2> QED BY <1>1, <2>3, <2>4 DEF IInv, ResultsAreCollected
<1> HIDE DEF new, n, m
<1>7. HeaderFirst'
  BY <1>2, <1>3, <1>5 DEF RowsInv, HeaderFirst, m
<1>8. RowsOnce'
  BY <1>3, <1>5, <1>6 DEF RowsInv, RowsOnce, m
<1>9. ~Reporting'
  BY DEF Reporting
<1>10. RowsOfRuns'
  <2>1. \A i \in 1..Len(csv') : csv'[i][1] <= run
    BY <1>1, <1>2, <1>3, <1>5, SchedulerAssumption DEF RowsInv, RowsOfRuns, m, Runs
  <2>2. ASSUME NEW i \in 1..Len(csv'), csv'[i][1] = run, i > 1
        PROVE  \E k \in 1..Len(results) : csv'[i] = Row(k)
    <3>1. CASE i \in 1..m
      BY <1>3, <2>2, <3>1 DEF RowsInv, RowsOfRuns, m
    <3>2. CASE i = m + 1
      BY <1>1, <1>3, <3>2 DEF new, n
    <3> QED BY <1>5, <3>1, <3>2
  <2> QED BY <1>4, <1>9, <2>1, <2>2 DEF RowsOfRuns
<1>11. ResultsHaveRows'
  <2> SUFFICES ASSUME NEW k \in 1..n PROVE HasRow(k)'
    BY DEF ResultsHaveRows, n
  <2>1. CASE k = n
    <3>1. m + 1 \in 1..Len(csv')
      BY <1>3
    <3> QED BY <1>3, <1>4, <2>1, <3>1 DEF HasRow, new
  <2>2. CASE k # n
    <3>1. PICK i \in 1..m : csv[i] = Row(k)
      BY <2>2 DEF RowsInv, ResultsHaveRows, HasRow, n, m
    <3>2. i \in 1..Len(csv') /\ csv'[i] = Row(k)
      BY <1>3, <3>1
    <3> QED BY <1>4, <3>2 DEF HasRow
  <2> QED BY <2>1, <2>2
<1>12. EarlierRuns'
  <2>1. \A i \in 1..m : i \in 1..Len(csv')
    BY <1>3
  <2> QED BY <1>3, <2>1 DEF RowsInv, EarlierRuns, m
<1>13. Returned'
  BY DEF Returned
<1> QED BY <1>7, <1>8, <1>10, <1>11, <1>12, <1>13 DEF RowsInv

(* The other steps: run() returns only with all cells collected.           *)
LEMMA RowsNext == IInv /\ RowsInv /\ [Next]_vars => RowsInv'
<1> SUFFICES ASSUME IInv, RowsInv, [Next]_vars PROVE RowsInv'
  OBVIOUS
<1> USE DEF Reporting, Interrupted
<1>1. ASSUME NEW c \in Cells, StartDirect(c) PROVE RowsInv'
  <2>1. Returned'
    BY <1>1 DEF StartDirect, Returned
  <2> QED BY <1>1, <2>1, RowsFrame DEF StartDirect
<1>2. ASSUME NEW o \in Outcomes, FinishDirect(o) PROVE RowsInv'
  <2>1. cell \in Cells
    BY <1>2, SchedulerAssumption DEF FinishDirect, IInv, CellHeld, Direct
  <2>2. <<cell, Success(o)>> \in Cells \X BOOLEAN
    BY <2>1 DEF Success
  <2> QED BY <1>2, <2>2, RowsReport DEF FinishDirect
<1>3. CASE ReturnDirectOnly
  <2>1. Returned'
    BY <1>3 DEF ReturnDirectOnly, Returned, DirectLoopOver, Direct, Parallel
  <2> QED BY <1>3, <2>1, RowsFrame DEF ReturnDirectOnly
<1>4. CASE OpenPool
  <2>1. Returned'
    BY <1>4 DEF OpenPool, Returned
  <2> QED BY <1>4, <2>1, RowsFrame DEF OpenPool
<1>5. ASSUME NEW c \in Cells, Collect(c) PROVE RowsInv'
  <2>1. <<c, Success(outcome[c])>> \in Cells \X BOOLEAN
    BY DEF Success
  <2> QED BY <1>5, <2>1, RowsReport DEF Collect
<1>6. CASE ReturnPool
  <2>1. Returned'
    BY <1>6 DEF ReturnPool, Returned, IInv, DirectBeforePool, DirectLoopOver, Direct, Parallel
  <2> QED BY <1>6, <2>1, RowsFrame DEF ReturnPool
<1>7. CASE Drain \/ Raise \/ Crash
  <2>1. pc' \in {"draining", "raised", "crashed"} /\ UNCHANGED <<run, results, csv, headerWritten>>
    BY <1>7 DEF Drain, Raise, Crash
  <2>2. Returned'
    BY <2>1 DEF Returned
  <2> QED BY <2>1, <2>2, RowsFrame
<1>8. ASSUME NEW c \in Cells, WorkerStart(c) \/ \E o \in Outcomes : WorkerFinish(c, o)
      PROVE  RowsInv'
  <2>1. UNCHANGED <<pc, run, results, csv, headerWritten>> /\ state[c] \in {"queued", "running"}
    BY <1>8 DEF WorkerStart, WorkerFinish
  <2>2. Returned'
    BY <2>1 DEF Returned, IInv, OnlyTheBatch, RowsInv
  <2> QED BY <2>1, <2>2, RowsFrame
<1>9. CASE Done \/ UNCHANGED vars
  <2>1. UNCHANGED <<pc, run, state, results, csv, headerWritten>>
    BY <1>9 DEF Done, vars
  <2>2. Returned'
    BY <2>1 DEF RowsInv, Returned
  <2> QED BY <2>1, <2>2, RowsFrame
<1> QED BY <1>1, <1>2, <1>3, <1>4, <1>5, <1>6, <1>7, <1>8, <1>9, RowsStartRun, RowsHeader, RowsRow
       DEF Next, MainStep

(* Whenever the process dies, the file has one header, each row once, and  *)
(* a row for every result but perhaps the newest (CellCheckpointer).       *)
THEOREM Recoverable == Spec => []CheckpointRecoverable
<1>1. Init => RowsInv
  <2> SUFFICES ASSUME Init PROVE RowsInv
    OBVIOUS
  <2>1. csv = <<>> /\ results = <<>> /\ Len(csv) = 0 /\ Len(results) = 0 /\ run = 0
    BY EmptyList DEF Init
  <2>2. HeaderFirst /\ RowsOfRuns /\ RowsOnce /\ ResultsHaveRows
    BY <2>1 DEF Init, HeaderFirst, RowsOfRuns, RowsOnce, ResultsHaveRows
  <2>3. Returned /\ EarlierRuns
    BY <2>1 DEF Returned, EarlierRuns
  <2> QED BY <2>2, <2>3 DEF RowsInv
<1>2. RowsInv => CheckpointRecoverable
  BY DEF RowsInv, HeaderFirst, RowsOfRuns, RowsOnce, ResultsHaveRows, EarlierRuns, HasRow, Row,
         Interrupted, CheckpointRecoverable
<1> QED BY <1>1, <1>2, RowsNext, Invariance, PTL DEF Spec
=============================================================================
