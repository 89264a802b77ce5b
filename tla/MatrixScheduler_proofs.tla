----------------------- MODULE MatrixScheduler_proofs -----------------------
(***************************************************************************)
(* Theorems about MatrixScheduler, for any number of cells and worker      *)
(* processes, whichever cells hang: its type invariant, that no failure is *)
(* reported as a success, and that it implements BatchRun.                 *)
(***************************************************************************)
EXTENDS MatrixScheduler, TLAPS

States == {"idle", "pending", "running", "done", "collected"}

TypeOK ==
  /\ pc \in {"ready", "submit", "collect", "draining", "returned", "raised"}
  /\ state \in [Cells -> States]
  /\ future \in [Cells -> Answers \cup {"none"}]
  /\ broken \in BOOLEAN
  /\ results \in Seq(Cells \X BOOLEAN)
  /\ normFrom \in 0..NumCells

(* Before run() submits, nothing has a result.                             *)
NothingYet == pc = "ready" => results = <<>>

(* The list has the result of each collected cell, once, and of no other;  *)
(* its success is what the future was given.                               *)
ResultsAreCollected ==
  /\ \A i \in 1..Len(results) :
       /\ state[results[i][1]] = "collected"
       /\ results[i][2] => future[results[i][1]] = "ok"
  /\ \A i, j \in 1..Len(results) : results[i][1] = results[j][1] => i = j
  /\ \A c \in Cells : state[c] = "collected" => c \in Reported

IInv == TypeOK /\ NothingYet /\ ResultsAreCollected

(* A list with one more entry: each of its entries is an old one or the    *)
(* new one.                                                                *)
LEMMA OneMore ==
  ASSUME NEW T, NEW s \in Seq(T), NEW e \in T, NEW t, t = Append(s, e)
  PROVE  /\ t \in Seq(T) /\ Len(s) \in Nat /\ Len(t) = Len(s) + 1
         /\ \A i \in 1..Len(s) : i \in 1..Len(t) /\ t[i] = s[i]
         /\ \A i \in 1..Len(t) : i \notin 1..Len(s) => i = Len(t) /\ t[i] = e
         /\ Len(t) \in 1..Len(t) /\ t[Len(t)] = e
<1>1. /\ t \in Seq(T) /\ Len(s) \in Nat /\ Len(t) = Len(s) + 1
      /\ \A i \in 1..Len(s) : t[i] = s[i]
      /\ t[Len(s) + 1] = e
  OBVIOUS
<1> QED BY <1>1

LEMMA Entries ==
  ASSUME TypeOK
  PROVE  /\ Len(results) \in Nat
         /\ \A i \in 1..Len(results) : results[i][1] \in Cells /\ results[i][2] \in BOOLEAN
BY DEF TypeOK

LEMMA InitIInv == Init => IInv
<1> SUFFICES ASSUME Init PROVE IInv
  OBVIOUS
<1>1. results = <<>> /\ Len(results) = 0 /\ results \in Seq(Cells \X BOOLEAN)
  BY DEF Init
<1>2. TypeOK
  <2>1. normFrom \in 0..NumCells
    BY MatrixAssumption DEF Init
  <2>2. state \in [Cells -> States] /\ future \in [Cells -> Answers \cup {"none"}]
    BY DEF Init, States
  <2> QED BY <1>1, <2>1, <2>2 DEF Init, TypeOK
<1>3. ResultsAreCollected
  BY <1>1 DEF Init, ResultsAreCollected
<1> QED BY <1>1, <1>2, <1>3 DEF IInv, NothingYet

(* A step that gives no result and takes none away.                        *)
LEMMA ResultsKept ==
  ASSUME IInv, TypeOK', UNCHANGED results, pc = "ready" \/ pc' # "ready",
         \A c \in Cells : state[c] = "collected" <=> state'[c] = "collected",
         \A c \in Cells : state[c] = "collected" => future'[c] = future[c]
  PROVE  IInv'
<1>1. ResultsAreCollected'
  BY Entries DEF IInv, ResultsAreCollected, Reported
<1> QED BY <1>1 DEF IInv, NothingYet

LEMMA CollectIInv ==
  ASSUME IInv, NEW c \in Cells, Collect(c)
  PROVE  IInv'
<1> USE DEF IInv
<1>1. /\ <<c, Success(future[c])>> \in Cells \X BOOLEAN
      /\ results' = Append(results, <<c, Success(future[c])>>)
  BY DEF Collect, Success
<1>2. /\ results' \in Seq(Cells \X BOOLEAN)
      /\ Len(results) \in Nat /\ Len(results') = Len(results) + 1
      /\ \A i \in 1..Len(results) : i \in 1..Len(results') /\ results'[i] = results[i]
      /\ \A i \in 1..Len(results') :
           i \notin 1..Len(results) => i = Len(results') /\ results'[i] = <<c, Success(future[c])>>
      /\ Len(results') \in 1..Len(results') /\ results'[Len(results')] = <<c, Success(future[c])>>
  BY <1>1, OneMore DEF TypeOK
<1>3. TypeOK'
  <2>1. state' \in [Cells -> States] /\ normFrom' \in 0..NumCells
    BY MatrixAssumption DEF Collect, TypeOK, States, Cells
  <2> QED BY <1>2, <2>1 DEF Collect, TypeOK
<1>4. \A i \in 1..Len(results) : results[i][1] \in Cells /\ results[i][1] # c
  <2>1. state[c] # "collected"
    BY DEF Collect
  <2> QED BY <2>1, Entries DEF ResultsAreCollected
<1>5. /\ state'[c] = "collected" /\ future' = future
      /\ \A d \in Cells : d # c => state'[d] = state[d]
  BY DEF Collect, TypeOK
<1>6. \A i \in 1..Len(results') :
        \/ i \in 1..Len(results) /\ results'[i] = results[i]
        \/ i = Len(results') /\ results'[i][1] = c /\ results'[i][2] = Success(future[c])
  BY <1>2
<1>7. \A i \in 1..Len(results') :
        /\ state'[results'[i][1]] = "collected"
        /\ results'[i][2] => future'[results'[i][1]] = "ok"
  <2> TAKE i \in 1..Len(results')
  <2>1. CASE i \in 1..Len(results) /\ results'[i] = results[i]
    BY <1>4, <1>5, <2>1 DEF ResultsAreCollected
  <2>2. CASE results'[i][1] = c /\ results'[i][2] = Success(future[c])
    BY <1>5, <2>2 DEF Success
  <2> QED BY <1>6, <2>1, <2>2
<1>8. \A i, j \in 1..Len(results') : results'[i][1] = results'[j][1] => i = j
  BY <1>4, <1>6 DEF ResultsAreCollected
<1>9. \A d \in Cells : state'[d] = "collected" => d \in Reported'
  BY <1>2, <1>5 DEF ResultsAreCollected, Reported
<1>10. pc' # "ready"
  BY DEF Collect
<1> QED BY <1>3, <1>7, <1>8, <1>9, <1>10 DEF ResultsAreCollected, NothingYet

LEMMA WorkerDiesIInv ==
  ASSUME IInv, NEW c \in Cells, WorkerDies(c)
  PROVE  IInv'
<1> USE DEF WorkerDies, IInv, FailedByDeath, LostWorker
<1>1. TypeOK'
  BY DEF TypeOK, States, Answers
<1>2. \A d \in Cells : state[d] = "collected" <=> state'[d] = "collected"
  BY DEF TypeOK
<1>3. \A d \in Cells : state[d] = "collected" => future'[d] = future[d]
  BY DEF TypeOK
<1> QED BY <1>1, <1>2, <1>3, ResultsKept

LEMMA NextIInv == IInv /\ [Next]_vars => IInv'
<1> SUFFICES ASSUME IInv, [Next]_vars PROVE IInv'
  OBVIOUS
<1> USE DEF IInv
<1>1. CASE Start \/ SubmitRefused \/ Submitted \/ Return \/ Drain \/ Raise
  BY <1>1, ResultsKept
     DEF Start, SubmitRefused, Submitted, Return, Drain, Raise, TypeOK
<1>2. ASSUME NEW c \in Cells, Submit(c) PROVE IInv'
  BY <1>2, ResultsKept DEF Submit, TypeOK, States
<1>3. ASSUME NEW c \in Cells, Collect(c) PROVE IInv'
  BY <1>3, CollectIInv
<1>4. ASSUME NEW c \in Cells, WorkerTake(c) PROVE IInv'
  BY <1>4, ResultsKept DEF WorkerTake, TypeOK, States
<1>5. ASSUME NEW c \in Cells, NEW a \in Answers, WorkerAnswer(c, a) PROVE IInv'
  BY <1>5, ResultsKept DEF WorkerAnswer, TypeOK, States
<1>6. ASSUME NEW c \in Cells, WorkerDies(c) PROVE IInv'
  BY <1>6, WorkerDiesIInv
<1>7. CASE Done \/ UNCHANGED vars
  BY <1>7, ResultsKept DEF Done, vars, TypeOK
<1> QED BY <1>1, <1>2, <1>3, <1>4, <1>5, <1>6, <1>7 DEF Next, MainStep

LEMMA Invariance == Spec => []IInv
  BY InitIInv, NextIInv, PTL DEF Spec

(* Every variable keeps its type, whichever workers die or hang.           *)
THEOREM TypeCorrect == Spec => []TypeOK
<1>1. IInv => TypeOK
  BY DEF IInv
<1> QED BY <1>1, Invariance, PTL

(* A result is a success only if the cell's own worker said so, and no     *)
(* cell has two results, even when the pool is lost (MatrixScheduler.run). *)
THEOREM OwnSuccesses == Spec => []NoFalseSuccess
<1>1. IInv => NoFalseSuccess
  BY DEF IInv, ResultsAreCollected, NoFalseSuccess
<1> QED BY <1>1, Invariance, PTL

(***************************************************************************)
(* The refinement.                                                         *)
(***************************************************************************)

(* The cells with a result are the collected ones.                         *)
LEMMA ReportedIsCollected ==
  ASSUME IInv
  PROVE  Reported = {c \in Cells : state[c] = "collected"}
BY Entries DEF Reported, IInv, ResultsAreCollected

(* Collecting a future is a Report step of BatchRun.                       *)
LEMMA CollectReports ==
  ASSUME IInv, NEW c \in Cells, Collect(c)
  PROVE  Promise!Report(c, Success(future[c]))
<1>1. <<c, Success(future[c])>> \in Cells \X BOOLEAN
  BY DEF Success
<1>2. /\ Len(results) \in Nat /\ Len(results') = Len(results) + 1
      /\ \A i \in 1..Len(results) : i \in 1..Len(results') /\ results'[i] = results[i]
      /\ \A i \in 1..Len(results') :
           i \notin 1..Len(results) => i = Len(results') /\ results'[i] = <<c, Success(future[c])>>
      /\ Len(results') \in 1..Len(results') /\ results'[Len(results')] = <<c, Success(future[c])>>
  BY <1>1, OneMore DEF Collect, IInv, TypeOK
<1>3. Delivered' = Delivered \cup {<<c, Success(future[c])>>}
  BY <1>2 DEF Delivered
<1>4. Reported' = Reported \cup {c}
  BY <1>2 DEF Reported
<1>5. pc = "collect" /\ pc' = "collect" /\ state[c] # "collected"
  BY DEF Collect
<1>6. c \in Owed /\ Owed' = Owed \ {c}
  BY <1>4, <1>5, ReportedIsCollected DEF Owed
<1> QED BY <1>3, <1>5, <1>6 DEF Promise!Report, CallStatus

(* Every step of the scheduler is a step of BatchRun or none.              *)
LEMMA StepSimulation == IInv /\ [Next]_vars => [Promise!Next]_(Promise!vars)
<1> SUFFICES ASSUME IInv, [Next]_vars PROVE [Promise!Next]_(Promise!vars)
  OBVIOUS
<1> USE DEF Promise!vars
<1>0. ASSUME UNCHANGED results, pc # "ready", pc' # "ready"
      PROVE  UNCHANGED <<Owed, Delivered>>
  BY <1>0 DEF Owed, Reported, Delivered
<1>1. CASE Start
  <2>1. results = <<>> /\ results' = <<>>
    BY <1>1 DEF Start, IInv, NothingYet
  <2>2. Delivered' = {} /\ Owed' \in SUBSET Cells
    BY <1>1, <2>1 DEF Start, Delivered, Owed
  <2>3. CallStatus = "closed" /\ CallStatus' = "open"
    BY <1>1 DEF Start, CallStatus
  <2> QED BY <2>2, <2>3 DEF Promise!Next, Promise!Begin
<1>2. ASSUME NEW c \in Cells, Collect(c) PROVE Promise!Next
  <2>1. Success(future[c]) \in BOOLEAN
    BY DEF Success
  <2> QED BY <1>2, <2>1, CollectReports DEF Promise!Next
<1>3. CASE Return
  <2>1. Owed = {} /\ UNCHANGED <<Owed, Delivered>>
    BY <1>0, <1>3, ReportedIsCollected DEF Return, AllCollected, Owed
  <2>2. CallStatus = "open" /\ CallStatus' = "closed"
    BY <1>3 DEF Return, CallStatus
  <2> QED BY <2>1, <2>2 DEF Promise!Next, Promise!Return
<1>4. CASE SubmitRefused \/ Raise
  <2>1. CallStatus = "open" /\ CallStatus' = "lost" /\ UNCHANGED <<Owed, Delivered>>
    BY <1>0, <1>4 DEF SubmitRefused, Raise, CallStatus
  <2> QED BY <2>1 DEF Promise!Next, Promise!Lose
<1>5. CASE Submitted \/ Drain
  BY <1>0, <1>5 DEF Submitted, Drain, CallStatus
<1>6. ASSUME UNCHANGED <<pc, results>> PROVE UNCHANGED <<CallStatus, Owed, Delivered>>
  BY <1>6 DEF CallStatus, Owed, Reported, Delivered
<1>7. ASSUME NEW c \in Cells,
             Submit(c) \/ WorkerTake(c) \/ WorkerDies(c) \/ \E a \in Answers : WorkerAnswer(c, a)
      PROVE  UNCHANGED Promise!vars
  BY <1>6, <1>7 DEF Submit, WorkerTake, WorkerDies, WorkerAnswer
<1>8. CASE Done \/ UNCHANGED vars
  BY <1>6, <1>8 DEF Done, vars
<1> QED BY <1>1, <1>2, <1>3, <1>4, <1>5, <1>7, <1>8 DEF Next, MainStep

(* MatrixScheduler implements BatchRun: run() hands back a result for each *)
(* cell, or does not return.                                               *)
THEOREM Implementation == Spec => ImplementsBatchRun
<1>1. Init => Promise!Init
  <2> SUFFICES ASSUME Init PROVE Promise!Init
    OBVIOUS
  <2>1. results = <<>> /\ pc = "ready"
    BY DEF Init
  <2>2. Delivered = {}
    BY <2>1 DEF Delivered
  <2> QED BY <2>1, <2>2 DEF Promise!Init, CallStatus, Owed
<1> QED BY <1>1, Invariance, StepSimulation, PTL DEF Spec, Promise!Spec, ImplementsBatchRun
=============================================================================
