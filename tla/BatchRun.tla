------------------------------ MODULE BatchRun ------------------------------
(***************************************************************************)
(* What the batch schedulers of benchmark/workload promise their callers,  *)
(* whatever executor they use: run(cells) hands back one result for each   *)
(* cell of the batch, successful or failed, and no other; it returns only  *)
(* when every cell has its result; if it cannot, it does not return at     *)
(* all (an exception, or the death of the process).  StudyScheduler and    *)
(* MatrixScheduler are shown to implement this specification.              *)
(***************************************************************************)
CONSTANT Cells        \* the cells that batches are made of

VARIABLES
  status,             \* "closed": no batch open; "open"; "lost": never returns
  todo,               \* cells of the open batch that have no result yet
  reported            \* <<cell, success>> pairs of the open or last batch

vars == <<status, todo, reported>>

Init == status = "closed" /\ todo = {} /\ reported = {}

(* A caller hands a batch of cells to run(). *)
Begin ==
  /\ status = "closed"
  /\ status' = "open"
  /\ todo' \in SUBSET Cells
  /\ reported' = {}

(* One cell gets its only result. *)
Report(c, ok) ==
  /\ status = "open"
  /\ c \in todo
  /\ todo' = todo \ {c}
  /\ reported' = reported \cup {<<c, ok>>}
  /\ UNCHANGED status

(* run() returns: nothing may be missing. *)
Return ==
  /\ status = "open"
  /\ todo = {}
  /\ status' = "closed"
  /\ UNCHANGED <<todo, reported>>

(* run() raises, or its process dies. *)
Lose ==
  /\ status # "lost"
  /\ status' = "lost"
  /\ UNCHANGED <<todo, reported>>

Next ==
  \/ Begin
  \/ \E c \in Cells, ok \in BOOLEAN : Report(c, ok)
  \/ Return
  \/ Lose

Spec == Init /\ [][Next]_vars
=============================================================================
