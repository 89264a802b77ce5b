---------------------------- MODULE Calculations ----------------------------
(***************************************************************************)
(* The computations of the benchmark that share nothing, one beside the    *)
(* other: a caller expands a study (StudyMatrix) or a matrix               *)
(* (MatrixExpander), or looks at a memory that grows old under the decay   *)
(* of a cell (MemoryAging).  A behaviour is one of them.                   *)
(***************************************************************************)
EXTENDS StudyMatrix, DecayFormula

CONSTANTS
  StrategyLists,    \* see MatrixExpander
  PolicyLists,
  LambdaLists,
  Settings          \* see MemoryAging

(* A matrix is asked for by lists that name each value once, as those of   *)
(* its built-in modes do; a lambda of zero is that of the policies without *)
(* one.  A floor is a share of the full weight (ARCHIVAL_FLOORS).          *)
ASSUME CalculationAssumption ==
  /\ \A l \in MemLists \cup StrategyLists \cup PolicyLists : l \in Seq(STRING) /\ IsInjective(l)
  /\ \A l \in LambdaLists : l \in Seq(Nat \ {0}) /\ IsInjective(l)
  /\ Settings \subseteq [type : STRING, lambda : Nat, floor : {FloorUnset} \cup 0..One,
                         archival : Nat, working : Nat]

VARIABLES
  calculation,      \* "study", "matrix" or "aging"
  gridInput, gridTurn, gridCells,
  setting, age

Grid == INSTANCE MatrixExpander WITH
  input <- gridInput, turn <- gridTurn, cells <- gridCells
Aging == INSTANCE MemoryAging

gridVars == <<gridInput, gridTurn, gridCells>>
agingVars == <<setting, age>>
allVars == <<calculation, vars, gridVars, agingVars>>

(* Nothing was asked of the others. *)
NoStudy == input = <<>> /\ offered = <<>> /\ next = 1 /\ seen = {} /\ cells = <<>>
NoGrid == gridInput = <<>> /\ gridTurn = 1 /\ gridCells = <<>>
NoAging == setting = <<>> /\ age = 0

CalculationInit ==
  \/ calculation = "study" /\ Init /\ NoGrid /\ NoAging
  \/ calculation = "matrix" /\ Grid!Init /\ NoStudy /\ NoAging
  \/ calculation = "aging" /\ Aging!Init /\ NoStudy /\ NoGrid

ExpandStudy == calculation = "study" /\ Next /\ UNCHANGED <<calculation, gridVars, agingVars>>
ExpandMatrix == calculation = "matrix" /\ Grid!Next /\ UNCHANGED <<calculation, vars, agingVars>>
GrowOld == calculation = "aging" /\ Aging!Next /\ UNCHANGED <<calculation, vars, gridVars>>

CalculationNext == ExpandStudy \/ ExpandMatrix \/ GrowOld

CalculationSpec == CalculationInit /\ [][CalculationNext]_allVars

(* A worker runs the cell it was given, not another that its dictionary    *)
(* was made to stand for: those of a study (StudyMatrix) and those of a    *)
(* matrix (MatrixExpander).                                                *)
WorkersRunTheirCells ==
  /\ calculation = "study" => WorkerRunsTheCell
  /\ calculation = "matrix" => Grid!WorkerRunsTheCell

(* The matrix is the full product, each configuration once.                *)
MatrixIsFullGrid == calculation = "matrix" => Grid!FullGrid

(* A decay factor stays within [0, 1], and the archival floor holds from   *)
(* the archival day on (MemoryAging).                                      *)
DecayWithinBounds == calculation = "aging" => Aging!FactorInRange /\ Aging!FloorHolds
=============================================================================
