--------------------------- MODULE MatrixExpander ---------------------------
(***************************************************************************)
(* benchmark/workload/matrix.py: MatrixExpander.expand_full, the nested    *)
(* loops that make the cells of a MatrixScheduler run.  One step is one    *)
(* turn of the product of memory types, strategies and policies.           *)
(***************************************************************************)
EXTENDS CellIdentity, FiniteSets, SequencesExt

CONSTANTS
  MemLists,         \* the lists of memory types a caller may ask for
  StrategyLists,    \* of retrieval strategies
  PolicyLists,      \* of decay policies
  LambdaLists       \* of lambdas

VARIABLES
  input,    \* the arguments of expand_full
  turn,     \* next turn of the loop over the product
  cells     \* the list built so far

vars == <<input, turn, cells>>

(* itertools.product(mem_types, strats, policies): the last varies first.  *)
Turns == Len(input.mems) * Len(input.strategies) * Len(input.policies)
PolicyAt(i) == input.policies[((i - 1) % Len(input.policies)) + 1]
StrategyAt(i) ==
  input.strategies[(((i - 1) \div Len(input.policies)) % Len(input.strategies)) + 1]
MemAt(i) ==
  input.mems[((i - 1) \div (Len(input.policies) * Len(input.strategies))) + 1]

(* The specs of a policy: one for none and periodic, else one per lambda.  *)
(* Mutant: periodic is swept like the others.                              *)
SpecsWithPeriodicSwept(p) ==
  IF p = "none" THEN <<NoDecay>>
  ELSE [i \in 1..Len(input.lambdas) |-> Decay(p, input.lambdas[i], 0, DefaultFloor)]
Specs(p) ==
  CASE p = "none" -> <<NoDecay>>
    [] p = "periodic" -> <<Decay("periodic", 0, 0, DefaultFloor)>>
    [] OTHER -> [i \in 1..Len(input.lambdas) |-> Decay(p, input.lambdas[i], 0, DefaultFloor)]

Init ==
  /\ input \in [mems : MemLists, strategies : StrategyLists,
                policies : PolicyLists, lambdas : LambdaLists]
  /\ turn = 1 /\ cells = <<>>

Turn ==
  /\ turn <= Turns
  /\ LET specs == Specs(PolicyAt(turn))
     IN  cells' = cells \o [i \in 1..Len(specs) |->
                              MatrixCell(MemAt(turn), StrategyAt(turn), specs[i])]
  /\ turn' = turn + 1
  /\ UNCHANGED input

Finished == turn > Turns

Done == Finished /\ UNCHANGED vars

Next == Turn \/ Done

Spec == Init /\ [][Next]_vars

(* The cells a reader of the four lists expects. *)
ExpectedDecays ==
  {d \in {Decay(p, l, 0, DefaultFloor) : p \in ToSet(input.policies), l \in ToSet(input.lambdas) \cup {0}} :
     d.lambda = 0 <=> d.policy \in {"none", "periodic"}}

(* The grid is the full product, each configuration once: "one per grid    *)
(* combination".                                                           *)
FullGrid ==
  Finished =>
    /\ ToSet(cells) = {MatrixCell(m, s, d) : m \in ToSet(input.mems),
                                            s \in ToSet(input.strategies), d \in ExpectedDecays}
    /\ Cardinality(ToSet(cells)) = Len(cells)

(* The id a worker computes for the cell it rebuilds is the id it was      *)
(* submitted under, and it runs the same configuration.                    *)
WorkerRunsTheCell ==
  \A c \in ToSet(cells) :
    MatrixId(MatrixRebuilt(c)) = MatrixId(c) /\ MatrixConfig(MatrixRebuilt(c)) = MatrixConfig(c)
=============================================================================
