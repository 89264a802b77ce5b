---------------------------- MODULE CellIdentity ----------------------------
(***************************************************************************)
(* What identifies a cell of the benchmark grids: DecaySpec.label and      *)
(* MatrixCell.cell_id (benchmark/workload/matrix.py), StudyCell.cell_id    *)
(* (benchmark/workload/study_matrix.py), and what a worker rebuilds from   *)
(* the dictionary it is handed.  An id is the tuple of the parts of the    *)
(* hashed key; the md5 of different keys is taken to differ.  Lambdas are  *)
(* in ten-thousandths, weights and floors in hundredths.                   *)
(***************************************************************************)
EXTENDS Integers, Sequences

DefaultFloor == 65

(* A DecaySpec; pruning threshold 0.15 and the day limits never vary.      *)
Decay(policy, lambda, alpha, floor) ==
  [policy |-> policy, lambda |-> lambda, alpha |-> alpha, floor |-> floor]

NoDecay == Decay("none", 0, 0, DefaultFloor)
DefaultDecay == Decay("exponential", 100, 0, DefaultFloor)

(* f"{lambda:.2f}": two decimals are kept (a half is rounded up: the only  *)
(* one on a grid is 0.005, whose double is just above the half).           *)
TwoDecimals(lambda) == (lambda + 50) \div 100

(* DecaySpec.label *)
DecayLabel(d) ==
  IF d.policy \in {"none", "periodic"} THEN <<d.policy>>
  ELSE IF d.floor = DefaultFloor THEN <<d.policy, TwoDecimals(d.lambda)>>
  ELSE <<d.policy, TwoDecimals(d.lambda), d.floor>>

(* DecaySpec.to_config_dict: the decay block a run is configured with.     *)
DecayConfig(d) ==
  [type |-> IF d.policy \in {"none", "periodic"} THEN "exponential" ELSE d.policy,
   lambda |-> IF d.policy = "none" THEN 0 ELSE d.lambda,
   alpha |-> d.alpha, floor |-> d.floor,
   pruning |-> IF d.policy = "periodic" THEN "age_based" ELSE "score_threshold"]

(***************************************************************************)
(* MatrixCell.                                                             *)
(***************************************************************************)
MatrixCell(mem, strategy, decay) ==
  [mem |-> mem, strategy |-> strategy, decay |-> decay]

MatrixId(c) == <<c.mem, c.strategy, DecayLabel(c.decay)>>

MatrixConfig(c) == <<c.mem, c.strategy, DecayConfig(c.decay)>>

(* to_summary_dict, and the cell _run_cell_worker makes of it: the ranking *)
(* weight and the floor are not carried over.                              *)
MatrixRebuilt(c) ==
  [c EXCEPT !.decay = Decay(c.decay.policy, c.decay.lambda, 0, DefaultFloor)]

(***************************************************************************)
(* StudyCell; the query window, the seed and the backend are those of the  *)
(* whole study.                                                            *)
(***************************************************************************)
StudyCell(phase, mem, strategy, decay, model, backend, weight, reranker) ==
  [phase |-> phase, mem |-> mem, strategy |-> strategy, decay |-> decay,
   model |-> model, backend |-> backend, weight |-> weight, reranker |-> reranker]

(* Mutant: the weight of a hybrid cell is not part of its id.              *)
StudyIdWithoutWeight(c) ==
  <<c.phase, c.mem, c.strategy, DecayLabel(c.decay), c.model, c.backend, c.reranker>>
StudyId(c) ==
  <<c.phase, c.mem, c.strategy, DecayLabel(c.decay), c.model, c.backend,
    c.weight, c.reranker>>

(* _internal_retrieval_strategy *)
InternalStrategy(c) ==
  IF c.strategy # "semantic" THEN c.strategy
  ELSE IF c.backend = "api" THEN "api_embeddings" ELSE "embeddings"

(* to_config_dict: the model is used by the strategies that embed, the     *)
(* weight by hybrid only, the reranker block is always there.              *)
StudyConfig(c) ==
  [mem |-> c.mem, strategy |-> InternalStrategy(c), decay |-> DecayConfig(c.decay),
   model |-> IF c.strategy \in {"bm25", "bm25l", "recency"} THEN "" ELSE c.model,
   weight |-> IF c.strategy = "hybrid" THEN c.weight ELSE 0,
   reranker |-> c.reranker]

(* to_summary_dict, and the cell _run_study_cell_worker makes of it.       *)
(* Mutant: the ranking weight is lost on the way, as for a MatrixCell.     *)
StudyRebuiltWithoutAlpha(c) == [c EXCEPT !.decay.alpha = 0]
StudyRebuilt(c) ==
  StudyCell(c.phase, c.mem, c.strategy,
            Decay(c.decay.policy, c.decay.lambda, c.decay.alpha, c.decay.floor),
            c.model, c.backend, c.weight, c.reranker)

(***************************************************************************)
(* Lists of cells made by nested loops.                                    *)
(***************************************************************************)
ForEach2(A, B, Op(_, _)) ==
  [i \in 1..(Len(A) * Len(B)) |->
     Op(A[((i - 1) \div Len(B)) + 1], B[((i - 1) % Len(B)) + 1])]

(* The lambda sweeps of matrix.py. *)
LambdaSteps == <<5, 10, 20, 50, 100, 200, 500, 1000>>
ArchivalFloors == <<0, 25, 50, 65, 75, 90>>
=============================================================================
