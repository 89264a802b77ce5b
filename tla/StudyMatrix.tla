---------------------------- MODULE StudyMatrix ----------------------------
(***************************************************************************)
(* benchmark/workload/study_matrix.py: the cells of each study phase       *)
(* (StudyExpander) and expand_full_study, which joins the phases and keeps *)
(* one cell per id.                                                        *)
(***************************************************************************)
EXTENDS CellIdentity, FiniteSets, SequencesExt

CONSTANTS
  MemLists,       \* the memory type lists a study may be given
  ModelLists,     \* its lists of embedding models (local, ollama)
  RerankerLists,  \* its lists of rerankers
  BestStrategies  \* its seeds for phase 4

ASSUME StudyAssumption ==
  /\ MemLists \subseteq Seq(STRING) /\ ModelLists \subseteq Seq(STRING)
  /\ RerankerLists \subseteq Seq(STRING) /\ BestStrategies \subseteq STRING

HybridWeights == [i \in 1..11 |-> 10 * (i - 1)]
DecayPolicies == <<"exponential", "logarithmic", "linear", "tiered">>
DefaultModel == "all-MiniLM-L6-v2"
Local == "sentence-transformers"

(* Phase 1: three baselines for each memory type. *)
Baselines(mems) ==
  ForEach2(mems, <<"bm25", "bm25l", "recency">>,
    LAMBDA m, s : StudyCell("phase1", m, s, NoDecay, "none", "none",
                            IF s = "recency" THEN 0 ELSE 100, "none"))

(* Phase 2: the local models, those of ollama, ColBERT, adaptive routing.  *)
EmbeddingComparison(mems, locals, ollamas) ==
  LET Phase2(s, m, x, backend) == StudyCell("phase2", m, s, DefaultDecay, x, backend, 0, "none")
      OnLocal(x, m) == Phase2("semantic", m, x, Local)
      OnOllama(x, m) == Phase2("semantic", m, x, "ollama")
      Routed(s, m) == Phase2(s, m, DefaultModel, Local)
  IN  ForEach2(locals, mems, OnLocal) \o ForEach2(ollamas, mems, OnOllama)
      \o ForEach2(<<"colbert", "adaptive">>, mems, Routed)

(* Phase 3: hybrid, one cell per weight. *)
HybridSweep(phase, weights, mems, model, backend) ==
  ForEach2(weights, mems,
    LAMBDA w, m : StudyCell(phase, m, "hybrid", DefaultDecay, model, backend, w, "none"))

(* Phase 4: every policy at every lambda, and the no-decay baseline. *)
DecaySweep(strategy, mems, model, backend) ==
  LET Specs == ForEach2(DecayPolicies, LambdaSteps,
                        LAMBDA p, l : Decay(p, l, 50, DefaultFloor))
      Swept(d, m) == StudyCell("phase4", m, strategy, d, model, backend, 50, "none")
  IN  ForEach2(Append(Specs, NoDecay), mems, Swept)

(* Phase 4b: the archival floors at one policy and lambda. *)
FloorSweep(strategy, mems, model, backend, policy, lambda) ==
  ForEach2(ArchivalFloors, mems,
    LAMBDA f, m : StudyCell("phase4b", m, strategy, Decay(policy, lambda, 50, f),
                            model, backend, 50, "none"))

(* Phase 5: the control is stage 1 of the reranked cells on its own.       *)
(* Mutant: the control is the semantic strategy, as it was once.           *)
ControlWasSemantic(r) == IF r = "none" THEN "semantic" ELSE "llm_rerank"
ControlStrategy(r) == IF r = "none" THEN "bm25" ELSE "llm_rerank"
RerankerComparison(rerankers, mems, model) ==
  ForEach2(rerankers, mems,
    LAMBDA r, m : StudyCell("phase5", m, ControlStrategy(r), DefaultDecay, model, Local,
                            IF r = "none" THEN 100 ELSE 0, r))

VARIABLES
  input,    \* the arguments of expand_full_study
  offered,  \* the cells of the phase lists, in order
  next,     \* position in the joined phase lists
  seen,     \* ids met so far
  cells     \* the cells kept

vars == <<input, offered, next, seen, cells>>

(* The phase lists, in order. *)
Joined(in) ==
  Baselines(in.mems)
  \o EmbeddingComparison(in.mems, in.locals, in.ollamas)
  \o HybridSweep("phase3", HybridWeights, in.mems, DefaultModel, Local)
  \o DecaySweep(in.strategy, in.mems, DefaultModel, Local)
  \o RerankerComparison(in.rerankers, in.mems, DefaultModel)

Init ==
  /\ input \in [mems : MemLists, locals : ModelLists, ollamas : ModelLists,
                rerankers : RerankerLists, strategy : BestStrategies]
  /\ offered = Joined(input)
  /\ next = 1 /\ seen = {} /\ cells = <<>>

(* if c.cell_id not in seen *)
New(c) == StudyId(c) \notin seen

Keep ==
  /\ next <= Len(offered)
  /\ New(offered[next])
  /\ seen' = seen \cup {StudyId(offered[next])}
  /\ cells' = Append(cells, offered[next])
  /\ next' = next + 1
  /\ UNCHANGED <<input, offered>>

Skip ==
  /\ next <= Len(offered)
  /\ ~ New(offered[next])
  /\ next' = next + 1
  /\ UNCHANGED <<input, offered, seen, cells>>

Finished == next > Len(offered)

Done == Finished /\ UNCHANGED vars

Next == Keep \/ Skip \/ Done

Spec == Init /\ [][Next]_vars

(***************************************************************************)
(* Properties.                                                             *)
(***************************************************************************)

(* A configuration that a phase offers is measured, once, unless its       *)
(* lambda alone keeps it apart from a measured one, and by less than the   *)
(* 0.01 that an id shows.  Such lambdas do collapse: of the eight of a     *)
(* decay sweep five are kept, and the default of 0.01 is not among them.   *)
SameButLambda(c, d) == [c EXCEPT !.decay.lambda = 0] = [d EXCEPT !.decay.lambda = 0]
LostOnlyByRounding ==
  /\ \A i \in 1..(next - 1) : \E c \in ToSet(cells) :
       /\ SameButLambda(c, offered[i])
       /\ c.decay.lambda - offered[i].decay.lambda \in (-99)..99
  /\ IsInjective(cells)

(* What a worker rebuilds from the dictionary of a cell has the id and the *)
(* configuration of the cell, with or without an archival floor.           *)
WorkerRunsTheCell ==
  \A c \in ToSet(cells)
           \cup ToSet(FloorSweep(input.strategy, input.mems, DefaultModel, Local, "tiered", 20)) :
    /\ StudyId(StudyRebuilt(c)) = StudyId(c)
    /\ StudyConfig(StudyRebuilt(c)) = StudyConfig(c)

(* Phase 5 measures the reranker: cells of one memory type share stage 1   *)
(* and decay, "so the reranker is the ONLY variable".                      *)
RerankerIsolated ==
  \A i, j \in 1..Len(cells) :
    LET c == cells[i]  d == cells[j]
    IN  c.phase = "phase5" /\ d.phase = "phase5" /\ c.mem = d.mem =>
          /\ {c.strategy, d.strategy} \subseteq {"bm25", "llm_rerank"}
          /\ DecayConfig(c.decay) = DecayConfig(d.decay)
          /\ c.reranker = d.reranker => c = d
=============================================================================
