---------------------------- MODULE StudyPhases ----------------------------
(***************************************************************************)
(* scripts/study_runner.py, _run_single_dataset: the phases of one study,  *)
(* each run with the strategy, model and weight that the rows measured so  *)
(* far rank first, and the final test of the best row of all.  A row is a  *)
(* successful cell.  Which of the cells succeed and which row ranks first  *)
(* is left open; from which rows a ranking is made (study_aggregator.py)   *)
(* is not.  The decay sweep of phase 4 is one step here (see DecaySweep).  *)
(***************************************************************************)
EXTENDS Integers, Sequences, FiniteSets

CONSTANTS
  Setups,         \* the studies: options, dependencies, configured models
  BroadWeights,   \* BM25 weights of the broad sweep, in hundredths
  FineOffsets     \* steps of the fine sweep around the broad optimum

VARIABLES
  setup, progress,
  at, seed,   \* position in the phases, and in the seeds of the phase
  rows,       \* successful rows of all_results
  best,       \* the seeds of the next phase
  winner,     \* the row selected for the final test
  final       \* the cell of the final test

phaseVars == <<setup, progress, at, seed, rows, best, winner, final>>

DefaultModel == "all-MiniLM-L6-v2"
Local == "sentence-transformers"
None == "none"
Unset == -1    \* the weight before any hybrid row
Nothing == [strategy |-> None]

(* Windows of the timeline, in hundredths: the tuning cells ask the        *)
(* queries held out for validation, the final cell those of the tail, and  *)
(* the fast sweep of phase 3 all of them.                                  *)
ValidationToEnd == <<100 - (setup.validation + setup.tail), 100>>   \* a slip: with the tail
ValidationWindow == <<100 - (setup.validation + setup.tail), 100 - setup.tail>>
FinalWindow == <<100 - setup.tail, 100>>
SweepWindow == <<0, 100>>
Overlap(v, w) == v[1] < w[2] /\ w[1] < v[2]

Row(phase, strategy, model, backend, weight, window) ==
  [phase |-> phase, strategy |-> strategy, model |-> model, backend |-> backend,
   weight |-> weight, decay |-> "default", alpha |-> 0, floor |-> 65,
   reranker |-> None, window |-> window]
Tuning(phase, strategy, model, backend, weight) ==
  Row(phase, strategy, model, backend, weight, ValidationWindow)

(* --only-models, else --skip-models (and the skip list of the YAML).      *)
Filtered(models) ==
  IF setup.only # {} THEN models \cap setup.only ELSE models \ setup.skip
LocalModels == Filtered(setup.local)
ApiModels == IF setup.apiUrl THEN Filtered(setup.api) ELSE {}
Rerankers == IF setup.cuda THEN setup.rerankers ELSE setup.rerankers \cap {None}

(* Without sentence-transformers a command on one dataset keeps phases 1   *)
(* and 5 when phase 2 was asked for; one on several datasets keeps all.    *)
Phases ==
  IF setup.alone /\ ~setup.transformers /\ (\E i \in DOMAIN setup.phases : setup.phases[i] = 2)
  THEN SelectSeq(setup.phases, LAMBDA p : p \in {1, 5})
  ELSE setup.phases

(* Fractions of at most the whole timeline, and weights between 0 and 1.   *)
StudyPhasesAssumption ==
  /\ \A s \in Setups :
       s.validation \in Nat /\ s.tail \in Nat /\ s.validation + s.tail < 100
  /\ BroadWeights \subseteq 0..100 /\ BroadWeights # {} /\ FineOffsets \subseteq Int

Undecayed(r) == [r EXCEPT !.decay = None]

Phase1 ==
  {Undecayed(Tuning("phase1", s, None, None, 100)) : s \in {"bm25", "bm25l"}}
  \cup {Undecayed(Tuning("phase1", "recency", None, None, 0))}
(* The driver leaves the list of ollama models empty (line 1630).          *)
Phase2 ==
  {Tuning("phase2", "semantic", m, Local, 0) : m \in LocalModels}
  \cup {Tuning("phase2", "semantic", m, "api", 0) : m \in ApiModels}
  \cup {Tuning("phase2", s, DefaultModel, Local, 0) : s \in {"colbert", "adaptive"}}
HybridCells(phase, weights) ==
  {Tuning(phase, "hybrid", best.model, best.backend, w) : w \in weights}
Phase4 ==
  LET Cell(phase, decay, alpha, floor) ==
        [Tuning(phase, best.strategy, best.model, best.backend,
                IF best.weight = Unset THEN 50 ELSE best.weight)
           EXCEPT !.decay = decay, !.alpha = alpha, !.floor = floor]
  IN  {Cell("phase4", None, 0, 65), Cell("phase4", "swept", 50, 65),
       Cell("phase4b", "swept", 50, 25)}
Phase5 ==
  {[Tuning("phase5", IF r = None THEN "bm25" ELSE "llm_rerank", best.model, Local,
           IF r = None THEN 100 ELSE 0) EXCEPT !.reranker = r] : r \in Rerankers}

PhaseCells(p) == CASE p = 1 -> Phase1 [] p = 2 -> Phase2 [] p = 5 -> Phase5

(* Only a semantic cell asks the API: a hybrid or colbert one loads its    *)
(* model in the process, whatever its backend says (study_matrix.py:218).  *)
(* An adaptive one loads it at its first index(), whose failure the runner *)
(* takes for an empty answer.                                              *)
LoadsModel(c) ==
  \/ c.strategy \in {"colbert", "hybrid"}
  \/ c.strategy = "semantic" /\ c.backend # "api"
AsksApi(c) == c.strategy = "semantic" /\ c.backend = "api"
CanLoad(model) == setup.transformers /\ model \in setup.loadable

(* What the scheduler can measure: a cell with an empty window fails, and  *)
(* so does one whose model cannot be loaded.                               *)
Measurable(cells) ==
  {c \in cells : c.window[1] < c.window[2] /\ (LoadsModel(c) => CanLoad(c.model))}
(* Bound: all of them succeed, one, or none.                  *)
Successes(cells) ==
  LET able == Measurable(cells)
  IN  {able, {}} \cup {{c} : c \in able}

(***************************************************************************)
(* The rankings (study_aggregator.py).                                     *)
(***************************************************************************)
SweepUnlessFast(r) ==   \* a slip: the fast sweep is forgotten
  \/ r.phase \in {"phase3broad", "phase3fine"}
  \/ r.phase \in {"phase4", "phase4b"} /\ r.decay # None
IsSweepVariant(r) ==
  \/ r.phase \in {"phase3broad", "phase3fine", "phase3fast"}
  \/ r.phase \in {"phase4", "phase4b"} /\ r.decay # None
Comparable(rs) == {r \in rs : ~IsSweepVariant(r)}
StrategyPopulation(rs) == IF Comparable(rs) = {} THEN rs ELSE Comparable(rs)
EmbeddingPopulation(rs) ==
  {r \in Comparable(rs) :
    r.strategy \in {"semantic", "hybrid", "colbert", "adaptive"} /\ r.model # None}
WeightPopulation(rs) ==
  LET hybrid == {r \in rs : r.strategy = "hybrid"}
      swept == {r \in hybrid : r.phase \in {"phase3broad", "phase3fine", "phase3fast"}}
  IN  IF swept = {} THEN hybrid ELSE swept

(* A slip in Recommended: model and backend are read from different rows.  *)
RecommendedApart ==
  {[strategy |-> s, model |-> m, backend |-> b, weight |-> w] :
     s \in IF rows = {} THEN {best.strategy} ELSE {r.strategy : r \in StrategyPopulation(rows)},
     m \in {best.model} \cup {r.model : r \in EmbeddingPopulation(rows)},
     b \in {best.backend} \cup {r.backend : r \in EmbeddingPopulation(rows)},
     w \in {best.weight} \cup {r.weight : r \in WeightPopulation(rows)}}

(* A seed is replaced only by a recommendation: an empty ranking has none. *)
Recommended ==
  {[strategy |-> s, model |-> e[1], backend |-> e[2], weight |-> w] :
     s \in IF rows = {} THEN {best.strategy} ELSE {r.strategy : r \in StrategyPopulation(rows)},
     e \in IF EmbeddingPopulation(rows) = {} THEN {<<best.model, best.backend>>}
           ELSE {<<r.model, r.backend>> : r \in EmbeddingPopulation(rows)},
     w \in IF WeightPopulation(rows) = {} THEN {best.weight}
           ELSE {r.weight : r \in WeightPopulation(rows)}}

(***************************************************************************)
(* The steps of a study.                                                   *)
(***************************************************************************)
Defaults == [strategy |-> "bm25", model |-> DefaultModel, backend |-> Local, weight |-> Unset]
PhasesInit ==
  /\ setup \in Setups
  /\ progress = "phases" /\ at = 1 /\ seed = 1
  /\ rows = {} /\ winner = Nothing /\ final = Nothing
  /\ best = Defaults

InPhase(ps) ==
  progress = "phases" /\ at <= Len(Phases) /\ seed <= setup.seeds /\ Phases[at] \in ps
NextSeed(new) ==
  /\ rows' = rows \cup new /\ seed' = seed + 1
  /\ UNCHANGED <<setup, progress, at, best, winner, final>>

RunCells ==
  /\ InPhase({1, 2, 5})
  /\ \E ok \in Successes(PhaseCells(Phases[at])) : NextSeed(ok)

(* _run_phase3_fast_sweep: one pass over all the dataset's queries, with   *)
(* the seed model loaded in the process; a model that cannot be loaded     *)
(* raises, a dataset that cannot be loaded falls back to cells.            *)
Clamp(w) == IF w < 0 THEN 0 ELSE IF w > 100 THEN 100 ELSE w
FineWeights(peak) == {Clamp(peak + o) : o \in FineOffsets}
FastRows(peak) ==
  {Undecayed(Row("phase3fast", "hybrid", best.model, Local, w, SweepWindow)) :
     w \in BroadWeights \cup FineWeights(peak)}

FastSweep ==
  /\ InPhase({3}) /\ setup.fast /\ CanLoad(best.model)
  /\ \E peak \in BroadWeights : NextSeed(FastRows(peak))
SweepRaises ==
  /\ InPhase({3}) /\ setup.fast /\ ~CanLoad(best.model)
  /\ progress' = "raised"
  /\ UNCHANGED <<setup, at, seed, rows, best, winner, final>>
(* Without a successful broad cell the fine sweep is around 0.5.           *)
SweepCells ==
  /\ InPhase({3}) /\ ~setup.fast
  /\ \E broad \in Successes(HybridCells("phase3broad", BroadWeights)) :
     \E peak \in (IF broad = {} THEN {50} ELSE {r.weight : r \in broad}) :
     \E fine \in Successes(HybridCells("phase3fine", FineWeights(peak))) :
       NextSeed(broad \cup fine)

SweepDecay ==
  /\ InPhase({4})
  /\ \E ok \in Successes(Phase4) : NextSeed(ok)

EndPhase ==
  /\ progress = "phases" /\ at <= Len(Phases) /\ seed > setup.seeds
  /\ best' \in Recommended
  /\ at' = at + 1 /\ seed' = 1
  /\ UNCHANGED <<setup, progress, rows, winner, final>>

(* The final test: the winner is built again from some of its fields, on   *)
(* the tail.  Left out are its floor and alpha, which then have their      *)
(* defaults, and fields that are the same in all cells of the driver (day  *)
(* limits, the external memory system), which are not modelled.            *)
FinalDefaultBackend(r) ==   \* a slip: the backend is left out too
  [r EXCEPT !.phase = "final", !.window = FinalWindow, !.alpha = 0, !.floor = 65,
            !.backend = Local]
FinalCell(r) ==
  [r EXCEPT !.phase = "final", !.window = FinalWindow, !.alpha = 0, !.floor = 65]

FinalTest ==
  /\ progress = "phases" /\ at > Len(Phases) /\ setup.tail > 0 /\ rows # {}
  /\ \E r \in rows : winner' = r /\ final' = FinalCell(r)
  /\ progress' = "done"
  /\ UNCHANGED <<setup, at, seed, rows, best>>
NoFinalTest ==
  /\ progress = "phases" /\ at > Len(Phases) /\ (setup.tail = 0 \/ rows = {})
  /\ progress' = "done"
  /\ UNCHANGED <<setup, at, seed, rows, best, winner, final>>

PhasesNext == RunCells \/ FastSweep \/ SweepRaises \/ SweepCells \/ SweepDecay
        \/ EndPhase \/ FinalTest \/ NoFinalTest
PhasesSpec == PhasesInit /\ [][PhasesNext]_phaseVars

(***************************************************************************)
(* Properties.                                                             *)
(***************************************************************************)

(* Every seed was measured, or is the default: the model together with its *)
(* backend in one row, and never a model the command has filtered out.     *)
SeedsMeasured ==
  /\ best.strategy = "bm25" \/ \E r \in rows : r.strategy = best.strategy
  /\ \/ best.model = DefaultModel /\ best.backend = Local
     \/ \E r \in rows : r.model = best.model /\ r.backend = best.backend
  /\ best.model \in LocalModels \cup ApiModels \cup {DefaultModel}
  /\ best.weight # Unset => \E r \in rows : r.strategy = "hybrid" /\ r.weight = best.weight

(* Strategies and models are compared on the same queries, once one row    *)
(* outside the sweeps has succeeded.                                       *)
SeedsFromSameQueries ==
  Comparable(rows) # {} =>
    \A r \in StrategyPopulation(rows) \cup EmbeddingPopulation(rows) : r.window = ValidationWindow

(* Whatever wins, of whatever phase and with whatever seeds, can be run    *)
(* again in the final test: the API is asked only for a model it was       *)
(* configured to serve, no model is loaded that cannot be, and a reranker  *)
(* goes with the strategy that reads it and with the device it needs.      *)
FinalTestCanRun ==
  final # Nothing =>
    /\ AsksApi(final) => final.model \in ApiModels
    /\ LoadsModel(final) => CanLoad(final.model)
    /\ final.reranker # None =>
         final.strategy = "llm_rerank" /\ final.reranker \in Rerankers

(* The queries of the tail choose nothing before the final test, except    *)
(* through the fast sweep, which asks all of them.                         *)
TailReadOnlyByFastSweep ==
  \A r \in rows : Overlap(r.window, FinalWindow) => r.phase = "phase3fast"
=============================================================================
