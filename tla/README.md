# Verification of memtuner

TLA+ models of memtuner, a benchmark for agent memory systems, the TLC
configurations that check them, and machine-checked proofs of the main safety
properties. Every definition is translated from the Python source; the file and
the lines are in `PROJECT.json` under `map`. Paths below are relative to
`src/benchmark/`, those under `scripts/` and `README.md` to `src/`.

Contents: [the system](#1-the-system) ·
[modules](#2-modules-and-what-they-model) ·
[runs](#3-what-tlc-checks) ·
[fairness](#4-fairness) ·
[proofs](#5-what-is-proved) ·
[findings](#6-findings) ·
[not modelled](#7-what-is-not-modelled) ·
[plan](#8-plan)

To repeat the checks: `tlc -config MCStudyScheduler.cfg MCStudyScheduler` (one
line per row of section 3) and `tlapm StudyScheduler_proofs.tla` (one per row of
section 5).

## 1. The system

memtuner replays dialogues against a memory system, day by simulated day, and
measures what can still be recalled. A *cell* is one configuration (memory
types, retrieval strategy, decay, embedding model, reranker); a *study* or a
*matrix* is a set of cells; a *scenario* is one dataset replayed under one cell.

```
 scripts/prepare_*.py           downloads -> rewritten files -> gold files
        |
 scripts/study_runner.py        datasets (threads), phases and their seeds,
        |        |              decay sweep, final test, leaderboards.json
        |        +-> scripts/generate_reports.py   a daemon thread after each study
        |                 +-> scripts/plot_benchmark.py   pictures, recommendations
        |
 StudyExpander / MatrixExpander cells with ids, deduplicated
        |
 StudyScheduler / MatrixScheduler   a thread pool / a process pool of workers
        |                           -> results, checkpoint CSV
 composer -> BenchmarkRunner -> ScenarioRunner    the days of a scenario
        |                           inject, lifecycle policies, queries
 long-term stores (episodic, semantic, entity, preference), short-term buffers
        |                           write, read, prune, decay
 retrieval strategies (bm25, bm25l, embeddings, hybrid, rerank, colbert, ...)
                                    index, retrieve, module-level caches
```

### Components, their state and what makes them correct

| Component | State | Operations | Hard part | Correct when |
|---|---|---|---|---|
| Study scheduler (`workload/study_scheduler.py`) | result list, completed count, checkpoint file and its header flag, the pool's futures | `run`, the worker, `CellCheckpointer.append` | two classes of cells, completion order, exceptions at any point, crash between two writes | one true result per cell; torch cells alone on the device; file readable after a crash; no thread outlives `run` |
| Matrix scheduler (`workload/scheduler.py`) | futures, result list, normalisation metadata | `run`, the worker process | a dead process breaks the pool, a hung one never answers | as above, and no cell of a broken pool is called a success |
| Cells and expansion (`workload/matrix.py`, `study_matrix.py`) | none; lists of cells | `expand_*`, ids, dictionaries for workers | ids are hashes of rounded labels | one cell per id, none lost but by the rounding of lambda; a worker runs the cell it reports |
| Long-term stores (`memory/long_term/`) | memories, creation days, per-user index, dirty flag, lock, strategy, disabled flag | `write`, `prune`, `clear`, `read` | read is called from several threads and re-indexes lazily; retries and fallback | exact per-user index; one indexer; strict reads never stale or silently degraded |
| Lexical strategies (`bm25_strategy.py`, `bm25l_strategy.py`) | instance pointers into a module-level cache, the cache and its lock | `index`, `retrieve`, `clear` | look-up, eviction, insertion by threads; shared containers | no KeyError, limit kept, an instance answers from its own corpus |
| Embedding strategy (`embeddings_strategy.py`) | memories, matrix, ids, ANN index, masks; module-level cache with an order queue | `index` (grow, hit, rebuild, fail), `retrieve` | incremental growth, failure in the middle, sharing between cells | rows, ids, masks and cache keys agree |
| Scenario runner (`orchestrator/`) | day, debounce days, injected count, survival curve | `run`, `_inject_events`, `_run_lifecycle_policies`, queries on two paths | debounce by an estimate; async results; locals bound on one branch | only named prunes are missed, scenarios apart, queries counted in order |
| Other strategies (hybrid, colbert, rerank, session, adaptive, API, database) | caches of candidates, models, sessions | `index`, `retrieve` | partial failure of a part, memoised keys | planned in part |
| Short-term memory (`memory/short_term/`) | bounded buffer with creation days, buffer per task | `write`, `read`, evict | id written again, then evicted | planned |
| Study driver (`scripts/study_runner.py`, `workload/study_aggregator.py`) | of a command: the datasets' outcomes, collected grids, `leaderboards.tmp`; of a study: the rows so far, the seeds (strategy, model, backend, weight), the winner | the loop or pool over datasets, phases 1 to 5, the two-stage decay sweep, the final test, export, merge | exceptions in one of several dataset threads, one temporary file for all of them, phases whose cells all fail, rankings over rows that answered different queries | a finished study is in the merged report; a seed was measured; the final test can run the winner, on queries that chose nothing; no gain is left out of the zoom |
| Dataset preparation (`prepare_datasets.py`, `prepare_extended_datasets.py`) | the download, the rewritten file, the gold file, each kept once it is there | fetch, rewrite, convert, delete a gold file that does not load | transfers and processes cut short leave files that later runs trust | a gold file that loads without all its rows is the work of a cut |
| Reports and plots (`generate_reports.py`, `plot_benchmark.py`) | the master table, the formula document, the dashboard's data, one picture per dataset and question, the recommendations | scan, rewrite in place, attribute, deduplicate, rank, draw or delete | a daemon thread per study, stopped by the end of the command, overtaken by the next; rows attributed by their number of queries | reports cover every study; one name per study; no stale picture; document and dashboard agree |
| Evaluation, gold data, judge | accumulators | pure computations | denominators | planned in part |
| Configuration, registry, CLI, cost, services, packs | none that steers control | | | not modelled |

How they interact: a scheduler calls one worker function per cell; the worker
builds stores and strategies of its own, so cells that run in one process share
only the module-level caches, the environment and the device. Within a cell the
scenario runner is the single writer of the stores; only the reads of a day's
queries run in threads, through the event loop's default executor. The driver
calls a scheduler once per batch of cells and feeds the rows it gets to the
aggregator, whose first places are the seeds of the next phase; it shares with
the report threads only files, of which each side writes its own.

The complete list of components with the reason for each gap is in
`PROJECT.json`; so is the list of hazards, each at its line with the properties
that would catch it.

## 2. Modules and what they model

| Module | Models | State and actions |
|---|---|---|
| `BatchRun` | what both schedulers promise: one result per cell, no return before the last | abstract: `status`, `todo`, `reported`; `Begin`, `Report`, `Return`, `Lose` |
| `StudyScheduler` | `StudyScheduler.run`, its pool, `CellCheckpointer`, successive runs on one object, exceptions, crash | `pc` is the line the main thread is at; `StartDirect`/`FinishDirect` the loop over cells that need the device, `OpenPool`/`Collect` the pool, `CheckpointHeader`/`CheckpointRow` the two writes of an append, `Raise`/`Drain` the way out through the `with` statement, `Crash` |
| `MatrixScheduler` | `MatrixScheduler.run` with its process pool | `Submit`, `Collect`, `WorkerTake`, `WorkerAnswer`, `WorkerDies` (breaks the pool), `Raise`, `Drain` |
| `CellIdentity` | labels, ids, `to_dict`/worker reconstruction | operators only |
| `StudyMatrix`, `MatrixExpander` | `expand_full_study` and its phases, `expand_full`; one step per turn of the loop | `next`, `seen`, `cells` |
| `DecayFormula`, `MemoryAging` | `_compute_decay_factor`; a memory growing old | `Factor`; `NextDay` |
| `Calculations` | the three computations above side by side | a behaviour is one of them |
| `LongTermStore` | `BaseLongTermStore` with any number of reader threads | one action per line of `read` at which another thread can step in: `CheckDirty`, `ReadFlag`, `Acquire`, `IndexBuilt`, `LowerFlag`, `IndexFault`, the three assignments of giving up, `Unlock`, `CallStrategy`, `Retrieve`, `RetrieveFault`; `Write`, `Prune`, `Clear` by the runner |
| `Bm25Cache` | the corpus cache of bm25 and bm25l under threads | `Lookup` (takes the lock), `Hit`, `Build` (no lock), `EnterStore`, `Evict`, `Put`, `Clear` |
| `EmbeddingIndex` | the dense index and its cache, cell after cell | `IndexGrows`, `IndexHit`, `IndexRebuilds`, their failures, `IndexEmptied`, `Retrieve` (fills a mask), `Write` and `OtherType` (an event the store takes, or does not), `Prune`, `NextCell`; the ghost variables `leftover`, `spoilt` and `moved` remember what the properties except |
| `IndexCaches` | both caches side by side | a behaviour is one of them |
| `ScenarioRunner` | the days and scenarios of a run with one store and its policy | `Inject`, `LifecycleSkipped`/`LifecycleApplied`, `FinishDay`, `SkipDay`, `EndScenario`, `NextScenario`; `nextCheck` is `_lifecycle_next_<module>`; the history variable `lastCheck`, which no action reads, is the day of the last check of this scenario |
| `QueryDay` | a day's queries on the sequential and the async path, several stores | `StoreAnswers`, `StoreRaises` in any order, `ReadsOver`, `Process`, `ProcessUnbound` (the NameError) |
| `ScenarioDays` | the two scales side by side | a behaviour is one of them |
| `DatasetRuns` | `_run_multi_dataset`, several datasets in one command: preflight, the loop or the pool, the export, the merge, kill and restart | `pc` and `outcome` per dataset; `Skip`, `CheckRaises`, `Measure`, `PhasesRaise`, `PhasesDone`; the export line by line, since the threads share its file: `OpenTmp`, `WriteFirst`, `WriteSecond`, `Replace`, `ExportFails`; the command's `Collect`, `RunFails`, `EndUnmerged`, `Merge`; `Kill`, `Restart` |
| `StudyPhases` | `_run_single_dataset` and the aggregator's rankings that seed a phase | `rows`, `best` (the seeds), `winner`, `final`; `RunCells` (phases 1, 2, 5), `FastSweep`, `SweepRaises`, `SweepCells` (phase 3), `SweepDecay` (phase 4 as one step), `EndPhase`, `FinalTest`; `LoadsModel`, `AsksApi` and `CanLoad` say what a cell needs |
| `DecaySweep` | `_run_phase4_two_stage` | `Batch` (lexical seeds), `QuickCheck`, `SkipFutile`, `Policy` (broad sweep, patience, zoom), `FloorSweep` |
| `DatasetFiles` | the files behind a dataset | `Start`, `KeepRaw`/`Fetch`/`FetchFails`, `KeepMiddle`/`Rewrite`, `Convert`, `KillPreparation`; the user's `DeleteGold`, `Install` |
| `ReportFiles` | the report thread after each study, over the same files as the one before and the one after | `EndStudy` starts a thread; `Scan`, `OpenTable`/`WriteMaster`/`WriteData`, `ReadDoc`, `OpenDoc`, `WriteDoc`; `Exit` stops the threads |
| `ReportRows` | from rows to what is said of a dataset: attribution, backfill, deduplication, which rows count for which ranking, winners, candidates | operators only |
| `PlotFiles` | the pictures of each dataset and across them, and the recommendations, run after run over changing studies | one action per picture; `SkipIfSaturated` deletes; `NoStrategyBars` and `NothingToRecommend` are the two exceptions; `PlotFails` |
| `StudyDriver` | the six modules above (all but `ReportRows`) side by side | a behaviour is one of them; each takes the others as one step or an open input |
| `*_proofs` | theorems about the module they are named after, and about the parts it composes | |
| `MC*` | constants for TLC | |

Composite modules that say "a behaviour is one of them" join parts that share no
state, so that their interleaving would only multiply states without adding a
behaviour of either part.

Abstractions a reader should know:

* What a cell measures is success or failure; a score or a metric is left out
  unless a property is about it.
* A cell id is the tuple that is hashed: different tuples are taken to hash
  apart. The rounding of lambda to two decimals, which happens before hashing,
  is modelled.
* `LongTermStore` sees a strategy as the memories it was last given to index; a
  failing `index()` leaves the old index or none (what the strategies do), a
  failing `retrieve()` leaves everything. The strategies decide by ids whether
  anything is new (section 6), so `FreshIndex` is about what they are given. The real indexes are `Bm25Cache` and
  `EmbeddingIndex`, which in turn assume what `LongTermStore` shows: one
  `index()` at a time and no `retrieve()` during it.
* `Bm25Cache` keeps the text an id is scored on, not the score. Every event and
  query has a user; bm25l's mask, which lets memories without one in, is not there. The containers
  are built once and never changed, so sharing them is sharing a value; the
  mutant of `Clear` shows what an in-place change would do.
* `EmbeddingIndex` has one model and one dataset, injects each event once per
  cell, and runs cells in turn (torch cells run alone, `DeviceExclusive`).
* Factors and lambda are in thousandths, importance in hundredths, `exp` is a
  table; roundings of the estimate (`ceil`, the buffer of a day) are kept.
* In `StudyPhases` a row has no score: any row of a ranking's population may
  come first, so what is shown of the seeds holds whatever the measurements are.
  Of the cells of a batch all succeed, one does, or none (`Successes`): what the
  rankings tell apart is which kinds of rows there are. The list of ollama models
  is empty, as `scripts/study_runner.py:1630` makes it; whether a model can be
  loaded is a set of the study (`loadable`), and of the fields of a cell those
  that no cell of the driver varies are left out.
* `DecaySweep` keeps of a policy's recalls only how its best lambda compares with
  no decay, and whether either was measured.
* In `DatasetRuns`, `ReportFiles` and `DatasetFiles` a write in place truncates
  and then fills, so that another process or a kill can come between; the two
  halves of `leaderboards.json` can come from two datasets.
* `ReportFiles` takes a study's end, the appearance of its grid and the start of
  its report thread as one step: the thread is started after the grid is closed.
* `ReportRows` has one number, the score, for all metrics of a row, and the
  number of queries a row was asked, by which the code guesses its dataset.
* `ScenarioRunner` has one store. Lambda is ln 4/3 per day, so a memory that
  decays loses a quarter daily and all thresholds are crossed within the modelled
  days.
* In `QueryDay` a store answers with any set of ids: sorting, the removal of
  duplicates and the cut to `top_k` (`scenario_runner.py:723` to 762) choose which.
  The outer `except` of the async read (572 to 578) has nothing left to catch.

## 3. What TLC checks

Passing runs:

| Run | Question | Bounds, and why they are enough |
|---|---|---|
| `study_scheduler` | Is the device exclusive, the result list true, the checkpoint readable after a crash anywhere, every thread joined; is `BatchRun` implemented; does every run end? | 5 cells (2 torch, 3 pool), 2 workers, two runs, the second of direct cells only: more cells than workers, both orders of classes in the list, a header that must not be repeated, and the early return without a pool |
| `matrix_scheduler` | Are results true when worker processes die; is a broken pool drained; `BatchRun`; does the run end? | 3 cells on 2 processes: one cell running, one pending, one done when a process dies |
| `calculations` | Is every offered configuration measured, once, but for lambdas that round alike; do workers run what they report; is the reranker isolated; is the matrix a full grid; do decay factors stay in range and above the floor? | lists of 1 or 2 memory types, models and rerankers with a repeated model, the study's own lambda and policy lists; every formula, floor 0/0.65/1/none, archival day before and after the working days, lambda 0 |
| `long_term_store` | Is the user index exact, at most one indexer, is a strict read fresh and never silently degraded; does a read end? | 2 readers (a third only repeats the wait for the lock), 2 memories of 2 users, 2 changes of the store, 3 attempts as in the code |
| `scenario_days` | Which prunes may the debounce miss; are scenarios apart; are queries evaluated in order and counted; does a failing store leave the others' answers? | 2 scenarios of 5 days, 2 memories injected on one day or two, every formula with and without a floor, one without decay, one tiered with floor 0; thresholds equal to and above the assumed one, 3 query patterns; a day of 3 queries and 2 stores on both paths |
| `index_caches` | Can threads make the lexical cache fail or grow too large; does a cell ever answer from another corpus; is the dense cache ordered and exact? | a limit of 2 with 4 keys (so evictions happen), 2 threads, the same corpus in two orders, a pruned one; dense: 3 events of 2 users, limit 2, ANN threshold 2 (both sides reached), 1 failed rebuild |
| `study_driver` | Is a dataset that finished ever lost, and the leaderboard a whole one when one dataset runs at a time; was every seed measured, and on the same queries; can the winner be run in the final test, on queries that chose nothing; is every gain zoomed into; which dataset files can be short; are reports current; one name per study; no stale picture; does the command end? | datasets: 3, two of them with one label, loop and pool of 1 or 2, 2 starts, four plans that hold every outcome of a preflight. Phases: 11 studies, one for each shape that changes what a phase sees (filters, an API model, no library for one dataset or for several, no tail, no validation window, repeated seeds). Decay: the code's 4 policies, patience 0, 1, 2, so that it is spent before, at and after a gain. Files: 8 ways of preparing a dataset, 3 starts (a cut, a run over its leavings, a repair). Reports: 2 studies whose threads overlap. Plots: at most 2 of 6 grids on disk, 2 runs, grids added and removed between them. 902,559 states |

Runs that must be violated, each showing a disagreement of section 6:
`index_caches_datasets`, `leaderboards`, `recommendations`,
`matrix_scheduler_hang`, `scenario_days_no_judge`.

The bounds that are not constants of the code are named constants of the modules:
`MaxChanges` (writes, prunes and clears), `MaxFaults` (failed rebuilds),
`NumRuns`, `NumScenarios`, `LastDay`, `MaxAge`, `MaxRuns` (starts of a command),
`MaxStarts` (of a preparation), `NumStudies`, `MaxGrids`, `MaxPlots`. `CacheMax`, `IndexCacheMax`,
`AnnThreshold` and `MaxWorkers` are smaller than in the code (4 for bm25, 16 for
bm25l and for the dense cache, 10,000 rows, the number of processors) so that
their limits are met; nothing else depends on their value.

Conditions inside a property, and why they are there:

* `FreshIndex` and `NoSilentFallback` speak of strict mode
  (`allow_fallback = False`), the mode of the study scheduler
  (`study_scheduler.py:145`) and the composer's default; the matrix scheduler allows
  fallback (`scheduler.py:371`), where another answer is the documented behaviour.
* `OwnMemoriesAnswer` leaves out corpora that share all ids with a different
  one. Without that clause it is `DatasetsIndependent`, which is violated.
* `EntriesUnlessSpoilt` and `AnswersUnlessSpoilt` leave out what follows an append
  to the matrix of a failed rebuild (the ghost variable `spoilt`); the latter's
  clause about masks also leaves out masks that outlived a change in the order of
  the rows (`moved`). Section 6 has both.
* `DebounceMissesNoPrune` has no precondition: it names the memories a skipped
  check can miss. They came in after the last check of the scenario (events of
  several days, or a check put off by the scenario before), or the policy's
  threshold is above the assumed 0.15, or the memory fell faster than `exp` since
  that check (`FellFasterThanExp`: linear decay, a tiered memory that drops to a
  low floor on its archival day). Each of the three happens in the run.
* `LostOnlyByRounding` lets a configuration be dropped for one that differs in
  lambda alone and by less than the 0.01 an id shows. That happens (section 6);
  the property says that nothing else is lost, and nothing measured twice.
* Counts of hits are compared on the sequential path, and on the async path when
  every query is judged. `EveryHitCounted` drops the condition and is violated.
* `BoardWholeAlone` is about datasets measured one at a time (`width = 1`); in the
  pool it is `BoardWhole`, which is violated.
* `SeedsFromSameQueries` starts once one row outside the sweeps has succeeded:
  until then the aggregator ranks what there is.
* `FinalTestCanRun` says that the rebuilt cell is one the machine can run, for any
  winner. That it is not always the winner's configuration is in section 6.
* `TailReadOnlyByFastSweep` names the exception: the fast sweep asks all queries.
* `ReportsCurrentUnlessCut` is about report threads that were neither stopped nor
  overtaken, `ShortOnlyAfterCut` says the same of dataset files; both then say
  that nothing else makes a report partial or a dataset short.
* `StudiesUnderOneName` needs a stem and counts that do not contradict each other.

Every property of a passing run has a mutant: a change of one mapped definition
that a plausible bug would make, under which TLC finds the property violated.

## 4. Fairness

* `StudyScheduler`: the main thread and each pool thread keep running
  (`WF`), unless the cell's worker is one that may hang (`MayHang`). Exceptions,
  crashes and `Raise` are never owed. The threads are the operating system's and
  block only on each other, so weak fairness per thread is what scheduling gives.
* `MatrixScheduler`: the same for the main process, for taking a cell and for
  answering; the death of a process is never owed.
* `LongTermStore`: each reader keeps running (`WF`), and a reader that asks for
  `_index_lock` again and again while it becomes free gets it in the end
  (`SF`). `threading.Lock` promises no order, but every holder gives the lock back
  (`ReadEnds`' mutant keeps it) and the operating system does not starve a waiter.
* `DatasetRuns` (in `DriverSpec`): each dataset's phases and export go on (`WF` on
  `Study(d)`; that a study's cells end is `StudyScheduler`'s `RunEnds`), and so
  does the command's loop over the futures (`WF` on `Command`). `Kill` and
  `Restart` are never owed, and a killed command counts as ended.
* The other modules state safety only.

## 5. What is proved

TLAPS proves these for every value of the constants that satisfies the modules'
named assumptions; nothing else is assumed. TLC evaluates each of them in the
runs. They are types and finiteness, and:

* `CalculationAssumption`: the lists given to the expanders have no repetitions
  (the model lists may) and the lambdas of a sweep are positive, as in the code's
  tables; `DecayAssumption`: the table for `exp` starts at 1 and never rises.
* `RunnerAssumption`: no age is beyond the table of `exp`; thresholds and
  importances are within [0, 1]. `DayAssumption`: what a query expects are ids of
  the dataset.
* `Bm25Assumption`: no corpus is empty, and an id has one text within a corpus.
  `EmbeddingAssumption`: the ids of a dataset are distinct, every id has an owner.
* `StoreAssumption`: an id has one owner. `SchedulerAssumption` and
  `MatrixAssumption`: at least one worker.
* `DriverAssumption` joins those of its parts: at least one dataset, worker,
  start and policy; no dataset is named like the value for an unknown one.

Every theorem is about the specification that the run checks. Where that composes
parts, a part's proof is about its own steps, and a lemma carries it over: a
behaviour of the composition is one of the part or leaves the part idle
(`DatasetsOrIdle` and its like for `StudyDriver`, `BothCaches` for `IndexCaches`).

| Module | Theorems | Argument |
|---|---|---|
| `StudyScheduler_proofs` | `TypeCorrect`, `DeviceSafety`, `ResultSafety`, `WorkersJoined`, `Implementation`, `Recoverable` | `IInv`: the types; the main thread holds a cell exactly while it works on it; direct cells run only in the main thread; the pool is untouched while direct cells are left, and opened only when all of them have results; a cell is collected exactly when the list has its result. `DeviceExclusive` alone is not inductive: that no pool cell runs beside a direct one needs the order of the two loops. `Implementation` shows under `IInv` that each step is a step of `BatchRun` or stutters: the return is a `Return` because "every cell of the batch collected" means nothing is owed. `Recoverable` needs `RowsInv` on top of `IInv`: every line of the file but the header is the row of a result of its run; only the newest result may lack its row, while it is being reported or after an interruption; a run that returned has collected its whole batch, so the next run starts on a file that covers the earlier batches |
| `LongTermStore_proofs` | `TypeCorrect`, `IndexExactness`, `SingleIndexer`, `Freshness`, `StrictReads` | `IInv`: the types; the reader inside the `with` block is the lock's holder; attempts are left while indexing; who builds the index has seen the flag set under the lock; a clean flag means the index is that of the store (strict mode). The unlocked first look at the flag is harmless because the runner is the only writer and no read is under way when it writes |
| `IndexCaches_proofs`: `Bm25Cache` | `TypeCorrect`, `CacheSafety`, `OwnAnswers` | `IInv`: the types; who is in a critical section holds the lock; each entry was built of a corpus with its key; what is about to be stored was built of the worker's own corpus; an instance at rest has an entry of its own key |
| `MatrixScheduler_proofs` | `TypeCorrect`, `OwnSuccesses`, `Implementation` | `IInv`: the types; the list is empty before the cells are submitted; it has exactly the results of the collected cells, each once, with the success its own future holds. `NoFalseSuccess` alone says nothing of how often a cell is listed, which both it and the refinement of `BatchRun` need once a broken pool makes every future answer at the same time |
| `IndexCaches_proofs`: `EmbeddingIndex` | `IndexTypeCorrect`, `EvictionOrder`, `EntriesExact`, `OwnRowsAnswer` | `DenseInv`: the types; the store lists no memory twice; order queue and cache have the same keys, each once; while nothing was spoilt, the rows of the instance are those of the memories it knows and those of an entry are its key's, each once; the masks fit the rows unless they moved. `EntriesUnlessSpoilt` alone is not inductive: an entry made from grown rows is exact only because the rows grown were those of the memories known, unless a failed rebuild has left older ones. Needed on the way: distinct numbers can be listed in ascending order (`sorted`), by counting those that are not above each |
| `ScenarioDays_proofs` | `FreshScenarios`, `DebounceMissesNothingElse`, `InDatasetOrder`, `FailuresIsolated` | `DaysInv`: the number injected is that of the events of the days gone by, and what is alive is among them, in the store since its own day. `DebounceInv` on top of it: every memory that was there at the last check of the scenario passed it, and is guarded: on each day before the next check it weighs at least the threshold, if the threshold is the assumed one or less and it lost no more than `exp` takes. What came in later is not guarded, and is what may be missed. The step is `EstimateIsSafe`: if the weakest survivor is still above the assumed threshold after n days of `exp`, then so is a survivor on each of the days before, with all roundings, unless it fell faster. `QueriesInv`: the queries evaluated are those before the next one, and what is processed has been read by every store. `FailuresIsolated` is an action property |
| `Calculations_proofs` | `LossOnlyByRounding`, `RerankerIsOnlyVariable`, `MatrixIsWhole`, `NoCellIsMisread`, `DecayBounded` | `StudyInv`: the ids seen are those of the cells kept, as many as there are cells, and cover the cells passed. Two cells a study offers that have one id are alike but for lambda, and lambdas with the same two decimals differ by less than 0.01, so a cell that is skipped has such a one among those kept. `GridInv`: after t turns the list has the cells of those turns, each once; that turns and triples of indices correspond one to one is division with remainder, done twice (`TurnParts`, `TurnExists`). The reranker of phase 5 and the worker's reading of a dictionary follow from the form of the cells each phase offers. `AgingInv`: the weight of a memory, for every formula, rate, floor, limits and age |
| `StudyDriver_proofs`: `DatasetRuns` | `RunsTypeCorrect`, `BoardAlone`, `NothingLost` | `Alone`: with one dataset at a time, one at most is busy, the temporary file is open in its hands alone and holds what it has written so far. `Kept`: what was collected has ended without raising; a command that is raising has a dataset that raised; the merge then narrates the last dataset of each label, which exists because the list is finite and ordered (`LastOne`) |
| `StudyDriver_proofs`: `StudyPhases` | `MeasuredSeeds`, `SameQueries`, `FinalTestRuns`, `TailUntouched` | `PhasesInv`: every row is `Tuned` (the validation window unless it is of the fast sweep; default alpha and floor unless it is a swept decay; a model the command has kept), and the seeds were measured. `SeedsMeasured` alone is not inductive: that a measured model is one the filters kept needs the rows' invariant. A row that asked the API has an API model, one that loaded its model had it loadable, and a reranker comes only from phase 5; the final cell keeps the fields this rests on together |
| `StudyDriver_proofs`: `DecaySweep` | `SweepTypeCorrect`, `GainsFound` | `GainsInv`: every policy taken up so far is zoomed, futile, failed or flat, and there is a run of as many flat ones, after the last zoom, as the counter says; so a loop that stops early has spent its patience on such a run |
| `StudyDriver_proofs`: `DatasetFiles` | `FilesTypeCorrect`, `ShortFromCut` | `CutInv`: a download or a rewritten file that is not whole came of a cut, and a document is never short, so neither is what is converted from it directly |
| `StudyDriver_proofs`: `ReportFiles` | `ReportsTypeCorrect`, `ReportsCurrent` | `ReportsInv`: as long as no thread was stopped or overtaken (`Uncut`), only the last study's thread is active, it has seen all grids once it has scanned, no table is written by two, and the files it has passed are as it wrote them |
| `StudyDriver_proofs`: `PlotFiles`, `ReportRows` | `RowsUnderOneName`, `PicturesOfLastRun` | `RowsInv`: the rows in use are those loaded from some set of grids, so that what is shown of attribution, backfill and deduplication holds of them. `PicturesInv`: while a run goes on, every picture of a dataset gone over, and of the slots before this one, was drawn by this run or is gone; datasets come in an order without which "gone over" has no meaning. `FinishedPlotsAgree` speaks only of the end of a run and is not inductive |

Every safety property of a passing run is stated by one of these theorems. Only
model-checked are the liveness properties (`RunEnds` of both schedulers,
`ReadEnds`, `CommandEnds`): the prover has neither fairness nor `ENABLED`. What a
recursive definition computes for every input cannot be proved here (the induction
theorems of the library take an operator as parameter, which no installed prover
instantiates); the models use folds and functions instead of `RECURSIVE`
operators, and where a theorem needs an order or a count (`sorted`, the weakest
survivor, the last dataset of a label) it comes from cardinalities of finite sets.

Two of the proofs corrected what was thought of the code. The masks of the dense
index were taken to fit its rows always; the case of a rebuild that finds the same
ids in another order cannot be proved, and is there in the code (`moved`, section
6). The debounce was taken to be safe for every formula but the linear one; the
lemma fails for a tiered memory on its archival day (`FellFasterThanExp`).

## 6. Findings

Each is a passing model of the code against which a sentence of the repository
fails; `PROJECT.json` has the quotations.

1. `workload/scheduler.py:518`: the 300 s limit on a hung worker sits inside
   `as_completed()`, which never yields its future; `run()` waits for ever
   (`study_scheduler.py:562` has the same form). Run `matrix_scheduler_hang`.
2. `orchestrator/scenario_runner.py:638`: without an answer evaluator the async
   path reads a set it never bound, or that of an earlier query. Run
   `scenario_days_no_judge`.
3. `memory/strategies/bm25_strategy.py:69`: the cache key is ids only; datasets
   with the same numbering are answered from each other's texts. Run
   `index_caches_datasets`.
4. `scripts/study_runner.py:992`: all dataset threads write `leaderboards.json`
   through one `leaderboards.tmp`; what is moved into place can be empty or of two
   datasets, against "Atomic write ... when multiple dataset threads write
   concurrently". Run `leaderboards`.
5. `scripts/plot_benchmark.py:953`: a dataset of which only the fast sweep's rows
   carry its name has nothing to rank, and the recommendations of all datasets
   are not written, against "Falls back to all rows when nothing qualifies". Run
   `recommendations`.

Disagreements seen while modelling, not turned into runs:

* `memory/long_term/base_store.py`: the docstring at 72 speaks of default scoring
  where line 344 returns nothing; the floor at 162 is said to apply "to ALL times"
  and applies from the archival day; a `None` floor is "no floor"
  (`study_matrix.py`) but full weight for a tiered memory (182).
* `orchestrator/scenario_runner.py`: `_lifecycle_next_*` survives into the next
  scenario (296, 329), met only by callers that run several, which the composer
  does not; `getattr(policy, "threshold", 0.15)` always gives 0.15 (322);
  the estimate uses `exp` whatever the formula (328); `_read_from_all_modules`
  (746) catches what `base_store.py:282` raises "so the cell is marked failed".
* `memory/strategies/`: bm25l is a "drop-in replacement" (45) but its mask lets
  memories without a user in (126); `embeddings_strategy.py` drops scores <= 0 in
  `retrieve` and keeps 0 in `retrieve_batch`, its dense key has no dataset
  either (347), and `_QUERY_EMB_CACHE` is described as shared (94) and not used;
  `llm_rerank_strategy.py:194` memoises a corpus hash that `index()` never resets.
* `scripts/study_runner.py`: the fast sweep asks all queries, those of the tail
  included, where `README.md:474` has an "untouched tail"; a winner that only an
  API serves makes it raise, and the study's reports are lost. Phase 4b starts
  from the best of all decayed cells, the quick check's included, where the comment
  at 2669 says those of the broad sweep. The final cell leaves out the archival
  floor and the ranking alpha (1833), so a winner of the decay sweep is tested with
  others than it was selected with, against "one final rerun of the validation
  winner" (`README.md:474`). The failed leakage check raises in its own
  handler (1569). A merge over a study without a grid fails the command. Deleting
  the gold file, as 1456 asks, does not repair a short source. `README.md` 809 to
  818 describes patience over lambda steps; the code's is over policies.
* `workload/study_aggregator.py`: the comparison at 141 claims the reports' rule
  and ranks another population; ColBERT and adaptive rows name the default
  model whether or not the filters kept it, so that a filtered-out default may be
  seeded; hybrid is never the best strategy once a row outside the sweeps exists.
* `scripts/prepare_extended_datasets.py`: a cut Natural Questions download fails
  the first conversion and gives a short dataset at the second.
* `scripts/generate_reports.py`: the sections of the formula document after the
  generated one are dropped, against the docstring at 315; final-test rows never
  enter the grid it reads, so its recommendations stay "tuning_only"; the
  deduplication of the fast sweep merges measurements of different stores that tie.
* `scripts/plot_benchmark.py`: datasets beyond the seventh get no bar in the heat
  map; the summary titled final test is drawn from tuning rows; pictures of a
  dataset whose rows are gone stay.
* `workload/matrix.py:117`: ids round lambda to two decimals, so a decay sweep
  silently loses cells (0.0005, 0.001 and 0.002; 0.005 and 0.01): of the
  "8-point log-scale sweep" of `study_matrix.py:569` five points are measured, the
  default 0.01 not among them. `LostOnlyByRounding` shows that nothing else is lost.
* `orchestrator/scenario_runner.py:296`: the debounce does not consider memories
  injected after the last check, nor a tiered memory that drops to a low floor on
  its archival day (`ARCHIVAL_FLOORS` of `workload/matrix.py:83` begins with 0.0),
  where the comment has "definitely nothing to prune yet".
* `workload/study_matrix.py:218`: hybrid, colbert and adaptive cells take the
  embedding backend into their id and label and load the model in the process
  whatever it is, against "The backend field determines whether
  sentence-transformers or Ollama serves the vectors" (20, 21). When an API model ranks first, the hybrid and colbert cells seeded
  with it fail, or, if its name can be loaded too, run locally under the label of
  the API. An adaptive cell without sentence-transformers is a success with empty
  answers: its `index()` raises inside the read, whose exceptions the runner drops.
* `memory/strategies/bm25_strategy.py:69`, `embeddings_strategy.py:290` to 296 and 345
  to 350: whether a corpus is new is decided by its ids, so a memory written again
  under its id can keep its old text in the index, until another leaves the corpus
  (dense) or its ids are none of a cached one.
* `memory/strategies/embeddings_strategy.py:296`: after a failed rebuild the next
  write appends to the old matrix and the cache keeps the result.
* `memory/strategies/embeddings_strategy.py:292`: the masks go only when ids come or
  go, and a mask is said to be "built once per index()" (530); when an event is
  written and pruned between two reads the index is built again for the same ids,
  can take its rows in another order, from the cache (350 to 365) or the store, and
  keeps the masks made for the order before.
* `workload/study_scheduler.py:127`: worker threads set and remove the
  process-wide `BENCHMARK_JUDGE_UNLOAD_EMBED`, each for its own cell.
* `workload/`: `normalization_meta` may come from a failed cell (`scheduler.py:511`
  against the comment at 457); the ollama backend becomes local embeddings
  (`study_matrix.py:20`, 201); `expand_core_3x3` says lambda 0.05 and uses 0.01,
  `expand_lambda_sweep` says 7 cells and makes 8.
* `evaluation/reliability.py:4` says the denominator is day 0's; line 64 divides by
  everything injected.
* `memory/interfaces/reader.py:17` asks for an order that `read()` does not restore
  after weighing scores with decay.

## 7. What is not modelled

Section 1 and `PROJECT.json` list the parts. The reasons, by kind: neural
scoring, tokenising and text formats (data no property tells apart); clients of
databases, language models and other memory products (one call per operation,
no state of their own); configuration, registry and CLI (no control worth a
state machine); measurements of cost and hardware. Within the study driver:
`--merge`, the candidates computed ahead of phase 5 (planned), the analysis printed
at the end of a study, device probing;
of the reports `--from-master` and `--csv` (the same functions over one given
table) and what a picture shows of its rows; the other drivers of `scripts/`
(`matrix_runner`, `arena_runner`, `grid_search`, `compare_retrieval_strategies`,
`diagnose_cell`), which loop over settings one after the other and keep nothing
between them, and `config.py`, a table of settings. Within the other modelled
components: the ranking of an answer by score and decay, the cache of embedding
models, the judge's process-wide environment variables, capacity pruning, and
the metrics' averages.

## 8. Plan

Order of work; the first three blocks are done.

1. **Core** (done): `BatchRun`, `StudyScheduler`, `MatrixScheduler`, `CellIdentity`,
   `StudyMatrix`, `MatrixExpander`, `LongTermStore`, `DecayFormula`, `Bm25Cache`,
   `EmbeddingIndex`, `ScenarioRunner`, `QueryDay`.
2. **Driver** (done): `DatasetRuns`, `StudyPhases`, `DecaySweep`, `DatasetFiles`,
   `ReportFiles`, `ReportRows`, `PlotFiles`, composed by `StudyDriver`.
3. **Proofs** (done): a theorem for each safety property of a passing run, and that
   both schedulers implement `BatchRun`.
4. **Retrieval**: `RerankCandidates` (memoised corpus hash),
   `HybridFusion` (a part that fails, rank fusion against a reference
   definition), the colbert cache (limit 4). They join `IndexCaches`.
5. **Memory**: `ShortTerm` (bounded buffer against an abstract bounded map),
   `RankedRead` (score, decay and the order of an answer), capacity pruning.
   They join `ScenarioDays` or `LongTermStore`.
6. **Evaluation and data**: `Metrics` (recall, precision, MRR, nDCG, survival with
   several modules), `GoldLoading`, `RunPlan`. Pure: they join `Calculations`.
7. **More proofs**: an abstract cache (a bounded map from corpora to indexes) that
   `Bm25Cache` and `EmbeddingIndex` implement; the type invariants of `PlotFiles`,
   `StudyPhases` and `QueryDay`.
