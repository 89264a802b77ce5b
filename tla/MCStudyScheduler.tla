-------------------------- MODULE MCStudyScheduler --------------------------
(* Values for model-checking StudyScheduler: two cells that need the GPU   *)
(* context and three that go to the pool, then a run of direct cells only. *)
EXTENDS StudyScheduler

MCStrategyOf == <<"bm25", "semantic", "recency", "colbert", "bm25l">>
MCBatch == <<1..5, {2, 4}>>
=============================================================================
