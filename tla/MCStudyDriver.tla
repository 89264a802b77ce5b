--------------------------- MODULE MCStudyDriver ---------------------------
(* Values for model-checking StudyDriver: three datasets, two of which get *)
(* the same label; a study of every shape that changes what a phase sees;  *)
(* the four policies; a dataset of every way of preparing one.             *)
EXTENDS StudyDriver, TLC

MCKinds(a, b, c) == [d \in Datasets |-> <<a, b, c>>[d]]
MCPlan(kinds, pinned, strict) == [kind |-> kinds, pinned |-> pinned, strict |-> strict]
MCPlans ==
  {MCPlan(MCKinds("plain", "plain", "plain"), FALSE, FALSE),
   MCPlan(MCKinds("uncheckable", "plain", "plain"), FALSE, TRUE),
   MCPlan(MCKinds("plain", "beyond", "overlapping"), TRUE, FALSE),
   MCPlan(MCKinds("unreadable", "beyond", "overlapping"), FALSE, TRUE)}
MCLabel == [d \in Datasets |-> <<"a", "b", "b">>[d]]

MCDefault == DefaultModel
MCSetup ==
  [phases |-> <<2, 3, 4>>, seeds |-> 1, alone |-> TRUE, transformers |-> TRUE,
   cuda |-> TRUE, fast |-> TRUE, validation |-> 20, tail |-> 10,
   local |-> {MCDefault, "bge"}, api |-> {"ada"}, apiUrl |-> FALSE,
   loadable |-> {MCDefault, "bge"},
   only |-> {}, skip |-> {}, rerankers |-> {"none", "ce"}]
MCSetups ==
  {[MCSetup EXCEPT !.skip = {MCDefault}],
   [MCSetup EXCEPT !.phases = <<1, 2, 4, 5>>, !.skip = {"bge", MCDefault}],
   [MCSetup EXCEPT !.phases = <<2, 3>>],
   [MCSetup EXCEPT !.phases = <<1, 2, 3>>, !.fast = FALSE, !.skip = {MCDefault}],
   [MCSetup EXCEPT !.apiUrl = TRUE, !.only = {"ada"}, !.fast = FALSE],
   [MCSetup EXCEPT !.phases = <<3, 4>>, !.validation = 0],
   [MCSetup EXCEPT !.phases = <<3, 4, 5>>, !.cuda = FALSE, !.seeds = 2],
   [MCSetup EXCEPT !.phases = <<1, 2, 3, 4>>, !.transformers = FALSE],
   [MCSetup EXCEPT !.phases = <<1, 2, 3>>, !.transformers = FALSE, !.alone = FALSE, !.tail = 0],
   [MCSetup EXCEPT !.phases = <<2, 4>>, !.transformers = FALSE, !.alone = FALSE],
   [MCSetup EXCEPT !.phases = <<1>>, !.seeds = 2]}
MCBroadWeights == {0, 50}
MCFineOffsets == {-20, 0}

MCSource ==
  [core |-> FALSE, raw |-> "lines", middle |-> "none", opensFirst |-> FALSE,
   parquet |-> FALSE, sample |-> FALSE]
MCSources ==
  {[MCSource EXCEPT !.core = TRUE, !.raw = "document"],
   [MCSource EXCEPT !.core = TRUE, !.raw = "none"],
   MCSource,
   [MCSource EXCEPT !.raw = "document", !.middle = "lines", !.opensFirst = TRUE, !.parquet = TRUE],
   [MCSource EXCEPT !.raw = "document", !.middle = "document"],
   [MCSource EXCEPT !.raw = "document", !.middle = "lines"],
   [MCSource EXCEPT !.raw = "table", !.middle = "document"],
   [MCSource EXCEPT !.middle = "lines", !.opensFirst = TRUE, !.sample = TRUE]}

(* The grids: studies of LoCoMo with every phase and with a trivial one;   *)
(* of MS MARCO where the tuning cells ask a window of the queries, and     *)
(* where they ask all of them; and two from before names were recorded,    *)
(* with a known count and two stores that measure the same, and without.   *)
MCCountName == 1986 :> "LoCoMo" @@ 10000 :> "MS MARCO"
MCStemName ==
  "locomo10" :> "LoCoMo" @@ "msmarco_gold" :> "msmarco_gold"
MCDisplayOrder == <<"MS MARCO", "LoCoMo">>

MCRows(stem, count, list) ==
  {[cell |-> i, phase |-> list[i][1], strategy |-> list[i][2], type |-> list[i][3],
    weight |-> list[i][4], decay |-> list[i][5], stem |-> stem, score |-> list[i][6],
    count |-> IF list[i][1] = "phase3fast" THEN count[2] ELSE count[1]] : i \in DOMAIN list}
MCPhase1 == <<<<"phase1", "bm25", "episodic", 100, "none", 1>>,
              <<"phase1", "recency", "episodic", 100, "none", 0>>>>
MCPhase2 == <<<<"phase2", "semantic", "episodic", 0, "none", 2>>>>
MCSweep == <<<<"phase3fast", "hybrid", "episodic", 0, "none", 1>>,
             <<"phase3fast", "hybrid", "episodic", 50, "none", 2>>,
             <<"phase3fast", "hybrid", "episodic", 50, "none", 2>>,
             <<"phase3fast", "hybrid", "episodic", 100, "none", 1>>>>
MCDecay == <<<<"phase4", "semantic", "episodic", 0, "none", 2>>,
             <<"phase4", "semantic", "episodic", 0, "linear", 2>>,
             <<"phase4", "semantic", "episodic", 0, "linear", 2>>>>
MCTypes == <<<<"phase1", "bm25", "episodic", 100, "none", 1>>,
             <<"phase1", "bm25", "semantic", 100, "none", 1>>,
             <<"phase3fast", "hybrid", "episodic", 50, "none", 2>>,
             <<"phase3fast", "hybrid", "semantic", 50, "none", 2>>>>
MCTrivial == [i \in 1..8 |-> <<"phase1", IF i % 2 = 0 THEN "bm25" ELSE "bm25l", "episodic",
                               100, "none", 3>>]
MCStudyGrids ==
  "locomo" :> MCRows("locomo10", <<400, 1986>>, MCPhase1 \o MCPhase2 \o MCSweep \o MCDecay)
  @@ "trivial" :> MCRows("locomo10", <<400, 1986>>, MCTrivial)
  @@ "marco" :> MCRows("msmarco_gold", <<1998, 10000>>, MCPhase1 \o MCSweep)
  @@ "marcoExploratory" :> MCRows("msmarco_gold", <<10000, 10000>>, MCPhase1 \o MCSweep)
  @@ "legacy" :> MCRows("", <<1986, 0>>, MCTypes)
  @@ "anonymous" :> MCRows("", <<0, 0>>, MCSweep)
=============================================================================
