---------------------------- MODULE ScenarioDays ----------------------------
(***************************************************************************)
(* benchmark/orchestrator/scenario_runner.py at two scales: the days of a  *)
(* run's scenarios (ScenarioRunner), or the queries of one of those days   *)
(* (QueryDay).  Nothing a query does reaches the memories and counters of  *)
(* the days, so a behaviour is one of the two.                             *)
(***************************************************************************)
EXTENDS ScenarioRunner

CONSTANTS NumQueries, Stores, EventIds, Setups   \* see QueryDay

VARIABLES
  scale,        \* "days" or "queries"
  setup, queryPc, next, asked, retrieved, raisedBy, retrievedSet,
  evaluated, correct

Day == INSTANCE QueryDay WITH pc <- queryPc

ASSUME DayAssumption == Day!QueryDayAssumption

dayVars == <<setup, queryPc, next, asked, retrieved, raisedBy, retrievedSet,
             evaluated, correct>>
allVars == <<scale, vars, dayVars>>

(* A day without queries, and a run without scenarios. *)
NoQueries ==
  /\ setup = <<>> /\ queryPc = "done" /\ next = 1
  /\ asked = <<>> /\ raisedBy = <<>> /\ retrievedSet = {}
  /\ retrieved = [q \in Day!Queries |-> {}]
  /\ evaluated = <<>> /\ correct = 0
NoScenario ==
  /\ setting = <<>> /\ threshold = 0 /\ importance = <<>>
  /\ eventDay = <<>> /\ queryDays = {}
  /\ pc = "scenarioEnd" /\ scenario = NumScenarios /\ day = 0
  /\ born = <<>> /\ nextCheck = 0 /\ lastCheck = -1 /\ injected = 0 /\ alivePerDay = <<>>

ScaleInit ==
  \/ scale = "days" /\ Init /\ NoQueries
  \/ scale = "queries" /\ Day!Init /\ NoScenario

RunDays == scale = "days" /\ Next /\ UNCHANGED <<scale, dayVars>>
RunQueries == scale = "queries" /\ Day!Next /\ UNCHANGED <<scale, vars>>

ScaleNext == RunDays \/ RunQueries

ScaleSpec == ScaleInit /\ [][ScaleNext]_allVars

(* The days: what the debounce may miss, and what scenarios leave to each  *)
(* other (ScenarioRunner).                                                 *)
DebounceMissesNoPrune == scale = "days" => NoMissedPrune
ScenariosApart == scale = "days" => NothingCarriedOver

(* The queries of a day: their order, the hits counted, and what a store   *)
(* that raises takes from the others (QueryDay).                           *)
QueriesInOrder == scale = "queries" => Day!EvaluatedInOrder
EveryHitCounted == scale = "queries" => Day!HitsCounted
StoresFailAlone == Day!FailureIsolated
=============================================================================
