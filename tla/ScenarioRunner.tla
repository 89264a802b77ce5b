--------------------------- MODULE ScenarioRunner ---------------------------
(***************************************************************************)
(* benchmark/orchestrator/scenario_runner.py: the days of a scenario, with *)
(* one memory store and its pruning policy, and benchmark_runner.py: the   *)
(* scenarios of a run, between which the store is cleared.  Queries leave  *)
(* no trace here (QueryDay models them).                                   *)
(*                                                                         *)
(* Importance is in hundredths, decay in thousandths: a score and a        *)
(* threshold compare in their product.                                     *)
(***************************************************************************)
EXTENDS DecayFormula, FiniteSets

CONSTANTS
  Ids,            \* memories of the dataset
  NumScenarios,   \* scenarios of the run
  LastDay,        \* days are 0..LastDay
  Settings,       \* decay settings the store may have
  Thresholds,     \* thresholds the policy may have, in hundredths
  Importances,    \* importances a memory may have, in hundredths
  EventPlans,     \* id -> day of its event
  QueryPlans      \* sets of days that have queries

Days == 0..LastDay

ASSUME RunnerAssumption ==
  /\ IsFiniteSet(Ids) /\ NumScenarios \in Nat /\ LastDay \in Nat /\ LastDay <= MaxAge
  /\ Thresholds \subseteq 0..100 /\ Importances \subseteq 0..100
  /\ EventPlans \subseteq [Ids -> Days] /\ QueryPlans \subseteq SUBSET Days
  /\ Settings \subseteq [type : STRING, lambda : Nat, floor : {FloorUnset} \cup 0..One,
                         archival : Nat, working : Nat]

(* getattr(policy, "threshold", 0.15): the policies keep theirs elsewhere. *)
AssumedThreshold == 15

VARIABLES
  setting, threshold, importance, eventDay, queryDays,   \* inputs, never changed
  pc,           \* day | lifecycle | query | record | scenarioEnd | done
  scenario, day,
  born,         \* id -> day it was injected, -1 when not in the store
  nextCheck,    \* _lifecycle_next_<module>
  lastCheck,    \* day the policy was last applied in this scenario, -1 before:
                \* a history variable, no action depends on it
  injected,     \* total the survival curve divides by
  alivePerDay   \* day -> memories alive, -1 when not recorded

inputs == <<setting, threshold, importance, eventDay, queryDays>>
vars ==
  <<inputs, pc, scenario, day, born, nextCheck, lastCheck, injected, alivePerDay>>

Alive == {i \in Ids : born[i] # -1}
EventsOf(d) == {i \in Ids : eventDay[i] = d}

(* get_memory_scores *)
Score(i, d) == importance[i] * Factor(setting, d - born[i])
Flagged(d) == {i \in Alive : Score(i, d) < threshold * One}

(* The score of the weakest survivor.  Mutant: of the strongest.           *)
HighestOf(S, d) == CHOOSE m \in {Score(i, d) : i \in S} : \A i \in S : m >= Score(i, d)
LowestOf(S, d) == CHOOSE m \in {Score(i, d) : i \in S} : \A i \in S : m <= Score(i, d)

(* int(ln(lowest / threshold) / lambda): whole days exp takes to bring the *)
(* lowest score down to the assumed threshold; at least one.  The table    *)
(* ends at MaxAge, past the last day.                                      *)
AgesAbove(lowest) == {n \in Ages : lowest * Exp[n] >= AssumedThreshold * One * One}
DaysUntil(lowest) == AtLeast(1, Cardinality(AgesAbove(lowest)) - 1)

(* When the policy is applied again.  A survivor near the threshold keeps  *)
(* the check on every day.  With lambda 0 the estimate uses 0.001, which   *)
(* reaches beyond the last day.                                            *)
NextCheck(d) ==
  LET survivors == Alive \ Flagged(d)
  IN  IF survivors # {} /\ 100 * LowestOf(survivors, d) > 105 * AssumedThreshold * One
      THEN d + (IF setting.lambda = 0 THEN LastDay + 1 ELSE DaysUntil(LowestOf(survivors, d)))
      ELSE nextCheck

Init ==
  /\ setting \in Settings /\ threshold \in Thresholds
  /\ importance \in [Ids -> Importances]
  /\ eventDay \in EventPlans /\ queryDays \in QueryPlans
  /\ pc = "day" /\ scenario = 1 /\ day = 0
  /\ born = [i \in Ids |-> -1]
  /\ nextCheck = 0 /\ lastCheck = -1 /\ injected = 0
  /\ alivePerDay = [d \in Days |-> -1]

(* A day without events and queries only moves the clock. *)
SkipDay ==
  /\ pc = "day" /\ day <= LastDay
  /\ EventsOf(day) = {} /\ day \notin queryDays
  /\ day' = day + 1
  /\ UNCHANGED <<inputs, pc, scenario, born, nextCheck, lastCheck, injected, alivePerDay>>

(* _inject_events *)
Inject ==
  /\ pc = "day" /\ day <= LastDay
  /\ EventsOf(day) # {} \/ day \in queryDays
  /\ born' = [i \in Ids |-> IF i \in EventsOf(day) THEN day ELSE born[i]]
  /\ injected' = injected + Cardinality(EventsOf(day))
  /\ pc' = "lifecycle"
  /\ UNCHANGED <<inputs, scenario, day, nextCheck, lastCheck, alivePerDay>>

(* _apply_lifecycle_policies, skipped by the debounce. *)
LifecycleSkipped ==
  /\ pc = "lifecycle" /\ day < nextCheck
  /\ pc' = "query"
  /\ UNCHANGED <<inputs, scenario, day, born, nextCheck, lastCheck, injected, alivePerDay>>

LifecycleApplied ==
  /\ pc = "lifecycle" /\ day >= nextCheck
  /\ nextCheck' = NextCheck(day) /\ lastCheck' = day
  /\ born' = [i \in Ids |-> IF i \in Flagged(day) THEN -1 ELSE born[i]]
  /\ pc' = "query"
  /\ UNCHANGED <<inputs, scenario, day, injected, alivePerDay>>

(* _execute_queries, record_day, and the clock moves. *)
FinishDay ==
  /\ pc = "query"
  /\ alivePerDay' = [alivePerDay EXCEPT ![day] = Cardinality(Alive)]
  /\ day' = day + 1
  /\ pc' = "day"
  /\ UNCHANGED <<inputs, scenario, born, nextCheck, lastCheck, injected>>

(* The scenario is over: its curve is computed. *)
EndScenario ==
  /\ pc = "day" /\ day > LastDay
  /\ pc' = "scenarioEnd"
  /\ UNCHANGED <<inputs, scenario, day, born, nextCheck, lastCheck, injected, alivePerDay>>

(* The store a scenario leaves behind.  Mutant: the memories stay.         *)
NotCleared == born
Cleared == [i \in Ids |-> -1]

(* The clock is reset, the store cleared; the next scenario starts its     *)
(* counters afresh.  What the debounce remembers stays.                    *)
NextScenario ==
  /\ pc = "scenarioEnd" /\ scenario < NumScenarios
  /\ scenario' = scenario + 1
  /\ day' = 0 /\ pc' = "day"
  /\ born' = Cleared
  /\ injected' = 0 /\ lastCheck' = -1
  /\ alivePerDay' = [d \in Days |-> -1]
  /\ UNCHANGED <<inputs, nextCheck>>

Done == pc = "scenarioEnd" /\ scenario = NumScenarios /\ UNCHANGED vars

Next ==
  \/ SkipDay \/ Inject \/ LifecycleSkipped \/ LifecycleApplied
  \/ FinishDay \/ EndScenario \/ NextScenario \/ Done

Spec == Init /\ [][Next]_vars

(***************************************************************************)
(* Properties.                                                             *)
(***************************************************************************)

(* What the debounce may miss.  Its comments say "skip lifecycle check if   *)
(* no memory can have crossed the pruning threshold since the last check"  *)
(* and "definitely nothing to prune yet".  A memory that the policy would  *)
(* prune and a query still finds is one of three: it came in after the     *)
(* last check of this scenario (events of several days; a check put off by *)
(* the scenario before), or the policy is stricter than the estimate       *)
(* assumes, or since that check the memory lost more than exp takes        *)
(* (linear decay, a tiered memory on its archival day).  Otherwise it      *)
(* stays above the threshold until the next check, whatever came in with   *)
(* it or later, rounding, floors and the buffer included; and what the     *)
(* last check left passed it.                                              *)
FellFasterThanExp(i, from, to) ==
  One * Factor(setting, to - born[i]) < Factor(setting, from - born[i]) * Exp[to - from]

NoMissedPrune ==
  pc = "query" => \A i \in Flagged(day) :
    /\ day < nextCheck
    /\ \/ born[i] > lastCheck
       \/ /\ Score(i, lastCheck) >= threshold * One
          /\ threshold > AssumedThreshold \/ FellFasterThanExp(i, lastCheck, day)

(* What is alive was injected in this scenario, and the survival curve     *)
(* never counts more memories than were injected.                          *)
NothingCarriedOver ==
  /\ Cardinality(Alive) <= injected
  /\ \A i \in Alive : born[i] = eventDay[i] /\ born[i] <= day
  /\ \A d \in Days : alivePerDay[d] <= injected
=============================================================================
