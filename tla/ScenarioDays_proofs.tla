------------------------ MODULE ScenarioDays_proofs ------------------------
(***************************************************************************)
(* Proofs about ScenarioDays, for any dataset, number of scenarios and     *)
(* days, decay settings, policies, queries and stores: what one scenario   *)
(* leaves to the next, what the debounce may miss, the order in which      *)
(* queries are evaluated, and what a store that raises takes from the      *)
(* others.                                                                 *)
(***************************************************************************)
EXTENDS ScenarioDays, Sequences, FiniteSetTheorems, WellFoundedInduction, TLAPS

(***************************************************************************)
(* The days.                                                               *)
(***************************************************************************)

(* The first day whose events are still to come. *)
Ahead == IF pc \in {"lifecycle", "query"} THEN day + 1 ELSE day
Seen == {i \in Ids : eventDay[i] < Ahead}

(* What the counters and the store hold of the events of this scenario:    *)
(* the total is their number, and a memory is one of them, in the store    *)
(* since its own day.  That what is alive was counted is not inductive on  *)
(* its own: the total has to be that of the days gone by.                  *)
DaysInv ==
  /\ eventDay \in [Ids -> Days] /\ day \in Nat
  /\ pc \in {"lifecycle", "query"} => day \in Days
  /\ born \in [Ids -> Int]
  /\ injected = Cardinality(Seen)
  /\ \A i \in Alive : i \in Seen /\ born[i] = eventDay[i]
  /\ alivePerDay \in [Days -> Int]
  /\ \A d \in Days : alivePerDay[d] <= injected

LEMMA SeenFinite ==
  ASSUME DaysInv
  PROVE  IsFiniteSet(Ids) /\ IsFiniteSet(Seen) /\ Cardinality(Seen) \in Nat
         /\ IsFiniteSet(Alive) /\ Cardinality(Alive) \in Nat /\ Cardinality(Alive) <= Cardinality(Seen)
<1>1. IsFiniteSet(Ids)
  BY RunnerAssumption DEF RunnerAssumption
<1>2. IsFiniteSet(Seen) /\ Cardinality(Seen) \in Nat
  BY <1>1, FS_Subset, FS_CardinalityType DEF Seen
<1>3. Alive \in SUBSET Seen
  BY DEF DaysInv, Alive
<1>4. IsFiniteSet(Alive) /\ Cardinality(Alive) <= Cardinality(Seen)
  BY <1>2, <1>3, FS_Subset
<1> QED BY <1>1, <1>2, <1>4, FS_CardinalityType

LEMMA ApartFromInv == DaysInv => NothingCarriedOver
<1> SUFFICES ASSUME DaysInv PROVE NothingCarriedOver
  OBVIOUS
<1>1. Cardinality(Alive) <= injected
  BY SeenFinite DEF DaysInv
<1>2. ASSUME NEW i \in Alive PROVE born[i] = eventDay[i] /\ born[i] <= day
  <2>1. i \in Ids /\ i \in Seen /\ born[i] = eventDay[i] /\ eventDay[i] \in Int /\ day \in Nat
    BY <1>2, RunnerAssumption DEF DaysInv, Alive, RunnerAssumption, Days
  <2> QED BY <2>1 DEF Seen, Ahead
<1> QED BY <1>1, <1>2 DEF DaysInv, NothingCarriedOver

LEMMA DaysInit == ASSUME Init PROVE DaysInv
<1>1. eventDay \in [Ids -> Days] /\ LastDay \in Nat
  BY RunnerAssumption DEF Init, RunnerAssumption
<1>2. Seen = {}
  BY <1>1 DEF Init, Seen, Ahead, Days
<1>3. Alive = {}
  BY DEF Init, Alive
<1>4. Cardinality(Seen) = 0
  BY <1>2, FS_EmptySet
<1> QED BY <1>1, <1>2, <1>3, <1>4 DEF Init, DaysInv

LEMMA DaysNext == ASSUME DaysInv, Next PROVE DaysInv'
<1>1. /\ LastDay \in Nat /\ day \in Nat /\ eventDay \in [Ids -> Days] /\ \A i \in Ids : eventDay[i] \in Nat
      /\ born \in [Ids -> Int] /\ alivePerDay \in [Days -> Int] /\ eventDay' = eventDay
  BY RunnerAssumption
  DEF DaysInv, RunnerAssumption, Days, Next, SkipDay, Inject, LifecycleSkipped, LifecycleApplied,
      FinishDay, EndScenario, NextScenario, Done, inputs, vars
<1>2. CASE SkipDay
  <2>1. Seen' = Seen
    BY <1>1, <1>2 DEF SkipDay, Seen, Ahead, EventsOf
  <2>2. Alive' = Alive
    BY <1>2 DEF SkipDay, Alive
  <2> QED BY <1>1, <1>2, <2>1, <2>2 DEF SkipDay, DaysInv
<1>3. CASE Inject
  <2>1. /\ pc = "day" /\ day <= LastDay /\ pc' = "lifecycle" /\ day' = day
        /\ born' = [i \in Ids |-> IF i \in EventsOf(day) THEN day ELSE born[i]]
        /\ injected' = injected + Cardinality(EventsOf(day)) /\ alivePerDay' = alivePerDay
    BY <1>3 DEF Inject
  <2>2. Seen' = Seen \cup EventsOf(day) /\ Seen \cap EventsOf(day) = {}
    BY <1>1, <2>1 DEF Seen, Ahead, EventsOf
  <2>3. IsFiniteSet(EventsOf(day)) /\ Cardinality(EventsOf(day)) \in Nat
    BY SeenFinite, FS_Subset, FS_CardinalityType DEF EventsOf
  <2>4. Cardinality(Seen') = Cardinality(Seen) + Cardinality(EventsOf(day))
    <3>1. Cardinality(Seen \cup EventsOf(day))
            = Cardinality(Seen) + Cardinality(EventsOf(day)) - Cardinality(Seen \cap EventsOf(day))
      BY <2>3, SeenFinite, FS_Union
    <3>2. Cardinality(Seen \cap EventsOf(day)) = 0
      BY <2>2, FS_EmptySet
    <3> QED BY <2>2, <2>3, <3>1, <3>2, SeenFinite
  <2>5. injected' = Cardinality(Seen') /\ injected <= injected' /\ injected \in Nat /\ injected' \in Nat
    BY <2>1, <2>3, <2>4, SeenFinite DEF DaysInv
  <2>6. ASSUME NEW i \in Alive' PROVE i \in Seen' /\ born'[i] = eventDay'[i]
    <3>1. CASE i \in EventsOf(day)
      BY <1>1, <2>1, <2>2, <3>1 DEF EventsOf
    <3>2. CASE i \notin EventsOf(day)
      BY <1>1, <2>1, <2>2, <2>6, <3>2 DEF Alive, DaysInv
    <3> QED BY <3>1, <3>2
  <2>7. \A d \in Days : alivePerDay'[d] <= injected'
    BY <1>1, <2>1, <2>5 DEF DaysInv
  <2>8. born' \in [Ids -> Int] /\ day' \in Days
    BY <1>1, <2>1 DEF Days
  <2> QED BY <1>1, <2>1, <2>5, <2>6, <2>7, <2>8 DEF DaysInv
<1>4. CASE LifecycleSkipped
  <2>1. Seen' = Seen /\ Alive' = Alive
    BY <1>1, <1>4 DEF LifecycleSkipped, Seen, Ahead, Alive
  <2> QED BY <1>1, <1>4, <2>1 DEF LifecycleSkipped, DaysInv
<1>5. CASE LifecycleApplied
  <2>1. Seen' = Seen
    BY <1>1, <1>5 DEF LifecycleApplied, Seen, Ahead
  <2>2. born' = [i \in Ids |-> IF i \in Flagged(day) THEN -1 ELSE born[i]]
    BY <1>5 DEF LifecycleApplied
  <2>3. \A i \in Alive' : i \in Alive /\ born'[i] = born[i]
    BY <2>2 DEF Alive
  <2>4. born' \in [Ids -> Int]
    BY <1>1, <2>2
  <2> QED BY <1>1, <1>5, <2>1, <2>3, <2>4 DEF LifecycleApplied, DaysInv
<1>6. CASE FinishDay
  <2>1. Seen' = Seen /\ Alive' = Alive
    BY <1>1, <1>6 DEF FinishDay, Seen, Ahead, Alive
  <2>2. Cardinality(Alive) \in Nat /\ Cardinality(Alive) <= injected /\ injected' = injected
    BY <1>6, SeenFinite DEF FinishDay, DaysInv
  <2>3. alivePerDay' = [alivePerDay EXCEPT ![day] = Cardinality(Alive)]
    BY <1>6 DEF FinishDay
  <2>4. alivePerDay' \in [Days -> Int] /\ \A d \in Days : alivePerDay'[d] <= injected'
    <3>1. PICK n \in Nat : n <= injected /\ alivePerDay' = [alivePerDay EXCEPT ![day] = n]
      BY <2>2, <2>3
    <3>2. alivePerDay' \in [Days -> Int]
      <4>1. alivePerDay \in [Days -> Int] /\ alivePerDay' = [alivePerDay EXCEPT ![day] = n] /\ n \in Int
        BY <1>1, <3>1
      <4> QED BY <4>1
    <3>3. \A d \in Days : alivePerDay[d] <= injected
      BY DEF DaysInv
    <3>4. ASSUME NEW d \in Days PROVE alivePerDay'[d] <= injected'
      BY <1>1, <2>2, <3>1, <3>3
    <3> QED BY <3>2, <3>4
  <2> QED BY <1>1, <1>6, <2>1, <2>4 DEF FinishDay, DaysInv
<1>7. CASE EndScenario
  <2>1. Seen' = Seen /\ Alive' = Alive
    BY <1>1, <1>7 DEF EndScenario, Seen, Ahead, Alive
  <2> QED BY <1>1, <1>7, <2>1 DEF EndScenario, DaysInv
<1>8. CASE NextScenario
  <2>1. /\ day' = 0 /\ pc' = "day" /\ born' = [i \in Ids |-> -1] /\ injected' = 0
        /\ alivePerDay' = [d \in Days |-> -1]
    BY <1>8 DEF NextScenario, Cleared
  <2>2. Seen' = {} /\ Alive' = {}
    BY <1>1, <2>1 DEF Seen, Ahead, Alive
  <2>3. Cardinality(Seen') = 0
    BY <2>2, FS_EmptySet
  <2> QED BY <1>1, <2>1, <2>2, <2>3 DEF DaysInv
<1>9. CASE Done
  BY <1>9 DEF Done, DaysInv, vars, inputs, Seen, Ahead, Alive
<1> QED BY <1>2, <1>3, <1>4, <1>5, <1>6, <1>7, <1>8, <1>9 DEF Next

LEMMA DaysFrame == ASSUME DaysInv, UNCHANGED vars PROVE DaysInv'
BY DEF DaysInv, vars, inputs, Seen, Ahead, Alive

(***************************************************************************)
(* The debounce.                                                           *)
(***************************************************************************)

LEMMA FactorNatural ==
  ASSUME NEW d \in Settings, NEW t \in Ages
  PROVE  Factor(d, t) \in Nat
<1>1. /\ d.lambda \in Nat /\ d.working \in Nat /\ d.floor \in {FloorUnset} \cup 0..One
      /\ t \in Nat /\ t <= MaxAge /\ MaxAge \in Nat /\ One \in Nat /\ One > 0
  <2>1. d \in [type : STRING, lambda : Nat, floor : {FloorUnset} \cup 0..One, archival : Nat, working : Nat]
    BY RunnerAssumption DEF RunnerAssumption
  <2>2. d.lambda \in Nat /\ d.working \in Nat /\ d.floor \in {FloorUnset} \cup 0..One
    BY <2>1
  <2>3. t \in Nat /\ t <= MaxAge /\ MaxAge \in Nat
    BY DecayAssumption DEF Ages
  <2> QED BY <2>2, <2>3 DEF One
<1>2. \A a \in Ages : Exp[a] \in Nat
  BY DecayAssumption DEF One
<1>3. d.lambda * t \in Nat
  BY <1>1
<1>4. Raw(d, t) \in Nat
  <2>1. CASE d.type = "linear"
    <3>1. Raw(d, t) = AtLeast(0, One - d.lambda * t)
      BY <2>1 DEF Raw
    <3> QED BY <1>1, <1>3, <3>1 DEF AtLeast
  <2>2. CASE d.type = "logarithmic"
    <3> DEFINE b == One + d.lambda * t
               n == One * One
               q == n \div b
    <3>1. Raw(d, t) = q /\ b \in Nat /\ b > 0 /\ n \in Nat
      BY <1>1, <1>3, <2>2 DEF Raw
    <3> HIDE DEF b, n
    <3>2. q \in Int /\ n % b \in 0..(b - 1) /\ n = b * q + (n % b)
      BY <3>1
    <3> DEFINE r == n % b
    <3> HIDE DEF q, r
    <3>3. ASSUME q < 0 PROVE FALSE
      <4>1. b * q <= b * (-1)
        BY <3>1, <3>2, <3>3
      <4> QED BY <3>1, <3>2, <4>1 DEF r
    <3> QED BY <3>1, <3>2, <3>3
  <2>3. CASE d.type = "tiered" /\ t > d.working
    <3>1. Raw(d, t) = Exp[t - d.working] /\ t - d.working \in Ages
      BY <1>1, <2>3 DEF Raw, Ages
    <3> QED BY <1>2, <3>1
  <2>4. CASE d.type = "tiered" /\ t <= d.working
    <3>1. Raw(d, t) = One
      BY <2>4 DEF Raw
    <3> QED BY <1>1, <3>1
  <2>5. CASE d.type \notin {"linear", "logarithmic", "tiered"}
    <3>1. Raw(d, t) = Exp[t]
      BY <2>5 DEF Raw
    <3> QED BY <1>2, <3>1
  <2> QED BY <1>1, <2>1, <2>2, <2>3, <2>4, <2>5
<1>5. d.floor = FloorUnset \/ d.floor \in Nat
  BY <1>1
<1>6. Archived(d, t) \in Nat
  BY <1>1, <1>4, <1>5 DEF Archived, AtLeast
<1> QED BY <1>1, <1>4, <1>6 DEF Factor

(* The ages at which exp leaves a score above the threshold come first.    *)
LEMMA AgesAboveFirst ==
  ASSUME NEW low \in Nat, NEW n \in Nat, n < Cardinality(AgesAbove(low))
  PROVE  n \in Ages /\ low * Exp[n] >= AssumedThreshold * One * One
<1>1. MaxAge \in Nat /\ Exp \in [Ages -> 0..One] /\ One \in Nat
      /\ \A s, t \in Ages : s <= t => Exp[t] <= Exp[s]
  BY DecayAssumption DEF One
<1>2. \A t \in Ages : t \in Nat /\ Exp[t] \in Nat
  BY <1>1 DEF Ages
<1> SUFFICES ASSUME n \notin AgesAbove(low) PROVE FALSE
  BY DEF AgesAbove
<1>3. ASSUME NEW m \in AgesAbove(low) PROVE m \in 0..(n - 1)
  <2>1. m \in Ages /\ m \in Nat /\ low * Exp[m] >= AssumedThreshold * One * One
    BY <1>2 DEF AgesAbove
  <2>2. ASSUME n <= m PROVE FALSE
    <3>1. n \in Ages
      BY <1>1, <2>1, <2>2 DEF Ages
    <3>2. Exp[m] <= Exp[n] /\ Exp[m] \in Nat /\ Exp[n] \in Nat
      BY <1>1, <1>2, <2>1, <2>2, <3>1
    <3>3. low * Exp[m] <= low * Exp[n]
      BY <3>2
    <3>4. AssumedThreshold * One * One \in Nat
      BY DEF AssumedThreshold, One
    <3>5. low * Exp[n] >= AssumedThreshold * One * One
      BY <2>1, <3>2, <3>3, <3>4
    <3> QED BY <3>1, <3>5 DEF AgesAbove
  <2> QED BY <2>1, <2>2
<1>4. AgesAbove(low) \in SUBSET (0..(n - 1))
  BY <1>3
<1>5. IsFiniteSet(0..(n - 1)) /\ Cardinality(0..(n - 1)) = n
  <2> DEFINE m == n - 1
  <2>1. 0 \in Int /\ m \in Int /\ m - 0 + 1 = n /\ (0 > m => n = 0)
    OBVIOUS
  <2> HIDE DEF m
  <2>2. IsFiniteSet(0..m) /\ Cardinality(0..m) = IF 0 > m THEN 0 ELSE m - 0 + 1
    BY <2>1, FS_Interval
  <2>3. IsFiniteSet(0..m) /\ Cardinality(0..m) = n
    BY <2>1, <2>2
  <2> QED BY <2>3 DEF m
<1>6. Cardinality(AgesAbove(low)) <= n
  BY <1>4, <1>5, FS_Subset
<1>7. Cardinality(AgesAbove(low)) \in Nat
  BY <1>4, <1>5, FS_Subset, FS_CardinalityType
<1> QED BY <1>6, <1>7

LEMMA AgesAboveFinite ==
  ASSUME NEW low
  PROVE  Cardinality(AgesAbove(low)) \in Nat
<1>1. AgesAbove(low) \in SUBSET (0..MaxAge) /\ MaxAge \in Nat
  BY DecayAssumption DEF AgesAbove, Ages
<1>2. IsFiniteSet(0..MaxAge)
  BY <1>1, FS_Interval
<1> QED BY <1>1, <1>2, FS_Subset, FS_CardinalityType

(* The types of what the debounce reads.                                   *)
DebounceTypes ==
  /\ setting \in Settings /\ threshold \in Thresholds /\ importance \in [Ids -> Importances]
  /\ nextCheck \in Int /\ lastCheck \in Int

(* What the last check left passed it, and stays above the threshold until *)
(* the next one, but for the two reasons NoMissedPrune names.              *)
Passed(i) ==
  /\ Score(i, lastCheck) >= threshold * One
  /\ \A d \in Days : lastCheck <= d /\ d < nextCheck =>
       \/ Score(i, d) >= threshold * One
       \/ threshold > AssumedThreshold
       \/ FellFasterThanExp(i, lastCheck, d)

Guarded == \A i \in Alive : born[i] <= lastCheck => Passed(i)

DebounceInv ==
  /\ DebounceTypes
  /\ pc \in {"day", "lifecycle"} => lastCheck < day
  /\ pc = "query" => lastCheck <= day
  /\ pc = "query" /\ nextCheck <= day => Flagged(day) = {}
  /\ Guarded

(* The score of a memory of the store, on any day it is there.             *)
LEMMA ScoreNatural ==
  ASSUME DaysInv, DebounceTypes, NEW i \in Alive, NEW d \in Days, day <= d
  PROVE  /\ d \in Nat /\ born[i] \in Nat /\ d - born[i] \in Ages /\ importance[i] \in Nat
         /\ Factor(setting, d - born[i]) \in Nat /\ Score(i, d) \in Nat
         /\ threshold \in Nat /\ threshold * One \in Nat
<1>1. i \in Ids /\ i \in Seen /\ born[i] = eventDay[i] /\ eventDay[i] \in Days /\ day \in Nat
  BY DEF DaysInv, Alive
<1>2. /\ LastDay \in Nat /\ MaxAge \in Nat /\ LastDay <= MaxAge
      /\ eventDay[i] \in 0..LastDay /\ d \in 0..LastDay
  BY <1>1, RunnerAssumption, DecayAssumption DEF RunnerAssumption, Days
<1>3. eventDay[i] <= day
  BY <1>1, <1>2 DEF Seen, Ahead
<1>4. d \in Nat /\ born[i] \in Nat /\ d - born[i] \in Ages
  BY <1>1, <1>2, <1>3 DEF Ages
<1>5. importance[i] \in 0..100 /\ threshold \in 0..100
  BY <1>1, RunnerAssumption DEF DebounceTypes, RunnerAssumption
<1>6. importance[i] \in Nat /\ threshold \in Nat /\ threshold * One \in Nat
  BY <1>5 DEF One
<1>7. Factor(setting, d - born[i]) \in Nat
  BY <1>4, FactorNatural DEF DebounceTypes
<1> QED BY <1>4, <1>6, <1>7 DEF Score

LEMMA MissedFromInv == DaysInv /\ DebounceInv => NoMissedPrune
<1> SUFFICES ASSUME DaysInv, DebounceInv, pc = "query", NEW i \in Flagged(day)
             PROVE  /\ day < nextCheck
                    /\ \/ born[i] > lastCheck
                       \/ /\ Score(i, lastCheck) >= threshold * One
                          /\ threshold > AssumedThreshold \/ FellFasterThanExp(i, lastCheck, day)
  BY DEF NoMissedPrune
<1>1. day \in Nat /\ day \in Days /\ nextCheck \in Int /\ lastCheck \in Int /\ lastCheck <= day
  BY DEF DaysInv, DebounceInv, DebounceTypes
<1>2. i \in Alive /\ born[i] \in Int /\ Score(i, day) < threshold * One
  BY DEF Flagged, Alive, DaysInv
<1>3. day < nextCheck
  BY <1>1 DEF DebounceInv
<1>4. CASE born[i] <= lastCheck
  <2>1. Passed(i)
    BY <1>2, <1>4 DEF DebounceInv, Guarded
  <2>2. ~(Score(i, day) >= threshold * One)
    <3>1. Score(i, day) \in Int /\ threshold * One \in Int
      BY <1>1, <1>2, ScoreNatural DEF DebounceInv
    <3> QED BY <1>2, <3>1
  <2> QED BY <1>1, <1>3, <2>1, <2>2 DEF Passed
<1> QED BY <1>1, <1>2, <1>3, <1>4

(* A set of naturals has a least element.                                  *)
LEMMA LeastNatural ==
  ASSUME NEW S \in SUBSET Nat, S # {}
  PROVE  \E m \in S : \A n \in S : m <= n
<1>1. PICK m \in S : \A n \in S : <<n, m>> \notin OpToRel(<, Nat)
  BY NatLessThanWellFounded, WFMin, Zenon
<1>2. \A n \in S : ~ (n < m)
  BY <1>1, Zenon DEF OpToRel
<1> QED BY <1>2

(* The lowest score of the survivors is a bound below each of them.        *)
LEMMA LowestBounds ==
  ASSUME DaysInv, DebounceTypes, pc = "lifecycle", NEW i \in Alive \ Flagged(day)
  PROVE  /\ LowestOf(Alive \ Flagged(day), day) \in Nat
         /\ LowestOf(Alive \ Flagged(day), day) <= Score(i, day)
<1> DEFINE S == Alive \ Flagged(day)
           M == {Score(j, day) : j \in S}
<1>1. \A j \in S : Score(j, day) \in Nat
  <2>1. day \in Days /\ day <= day
    BY DEF DaysInv
  <2> QED BY <2>1, ScoreNatural
<1>2. M \in SUBSET Nat /\ M # {}
  BY <1>1
<1> HIDE DEF M, S
<1>3. \E m \in M : \A n \in M : m <= n
  BY <1>2, LeastNatural
<1>4. \E m \in M : \A j \in S : m <= Score(j, day)
  BY <1>3 DEF M
<1>5. LowestOf(S, day) \in M /\ \A j \in S : LowestOf(S, day) <= Score(j, day)
  BY <1>4 DEF LowestOf, M
<1>6. i \in S
  BY DEF S
<1> QED BY <1>1, <1>2, <1>5, <1>6 DEF S

(* What stays above the threshold today does until the check that today's  *)
(* estimate sets.                                                          *)
LEMMA EstimateIsSafe ==
  ASSUME DaysInv, DebounceTypes, pc = "lifecycle", nextCheck <= day,
         NEW i \in Alive \ Flagged(day), NEW d \in Days, day <= d, d < NextCheck(day),
         threshold <= AssumedThreshold, ~FellFasterThanExp(i, day, d)
  PROVE  Score(i, d) >= threshold * One
<1> DEFINE S == Alive \ Flagged(day)
           L == LowestOf(S, day)
           a == day - born[i]
           b == d - born[i]
           k == d - day
<1>1. i \in Alive /\ day \in Days /\ day \in Nat /\ day <= day /\ nextCheck \in Int
  BY DEF DaysInv, DebounceTypes
<1>2. /\ a \in Ages /\ importance[i] \in Nat /\ Factor(setting, a) \in Nat /\ Score(i, day) \in Nat
      /\ born[i] \in Nat /\ threshold \in Nat /\ threshold * One \in Nat
  BY <1>1, ScoreNatural
<1>3. d \in Nat /\ b \in Ages /\ Factor(setting, b) \in Nat /\ Score(i, d) \in Nat
  BY <1>1, ScoreNatural
<1>4. Score(i, day) >= threshold * One
  BY <1>1, <1>2 DEF Flagged
<1>5. L \in Nat /\ L <= Score(i, day)
  BY LowestBounds
<1>6. NextCheck(day) = day + (IF setting.lambda = 0 THEN LastDay + 1 ELSE DaysUntil(L))
  BY <1>1, <1>3 DEF NextCheck
<1>7. CASE d = day
  BY <1>4, <1>7
<1>8. CASE setting.lambda = 0
  <2>1. ASSUME NEW t \in Ages PROVE Factor(setting, t) = One
    BY <1>8 DEF Factor
  <2> HIDE DEF a, b
  <2>2. Factor(setting, a) = One /\ Factor(setting, b) = One
    BY <1>2, <1>3, <2>1
  <2> QED BY <1>4, <2>2 DEF Score, a, b
<1>9. CASE setting.lambda # 0 /\ d # day
  <2>1. k \in Nat /\ k >= 1 /\ k < DaysUntil(L)
    <3>1. DaysUntil(L) \in Int
      BY AgesAboveFinite DEF DaysUntil, AtLeast
    <3> QED BY <1>1, <1>3, <1>6, <1>9, <3>1
  <2>2. k < Cardinality(AgesAbove(L))
    <3>1. Cardinality(AgesAbove(L)) \in Nat
      BY AgesAboveFinite
    <3> QED BY <2>1, <3>1 DEF DaysUntil, AtLeast
  <2>3. k \in Ages /\ L * Exp[k] >= AssumedThreshold * One * One
    <3> HIDE DEF k, L
    <3> QED BY <1>5, <2>1, <2>2, AgesAboveFirst
  <2> DEFINE f == Factor(setting, a)
             g == Factor(setting, b)
             e == Exp[k]
             w == importance[i]
  <2>4. e \in Nat /\ f \in Nat /\ g \in Nat /\ w \in Nat
    <3>1. e \in 0..One
      BY <2>3, DecayAssumption
    <3> QED BY <1>2, <1>3, <3>1 DEF One
  <2>5. ~(One * g < f * e)
    BY DEF FellFasterThanExp
  <2>6. Score(i, day) = w * f /\ Score(i, d) = w * g
    BY DEF Score
  <2>7. 1000 * g >= f * e /\ L <= w * f /\ L * e >= 15 * (1000 * 1000)
    <3>1. L * e >= AssumedThreshold * One * One
      BY <2>3
    <3>2. L <= w * f
      BY <1>5, <2>6
    <3> HIDE DEF f, g, e, w, L
    <3> QED BY <2>4, <2>5, <3>1, <3>2 DEF One, AssumedThreshold
  <2> HIDE DEF f, g, e, w, L
  <2>8. L * e <= (w * f) * e
    BY <1>5, <2>4, <2>7
  <2>9. w * (f * e) <= w * (1000 * g)
    <3>1. f * e \in Nat /\ 1000 * g \in Nat
      BY <2>4
    <3> DEFINE x == f * e
               y == 1000 * g
    <3>2. x \in Nat /\ y \in Nat /\ x <= y
      BY <2>7, <3>1
    <3> HIDE DEF x, y
    <3>3. w * x <= w * y
      BY <2>4, <3>2
    <3> QED BY <3>3 DEF x, y
  <2>10. (w * f) * e = w * (f * e) /\ w * (1000 * g) = 1000 * (w * g)
    BY <2>4
  <2>11. w * g >= 15 * 1000
    <3> DEFINE u == L * e
               v == w * (f * e)
               z == w * g
    <3>1. u \in Int /\ v \in Int /\ z \in Int
      BY <1>5, <2>4 DEF L
    <3>2. u >= 15 * (1000 * 1000) /\ u <= v /\ v <= 1000 * z
      BY <2>7, <2>8, <2>9, <2>10
    <3> HIDE DEF u, v, z
    <3> QED BY <3>1, <3>2 DEF z
  <2>12. w * g \in Int /\ threshold * 1000 <= 15 * 1000
    BY <1>2, <2>4 DEF AssumedThreshold
  <2> QED BY <1>2, <2>6, <2>11, <2>12 DEF One
<1> QED BY <1>7, <1>8, <1>9

LEMMA DebounceTypesKept ==
  ASSUME DaysInv, DebounceTypes, Next
  PROVE  UNCHANGED inputs /\ DebounceTypes'
<1>1. UNCHANGED inputs
  BY DEF Next, SkipDay, Inject, LifecycleSkipped, LifecycleApplied, FinishDay, EndScenario,
         NextScenario, Done, vars
<1>2. nextCheck' \in Int /\ lastCheck' \in Int
  <2>1. CASE LifecycleApplied
    <3>1. DaysUntil(LowestOf(Alive \ Flagged(day), day)) \in Int
      BY AgesAboveFinite DEF DaysUntil, AtLeast
    <3>2. day \in Int /\ LastDay \in Int
      BY RunnerAssumption DEF DaysInv, RunnerAssumption
    <3> QED BY <2>1, <3>1, <3>2 DEF LifecycleApplied, NextCheck, DebounceTypes
  <2>2. CASE ~LifecycleApplied
    BY <2>2 DEF Next, SkipDay, Inject, LifecycleSkipped, FinishDay, EndScenario, NextScenario,
                Done, vars, DebounceTypes
  <2> QED BY <2>1, <2>2
<1> QED BY <1>1, <1>2 DEF DebounceTypes, inputs

(* A step that checks nothing and injects nothing old keeps the guard.     *)
LEMMA GuardStays ==
  ASSUME Guarded, UNCHANGED <<inputs, nextCheck, lastCheck>>,
         \A i \in Alive' : born'[i] = born[i] \/ ~(born'[i] <= lastCheck)
  PROVE  Guarded'
<1> SUFFICES ASSUME NEW i \in Alive', born'[i] <= lastCheck PROVE Passed(i)'
  BY DEF Guarded
<1>1. born'[i] = born[i] /\ i \in Alive
  BY DEF Alive
<1>2. Passed(i)
  BY <1>1 DEF Guarded
<1>3. /\ setting' = setting /\ threshold' = threshold /\ importance' = importance
      /\ lastCheck' = lastCheck /\ nextCheck' = nextCheck
  BY DEF inputs
<1>4. \A d : Score(i, d)' = Score(i, d)
             /\ FellFasterThanExp(i, lastCheck, d)' = FellFasterThanExp(i, lastCheck, d)
  BY <1>1, <1>3 DEF Score, FellFasterThanExp
<1>5. Score(i, lastCheck)' = Score(i, lastCheck)
  BY <1>1, <1>3 DEF Score
<1> QED BY <1>2, <1>3, <1>4, <1>5 DEF Passed

LEMMA DebounceInit == ASSUME Init PROVE DebounceInv
<1>1. Alive = {} /\ nextCheck = 0 /\ lastCheck = -1 /\ pc = "day" /\ day = 0
  BY DEF Init, Alive
<1> QED BY <1>1 DEF Init, DebounceInv, DebounceTypes, Guarded

LEMMA DebounceNext == ASSUME DaysInv, DebounceInv, Next PROVE DebounceInv'
<1>1. /\ day \in Nat /\ nextCheck \in Int /\ lastCheck \in Int
      /\ DebounceTypes /\ Guarded /\ UNCHANGED inputs /\ DebounceTypes'
  BY DebounceTypesKept DEF DaysInv, DebounceInv, DebounceTypes
<1>2. CASE SkipDay
  <2>1. /\ day' = day + 1 /\ pc = "day" /\ pc' = "day" /\ born' = born
        /\ UNCHANGED <<inputs, nextCheck, lastCheck>>
    BY <1>2 DEF SkipDay
  <2>2. Guarded'
    BY <1>1, <2>1, GuardStays
  <2> QED BY <1>1, <2>1, <2>2 DEF DebounceInv
<1>3. CASE Inject
  <2>1. /\ day' = day /\ pc = "day" /\ pc' = "lifecycle" /\ UNCHANGED <<inputs, nextCheck, lastCheck>>
        /\ born' = [i \in Ids |-> IF i \in EventsOf(day) THEN day ELSE born[i]]
    BY <1>3 DEF Inject
  <2>2. lastCheck < day
    BY <2>1 DEF DebounceInv
  <2>3. \A i \in Alive' : born'[i] = born[i] \/ ~(born'[i] <= lastCheck)
    BY <1>1, <2>1, <2>2 DEF Alive
  <2>4. Guarded'
    BY <1>1, <2>1, <2>3, GuardStays
  <2> QED BY <1>1, <2>1, <2>2, <2>4 DEF DebounceInv
<1>4. CASE LifecycleSkipped
  <2>1. /\ day' = day /\ pc = "lifecycle" /\ pc' = "query" /\ born' = born /\ day < nextCheck
        /\ UNCHANGED <<inputs, nextCheck, lastCheck>>
    BY <1>4 DEF LifecycleSkipped
  <2>2. Guarded'
    BY <1>1, <2>1, GuardStays
  <2>3. lastCheck' <= day' /\ ~(nextCheck' <= day')
    BY <1>1, <2>1 DEF DebounceInv
  <2> QED BY <1>1, <2>1, <2>2, <2>3 DEF DebounceInv
<1>5. CASE LifecycleApplied
  <2>1. /\ day' = day /\ pc = "lifecycle" /\ pc' = "query" /\ nextCheck' = NextCheck(day)
        /\ lastCheck' = day /\ nextCheck <= day /\ day \in Days
        /\ born' = [i \in Ids |-> IF i \in Flagged(day) THEN -1 ELSE born[i]]
    BY <1>1, <1>5 DEF LifecycleApplied, DaysInv
  <2>2. /\ Alive' = Alive \ Flagged(day)
        /\ \A i \in Alive \ Flagged(day) : born'[i] = born[i]
    BY <2>1 DEF Alive
  <2>3. /\ setting' = setting /\ threshold' = threshold /\ importance' = importance
    BY <1>1 DEF inputs
  <2>4. Flagged(day)' = {}
    <3> SUFFICES ASSUME NEW i \in Alive \ Flagged(day) PROVE ~(Score(i, day)' < threshold' * One)
      BY <2>1, <2>2 DEF Flagged
    <3>1. ~(Score(i, day) < threshold * One)
      BY DEF Flagged
    <3>2. Score(i, day)' = Score(i, day)
      BY <2>1, <2>2, <2>3 DEF Score
    <3> QED BY <2>3, <3>1, <3>2
  <2>5. ASSUME NEW i \in Alive \ Flagged(day) PROVE Passed(i)'
    <3>1. Score(i, day) >= threshold * One
      <4>1. Score(i, day) \in Nat /\ threshold * One \in Nat
        BY <1>1, <2>1, ScoreNatural
      <4> QED BY <4>1 DEF Flagged
    <3>2. ASSUME NEW d \in Days, day <= d, d < NextCheck(day)
          PROVE  \/ Score(i, d) >= threshold * One
                 \/ threshold > AssumedThreshold
                 \/ FellFasterThanExp(i, day, d)
      <4>1. threshold \in Nat
        BY <1>1, <2>1, ScoreNatural
      <4>2. threshold > AssumedThreshold \/ threshold <= AssumedThreshold
        BY <4>1 DEF AssumedThreshold
      <4> QED BY <1>1, <2>1, <3>2, <4>2, EstimateIsSafe
    <3>3. Score(i, lastCheck)' = Score(i, day)
      BY <2>1, <2>2, <2>3 DEF Score
    <3>4. ASSUME NEW d
          PROVE  /\ Score(i, d)' = Score(i, d)
                 /\ FellFasterThanExp(i, lastCheck, d)' = FellFasterThanExp(i, day, d)
      BY <2>1, <2>2, <2>3 DEF Score, FellFasterThanExp
    <3> QED BY <2>1, <2>3, <3>1, <3>2, <3>3, <3>4 DEF Passed
  <2>6. Guarded'
    BY <2>2, <2>5 DEF Guarded
  <2> QED BY <1>1, <2>1, <2>4, <2>6 DEF DebounceInv
<1>6. CASE FinishDay
  <2>1. /\ day' = day + 1 /\ pc = "query" /\ pc' = "day" /\ born' = born
        /\ UNCHANGED <<inputs, nextCheck, lastCheck>>
    BY <1>6 DEF FinishDay
  <2>2. Guarded'
    BY <1>1, <2>1, GuardStays
  <2>3. lastCheck' < day'
    BY <1>1, <2>1 DEF DebounceInv
  <2> QED BY <1>1, <2>1, <2>2, <2>3 DEF DebounceInv
<1>7. CASE EndScenario \/ Done
  <2>1. pc' = "scenarioEnd" /\ born' = born /\ UNCHANGED <<inputs, nextCheck, lastCheck>>
    BY <1>7 DEF EndScenario, Done, vars, inputs
  <2>2. Guarded'
    BY <1>1, <2>1, GuardStays
  <2> QED BY <1>1, <2>1, <2>2 DEF DebounceInv
<1>8. CASE NextScenario
  <2>1. /\ day' = 0 /\ pc' = "day" /\ lastCheck' = -1 /\ born' = [i \in Ids |-> -1]
    BY <1>8 DEF NextScenario, Cleared
  <2>2. Alive' = {}
    BY <2>1 DEF Alive
  <2> QED BY <1>1, <2>1, <2>2 DEF DebounceInv, Guarded
<1> QED BY <1>2, <1>3, <1>4, <1>5, <1>6, <1>7, <1>8 DEF Next

LEMMA DebounceFrame == ASSUME DebounceInv, UNCHANGED vars PROVE DebounceInv'
<1>1. UNCHANGED <<inputs, nextCheck, lastCheck>> /\ born' = born /\ Guarded
  BY DEF vars, DebounceInv
<1>2. Guarded'
  BY <1>1, GuardStays
<1>3. Flagged(day)' = Flagged(day)
  BY DEF vars, inputs, Flagged, Alive, Score
<1> QED BY <1>2, <1>3 DEF DebounceInv, DebounceTypes, vars, inputs

(***************************************************************************)
(* The queries of a day.                                                   *)
(***************************************************************************)

(* The queries before the next one are evaluated; what is processed has    *)
(* been read by every store.                                               *)
QueriesInv ==
  /\ asked \in [Day!Queries -> SUBSET Stores]
  /\ DOMAIN retrieved = Day!Queries
  /\ evaluated \in Seq(Day!Queries) /\ next = Len(evaluated) + 1
  /\ queryPc \in {"read", "process", "done", "crashed"}
  /\ queryPc = "process" => \A q \in Day!Reading : asked[q] = Stores
  /\ Day!EvaluatedInOrder

LEMMA QueriesInit == ASSUME Day!Init PROVE QueriesInv
BY DEF Day!Init, QueriesInv, Day!EvaluatedInOrder

LEMMA QueriesNext == ASSUME QueriesInv, Day!Next PROVE QueriesInv'
<1> USE DEF QueriesInv
<1>1. \A i \in 1..Len(evaluated) : evaluated[i] = i /\ asked[i] = Stores /\ i \in Day!Queries
  BY DEF Day!EvaluatedInOrder
<1>2. ASSUME NEW q \in Day!Queries, NEW s \in Stores, NEW more,
             queryPc = "read", s \notin asked[q],
             asked' = [asked EXCEPT ![q] = @ \cup {s}], retrieved' = [retrieved EXCEPT ![q] = more],
             UNCHANGED <<setup, queryPc, next, evaluated>>
      PROVE  QueriesInv'
  <2>1. asked' \in [Day!Queries -> SUBSET Stores] /\ DOMAIN retrieved' = Day!Queries
    BY <1>2
  <2>2. \A i \in Day!Queries : asked[i] = Stores => asked'[i] = Stores
    BY <1>2
  <2>3. Day!EvaluatedInOrder'
    BY <1>1, <1>2, <2>2 DEF Day!EvaluatedInOrder
  <2> QED BY <1>2, <2>1, <2>3
<1>3. ASSUME NEW q \in Day!Queries, NEW s \in Stores, NEW found, Day!StoreAnswers(q, s, found)
      PROVE  QueriesInv'
  BY <1>2, <1>3 DEF Day!StoreAnswers
<1>4. ASSUME NEW q \in Day!Queries, NEW s \in Stores, Day!StoreRaises(q, s)
      PROVE  QueriesInv'
  BY <1>2, <1>4 DEF Day!StoreRaises
<1>5. CASE Day!ReadsOver
  BY <1>5 DEF Day!ReadsOver, Day!Reading, Day!EvaluatedInOrder
<1>6. ASSUME NEW q \in Day!Queries, Day!Process(q)
      PROVE  QueriesInv'
  <2>1. /\ queryPc = "process" /\ q = next /\ evaluated' = Append(evaluated, q) /\ next' = next + 1
        /\ queryPc' = IF next = NumQueries THEN "done" ELSE IF setup.async THEN "process" ELSE "read"
        /\ UNCHANGED <<setup, asked, retrieved>>
    BY <1>6 DEF Day!Process, Day!NextResult
  <2>2. asked[q] = Stores
    BY <2>1 DEF Day!Reading
  <2>3. /\ evaluated' \in Seq(Day!Queries) /\ Len(evaluated') = Len(evaluated) + 1 /\ Len(evaluated) \in Nat
        /\ evaluated'[Len(evaluated) + 1] = q /\ \A i \in 1..Len(evaluated) : evaluated'[i] = evaluated[i]
    BY <2>1
  <2>4. Day!EvaluatedInOrder'
    <3> SUFFICES ASSUME NEW i \in 1..(Len(evaluated) + 1)
                 PROVE  evaluated'[i] = i /\ asked'[i] = Stores
      BY <2>3 DEF Day!EvaluatedInOrder
    <3>1. CASE i \in 1..Len(evaluated)
      BY <1>1, <2>1, <2>3, <3>1
    <3>2. CASE i = Len(evaluated) + 1
      BY <2>1, <2>2, <2>3, <3>2
    <3> QED BY <2>3, <3>1, <3>2
  <2>5. queryPc' \in {"done", "process", "read"}
    BY <2>1
  <2>6. queryPc' = "process" => \A p \in Day!Reading' : asked'[p] = Stores
    BY <2>1 DEF Day!Reading
  <2> QED BY <2>1, <2>3, <2>4, <2>5, <2>6
<1>7. ASSUME NEW q \in Day!Queries, Day!ProcessUnbound(q)
      PROVE  QueriesInv'
  BY <1>7 DEF Day!ProcessUnbound, Day!EvaluatedInOrder
<1>8. CASE Day!Done
  BY <1>8 DEF Day!Done, Day!vars, Day!Reading, Day!EvaluatedInOrder
<1> QED BY <1>3, <1>4, <1>5, <1>6, <1>7, <1>8 DEF Day!Next

LEMMA QueriesFrame == ASSUME QueriesInv, UNCHANGED dayVars PROVE QueriesInv'
BY DEF QueriesInv, dayVars, Day!Reading, Day!EvaluatedInOrder

(***************************************************************************)
(* Both scales.                                                            *)
(***************************************************************************)
IInv ==
  /\ scale = "days" => DaysInv /\ DebounceInv
  /\ scale = "queries" => QueriesInv
  /\ DOMAIN retrieved = Day!Queries

LEMMA InitIInv == ScaleInit => IInv
BY DaysInit, DebounceInit, QueriesInit DEF ScaleInit, IInv, NoQueries, NoScenario, QueriesInv

LEMMA NextIInv == IInv /\ [ScaleNext]_allVars => IInv'
<1> SUFFICES ASSUME IInv, [ScaleNext]_allVars PROVE IInv'
  OBVIOUS
<1>1. CASE RunDays
  BY <1>1, DaysNext, DebounceNext DEF RunDays, IInv, dayVars
<1>2. CASE RunQueries
  BY <1>2, QueriesNext DEF RunQueries, IInv, QueriesInv
<1>3. CASE UNCHANGED allVars
  BY <1>3, DaysFrame, DebounceFrame, QueriesFrame DEF allVars, IInv, dayVars
<1> QED BY <1>1, <1>2, <1>3 DEF ScaleNext

LEMMA Inductive == ScaleSpec => []IInv
BY InitIInv, NextIInv, PTL DEF ScaleSpec

(* Each scenario starts from an empty store and fresh counters: what is    *)
(* alive was injected in this one, on its own day, and no day counts more  *)
(* memories than were injected (BenchmarkRunner.run, run_scenario).        *)
THEOREM FreshScenarios == ScaleSpec => []ScenariosApart
<1>1. IInv => ScenariosApart
  BY ApartFromInv DEF IInv, ScenariosApart
<1> QED BY <1>1, Inductive, PTL

(* Against the comment on the debounce, "definitely nothing to prune yet": *)
(* a memory below the threshold that a query still finds came in after the *)
(* last check of its scenario, or faces a policy stricter than the         *)
(* estimate assumes, or lost more since that check than exp takes; any     *)
(* other is pruned in time, for any importances, decay table, days of      *)
(* injection and number of scenarios (_apply_lifecycle_policies).          *)
THEOREM DebounceMissesNothingElse == ScaleSpec => []DebounceMissesNoPrune
<1>1. IInv => DebounceMissesNoPrune
  BY MissedFromInv DEF IInv, DebounceMissesNoPrune
<1> QED BY <1>1, Inductive, PTL

(* Queries are evaluated in dataset order, each once and after its reads,  *)
(* on the sequential path and on the async one, whatever order the         *)
(* threads finish in (_execute_queries).                                   *)
THEOREM InDatasetOrder == ScaleSpec => []QueriesInOrder
<1>1. IInv => QueriesInOrder
  BY DEF IInv, QueriesInv, QueriesInOrder
<1> QED BY <1>1, Inductive, PTL

(* A store whose read raises takes nothing away from what the other stores *)
(* have returned or will return (_read_from_all_modules).                  *)
THEOREM FailuresIsolated == ScaleSpec => StoresFailAlone
<1> DEFINE Kept == \A q \in Day!Queries : retrieved[q] \subseteq retrieved'[q]
<1>1. ASSUME IInv, [ScaleNext]_allVars PROVE Kept
  <2>1. CASE UNCHANGED retrieved
    BY <2>1
  <2>2. ASSUME NEW q \in Day!Queries, NEW more, retrieved[q] \subseteq more,
               retrieved' = [retrieved EXCEPT ![q] = more]
        PROVE  Kept
    BY <1>1, <2>2 DEF IInv
  <2>3. CASE RunQueries
    <3>1. ASSUME NEW q \in Day!Queries, NEW s \in Stores, NEW found, Day!StoreAnswers(q, s, found)
          PROVE  Kept
      BY <2>2, <3>1 DEF Day!StoreAnswers
    <3>2. ASSUME NEW q \in Day!Queries, NEW s \in Stores, Day!StoreRaises(q, s)
          PROVE  Kept
      BY <2>2, <3>2 DEF Day!StoreRaises, Day!Kept
    <3>3. ASSUME NEW q \in Day!Queries, Day!Process(q) \/ Day!ProcessUnbound(q) \/ Day!ReadsOver \/ Day!Done
          PROVE  UNCHANGED retrieved
      BY <3>3 DEF Day!Process, Day!ProcessUnbound, Day!ReadsOver, Day!Done, Day!vars
    <3>4. CASE Day!ReadsOver \/ Day!Done
      BY <2>1, <3>4 DEF Day!ReadsOver, Day!Done, Day!vars
    <3> QED BY <2>1, <2>3, <3>1, <3>2, <3>3, <3>4 DEF RunQueries, Day!Next
  <2>4. CASE RunDays \/ UNCHANGED allVars
    BY <2>1, <2>4 DEF RunDays, allVars, dayVars
  <2> QED BY <1>1, <2>3, <2>4 DEF ScaleNext
<1>2. IInv /\ [ScaleNext]_allVars => [\A q \in Day!Queries : retrieved[q] \subseteq retrieved'[q]]_Day!vars
  BY <1>1
<1> QED BY <1>2, Inductive, PTL DEF ScaleSpec, StoresFailAlone, Day!FailureIsolated
=============================================================================
