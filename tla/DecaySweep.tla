----------------------------- MODULE DecaySweep -----------------------------
(***************************************************************************)
(* scripts/study_runner.py, _run_phase4_two_stage: which decay policies    *)
(* phase 4 measures broadly, which it zooms into, and when it stops.  The  *)
(* recalls of a policy are abstracted to how its best lambda compares with *)
(* no decay; both, and which cells of a run succeed, are left open.        *)
(***************************************************************************)
EXTENDS Integers, FiniteSets

CONSTANTS
  NumPolicies,   \* exponential, logarithmic, linear, tiered
  Patiences      \* values of --early-stop-patience; 0 never stops

VARIABLES
  dense,      \* _uses_gpu: the seed strategy is not a lexical one
  check,      \* BENCHMARK_PHASE4_FAST_CHECK
  patience,
  sweep, next,   \* the stage, and its next policy
  futile,     \* _fast_checked_policies
  broad,      \* the broad results of each policy
  noImprove, zoomed,
  anyDecay,   \* some cell with lambda > 0 has succeeded
  floors      \* the archival floors were swept

sweepSetting == <<dense, check, patience>>
sweepVars == <<sweepSetting, sweep, next, futile, broad, noImprove, zoomed, anyDecay, floors>>

Policies == 1..NumPolicies

(* The successful cells of one broad run: was the baseline measured, and   *)
(* the best lambda (none, one that is no gain, one that is).               *)
Results == [base : BOOLEAN, best : {"none", "level", "gain"}]
Unmeasured == [base |-> FALSE, best |-> "none"]

DecaySweepAssumption == NumPolicies \in Nat \ {0} /\ Patiences \subseteq Nat

SweepInit ==
  /\ dense \in BOOLEAN /\ check \in (IF dense THEN BOOLEAN ELSE {FALSE})
  /\ patience \in Patiences
  /\ sweep = (IF check THEN "check" ELSE IF dense THEN "policies" ELSE "batch")
  /\ next = 1 /\ futile = {} /\ broad = [p \in Policies |-> Unmeasured]
  /\ noImprove = 0 /\ zoomed = {} /\ anyDecay = FALSE /\ floors = FALSE

(* Lexical strategies: one run measures all policies; its baseline cells   *)
(* are those of every policy.                                              *)
Batch ==
  /\ sweep = "batch"
  /\ \E base \in BOOLEAN : \E best \in [Policies -> {"none", "level", "gain"}] :
       /\ broad' = [p \in Policies |-> [base |-> base, best |-> best[p]]]
       /\ anyDecay' = (\E p \in Policies : best[p] # "none")
  /\ sweep' = "policies"
  /\ UNCHANGED <<sweepSetting, next, futile, noImprove, zoomed, floors>>

(* The quick check: lambda 0 and 0.1 of every policy; a policy is futile   *)
(* only if both were measured and the gain is at most a point of recall.   *)
QuickCheck ==
  /\ sweep = "check"
  /\ \E base, strongest, gain \in BOOLEAN :
       /\ futile' = IF base /\ strongest /\ ~gain THEN futile \cup {next} ELSE futile
       /\ anyDecay' = (anyDecay \/ strongest)
  /\ IF next < NumPolicies
     THEN next' = next + 1 /\ UNCHANGED sweep
     ELSE next' = 1 /\ sweep' = "policies"
  /\ UNCHANGED <<sweepSetting, broad, noImprove, zoomed, floors>>

OutOfPatience == patience > 0 /\ noImprove >= patience
EndPolicies == next > NumPolicies \/ OutOfPatience

SkipImpatiently ==   \* a slip: a skipped policy counts as a flat one
  /\ sweep = "policies" /\ ~EndPolicies /\ next \in futile
  /\ next' = next + 1 /\ noImprove' = noImprove + 1
  /\ UNCHANGED <<sweepSetting, sweep, futile, broad, zoomed, anyDecay, floors>>
SkipFutile ==
  /\ sweep = "policies" /\ ~EndPolicies /\ next \in futile
  /\ next' = next + 1
  /\ UNCHANGED <<sweepSetting, sweep, futile, broad, noImprove, zoomed, anyDecay, floors>>

(* The broad results of the next policy (measured now, unless they are of  *)
(* the batch), and what follows: nothing if no lambda succeeded; patience  *)
(* if the best is no gain over a measured baseline; else the fine sweep.   *)
Policy ==
  /\ sweep = "policies" /\ ~EndPolicies /\ next \notin futile
  /\ \E r \in (IF dense THEN Results ELSE {broad[next]}) :
       /\ broad' = [broad EXCEPT ![next] = r]
       /\ anyDecay' = (anyDecay \/ r.best # "none")
       /\ \/ r.best = "none" /\ UNCHANGED <<noImprove, zoomed>>
          \/ r.best = "level" /\ r.base /\ noImprove' = noImprove + 1 /\ UNCHANGED zoomed
          \/ /\ r.best = "gain" \/ (r.best = "level" /\ ~r.base)
             /\ noImprove' = 0 /\ zoomed' = zoomed \cup {next}
  /\ next' = next + 1
  /\ UNCHANGED <<sweepSetting, sweep, futile, floors>>

(* Phase 4b, at the best of all decayed cells, those of the quick check    *)
(* included, unless the horizon ends before any memory meets a floor.      *)
FloorSweep ==
  /\ sweep = "policies" /\ EndPolicies
  /\ sweep' = "done" /\ \E longRun \in BOOLEAN : floors' = (anyDecay /\ longRun)
  /\ UNCHANGED <<sweepSetting, next, futile, broad, noImprove, zoomed, anyDecay>>

SweepNext == Batch \/ QuickCheck \/ SkipFutile \/ Policy \/ FloorSweep
SweepSpec == SweepInit /\ [][SweepNext]_sweepVars

(***************************************************************************)
(* Properties.                                                             *)
(***************************************************************************)
Flat(p) == broad[p].base /\ broad[p].best = "level"

(* A run of `patience` flat policies before p that no gain interrupts.     *)
PatienceSpentBefore(p) ==
  patience > 0 /\ \E run \in SUBSET {q \in Policies : q < p /\ Flat(q)} :
    Cardinality(run) = patience /\ \A q \in run, z \in zoomed : z < q

(* Every policy with a measured gain is zoomed into: one that is not is    *)
(* futile by the quick check (lambda 0.1 gains no point of recall), failed *)
(* or flat, or never taken up after as many flat ones as the patience.     *)
GainsZoomed ==
  sweep = "done" =>
    \A p \in Policies :
      \/ p \in zoomed \/ p \in futile
      \/ p < next /\ (broad[p].best = "none" \/ Flat(p))
      \/ p >= next /\ PatienceSpentBefore(p)

SweepTypeOK ==
  /\ sweep \in {"check", "batch", "policies", "done"} /\ next \in 1..(NumPolicies + 1)
  /\ sweep = "check" => next \in Policies
  /\ futile \subseteq Policies /\ zoomed \subseteq Policies
  /\ broad \in [Policies -> Results] /\ noImprove \in Nat
  /\ anyDecay \in BOOLEAN /\ floors \in BOOLEAN
=============================================================================
