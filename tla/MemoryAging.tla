----------------------------- MODULE MemoryAging -----------------------------
(***************************************************************************)
(* One memory growing old under a decay setting: what the formulas of      *)
(* DecayFormula make of it.                                                *)
(***************************************************************************)
EXTENDS DecayFormula

CONSTANT Settings      \* the decay settings to look at

VARIABLES setting, age

vars == <<setting, age>>

Init == setting \in Settings /\ age = 0

(* A simulated day passes. *)
NextDay ==
  /\ age < MaxAge
  /\ age' = age + 1
  /\ UNCHANGED setting

Done == age = MaxAge /\ UNCHANGED vars

Next == NextDay \/ Done

Spec == Init /\ [][Next]_vars

Now == Factor(setting, age)

(* "Decay factor in [0, 1]", whatever the formula, the floor and the age.  *)
FactorInRange == Now \in 0..One

(* "All formulas enforce an archival floor": from the archival day on, no  *)
(* memory weighs less than the floor, and none is resurrected above both   *)
(* the floor and what it weighed before.                                   *)
FloorHolds ==
  setting.lambda # 0 /\ setting.floor # FloorUnset /\ age >= setting.archival
    /\ ~ (setting.type = "tiered" /\ age <= setting.working) =>
      /\ Now >= setting.floor
      /\ age > setting.archival /\ setting.type # "tiered" =>
           Now <= AtLeast(Factor(setting, age - 1), setting.floor)
=============================================================================
