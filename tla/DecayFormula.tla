---------------------------- MODULE DecayFormula ----------------------------
(***************************************************************************)
(* benchmark/memory/long_term/base_store.py: _compute_decay_factor, the    *)
(* weight of a memory that is some days old.  Factors and lambda are in    *)
(* thousandths (lambda per day); exp(-lambda t) is a table the model is    *)
(* given.  A decay setting is a record [type, lambda, floor, archival,     *)
(* working]: the formula, its rate, the archival floor (FloorUnset for     *)
(* None) and the two day limits.                                           *)
(***************************************************************************)
EXTENDS Integers

CONSTANTS
  MaxAge,    \* ages are 0..MaxAge
  Lambda,    \* the decay rate the table is for
  Exp        \* exp(-Lambda * t), in thousandths

One == 1000
FloorUnset == -1
Ages == 0..MaxAge

ASSUME DecayAssumption ==
  /\ MaxAge \in Nat /\ Lambda \in Nat \ {0}
  /\ Exp \in [Ages -> 0..One]
  /\ Exp[0] = One
  /\ \A s, t \in Ages : s <= t => Exp[t] <= Exp[s]

AtLeast(x, y) == IF x < y THEN y ELSE x

(* The formula on its own; a tiered memory does not decay in its working   *)
(* days.                                                                   *)
Raw(d, t) ==
  CASE d.type = "linear" -> AtLeast(0, One - d.lambda * t)
    [] d.type = "logarithmic" -> (One * One) \div (One + d.lambda * t)
    [] d.type = "tiered" -> IF t <= d.working THEN One ELSE Exp[t - d.working]
    [] OTHER -> Exp[t]

(* From the archival day on, the floor holds; a tiered memory has exactly  *)
(* the floor there, or full weight without one.  Mutant: only tiered       *)
(* memories have it.                                                       *)
ArchivedTieredOnly(d, t) == IF d.type = "tiered" /\ d.floor # FloorUnset THEN d.floor ELSE Raw(d, t)
Archived(d, t) ==
  IF d.floor = FloorUnset
    THEN IF d.type = "tiered" THEN One ELSE Raw(d, t)
    ELSE IF d.type = "tiered" THEN d.floor ELSE AtLeast(Raw(d, t), d.floor)

Factor(d, t) ==
  IF d.lambda = 0 \/ (d.type = "tiered" /\ t <= d.working) THEN One
  ELSE IF t >= d.archival THEN Archived(d, t) ELSE Raw(d, t)
=============================================================================
