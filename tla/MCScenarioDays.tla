--------------------------- MODULE MCScenarioDays ---------------------------
(* Values for model-checking ScenarioDays.  Days: lambda = ln 4/3 per day, *)
(* a memory loses a quarter of its weight each day (the table is rounded   *)
(* up, so that two periods take no more than each of them in turn), and a  *)
(* tiered memory with a low floor.  Queries: three, of which the second    *)
(* expects nothing.                                                        *)
EXTENDS ScenarioDays

MCPowers == <<1000, 750, 563, 423, 318, 239, 180, 135, 102>>
MCExp == [t \in 0..8 |-> MCPowers[t + 1]]
Decaying(type, floor) ==
  [type |-> type, lambda |-> 288, floor |-> floor, archival |-> 4, working |-> 1]
Frozen == [Decaying("exponential", 650) EXCEPT !.lambda = 0]
MCSettings ==
  {Decaying(t, f) : t \in {"exponential", "linear", "logarithmic", "tiered"},
                       f \in {FloorUnset, 650}}
  \cup {Frozen, Decaying("tiered", 0)}
MCEventPlans == [Ids -> 0..1]
MCQueryPlans == {{}, {1, 2, 3, 4}, {0, 3}}

MCExpected == <<{"a"}, {}, {"b"}>>
Setup(async, judge, answers) ==
  [async |-> async, judge |-> judge, answers |-> answers, expected |-> MCExpected]

(* Sequential days, and async days on which every query is judged, on      *)
(* which one is, and without an answer evaluator.                          *)
MCNoJudge == {Setup(TRUE, FALSE, {})}
MCAllSetups ==
  {Setup(FALSE, FALSE, {}), Setup(FALSE, TRUE, {1, 3}), Setup(TRUE, TRUE, {1, 2, 3}),
   Setup(TRUE, TRUE, {1})} \cup MCNoJudge
=============================================================================
