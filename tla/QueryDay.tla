------------------------------ MODULE QueryDay ------------------------------
(***************************************************************************)
(* benchmark/orchestrator/scenario_runner.py: the queries of one day, by   *)
(* _execute_queries_sequential or by _execute_queries_async, which reads   *)
(* them all in the threads of the default executor and then processes the  *)
(* results in order.  Both read through _read_from_all_modules.            *)
(*                                                                         *)
(* A store answers a read with any set of ids, or raises: that the merged  *)
(* results are sorted, freed of duplicates and cut to top_k does not       *)
(* matter to which queries are evaluated, and only takes ids away from an  *)
(* arbitrary set.  The async read of a query has an except of its own,     *)
(* which nothing reaches here: what a store raises is caught for each      *)
(* store before it.                                                        *)
(***************************************************************************)
EXTENDS Integers, Sequences, FiniteSets

CONSTANTS
  NumQueries,   \* queries are 1..NumQueries, in dataset order
  Stores,       \* the memory modules
  EventIds,     \* ids of the dataset's events
  Setups        \* [async, judge, answers, expected]: the path taken, whether
                \* there is an answer evaluator, the queries with a gold
                \* answer, and the expected ids of each query

Queries == 1..NumQueries

(* What a composing module assumes of the constants. *)
QueryDayAssumption ==
  /\ NumQueries \in Nat
  /\ \A s \in Setups :
       /\ s.async \in BOOLEAN /\ s.judge \in BOOLEAN
       /\ s.answers \subseteq Queries
       /\ s.expected \in [Queries -> SUBSET EventIds]

VARIABLES
  setup,        \* input, never changed
  pc,           \* read | process | done | crashed
  next,         \* query the sequential path reads, or the loop processes
  asked,        \* query -> stores that have answered or failed
  retrieved,    \* query -> ids retrieved so far
  raisedBy,     \* query -> stores whose read raised
  retrievedSet, \* the local _retrieved_set; unbound at first
  evaluated,    \* queries evaluated, in order
  correct       \* correct_count

vars == <<setup, pc, next, asked, retrieved, raisedBy, retrievedSet, evaluated, correct>>

Unbound == {"unbound"}

Judged(q) == setup.judge /\ q \in setup.answers
Reading == IF setup.async THEN Queries ELSE {next}

(* What is kept of a query when a store raises: the loop goes on.  Mutant: *)
(* it is left with an empty result.                                        *)
NothingKept(q) == {}
Kept(q) == retrieved[q]

(* The set the hit is looked for in, after query q.  It is bound for every *)
(* query in the sequential path, under the judge's condition in the async  *)
(* path.                                                                   *)
BoundSet(q) == IF ~ setup.async \/ Judged(q) THEN retrieved[q] ELSE retrievedSet

(* A query is correct if one expected id was retrieved.                    *)
Hit(q, found) == setup.expected[q] \cap found # {}

(* gather hands the results back in the order of the queries.  Mutant: in  *)
(* any order.                                                              *)
AnyResult(q) == \A i \in 1..Len(evaluated) : evaluated[i] # q
NextResult(q) == q = next

Init ==
  /\ setup \in Setups
  /\ pc = "read" /\ next = 1
  /\ asked = [q \in Queries |-> {}]
  /\ retrieved = [q \in Queries |-> {}]
  /\ raisedBy = [q \in Queries |-> {}]
  /\ retrievedSet = Unbound
  /\ evaluated = <<>> /\ correct = 0

(* One store answers a read; in the async path the queries of the day are  *)
(* in different threads.                                                   *)
StoreAnswers(q, s, ids) ==
  /\ pc = "read" /\ q \in Reading /\ s \notin asked[q]
  /\ asked' = [asked EXCEPT ![q] = @ \cup {s}]
  /\ retrieved' = [retrieved EXCEPT ![q] = @ \cup ids]
  /\ UNCHANGED <<setup, pc, next, raisedBy, retrievedSet, evaluated, correct>>

(* Its read raises: a warning, and the next store. *)
StoreRaises(q, s) ==
  /\ pc = "read" /\ q \in Reading /\ s \notin asked[q]
  /\ asked' = [asked EXCEPT ![q] = @ \cup {s}]
  /\ raisedBy' = [raisedBy EXCEPT ![q] = @ \cup {s}]
  /\ retrieved' = [retrieved EXCEPT ![q] = Kept(q)]
  /\ UNCHANGED <<setup, pc, next, retrievedSet, evaluated, correct>>

(* The reads the processing waits for are over: one, or all of the day.    *)
ReadsOver ==
  /\ pc = "read"
  /\ \A q \in Reading : asked[q] = Stores
  /\ pc' = "process"
  /\ UNCHANGED <<setup, next, asked, retrieved, raisedBy, retrievedSet, evaluated, correct>>

(* The judge, the evaluators and the hit count of one query. *)
Process(q) ==
  /\ pc = "process" /\ NextResult(q)
  /\ retrievedSet' = BoundSet(q)
  /\ BoundSet(q) # Unbound \/ setup.expected[q] = {}
  /\ evaluated' = Append(evaluated, q)
  /\ correct' = correct + (IF Hit(q, BoundSet(q)) THEN 1 ELSE 0)
  /\ next' = next + 1
  /\ pc' = IF next = NumQueries THEN "done" ELSE IF setup.async THEN "process" ELSE "read"
  /\ UNCHANGED <<setup, asked, retrieved, raisedBy>>

(* The local is looked up before it was ever bound: a NameError ends the   *)
(* scenario.                                                               *)
ProcessUnbound(q) ==
  /\ pc = "process" /\ NextResult(q)
  /\ BoundSet(q) = Unbound /\ setup.expected[q] # {}
  /\ pc' = "crashed"
  /\ UNCHANGED <<setup, next, asked, retrieved, raisedBy, retrievedSet, evaluated, correct>>

Done == pc \in {"done", "crashed"} /\ UNCHANGED vars

Next ==
  \/ \E q \in Queries, s \in Stores, ids \in SUBSET EventIds : StoreAnswers(q, s, ids)
  \/ \E q \in Queries, s \in Stores : StoreRaises(q, s)
  \/ ReadsOver
  \/ \E q \in Queries : Process(q) \/ ProcessUnbound(q)
  \/ Done

Spec == Init /\ [][Next]_vars

(***************************************************************************)
(* Properties.                                                             *)
(***************************************************************************)

Evaluated == {evaluated[i] : i \in 1..Len(evaluated)}

(* correct_recalls: "Queries with at least one correct result."  The day    *)
(* is never given up, and the count is that of the queries whose own read  *)
(* retrieved an expected id.                                               *)
HitsCounted ==
  /\ pc # "crashed"
  /\ correct = Cardinality({q \in Evaluated : setup.expected[q] \cap retrieved[q] # {}})

(* Queries are evaluated in dataset order, each once and after its reads,  *)
(* whatever order the threads finish in.                                   *)
EvaluatedInOrder ==
  \A i \in 1..Len(evaluated) : evaluated[i] = i /\ asked[i] = Stores

(* A store whose read raises takes nothing away from what the others       *)
(* return ("graceful degradation").                                        *)
FailureIsolated ==
  [][\A q \in Queries : retrieved[q] \subseteq retrieved'[q]]_vars
=============================================================================
