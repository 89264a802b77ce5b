----------------------------- MODULE ReportRows -----------------------------
(***************************************************************************)
(* scripts/generate_reports.py: from the rows of the studies' grids to what *)
(* the reports say of each dataset.  A row is attributed to a dataset,     *)
(* duplicated measurements are dropped, and every ranking or candidate is  *)
(* made from a subset of the rows.  One number, the score, stands for all  *)
(* metrics of a row; formatting is left out.                               *)
(***************************************************************************)
EXTENDS Integers, Sequences, FiniteSets, FiniteSetsExt

CONSTANTS
  StudyGrids,    \* the rows of each study's grid, by study
  CountName,     \* query_count_to_name
  StemName,      \* for a gold file's stem the canonical name it contains (or is
                 \* contained in), or else the stem itself
  DisplayOrder   \* display_order

NoStem == ""
Unknown == "unknown"
HybridSweep == "phase3fast"    \* phase3_hybrid_weight
NearPerfect == 3               \* a recall of at least SATURATION_RECALL
SaturationMinN == 5
WinnerMinN == 3
EmbeddingStrategies == {"semantic", "hybrid", "colbert", "adaptive"}

(* A cell identifies a row within its grid.  A row that was written before *)
(* names and counts were recorded has no stem and no query.  No dataset is *)
(* called "unknown".                                                       *)
Fields == {"cell", "phase", "strategy", "type", "weight", "decay", "stem", "count", "score"}
ReportRowsAssumption ==
  /\ \A s \in DOMAIN StudyGrids : IsFiniteSet(StudyGrids[s])
  /\ \A s \in DOMAIN StudyGrids : \A r \in StudyGrids[s] :
       /\ DOMAIN r = Fields /\ r.cell \in Nat /\ r.score \in 0..NearPerfect
       /\ r.stem = NoStem \/ r.stem \in DOMAIN StemName
  /\ \A c \in DOMAIN CountName : CountName[c] # Unknown
  /\ \A t \in DOMAIN StemName : StemName[t] # Unknown

ResolvedVerbatim(r) ==   \* a slip: the stem is not looked up among the names
  IF r.count \in DOMAIN CountName THEN CountName[r.count]
  ELSE IF r.stem # NoStem THEN r.stem ELSE Unknown

(* The count of the queries comes first, then the stem.                    *)
Resolved(r) ==
  IF r.count \in DOMAIN CountName THEN CountName[r.count]
  ELSE IF r.stem # NoStem THEN StemName[r.stem] ELSE Unknown

Known(rows) == {r \in rows : r.name # Unknown}

(* A study runs one dataset: rows that do not say which are given the name *)
(* of the others, if those agree.                                          *)
Backfilled(rows) ==
  LET names == {r.name : r \in Known(rows)}
  IN  IF Cardinality(names) # 1 THEN rows
      ELSE {[r EXCEPT !.name = CHOOSE n \in names : TRUE] : r \in rows}

(* Rows of the fast sweep with the same configuration and the same metrics *)
(* are one measurement, whatever store they name; one that named several   *)
(* is relabelled.                                                          *)
SameMeasurement(r, q) ==
  /\ r.strategy = q.strategy /\ r.weight = q.weight /\ r.decay = q.decay /\ r.score = q.score
Deduplicated(rows) ==
  LET sweep == {r \in rows : r.phase = HybridSweep}
      Copies(r) == {q \in sweep : SameMeasurement(q, r)}
      Kept(copies) ==
        LET first == CHOOSE r \in copies : \A q \in copies : r.cell <= q.cell
        IN  IF \E q \in copies : q.type # first.type THEN [first EXCEPT !.type = "all"] ELSE first
  IN  (rows \ sweep) \cup {Kept(Copies(r)) : r \in sweep}

(* load_all_cells: study by study, the rows of its grid.                   *)
Row(s, r) ==
  [study |-> s, name |-> Resolved(r), cell |-> r.cell, phase |-> r.phase, strategy |-> r.strategy,
   type |-> r.type, weight |-> r.weight, decay |-> r.decay, stem |-> r.stem, count |-> r.count,
   score |-> r.score]
Attributed(s) == {Row(s, r) : r \in StudyGrids[s]}
StudyRows(s) == Deduplicated(Backfilled(Attributed(s)))
Loaded(studies) == UNION {StudyRows(s) : s \in studies}
OfName(rows, name) == {r \in rows : r.name = name}

(***************************************************************************)
(* Which rows count for what.                                              *)
(***************************************************************************)
Saturated(rows) ==
  /\ Cardinality(rows) >= SaturationMinN
  /\ 2 * Cardinality({r \in rows : r.score = NearPerfect}) >= Cardinality(rows)

IsFullPool(r) == r.type = "all" \/ (r.phase = HybridSweep /\ r.count = 0)

IsRankingComparable(r) ==
  /\ ~IsFullPool(r)
  /\ r.phase # HybridSweep
  /\ r.phase \in {"phase4", "phase4b"} => r.decay = "none"
RankingComparable(rows) == {r \in rows : IsRankingComparable(r)}
DecayComparable(rows) == {r \in rows : r.phase # HybridSweep}
FinalTestRows(rows) == {r \in rows : r.phase = "final_test"}
OfStrategy(rows, s) == {r \in rows : r.strategy = s}
Strategies(rows) == {r.strategy : r \in rows}

(* Averages are compared crosswise; of equal ones either may come first.   *)
Total(rows) == MapThenSumSet(LAMBDA r : r.score, rows)
AverageAtLeast(a, b) == Total(a) * Cardinality(b) >= Total(b) * Cardinality(a)
TopStrategies(rows, among) ==
  {s \in among : \A t \in among : AverageAtLeast(OfStrategy(rows, s), OfStrategy(rows, t))}

(* A strategy with fewer than WinnerMinN rows wins only if none has more.  *)
Winners(rows) ==
  LET ranked == RankingComparable(rows)
      sampled == {s \in Strategies(ranked) : Cardinality(OfStrategy(ranked, s)) >= WinnerMinN}
  IN  IF ranked = {} THEN {"hybrid"}
      ELSE TopStrategies(ranked, IF sampled = {} THEN Strategies(ranked) ELSE sampled)

BestRows(rows) == {r \in rows : \A q \in rows : q.score <= r.score}

(* build_reports_data: the datasets shown, the best rows of each, and the  *)
(* best of all those that count for the whole.                             *)
Shown(rows) == {r.name : r \in Known(rows)}
Ranked(rows) == {r \in Known(rows) : ~Saturated(OfName(rows, r.name))}
DecaysShown(rows, winner) ==
  LET own == {r.decay : r \in DecayComparable(OfStrategy(rows, winner))}
  IN  IF own = {} THEN {r.decay : r \in DecayComparable(rows)} ELSE own
StorePoolRows(rows) == {r \in rows : ~IsFullPool(r)}
ReportsData(rows) ==
  [overall |-> BestRows(StorePoolRows(Ranked(rows))),
   embeddings |-> {r \in RankingComparable(Ranked(rows)) : r.strategy \in EmbeddingStrategies},
   of |-> [n \in Shown(rows) |->
             LET own == OfName(rows, n)
             IN  [winners |-> Winners(own),
                  decays |-> UNION {DecaysShown(own, w) : w \in Winners(own)},
                  tested |-> FinalTestRows(own) # {},
                  best |-> BestRows(FinalTestRows(own)),
                  candidates |-> BestRows(StorePoolRows(own))]]]

(* What the rows of a grid say of its dataset.                             *)
Claims(s) ==
  {CountName[r.count] : r \in {q \in StudyGrids[s] : q.count \in DOMAIN CountName}}
  \cup {StemName[r.stem] : r \in {q \in StudyGrids[s] : q.stem # NoStem}}

(* The rows of a study go under one name, those of the fast sweep (all the *)
(* queries) and those of a window of the queries alike, and a study of     *)
(* which some row is identified has no unknown one: unless the stem and    *)
(* the query counts contradict each other.                                 *)
UnderOneName(s, rows) ==
  LET names == {r.name : r \in {q \in rows : q.study = s}}
  IN  Cardinality(Claims(s)) <= 1 =>
        Cardinality(names) = 1 /\ (Claims(s) # {} => Unknown \notin names)
=============================================================================
