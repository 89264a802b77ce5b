----------------------------- MODULE PlotFiles -----------------------------
(***************************************************************************)
(* scripts/plot_benchmark.py as generate_reports.py calls it: the pictures *)
(* of each dataset, those across datasets, and the recommendations.  Each  *)
(* run is made over what the runs before have left; a picture it does not  *)
(* draw it deletes.  What is in a picture is left out, except which rows   *)
(* it is drawn from.                                                       *)
(***************************************************************************)
EXTENDS ReportRows

CONSTANTS
  MaxGrids,   \* bound on the studies on disk
  MaxPlots    \* bound on the runs

VARIABLES
  disk,        \* the studies whose grids are there
  cells,       \* the rows loaded
  turn,        \* runs so far
  dataset,     \* position in DisplayOrder; after it the pictures across datasets
  slot,        \* the next picture of the dataset
  verdict,     \* of the last run
  pictures,    \* the run each picture is from; 0: there is none
  dashboard,   \* reports_data.js
  document     \* DATASET_RECOMMENDATIONS.md: its run and its candidates

plotVars == <<disk, cells, turn, dataset, slot, verdict, pictures, dashboard, document>>

DatasetSlots == {"strategies", "decay", "recall", "bm25", "memory", "card"}
CrossSlots == {"bars", "decays", "breakdown", "best"}
Across == "across"
Ordered == {DisplayOrder[i] : i \in DOMAIN DisplayOrder}
Places == (Ordered \X DatasetSlots) \cup ({Across} \X CrossSlots)

PlotFilesAssumption ==
  /\ ReportRowsAssumption /\ MaxGrids \in Nat /\ MaxPlots \in Nat
  /\ DisplayOrder \in Seq(STRING) /\ {Unknown, Across} \cap Ordered = {}

Present == {n \in Ordered : OfName(cells, n) # {}}
Idle == verdict # "running"

PlotInit ==
  /\ disk = {} /\ cells = {} /\ turn = 0 /\ dataset = 1 /\ slot = "strategies"
  /\ verdict = "done"
  /\ pictures = [p \in Places |-> 0] /\ dashboard = ReportsData({})
  /\ document = [turn |-> 0, of |-> <<>>]

AddStudy(s) ==
  /\ Idle /\ s \notin disk /\ Cardinality(disk) < MaxGrids
  /\ disk' = disk \cup {s}
  /\ UNCHANGED <<cells, turn, dataset, slot, verdict, pictures, dashboard, document>>
RemoveStudy(s) ==
  /\ Idle /\ s \in disk /\ disk' = disk \ {s}
  /\ UNCHANGED <<cells, turn, dataset, slot, verdict, pictures, dashboard, document>>

(* Without a successful cell no report is made; without an attributed one  *)
(* no picture is.                                                          *)
Load ==
  /\ Idle /\ turn < MaxPlots /\ Loaded(disk) # {}
  /\ turn' = turn + 1 /\ cells' = Loaded(disk) /\ dashboard' = ReportsData(cells')
  /\ verdict' = (IF Known(cells') = {} THEN "nothing" ELSE "running")
  /\ dataset' = 1 /\ slot' = "strategies"
  /\ UNCHANGED <<disk, pictures, document>>

(***************************************************************************)
(* The pictures of one dataset.                                            *)
(***************************************************************************)
Drawing == verdict = "running" /\ dataset <= Len(DisplayOrder)
Name == DisplayOrder[dataset]
Rows == OfName(cells, Name)
Redrawn(place, drawn) == [pictures EXCEPT ![place] = IF drawn THEN turn ELSE 0]
UnchangedByDrawing == UNCHANGED <<disk, cells, turn, verdict, dashboard, document>>

SkipAbsent ==
  /\ Drawing /\ Rows = {} /\ dataset' = dataset + 1
  /\ UnchangedByDrawing /\ UNCHANGED <<slot, pictures>>

NothingRemoved(n) == pictures   \* a slip: the pictures of a saturated dataset stay
Removed(n) == [p \in Places |-> IF p \in {n} \X DatasetSlots THEN 0 ELSE pictures[p]]
SkipIfSaturated ==
  /\ Drawing /\ slot = "strategies" /\ Saturated(Rows)
  /\ pictures' = Removed(Name) /\ dataset' = dataset + 1
  /\ UnchangedByDrawing /\ UNCHANGED slot

Draw(this, next, drawn) ==
  /\ Drawing /\ Rows # {} /\ ~Saturated(Rows) /\ slot = this
  /\ pictures' = Redrawn(<<Name, this>>, drawn)
  /\ slot' = next /\ dataset' = (IF this = "card" THEN dataset + 1 ELSE dataset)
  /\ UnchangedByDrawing

(* Every policy of the strategy has the same number of rows, at least two, *)
(* and there are two policies.                                             *)
EqualReplication(rows) ==
  LET decays == {r.decay : r \in DecayComparable(rows)}
      Count(d) == Cardinality({r \in DecayComparable(rows) : r.decay = d})
  IN  Cardinality(decays) >= 2 /\ \A d, e \in decays : Count(d) = Count(e) /\ Count(d) >= 2

StrategyComparison == Draw("strategies", "decay", RankingComparable(Rows) # {})
DecaySweepPlot ==
  /\ Drawing
  /\ \E s \in TopStrategies(Rows, Strategies(Rows)) :
       Draw("decay", "recall", EqualReplication(OfStrategy(Rows, s)))
RecallCurve == Draw("recall", "bm25", TRUE)

(* The weights of the fast sweep if there is one, else of all hybrid rows. *)
Weights(rows) ==
  LET hybrid == OfStrategy(rows, "hybrid")
      sweep == {r \in hybrid : r.phase = HybridSweep}
  IN  {r.weight : r \in IF sweep = {} THEN hybrid ELSE sweep}
Bm25Sweep == Draw("bm25", "memory", Cardinality(Weights(Rows)) >= 3)
MemoryType == Draw("memory", "card", Cardinality({r.type : r \in Rows}) >= 2)
BestConfigCard == Draw("card", "strategies", TRUE)

(***************************************************************************)
(* The pictures across datasets, and the document.                         *)
(***************************************************************************)
Crossing(this) == verdict = "running" /\ dataset > Len(DisplayOrder) /\ slot = this
Cross(this, drawn) == pictures' = Redrawn(<<Across, this>>, drawn)
Raises(this) ==
  /\ Crossing(this) /\ verdict' = "raised"
  /\ UNCHANGED <<disk, cells, turn, dataset, slot, pictures, dashboard, document>>

ChartStrategies == {"hybrid", "semantic", "colbert", "adaptive", "bm25", "bm25l", "recency"}
Charted == {n \in Present : Strategies(RankingComparable(OfName(cells, n))) \cap ChartStrategies # {}}

(* The height of a bar is divided by the number of datasets, and the       *)
(* longest bar is looked for.                                              *)
StrategyBars ==
  /\ Crossing("strategies") /\ Charted # {}
  /\ Cross("bars", TRUE) /\ slot' = "decays"
  /\ UnchangedByDrawing /\ UNCHANGED dataset
NoStrategyBars == Charted = {} /\ Raises("strategies")

DecayPlottable ==
  {n \in Present : ~Saturated(OfName(cells, n)) /\ RankingComparable(OfName(cells, n)) # {}}
CrossDecay ==
  /\ Crossing("decays")
  /\ \E top \in [DecayPlottable -> UNION {Strategies(OfName(cells, n)) : n \in DecayPlottable}] :
       /\ \A n \in DecayPlottable :
            LET ranked == RankingComparable(OfName(cells, n))
            IN  top[n] \in TopStrategies(ranked, Strategies(ranked))
       /\ Cross("decays", \E n \in DecayPlottable :
                            EqualReplication(OfStrategy(OfName(cells, n), top[n])))
  /\ slot' = "breakdown"
  /\ UnchangedByDrawing /\ UNCHANGED dataset
CompositeBreakdown ==
  /\ Crossing("breakdown") /\ Cross("breakdown", TRUE) /\ slot' = "best"
  /\ UnchangedByDrawing /\ UNCHANGED dataset
BestConfigsSummary ==
  /\ Crossing("best") /\ Cross("best", TRUE) /\ slot' = "document"
  /\ UnchangedByDrawing /\ UNCHANGED dataset

(* The final test's rows, else those of the stores, else all.              *)
StoreOnly(rows) == IF StorePoolRows(rows) = {} THEN rows ELSE StorePoolRows(rows)
Recommended(rows) ==
  BestRows(IF FinalTestRows(rows) # {} THEN FinalTestRows(rows) ELSE StoreOnly(rows))

(* The ranking's first strategy is looked up for every dataset.            *)
Rankable == \A n \in Present : RankingComparable(OfName(cells, n)) # {}
WriteRecommendations ==
  /\ Crossing("document") /\ Rankable
  /\ document' = [turn |-> turn, of |-> [n \in Present |-> Recommended(OfName(cells, n))]]
  /\ verdict' = "done"
  /\ UNCHANGED <<disk, cells, turn, dataset, slot, pictures, dashboard>>
NothingToRecommend == ~Rankable /\ Raises("document")

(* A picture cannot be written: generate() warns, the rest is left out.    *)
PlotFails ==
  /\ verdict = "running" /\ verdict' = "failed"
  /\ UNCHANGED <<disk, cells, turn, dataset, slot, pictures, dashboard, document>>

OnePicture ==
  \/ SkipAbsent \/ SkipIfSaturated \/ StrategyComparison \/ DecaySweepPlot \/ RecallCurve
  \/ Bm25Sweep \/ MemoryType \/ BestConfigCard
CrossPictures ==
  StrategyBars \/ NoStrategyBars \/ CrossDecay \/ CompositeBreakdown \/ BestConfigsSummary
PlotNext ==
  \/ (\E s \in DOMAIN StudyGrids : AddStudy(s) \/ RemoveStudy(s)) \/ Load
  \/ OnePicture \/ CrossPictures \/ WriteRecommendations \/ NothingToRecommend \/ PlotFails
PlotSpec == PlotInit /\ [][PlotNext]_plotVars

(***************************************************************************)
(* Properties.                                                             *)
(***************************************************************************)

(* After a run to the end no picture of a dataset it has rows of, and none *)
(* across datasets, is from an earlier run ...                             *)
NoStalePicture ==
  \A p \in (Present \X DatasetSlots) \cup ({Across} \X CrossSlots) : pictures[p] \in {0, turn}
(* ... and the document recommends what the dashboard does.                *)
SameCandidates ==
  /\ document.turn = turn /\ DOMAIN document.of = Present
  /\ \A n \in Present :
       document.of[n] = IF dashboard.of[n].tested THEN dashboard.of[n].best
                        ELSE dashboard.of[n].candidates
FinishedPlotsAgree == verdict = "done" /\ turn > 0 => NoStalePicture /\ SameCandidates

(* The rows of a loaded study go under one name (see ReportRows).          *)
StudiesUnderOneName == \A s \in {r.study : r \in cells} : UnderOneName(s, cells)

(* A run with rows of a dataset that is displayed writes its document.     *)
RecommendationsWritten == Present # {} => verdict # "raised"
=============================================================================
