---------------------------- MODULE StudyDriver ----------------------------
(***************************************************************************)
(* scripts/study_runner.py and the scripts it calls, at six scales: the   *)
(* datasets of a command (DatasetRuns), the phases of one dataset's study  *)
(* (StudyPhases), the policies of its decay phase (DecaySweep), the files  *)
(* a dataset is prepared from (DatasetFiles), the reports that follow a    *)
(* study (ReportFiles) and the pictures and recommendations drawn from all *)
(* studies (PlotFiles).  Each takes the others as one step or as an input  *)
(* left open, so a behaviour is one of the six.                            *)
(***************************************************************************)
EXTENDS DatasetRuns, StudyPhases, DecaySweep, DatasetFiles, ReportFiles

CONSTANTS
  StudyGrids, CountName, StemName, DisplayOrder,   \* see ReportRows
  MaxGrids, MaxPlots                               \* see PlotFiles

VARIABLES
  part,
  disk, cells, turn, dataset, slot, verdict, pictures, dashboard, document

plotVars == <<disk, cells, turn, dataset, slot, verdict, pictures, dashboard, document>>
allVars == <<part, vars, phaseVars, sweepVars, fileVars, reportVars, plotVars>>

Plot == INSTANCE PlotFiles

ASSUME DriverAssumption ==
  /\ DatasetRunsAssumption
  /\ StudyPhasesAssumption
  /\ DecaySweepAssumption
  /\ DatasetFilesAssumption
  /\ ReportFilesAssumption
  /\ Plot!PlotFilesAssumption

(* The parts a behaviour is not about. *)
NoDatasets ==
  /\ parallel = FALSE /\ width = 1 /\ plan = <<>> /\ main = "done" /\ runs = 1
  /\ pc = [d \in Datasets |-> "ended"] /\ outcome = [d \in Datasets |-> "none"]
  /\ written = <<>> /\ narrated = <<>> /\ tmp = Absent /\ board = Absent /\ fd = <<>>
NoPhases ==
  /\ setup = (CHOOSE s \in Setups : TRUE) /\ progress = "none" /\ at = 1 /\ seed = 1
  /\ rows = {} /\ best = Defaults /\ winner = Nothing /\ final = Nothing
NoDecay ==
  /\ dense = FALSE /\ check = FALSE /\ patience = 0 /\ sweep = "none" /\ next = 1
  /\ futile = {} /\ broad = <<>> /\ noImprove = 0 /\ zoomed = {}
  /\ anyDecay = FALSE /\ floors = FALSE
NoFiles ==
  /\ source = <<>> /\ library = FALSE /\ raw = "none" /\ middle = "none"
  /\ gold = "none" /\ stage = "none" /\ starts = 0 /\ cut = FALSE
NoReports ==
  /\ running = FALSE /\ grids = 0 /\ gen = [g \in Studies |-> "none"] /\ seen = <<>> /\ base = <<>>
  /\ table = <<>> /\ doc = {} /\ mixed = {} /\ stopped = FALSE

NoPlots ==
  /\ disk = {} /\ cells = {} /\ turn = 0 /\ dataset = 1 /\ slot = "none"
  /\ verdict = "none" /\ pictures = <<>> /\ dashboard = <<>> /\ document = <<>>

DriverInit ==
  \/ /\ part = "datasets" /\ Init
     /\ NoPhases /\ NoDecay /\ NoFiles /\ NoReports /\ NoPlots
  \/ /\ part = "phases" /\ PhasesInit
     /\ NoDatasets /\ NoDecay /\ NoFiles /\ NoReports /\ NoPlots
  \/ /\ part = "decay" /\ SweepInit
     /\ NoDatasets /\ NoPhases /\ NoFiles /\ NoReports /\ NoPlots
  \/ /\ part = "files" /\ FilesInit
     /\ NoDatasets /\ NoPhases /\ NoDecay /\ NoReports /\ NoPlots
  \/ /\ part = "reports" /\ ReportsInit
     /\ NoDatasets /\ NoPhases /\ NoDecay /\ NoFiles /\ NoPlots
  \/ /\ part = "plots" /\ Plot!PlotInit
     /\ NoDatasets /\ NoPhases /\ NoDecay /\ NoFiles /\ NoReports

OfDatasets(A) ==
  /\ part = "datasets" /\ A
  /\ UNCHANGED <<part, phaseVars, sweepVars, fileVars, reportVars, plotVars>>
RunDatasets == OfDatasets(Next)
RunPhases ==
  /\ part = "phases" /\ PhasesNext
  /\ UNCHANGED <<part, vars, sweepVars, fileVars, reportVars, plotVars>>
RunDecay ==
  /\ part = "decay" /\ SweepNext
  /\ UNCHANGED <<part, vars, phaseVars, fileVars, reportVars, plotVars>>
RunFiles ==
  /\ part = "files" /\ FilesNext
  /\ UNCHANGED <<part, vars, phaseVars, sweepVars, reportVars, plotVars>>
RunReports ==
  /\ part = "reports" /\ ReportsNext
  /\ UNCHANGED <<part, vars, phaseVars, sweepVars, fileVars, plotVars>>
RunPlots ==
  /\ part = "plots" /\ Plot!PlotNext
  /\ UNCHANGED <<part, vars, phaseVars, sweepVars, fileVars, reportVars>>

DriverNext ==
  RunDatasets \/ RunPhases \/ RunDecay \/ RunFiles \/ RunReports \/ RunPlots

(* As in DatasetRuns: a dataset's thread and the loop over them go on.     *)
DriverFairness ==
  /\ \A d \in Datasets : WF_allVars(OfDatasets(Study(d)))
  /\ WF_allVars(OfDatasets(Command))

DriverSpec == DriverInit /\ [][DriverNext]_allVars /\ DriverFairness

(* The properties of the parts are stated there, and hold of a part that   *)
(* is idle; those of the pictures are taken of their part alone.           *)
(* A study's rows go under one name in the reports (PlotFiles).            *)
StudiesUnderOneName == part = "plots" => Plot!StudiesUnderOneName
(* A finished run leaves no stale picture, and one candidate (PlotFiles).  *)
FinishedPlotsAgree == part = "plots" => Plot!FinishedPlotsAgree
(* The recommendations are written (PlotFiles): not for every study.       *)
RecommendationsWritten == part = "plots" => Plot!RecommendationsWritten
=============================================================================
