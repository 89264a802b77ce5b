---------------------------- MODULE ReportFiles ----------------------------
(***************************************************************************)
(* scripts/generate_reports.py as study_runner.py starts it: after every   *)
(* study a daemon thread scans the grids and rewrites the master table,    *)
(* the formula document and the dashboard's data in place.  The next study *)
(* goes on meanwhile and may start the next such thread; the end of the    *)
(* command stops them all.  The plots, which follow, are PlotFiles.        *)
(***************************************************************************)
EXTENDS Integers

CONSTANT NumStudies   \* bound on the studies, of one or of several commands

VARIABLES
  running,   \* the command runs
  grids,     \* studies whose grid is on disk
  gen,       \* the report thread of each study
  seen,      \* grids in its scan
  base,      \* the static sections it has read from the document
  table,     \* grids in master_results.csv and in reports_data.js, or Torn
  doc,       \* the sections in COMPOSITE_SCORE_FORMULA.md
  mixed,     \* the tables that two threads write at once
  stopped    \* a report thread was stopped or overtaken so far

reportVars == <<running, grids, gen, seen, base, table, doc, mixed, stopped>>

Studies == 1..NumStudies
Tables == {"master", "data"}
Torn == -1
(* The static sections before the generated one, and those after it.       *)
Sections == {"head", "results", "tail"}
NoFile == {"none"}
ReportFilesAssumption == NumStudies \in Nat

Active == {g \in Studies : gen[g] \notin {"none", "ended"}}

ReportsInit ==
  /\ running = TRUE /\ grids = 0
  /\ gen = [g \in Studies |-> "none"] /\ seen = [g \in Studies |-> 0]
  /\ base = [g \in Studies |-> {}]
  /\ table = [t \in Tables |-> 0] /\ mixed = {}
  /\ doc \in {NoFile, {"head", "tail"}, Sections} /\ stopped = FALSE

EndStudy ==
  /\ running /\ grids < NumStudies
  /\ grids' = grids + 1 /\ gen' = [gen EXCEPT ![grids + 1] = "scan"]
  /\ stopped' = (stopped \/ Active # {})
  /\ UNCHANGED <<running, seen, base, table, doc, mixed>>

To(g, step) == running /\ gen' = [gen EXCEPT ![g] = step]

ScanTooEarly(g) ==   \* a slip: the scan comes before the study's own grid
  /\ gen[g] = "scan" /\ To(g, "master")
  /\ seen' = [seen EXCEPT ![g] = grids - 1]
  /\ UNCHANGED <<running, grids, base, table, doc, mixed, stopped>>
Scan(g) ==
  /\ gen[g] = "scan" /\ To(g, "master")
  /\ seen' = [seen EXCEPT ![g] = grids]
  /\ UNCHANGED <<running, grids, base, table, doc, mixed, stopped>>

(* open(..., "w") truncates; of two writers at once either may prevail, in *)
(* whole or in part.                                                       *)
Opened(t) == IF t = "master" THEN "masterOpen" ELSE "dataOpen"
OpenTable(g, t) ==
  /\ gen[g] = t /\ To(g, Opened(t))
  /\ table' = [table EXCEPT ![t] = Torn]
  /\ mixed' = IF \E h \in Studies : gen[h] = Opened(t) THEN mixed \cup {t} ELSE mixed \ {t}
  /\ UNCHANGED <<running, grids, seen, base, doc, stopped>>
WriteTable(g, t) ==
  /\ gen[g] = Opened(t)
  /\ \E n \in {seen[g]} \cup (IF t \in mixed THEN {Torn} ELSE {}) :
       table' = [table EXCEPT ![t] = n]
  /\ UNCHANGED <<running, grids, seen, base, doc, mixed, stopped>>
WriteMaster(g) == WriteTable(g, "master") /\ To(g, "doc")
WriteData(g) == WriteTable(g, "data") /\ To(g, "ended")

(* The document is read up to its generated section (all of it if it has   *)
(* none yet, a stub if there is no file), then opened (and truncated) and  *)
(* written again with what was read: what followed the section is gone.    *)
ReadDoc(g) ==
  /\ gen[g] = "doc" /\ To(g, "read")
  /\ base' = [base EXCEPT ![g] = CASE doc = NoFile -> {"head"}
                                   [] "results" \in doc -> doc \cap {"head"}
                                   [] OTHER -> doc]
  /\ UNCHANGED <<running, grids, seen, table, doc, mixed, stopped>>
OpenDoc(g) ==
  /\ gen[g] = "read" /\ To(g, "text")
  /\ doc' = {}
  /\ UNCHANGED <<running, grids, seen, base, table, mixed, stopped>>
WriteDoc(g) ==
  /\ gen[g] = "text" /\ To(g, "data")
  /\ doc' = base[g] \cup {"results"}
  /\ UNCHANGED <<running, grids, seen, base, table, mixed, stopped>>

(* The interpreter ends without waiting for daemon threads; they never go  *)
(* on, and a new command finds the files as they are.                      *)
Exit ==
  /\ running /\ running' = FALSE
  /\ stopped' = (stopped \/ Active # {})
  /\ gen' = [g \in Studies |-> IF g \in Active THEN "ended" ELSE gen[g]]
  /\ UNCHANGED <<grids, seen, base, table, doc, mixed>>
NewCommand ==
  /\ ~running /\ running' = TRUE
  /\ UNCHANGED <<grids, gen, seen, base, table, doc, mixed, stopped>>

(* generate() of one report thread.  It returns early when no study has    *)
(* rows (PlotFiles.Load); here one has just ended, and its grid is found.  *)
(* The scan is one step: a grid closed while it goes on is seen or not.    *)
Generate(g) ==
  \/ Scan(g) \/ (\E t \in Tables : OpenTable(g, t)) \/ WriteMaster(g)
  \/ ReadDoc(g) \/ OpenDoc(g) \/ WriteDoc(g) \/ WriteData(g)
ReportsNext == EndStudy \/ (\E g \in Studies : Generate(g)) \/ Exit \/ NewCommand
ReportsSpec == ReportsInit /\ [][ReportsNext]_reportVars

(* As long as no report thread was stopped or overtaken, the reports of    *)
(* the last study cover every study, and the document keeps the static     *)
(* sections before its results.                                            *)
ReportsCurrentUnlessCut ==
  ~stopped /\ Active = {} /\ grids > 0 => table = [t \in Tables |-> grids] /\ "head" \in doc

ReportsTypeOK ==
  /\ running \in BOOLEAN /\ grids \in 0..NumStudies
  /\ gen \in [Studies -> {"none", "scan", "master", "masterOpen", "doc", "read", "text",
                         "data", "dataOpen", "ended"}]
  /\ seen \in [Studies -> 0..NumStudies] /\ base \in [Studies -> SUBSET Sections]
  /\ table \in [Tables -> {Torn} \cup 0..NumStudies] /\ mixed \subseteq Tables
  /\ doc \in {NoFile} \cup SUBSET Sections /\ stopped \in BOOLEAN
=============================================================================
