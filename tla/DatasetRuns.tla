---------------------------- MODULE DatasetRuns ----------------------------
(***************************************************************************)
(* scripts/study_runner.py above the level of one study: a command that    *)
(* runs several datasets, one after the other or (phase 1 alone) in a      *)
(* thread pool, exports leaderboards.json after each, and merges the grids *)
(* at the end.  A dataset's study itself is one step here (see             *)
(* StudyPhases); its export is taken apart, since the threads share one    *)
(* leaderboards.tmp.  A kill leaves the files as they are.                 *)
(***************************************************************************)
EXTENDS Integers, FiniteSets, Sequences

CONSTANTS
  NumDatasets,   \* the datasets of the command
  MaxWorkers,    \* bound on --workers
  MaxRuns,       \* bound on how often the command is started
  Plans,         \* what the preflight finds in each dataset (kind), whether the
                 \* horizon is pinned and whether the leakage policy is "fail"
  Label          \* the label of each dataset's grid (_dataset_label_from_csv)

VARIABLES
  parallel,   \* _can_parallel
  width,      \* datasets measured at once: 1, or the size of the pool
  plan,       \* what the preflights find, and the two options they depend on
  main,       \* the thread of the command
  runs,       \* starts of the command so far
  pc,         \* the thread, or the turn, of each dataset
  outcome,    \* what _run_single_dataset ended with
  written,    \* written_csvs, as collected
  narrated,   \* per_dataset_summaries: label -> dataset
  tmp, board, \* leaderboards.tmp and leaderboards.json
  fd          \* the file each dataset's writer has open

vars == <<parallel, width, plan, main, runs, pc, outcome, written, narrated,
          tmp, board, fd>>
setting == <<parallel, width, plan>>
files == <<tmp, board, fd>>

Datasets == 1..NumDatasets
Kinds == {"plain", "unreadable", "beyond", "overlapping", "uncheckable"}
Halves == 1..2
Empty == [h \in Halves |-> 0]
Absent == <<>>
Contents == [Halves -> 0..NumDatasets]
Whole(c) == \E d \in Datasets : c = [h \in Halves |-> d]

DatasetRunsAssumption ==
  /\ NumDatasets \in Nat \ {0} /\ MaxWorkers \in Nat \ {0} /\ MaxRuns \in Nat \ {0}
  /\ Plans \subseteq [kind : [Datasets -> Kinds], pinned : BOOLEAN, strict : BOOLEAN]

Busy == {d \in Datasets : pc[d] \notin {"waiting", "ended"}}
Grids == {d \in Datasets : outcome[d] = "grid"}
Collected(d) == \E i \in DOMAIN written : written[i] = d

Init ==
  /\ parallel \in (IF NumDatasets > 1 THEN BOOLEAN ELSE {FALSE})
  /\ width \in (IF parallel THEN {w \in 1..MaxWorkers : w <= NumDatasets} ELSE {1})
  /\ plan \in Plans
  /\ main = "running" /\ runs = 1
  /\ pc = [d \in Datasets |-> "waiting"] /\ outcome = [d \in Datasets |-> "none"]
  /\ written = <<>> /\ narrated = <<>>
  /\ tmp = Absent /\ board = Absent /\ fd = [d \in Datasets |-> "closed"]

(* What a slip in CanStart would be: a skipped dataset is waited for.      *)
CanStartIfCollected(d) ==
  /\ \A e \in Datasets : e < d => pc[e] # "waiting"
  /\ IF parallel
     THEN Cardinality(Busy) < width
     ELSE main = "running" /\ \A e \in Datasets : e < d => Collected(e)

(* The pool takes the datasets in order as threads come free, also after   *)
(* one has raised; the loop takes the next one once the last was collected *)
(* without an exception.                                                   *)
CanStart(d) ==
  /\ \A e \in Datasets : e < d => pc[e] # "waiting"
  /\ IF parallel
     THEN Cardinality(Busy) < width
     ELSE main = "running" /\ \A e \in Datasets : e < d => outcome[e] = "skipped" \/ Collected(e)

(* A file that cannot be loaded, queries that all lie beyond a pinned      *)
(* horizon, and an overlap that the policy refuses end the dataset.  A     *)
(* leakage check that fails raises in its own handler, whatever the policy.*)
Refused(d) ==
  \/ plan.kind[d] = "unreadable"
  \/ plan.kind[d] = "beyond" /\ plan.pinned
  \/ plan.kind[d] = "overlapping" /\ plan.strict

Leave(d, result) ==
  /\ pc' = [pc EXCEPT ![d] = "ended"]
  /\ outcome' = [outcome EXCEPT ![d] = result]
  /\ UNCHANGED <<setting, main, runs, written, narrated, files>>

Skip(d) == pc[d] = "waiting" /\ CanStart(d) /\ Refused(d) /\ Leave(d, "skipped")
CheckRaises(d) ==
  pc[d] = "waiting" /\ CanStart(d) /\ plan.kind[d] = "uncheckable" /\ Leave(d, "raised")
Measure(d) ==
  /\ pc[d] = "waiting" /\ CanStart(d) /\ ~Refused(d) /\ plan.kind[d] # "uncheckable"
  /\ pc' = [pc EXCEPT ![d] = "measuring"]
  /\ UNCHANGED <<setting, main, runs, outcome, written, narrated, files>>

(* The phases and the reports of the study: an exception of theirs leaves  *)
(* _run_single_dataset; the path of the grid is returned even when no cell *)
(* ran and no file was written.                                            *)
PhasesRaise(d) == pc[d] = "measuring" /\ Leave(d, "raised")
PhasesDone(d) ==
  /\ pc[d] = "measuring"
  /\ pc' = [pc EXCEPT ![d] = "measured"]
  /\ \E rows \in BOOLEAN :
       outcome' = [outcome EXCEPT ![d] = IF rows THEN "grid" ELSE "noGrid"]
  /\ UNCHANGED <<setting, main, runs, written, narrated, files>>

(* _write_leaderboards_json: open(tmp, "w") truncates the file that is     *)
(* there, a write goes to the file opened (wherever it has been moved),    *)
(* os.replace moves whatever tmp is then.                                  *)
OpenTmp(d) ==
  /\ pc[d] = "measured"
  /\ pc' = [pc EXCEPT ![d] = "opened"]
  /\ tmp' = Empty /\ fd' = [fd EXCEPT ![d] = "tmp"]
  /\ UNCHANGED <<setting, main, runs, outcome, written, narrated, board>>

WriteTo(d, half) ==
  /\ tmp' = IF fd[d] = "tmp" THEN [tmp EXCEPT ![half] = d] ELSE tmp
  /\ board' = IF fd[d] = "board" THEN [board EXCEPT ![half] = d] ELSE board

WriteFirst(d) ==
  /\ pc[d] = "opened" /\ WriteTo(d, 1)
  /\ pc' = [pc EXCEPT ![d] = "half"]
  /\ UNCHANGED <<setting, main, runs, outcome, written, narrated, fd>>
WriteSecond(d) ==
  /\ pc[d] = "half" /\ WriteTo(d, 2)
  /\ pc' = [pc EXCEPT ![d] = "dumped"] /\ fd' = [fd EXCEPT ![d] = "closed"]
  /\ UNCHANGED <<setting, main, runs, outcome, written, narrated>>

Moved == [e \in Datasets |-> IF fd[e] = "tmp" THEN "board"
                             ELSE IF fd[e] = "board" THEN "unlinked" ELSE fd[e]]
(* A slip in Replace: it is called inside the `with` block.                *)
ReplaceBeforeClose(d) ==
  /\ pc[d] = "half" /\ tmp # Absent
  /\ board' = tmp /\ tmp' = Absent /\ fd' = Moved
  /\ pc' = [pc EXCEPT ![d] = "ended"]
  /\ UNCHANGED <<setting, main, runs, outcome, written, narrated>>
Replace(d) ==
  /\ pc[d] = "dumped" /\ tmp # Absent
  /\ board' = tmp /\ tmp' = Absent /\ fd' = Moved
  /\ pc' = [pc EXCEPT ![d] = "ended"]
  /\ UNCHANGED <<setting, main, runs, outcome, written, narrated>>

(* An exception anywhere in the export is a warning; the file stays.       *)
ExportFails(d) ==
  /\ pc[d] \in {"measured", "opened", "half"} \/ (pc[d] = "dumped" /\ tmp = Absent)
  /\ pc' = [pc EXCEPT ![d] = "ended"] /\ fd' = [fd EXCEPT ![d] = "closed"]
  /\ UNCHANGED <<setting, main, runs, outcome, written, narrated, tmp, board>>

(* The command collects the datasets as they end.  An exception stops the  *)
(* collection; the pool still waits for the rest.                          *)
Collect(d) ==
  /\ main = "running" /\ pc[d] = "ended" /\ ~Collected(d)
  /\ IF outcome[d] = "raised"
     THEN main' = "raising" /\ UNCHANGED written
     ELSE outcome[d] \in {"grid", "noGrid"} /\ written' = Append(written, d) /\ UNCHANGED main
  /\ UNCHANGED <<setting, runs, pc, outcome, narrated, files>>

(* A slip in AllSeen: only the futures already done are looked at.         *)
DoneSeen ==
  \A d \in Datasets : pc[d] = "ended" => outcome[d] = "skipped" \/ Collected(d)
AllSeen ==
  \A d \in Datasets : pc[d] = "ended" /\ (outcome[d] = "skipped" \/ Collected(d))

(* `with` leaves the pool only when every dataset has ended.               *)
RunFails ==
  /\ main = "raising" /\ (parallel => \A d \in Datasets : pc[d] = "ended")
  /\ main' = "failed"
  /\ UNCHANGED <<setting, runs, pc, outcome, written, narrated, files>>

(* Fewer than two grids are not merged; a grid that was never written      *)
(* fails the merge; of two grids with one label the last is narrated.      *)
LastWith(l) ==
  written[CHOOSE i \in DOMAIN written :
            /\ Label[written[i]] = l
            /\ \A j \in DOMAIN written : Label[written[j]] = l => j <= i]
EndUnmerged ==
  /\ main = "running" /\ AllSeen /\ Len(written) <= 1
  /\ main' = "done"
  /\ UNCHANGED <<setting, runs, pc, outcome, written, narrated, files>>
Merge ==
  /\ main = "running" /\ AllSeen /\ Len(written) > 1
  /\ IF \A i \in DOMAIN written : outcome[written[i]] = "grid"
     THEN main' = "done" /\ narrated' = [l \in {Label[d] : d \in Grids} |-> LastWith(l)]
     ELSE main' = "failed" /\ UNCHANGED narrated
  /\ UNCHANGED <<setting, runs, pc, outcome, written, files>>

Kill ==
  /\ main \in {"running", "raising"}
  /\ main' = "killed"
  /\ UNCHANGED <<setting, runs, pc, outcome, written, narrated, files>>
(* The same command is started again, over the files it left.              *)
Restart ==
  /\ main \in {"killed", "failed", "done"} /\ runs < MaxRuns
  /\ runs' = runs + 1 /\ main' = "running"
  /\ pc' = [d \in Datasets |-> "waiting"] /\ outcome' = [d \in Datasets |-> "none"]
  /\ written' = <<>> /\ narrated' = <<>> /\ fd' = [d \in Datasets |-> "closed"]
  /\ UNCHANGED <<setting, tmp, board>>

Live == main \in {"running", "raising"}
Study(d) ==
  /\ Live
  /\ \/ Skip(d) \/ CheckRaises(d) \/ Measure(d) \/ PhasesRaise(d)
     \/ PhasesDone(d) \/ OpenTmp(d) \/ WriteFirst(d) \/ WriteSecond(d)
     \/ Replace(d) \/ ExportFails(d)
Command == (\E d \in Datasets : Collect(d)) \/ RunFails \/ EndUnmerged \/ Merge

(* A dataset that was started is not lost: the command ends well only with *)
(* all of them finished and every grid in the merged report (unless a      *)
(* later one has its label), badly only because of one that raised or left *)
(* no grid, and in the pool also then with all of them finished.           *)
NothingFinishedLost ==
  /\ main = "done" =>
       /\ \A d \in Datasets : pc[d] = "ended" /\ outcome[d] # "raised"
       /\ Cardinality(Grids) > 1 =>
            \A d \in Grids : \E e \in Grids :
              Label[e] = Label[d] /\ narrated[Label[d]] = e
  /\ main = "failed" => \E d \in Datasets : outcome[d] \in {"raised", "noGrid"}
  /\ main = "failed" /\ parallel => \A d \in Datasets : pc[d] = "ended"

(* The exported file is the whole report of one dataset ...                *)
BoardWhole == board = Absent \/ Whole(board)
(* ... when one dataset at a time is measured, through failures and kills. *)
BoardWholeAlone == width = 1 => BoardWhole

(* The command ends, whatever its datasets do.                             *)
CommandEnds == Live ~> ~Live

TypeOK ==
  /\ parallel \in BOOLEAN /\ plan \in Plans
  /\ width \in 1..MaxWorkers /\ (~parallel => width = 1)
  /\ main \in {"running", "raising", "failed", "done", "killed"} /\ runs \in 1..MaxRuns
  /\ pc \in [Datasets -> {"waiting", "measuring", "measured", "opened",
                          "half", "dumped", "ended"}]
  /\ outcome \in [Datasets -> {"none", "skipped", "raised", "grid", "noGrid"}]
  /\ written \in Seq(Datasets)
  /\ tmp \in Contents \cup {Absent} /\ board \in Contents \cup {Absent}
  /\ fd \in [Datasets -> {"closed", "tmp", "board", "unlinked"}]

Next == (\E d \in Datasets : Study(d)) \/ Command \/ Kill \/ Restart

(* A dataset's phases and its export come to an end, and so does the loop  *)
(* over the futures.  Nobody has to kill or restart the command.           *)
Fairness == (\A d \in Datasets : WF_vars(Study(d))) /\ WF_vars(Command)
Spec == Init /\ [][Next]_vars /\ Fairness
=============================================================================
