------------------------- MODULE StudyDriver_proofs -------------------------
(***************************************************************************)
(* Theorems about StudyDriver, for every value of its constants.  Each of  *)
(* the first sections is about one part and its own steps; the last says   *)
(* the same of the driver, in which a behaviour is one of the parts.       *)
(***************************************************************************)
EXTENDS StudyDriver, FiniteSetTheorems, WellFoundedInduction, TLAPS

(***************************************************************************)
(* DatasetRuns: for any number of datasets, workers and starts: its type   *)
(* invariant, that a command which measures one dataset at a time exports  *)
(* whole reports only, and that no dataset is lost.                        *)
(***************************************************************************)

RunsSpec == Init /\ [][Next]_vars     \* safety needs no fairness

LEMMA RunsTypes == ASSUME DatasetRunsAssumption PROVE RunsSpec => []TypeOK
<1>1. Init => TypeOK
  <2> SUFFICES ASSUME Init PROVE TypeOK
    OBVIOUS
  <2>1. parallel \in BOOLEAN
    <3>1. parallel \in (IF NumDatasets > 1 THEN BOOLEAN ELSE {FALSE})
      BY DEF Init
    <3> QED BY <3>1, Zenon
  <2>2. width \in 1..MaxWorkers /\ (~parallel => width = 1)
    <3>1. width \in (IF parallel THEN {w \in 1..MaxWorkers : w <= NumDatasets} ELSE {1})
      BY DEF Init
    <3>2. 1 \in 1..MaxWorkers
      BY DEF DatasetRunsAssumption
    <3>3. CASE parallel
      BY <3>1, <3>3
    <3>4. CASE ~parallel
      BY <3>1, <3>2, <3>4
    <3> QED BY <3>3, <3>4
  <2>3. runs \in 1..MaxRuns
    BY DEF Init, DatasetRunsAssumption
  <2> QED BY <2>1, <2>2, <2>3 DEF Init, TypeOK
<1>2. TypeOK /\ [Next]_vars => TypeOK'
  <2> SUFFICES ASSUME TypeOK, [Next]_vars PROVE TypeOK'
    OBVIOUS
  <2> USE DEF TypeOK, setting, files
  <2>1. ASSUME NEW d \in Datasets, Study(d) PROVE TypeOK'
    <3>1. CASE Skip(d) \/ CheckRaises(d) \/ PhasesRaise(d)
      BY <3>1 DEF Skip, CheckRaises, PhasesRaise, Leave
    <3>2. CASE Measure(d)
      BY <3>2 DEF Measure
    <3>3. CASE PhasesDone(d)
      BY <3>3 DEF PhasesDone
    <3>4. CASE OpenTmp(d)
      <4>1. Empty \in Contents
        BY DEF Empty, Contents, Halves, DatasetRunsAssumption
      <4> QED BY <3>4, <4>1 DEF OpenTmp
    <3>5. ASSUME NEW half \in Halves, WriteTo(d, half)
          PROVE tmp' \in Contents \cup {Absent} /\ board' \in Contents \cup {Absent}
      <4>1. d \in 0..NumDatasets
        BY DEF Datasets, DatasetRunsAssumption
      <4>2. \A c \in Contents \cup {Absent} : [c EXCEPT ![half] = d] \in Contents \cup {Absent}
        <5> TAKE c \in Contents \cup {Absent}
        <5>1. CASE c \in Contents
          BY <5>1, <4>1 DEF Contents
        <5>2. CASE c = Absent
          <6>1. DOMAIN c = {} /\ DOMAIN [c EXCEPT ![half] = d] = {}
            BY <5>2 DEF Absent
          <6>2. [c EXCEPT ![half] = d] = Absent
            BY <6>1, <5>2 DEF Absent
          <6> QED BY <6>2
        <5> QED BY <5>1, <5>2
      <4> QED BY <3>5, <4>2 DEF WriteTo
    <3>6. CASE WriteFirst(d)
      BY <3>6, <3>5 DEF WriteFirst, Halves
    <3>7. CASE WriteSecond(d)
      BY <3>7, <3>5 DEF WriteSecond, Halves
    <3>8. CASE Replace(d)
      BY <3>8 DEF Replace, Moved
    <3>9. CASE ExportFails(d)
      BY <3>9 DEF ExportFails
    <3> QED BY <2>1, <3>1, <3>2, <3>3, <3>4, <3>6, <3>7, <3>8, <3>9 DEF Study
  <2>2. ASSUME NEW d \in Datasets, Collect(d) PROVE TypeOK'
    BY <2>2 DEF Collect
  <2>3. CASE RunFails \/ EndUnmerged \/ Merge
    BY <2>3 DEF RunFails, EndUnmerged, Merge
  <2>4. CASE Kill
    BY <2>4 DEF Kill
  <2>5. CASE Restart
    BY <2>5 DEF Restart, DatasetRunsAssumption
  <2>6. CASE UNCHANGED vars
    BY <2>6 DEF vars
  <2> QED BY <2>1, <2>2, <2>3, <2>4, <2>5, <2>6 DEF Next, Command
<1> QED BY <1>1, <1>2, PTL DEF RunsSpec

(***************************************************************************)
(* BoardWholeAlone is not inductive: that the file a replace publishes is  *)
(* whole rests on whose turn it is.  Datasets are taken in order, one that *)
(* was skipped or collected has ended, and while one is measured at a time *)
(* a single dataset is busy, leaderboards.tmp is open in its hands alone,  *)
(* and it holds what that dataset has written so far.                      *)
(***************************************************************************)
InOrder == \A d, e \in Datasets : e < d /\ pc[d] # "waiting" => pc[e] # "waiting"
Settled ==
  /\ \A d \in Datasets : outcome[d] = "skipped" => pc[d] = "ended"
  /\ \A d \in Datasets : Collected(d) => pc[d] = "ended"
OneBusy == \A d, e \in Busy : d = e
OwnTmp ==
  \A d \in Datasets :
    /\ fd[d] = IF pc[d] \in {"opened", "half"} THEN "tmp" ELSE "closed"
    /\ pc[d] = "opened" => tmp \in Contents
    /\ pc[d] = "half" => tmp \in Contents /\ tmp[1] = d
    /\ pc[d] = "dumped" => tmp = [h \in Halves |-> d]
Alone == InOrder /\ Settled /\ OneBusy /\ OwnTmp /\ BoardWhole

(* When a dataset may start, no other is at work: in the pool of one the   *)
(* count says so; in the loop the earlier ones have ended and the later    *)
(* ones wait.                                                              *)
LEMMA StartsAlone ==
  ASSUME DatasetRunsAssumption, TypeOK, width = 1, InOrder, Settled,
         NEW d \in Datasets, pc[d] = "waiting", CanStart(d)
  PROVE  Busy = {}
<1>1. CASE parallel
  <2>1. IsFiniteSet(Busy)
    <3>1. IsFiniteSet(Datasets)
      BY FS_Interval DEF Datasets, DatasetRunsAssumption
    <3> QED BY <3>1, FS_Subset DEF Busy
  <2>2. Cardinality(Busy) < 1
    BY <1>1 DEF CanStart
  <2>3. Cardinality(Busy) = 0
    BY <2>1, <2>2, FS_CardinalityType
  <2> QED BY <2>1, <2>3, FS_EmptySet
<1>2. CASE ~parallel
  <2>1. ASSUME NEW e \in Datasets PROVE e \notin Busy
    <3>1. CASE e < d
      BY <1>2, <3>1 DEF CanStart, Settled, Busy
    <3>2. CASE d < e
      BY <3>2 DEF InOrder, Busy
    <3> QED BY <3>1, <3>2 DEF Busy, Datasets, DatasetRunsAssumption
  <2> QED BY <2>1 DEF Busy
<1> QED BY <1>1, <1>2

(* A step that leaves the datasets and the files alone.                    *)
LEMMA AloneFrame ==
  ASSUME Alone, UNCHANGED <<pc, outcome, written, tmp, board, fd>>
  PROVE  Alone'
BY DEF Alone, InOrder, Settled, OneBusy, OwnTmp, BoardWhole, Busy, Collected, Whole

(* A dataset that ends without having opened the file.                     *)
LEMMA AloneLeave ==
  ASSUME TypeOK, Alone, NEW d \in Datasets, NEW result, Leave(d, result),
         pc[d] \in {"waiting", "measuring"},
         \A e \in Datasets : e < d => pc[e] # "waiting"
  PROVE  Alone'
<1> USE DEF Alone, Leave, files
<1>1. pc' = [pc EXCEPT ![d] = "ended"] /\ pc = [e \in Datasets |-> pc[e]]
  BY DEF TypeOK
<1>2. InOrder'
  BY <1>1 DEF InOrder
<1>3. Settled'
  BY <1>1 DEF Settled, Collected, TypeOK
<1>4. OneBusy'
  BY <1>1 DEF OneBusy, Busy
<1>5. OwnTmp'
  BY <1>1 DEF OwnTmp
<1>6. BoardWhole'
  BY DEF BoardWhole, Whole
<1> QED BY <1>2, <1>3, <1>4, <1>5, <1>6

(* A busy dataset goes on; what it writes is its own.                      *)
LEMMA AloneGoesOn ==
  ASSUME TypeOK, Alone, NEW d \in Busy, NEW to \in {"measured", "opened", "half", "dumped", "ended"},
         pc' = [pc EXCEPT ![d] = to], UNCHANGED written,
         \A e \in Datasets \ {d} : outcome'[e] = outcome[e] /\ fd'[e] = fd[e],
         outcome'[d] # "skipped",
         fd'[d] = IF to \in {"opened", "half"} THEN "tmp" ELSE "closed",
         to = "opened" => tmp' \in Contents,
         to = "half" => tmp' \in Contents /\ tmp'[1] = d,
         to = "dumped" => tmp' = [h \in Halves |-> d],
         BoardWhole'
  PROVE  Alone'
<1> USE DEF Alone
<1>1. d \in Datasets /\ pc[d] \notin {"waiting", "ended"} /\ pc = [e \in Datasets |-> pc[e]]
  BY DEF Busy, TypeOK
<1>2. \A e \in Datasets \ {d} : pc'[e] = pc[e] /\ pc[e] \in {"waiting", "ended"}
  BY <1>1 DEF OneBusy, Busy
<1>3. pc'[d] = to
  BY <1>1
<1>4. InOrder'
  BY <1>1, <1>2, <1>3 DEF InOrder
<1>5. Settled'
  BY <1>1, <1>2, <1>3 DEF Settled, Collected
<1>6. OneBusy'
  BY <1>2 DEF OneBusy, Busy
<1>7. OwnTmp'
  BY <1>1, <1>2, <1>3 DEF OwnTmp
<1> QED BY <1>4, <1>5, <1>6, <1>7

LEMMA AloneInit == ASSUME Init PROVE Alone
BY DEF Init, Alone, InOrder, Settled, OneBusy, OwnTmp, BoardWhole, Busy, Collected

LEMMA AloneStudy ==
  ASSUME DatasetRunsAssumption, TypeOK, width = 1, Alone, NEW d \in Datasets, Study(d)
  PROVE  Alone'
<1> USE DEF setting, files
<1>1. CASE Skip(d) \/ CheckRaises(d)
  <2>1. pc[d] = "waiting" /\ CanStart(d) /\ (Leave(d, "skipped") \/ Leave(d, "raised"))
    BY <1>1 DEF Skip, CheckRaises
  <2>2. \A e \in Datasets : e < d => pc[e] # "waiting"
    BY <2>1 DEF CanStart
  <2> QED BY <2>1, <2>2, AloneLeave
<1>2. CASE PhasesRaise(d)
  BY <1>2, AloneLeave DEF PhasesRaise, Alone, InOrder
<1>3. CASE Measure(d)
  <2>1. pc[d] = "waiting" /\ CanStart(d) /\ pc' = [pc EXCEPT ![d] = "measuring"]
        /\ UNCHANGED <<outcome, written, tmp, board, fd>> /\ pc = [e \in Datasets |-> pc[e]]
    BY <1>3 DEF Measure, TypeOK
  <2>2. Busy = {}
    BY <2>1, StartsAlone DEF Alone
  <2>3. InOrder'
    BY <2>1 DEF Alone, InOrder, CanStart
  <2>4. Settled'
    BY <2>1 DEF Alone, Settled, Collected
  <2>5. OneBusy'
    BY <2>1, <2>2 DEF OneBusy, Busy
  <2>6. OwnTmp'
    BY <2>1 DEF Alone, OwnTmp
  <2>7. BoardWhole'
    BY <2>1 DEF Alone, BoardWhole, Whole
  <2> QED BY <2>3, <2>4, <2>5, <2>6, <2>7 DEF Alone
<1>4. CASE PhasesDone(d)
  <2>1. d \in Busy /\ outcome'[d] # "skipped" /\ fd[d] = "closed"
    BY <1>4 DEF PhasesDone, Busy, TypeOK, Alone, OwnTmp
  <2>2. BoardWhole'
    BY <1>4 DEF PhasesDone, Alone, BoardWhole, Whole
  <2> QED BY <1>4, <2>1, <2>2, AloneGoesOn DEF PhasesDone, TypeOK
<1>5. CASE OpenTmp(d) \/ WriteFirst(d) \/ WriteSecond(d) \/ Replace(d) \/ ExportFails(d)
  <2>1. d \in Busy /\ outcome[d] # "skipped"
    BY <1>5 DEF OpenTmp, WriteFirst, WriteSecond, Replace, ExportFails, Busy, Alone, Settled
  <2>2. \A e \in Datasets \ {d} : fd[e] = "closed"
    BY <2>1 DEF Alone, OneBusy, OwnTmp, Busy
  <2>3. CASE OpenTmp(d)
    <3>1. Empty \in Contents
      BY DEF Empty, Contents, Halves, DatasetRunsAssumption
    <3>2. BoardWhole'
      BY <2>3 DEF OpenTmp, Alone, BoardWhole, Whole
    <3> QED BY <2>1, <2>3, <3>1, <3>2, AloneGoesOn DEF OpenTmp, TypeOK
  <2>4. CASE WriteFirst(d)
    <3>1. fd[d] = "tmp" /\ tmp \in Contents
      BY <2>4 DEF WriteFirst, Alone, OwnTmp
    <3>2. tmp' = [tmp EXCEPT ![1] = d] /\ board' = board
      BY <2>4, <3>1 DEF WriteFirst, WriteTo
    <3>3. tmp' \in Contents /\ tmp'[1] = d
      BY <3>1, <3>2 DEF Contents, Halves, Datasets, DatasetRunsAssumption
    <3>4. BoardWhole'
      BY <3>2 DEF Alone, BoardWhole, Whole
    <3> QED BY <2>1, <2>4, <3>1, <3>3, <3>4, AloneGoesOn DEF WriteFirst
  <2>5. CASE WriteSecond(d)
    <3>1. fd[d] = "tmp" /\ tmp \in Contents /\ tmp[1] = d
      BY <2>5 DEF WriteSecond, Alone, OwnTmp
    <3>2. tmp' = [tmp EXCEPT ![2] = d] /\ board' = board
      BY <2>5, <3>1 DEF WriteSecond, WriteTo
    <3>3. tmp' = [h \in Halves |-> d]
      <4>1. tmp' = [h \in Halves |-> IF h = 2 THEN d ELSE tmp[h]]
        BY <3>1, <3>2 DEF Contents
      <4>2. \A h \in Halves : (IF h = 2 THEN d ELSE tmp[h]) = d
        BY <3>1 DEF Halves
      <4> QED BY <4>1, <4>2
    <3>4. BoardWhole'
      BY <3>2 DEF Alone, BoardWhole, Whole
    <3> QED BY <2>1, <2>5, <3>3, <3>4, AloneGoesOn DEF WriteSecond, TypeOK
  <2>6. CASE Replace(d)
    <3>1. board' = [h \in Halves |-> d]
      BY <2>6 DEF Replace, Alone, OwnTmp
    <3>2. BoardWhole'
      BY <3>1 DEF BoardWhole, Whole
    <3>3. \A e \in Datasets : fd[e] = "closed"
      BY <2>2, <2>6 DEF Replace, Alone, OwnTmp
    <3>4. \A e \in Datasets : fd'[e] = "closed"
      BY <2>6, <3>3 DEF Replace, Moved
    <3> QED BY <2>1, <2>6, <3>2, <3>3, <3>4, AloneGoesOn DEF Replace
  <2>7. CASE ExportFails(d)
    <3>1. BoardWhole'
      BY <2>7 DEF ExportFails, Alone, BoardWhole, Whole
    <3> QED BY <2>1, <2>7, <3>1, AloneGoesOn DEF ExportFails, TypeOK
  <2> QED BY <1>5, <2>3, <2>4, <2>5, <2>6, <2>7
<1> QED BY <1>1, <1>2, <1>3, <1>4, <1>5 DEF Study

LEMMA BoardInRuns == ASSUME DatasetRunsAssumption PROVE RunsSpec => []BoardWholeAlone
<1>1. Init => (width = 1 => Alone)
  BY AloneInit
<1>2. TypeOK /\ (width = 1 => Alone) /\ [Next]_vars => (width = 1 => Alone)'
  <2> SUFFICES ASSUME TypeOK, width = 1 => Alone, [Next]_vars, width' = 1 PROVE Alone'
    OBVIOUS
  <2> USE DEF setting, files
  <2>1. ASSUME NEW d \in Datasets, Study(d) PROVE Alone'
    <3>1. width = 1
      BY <2>1 DEF Study, Skip, CheckRaises, PhasesRaise, Leave, Measure, PhasesDone,
                  OpenTmp, WriteFirst, WriteSecond, Replace, ExportFails
    <3> QED BY <2>1, <3>1, AloneStudy
  <2>2. ASSUME NEW d \in Datasets, Collect(d) PROVE Alone'
    <3>1. width = 1 /\ pc[d] = "ended" /\ UNCHANGED <<pc, outcome, tmp, board, fd>>
      BY <2>2 DEF Collect
    <3>2. \A e \in Datasets : Collected(e)' => e = d \/ Collected(e)
      BY <2>2 DEF Collect, Collected, TypeOK
    <3> QED BY <3>1, <3>2 DEF Alone, InOrder, Settled, OneBusy, OwnTmp, BoardWhole, Busy, Whole
  <2>3. CASE RunFails \/ EndUnmerged \/ Merge \/ Kill \/ UNCHANGED vars
    BY <2>3, AloneFrame DEF RunFails, EndUnmerged, Merge, Kill, vars
  <2>4. CASE Restart
    <3>1. width = 1
      BY <2>4 DEF Restart
    <3> QED BY <2>4, <3>1
            DEF Restart, Alone, InOrder, Settled, OneBusy, OwnTmp, BoardWhole, Busy, Whole, Collected
  <2> QED BY <2>1, <2>2, <2>3, <2>4 DEF Next, Command
<1>3. (width = 1 => Alone) => BoardWholeAlone
  BY DEF Alone, BoardWholeAlone
<1> QED BY <1>1, <1>2, <1>3, RunsTypes, PTL DEF RunsSpec

(***************************************************************************)
(* NothingFinishedLost: what was collected had ended with a grid or        *)
(* without one, what raised has ended, and a command that is about to fail *)
(* has met one that raised.                                                *)
(***************************************************************************)
Kept ==
  /\ \A i \in DOMAIN written : pc[written[i]] = "ended" /\ outcome[written[i]] \in {"grid", "noGrid"}
  /\ \A d \in Datasets : outcome[d] = "raised" => pc[d] = "ended"
  /\ main = "raising" => \E d \in Datasets : outcome[d] = "raised"
  /\ NothingFinishedLost

(* A list has a last entry with a given label if it has one at all: the    *)
(* one with the fewest indexes after it.                                   *)
LEMMA LastOne ==
  ASSUME TypeOK, NEW l, NEW k \in DOMAIN written, Label[written[k]] = l
  PROVE  \E i \in DOMAIN written :
           /\ Label[written[i]] = l
           /\ \A j \in DOMAIN written : Label[written[j]] = l => j <= i
<1> DEFINE n == Len(written)
           I == {i \in 1..n : Label[written[i]] = l}
           After(i) == (i + 1)..n
           T == {After(i) : i \in I}
<1>1. n \in Nat /\ DOMAIN written = 1..n
  BY DEF TypeOK
<1>2. IsFiniteSet(1..n)
  BY <1>1, FS_Interval
<1>3. IsWellFoundedOn(StrictSubsetOrdering(1..n), SUBSET (1..n))
  BY <1>2, FS_StrictSubsetOrderingWellFounded, FS_FiniteSubsetsOfFinite
<1>4. T \subseteq SUBSET (1..n) /\ T # {}
  BY <1>1
<1>5. PICK x \in T : \A y \in T : <<y, x>> \notin StrictSubsetOrdering(1..n)
  BY <1>3, <1>4, WFMin
<1>6. PICK i \in I : x = After(i)
  OBVIOUS
<1>7. ASSUME NEW j \in I, j > i PROVE FALSE
  <2>1. i \in Int /\ j \in Int /\ j <= n
    BY <1>1
  <2>2. After(j) \subseteq After(i) /\ j \in After(i) /\ j \notin After(j)
    BY <1>1, <1>7, <2>1
  <2>3. After(j) \in T /\ After(i) \in T
    OBVIOUS
  <2>4. <<After(j), After(i)>> \in StrictSubsetOrdering(1..n)
    BY <1>4, <2>2, <2>3 DEF StrictSubsetOrdering
  <2> QED BY <1>5, <1>6, <2>3, <2>4
<1> QED BY <1>1, <1>6, <1>7

(* A dataset's own steps are taken only while the command lives.           *)
LEMMA KeptStudy ==
  ASSUME TypeOK, Kept, NEW d \in Datasets, Study(d)
  PROVE  Kept'
<1>1. main \in {"running", "raising"} /\ main' = main /\ written' = written
  BY DEF Study, Live, Skip, CheckRaises, Measure, PhasesRaise, PhasesDone, Leave,
         OpenTmp, WriteFirst, WriteSecond, Replace, ExportFails
<1>2. /\ \A e \in Datasets \ {d} : pc'[e] = pc[e] /\ outcome'[e] = outcome[e]
      /\ pc[d] # "ended"
      /\ outcome'[d] \in {"raised", "skipped"} => pc'[d] = "ended" \/ outcome'[d] = outcome[d]
  BY DEF TypeOK, Study, Skip, CheckRaises, Measure, PhasesRaise, PhasesDone, Leave,
         OpenTmp, WriteFirst, WriteSecond, Replace, ExportFails
<1>3. \A i \in DOMAIN written : written[i] \in Datasets \ {d}
  BY <1>2 DEF Kept, TypeOK
<1> QED BY <1>1, <1>2, <1>3 DEF Kept, NothingFinishedLost

(* A command that ends has seen every dataset.                             *)
LEMMA KeptEnd ==
  ASSUME DatasetRunsAssumption, TypeOK, Kept, EndUnmerged
  PROVE  NothingFinishedLost'
<1>1. \A d \in Datasets : pc'[d] = "ended" /\ outcome'[d] # "raised"
  BY DEF EndUnmerged, AllSeen, Collected, Kept
<1>2. Cardinality(Grids) <= 1
  <2>1. \A d \in Grids : d = written[1]
    BY DEF EndUnmerged, AllSeen, Collected, Grids, TypeOK
  <2>2. IsFiniteSet({written[1]}) /\ Cardinality({written[1]}) = 1
    BY FS_Singleton
  <2>3. Grids \in SUBSET {written[1]}
    BY <2>1
  <2> QED BY <2>2, <2>3, FS_Subset
<1>3. ~(Cardinality(Grids) > 1)
  <2>1. IsFiniteSet(Grids)
    <3>1. IsFiniteSet(Datasets)
      BY FS_Interval DEF Datasets, DatasetRunsAssumption
    <3> QED BY <3>1, FS_Subset DEF Grids
  <2> QED BY <1>2, <2>1, FS_CardinalityType
<1>4. Grids' = Grids /\ main' = "done"
  BY DEF EndUnmerged, Grids
<1> QED BY <1>1, <1>3, <1>4 DEF NothingFinishedLost

LEMMA KeptMerge ==
  ASSUME TypeOK, Kept, Merge
  PROVE  NothingFinishedLost'
<1>1. /\ \A d \in Datasets : pc'[d] = "ended" /\ outcome'[d] # "raised"
      /\ UNCHANGED <<pc, outcome, written>>
  BY DEF Merge, AllSeen, Collected, Kept
<1>2. CASE \A i \in DOMAIN written : outcome[written[i]] = "grid"
  <2>1. main' = "done" /\ narrated' = [l \in {Label[d] : d \in Grids} |-> LastWith(l)]
    BY <1>2 DEF Merge
  <2>2. ASSUME NEW d \in Grids
        PROVE  \E e \in Grids : Label[e] = Label[d] /\ narrated'[Label[d]] = e
    <3>1. PICK k \in DOMAIN written : written[k] = d
      BY DEF Merge, AllSeen, Collected, Grids
    <3> DEFINE Last(i) ==
          /\ Label[written[i]] = Label[d]
          /\ \A j \in DOMAIN written : Label[written[j]] = Label[d] => j <= i
    <3>2. \E i \in DOMAIN written : Last(i)
      BY <3>1, LastOne
    <3>3. PICK i \in DOMAIN written : Last(i) /\ LastWith(Label[d]) = written[i]
      BY <3>2 DEF LastWith
    <3>4. written[i] \in Grids
      BY <1>2 DEF Grids, TypeOK
    <3> QED BY <2>1, <3>3, <3>4
  <2>3. Grids' = Grids
    BY <1>1 DEF Grids
  <2> QED BY <1>1, <2>1, <2>2, <2>3 DEF NothingFinishedLost
<1>3. CASE ~ \A i \in DOMAIN written : outcome[written[i]] = "grid"
  <2>1. PICK i \in DOMAIN written : outcome[written[i]] = "noGrid"
    BY <1>3 DEF Kept
  <2>2. written[i] \in Datasets
    BY DEF TypeOK
  <2>3. main' = "failed"
    BY <1>3 DEF Merge
  <2> QED BY <1>1, <2>1, <2>2, <2>3 DEF NothingFinishedLost
<1> QED BY <1>2, <1>3

LEMMA LostInRuns == ASSUME DatasetRunsAssumption PROVE RunsSpec => []NothingFinishedLost
<1>1. Init => Kept
  BY DEF Init, Kept, NothingFinishedLost
<1>2. TypeOK /\ Kept /\ [Next]_vars => Kept'
  <2> SUFFICES ASSUME TypeOK, Kept, [Next]_vars PROVE Kept'
    OBVIOUS
  <2>1. ASSUME NEW d \in Datasets, Collect(d) PROVE Kept'
    <3>1. main = "running" /\ pc[d] = "ended" /\ UNCHANGED <<pc, outcome>>
      BY <2>1 DEF Collect
    <3>2. CASE outcome[d] = "raised"
      BY <2>1, <3>1, <3>2 DEF Collect, Kept, NothingFinishedLost
    <3>3. CASE outcome[d] # "raised"
      <4>1. outcome[d] \in {"grid", "noGrid"} /\ written' = Append(written, d) /\ main' = "running"
        BY <2>1, <3>1, <3>3 DEF Collect
      <4>2. \A i \in DOMAIN written' : written'[i] = d \/ (i \in DOMAIN written /\ written'[i] = written[i])
        BY <4>1 DEF TypeOK
      <4> QED BY <3>1, <4>1, <4>2 DEF Kept, NothingFinishedLost
    <3> QED BY <3>2, <3>3
  <2>2. CASE RunFails
    BY <2>2 DEF RunFails, Kept, NothingFinishedLost, setting
  <2>3. CASE EndUnmerged
    BY <2>3, KeptEnd DEF EndUnmerged, Kept
  <2>4. CASE Merge
    <3>1. UNCHANGED <<pc, outcome, written>> /\ main' # "raising"
      BY <2>4 DEF Merge
    <3> QED BY <2>4, <3>1, KeptMerge DEF Kept
  <2>5. CASE Kill
    BY <2>5 DEF Kill, Kept, NothingFinishedLost
  <2>6. CASE Restart
    BY <2>6 DEF Restart, Kept, NothingFinishedLost
  <2>7. CASE UNCHANGED vars
    BY <2>7 DEF vars, Kept, NothingFinishedLost, Grids
  <2> QED BY <2>1, <2>2, <2>3, <2>4, <2>5, <2>6, <2>7, KeptStudy DEF Next, Command
<1> QED BY <1>1, <1>2, RunsTypes, PTL DEF RunsSpec, Kept

(***************************************************************************)
(* StudyPhases: for every set of studies and weights: where the seeds of a *)
(* phase come from, what the final test runs, and which queries the tuning *)
(* reads.                                                                  *)
(***************************************************************************)

Models == LocalModels \cup ApiModels \cup {DefaultModel}

Fields == {"phase", "strategy", "model", "backend", "weight", "decay", "alpha", "floor",
           "reranker", "window"}

(* What a row of any phase is: the tuning ones ask the validation window,  *)
(* a model is one the command has kept, or the default, one asked of the   *)
(* API is served there, and only the reranking strategy has a reranker.    *)
Tuned(r) ==
  /\ DOMAIN r = Fields
  /\ r.phase # "phase3fast" => r.window = ValidationWindow
  /\ r.model \in Models \cup {None}
  /\ r.backend = "api" => r.model \in ApiModels
  /\ r.reranker # None => r.strategy = "llm_rerank" /\ r.reranker \in Rerankers

Runs(r) == LoadsModel(r) => CanLoad(r.model)

SeedKept ==
  /\ best.model \in Models
  /\ best.backend = "api" => best.model \in ApiModels

PhasesInv ==
  /\ setup \in Setups
  /\ \A r \in rows : Tuned(r) /\ Runs(r)
  /\ SeedsMeasured
  /\ FinalTestCanRun

(* The seeds were measured together, so what is true of rows is of them.   *)
LEMMA SeedOfRow == PhasesInv => SeedKept
<1> SUFFICES ASSUME PhasesInv PROVE SeedKept
  OBVIOUS
<1>1. best.model \in Models
  BY DEF PhasesInv, SeedsMeasured, Models
<1>2. CASE best.model = DefaultModel /\ best.backend = Local
  BY <1>1, <1>2 DEF SeedKept, Local
<1>3. CASE \E r \in rows : r.model = best.model /\ r.backend = best.backend
  BY <1>1, <1>3 DEF PhasesInv, Tuned, SeedKept
<1> QED BY <1>2, <1>3 DEF PhasesInv, SeedsMeasured

(* The rows a phase can add.                                               *)
LEMMA RowFields ==
  ASSUME NEW phase, NEW strategy, NEW model, NEW backend, NEW weight, NEW window,
         NEW r, r = Row(phase, strategy, model, backend, weight, window)
  PROVE  /\ DOMAIN r = Fields /\ r.phase = phase /\ r.strategy = strategy /\ r.model = model
         /\ r.backend = backend /\ r.window = window /\ r.reranker = None
BY DEF Row, Fields

LEMMA TuningRow ==
  ASSUME NEW phase, NEW strategy, NEW model \in Models \cup {None}, NEW backend, NEW weight,
         backend = "api" => model \in ApiModels
  PROVE  /\ Tuned(Tuning(phase, strategy, model, backend, weight))
         /\ Tuning(phase, strategy, model, backend, weight).strategy = strategy
<1> DEFINE r == Row(phase, strategy, model, backend, weight, ValidationWindow)
<1> HIDE DEF r
<1>1. /\ DOMAIN r = Fields /\ r.strategy = strategy /\ r.model = model /\ r.backend = backend
      /\ r.window = ValidationWindow /\ r.reranker = None
  BY RowFields DEF r
<1>2. Tuned(r)
  BY <1>1 DEF Tuned
<1> QED BY <1>1, <1>2 DEF r, Tuning

(* Only cells that can be run succeed.                                     *)
LEMMA Successful ==
  ASSUME NEW tried, NEW ok \in Successes(tried)
  PROVE  /\ ok \subseteq tried
         /\ \A r \in ok : Runs(r)
BY DEF Successes, Measurable, Runs

(* Fields that Tuned does not look at.                                     *)
LEMMA DecayedOtherwise ==
  ASSUME NEW r, Tuned(r), NEW x, NEW a, NEW f, NEW q,
         \/ q = [r EXCEPT !.decay = x]
         \/ q = [r EXCEPT !.decay = x, !.alpha = a, !.floor = f]
  PROVE  Tuned(q)
<1>1. /\ DOMAIN q = Fields /\ q.phase = r.phase /\ q.strategy = r.strategy
      /\ q.model = r.model /\ q.backend = r.backend /\ q.window = r.window
      /\ q.reranker = r.reranker
  BY DEF Tuned, Fields
<1> QED BY <1>1 DEF Tuned

LEMMA Reranked ==
  ASSUME NEW r, Tuned(r), NEW x \in Rerankers, NEW q, q = [r EXCEPT !.reranker = x],
         x # None => r.strategy = "llm_rerank"
  PROVE  Tuned(q)
<1>1. /\ DOMAIN q = Fields /\ q.phase = r.phase /\ q.strategy = r.strategy
      /\ q.model = r.model /\ q.backend = r.backend /\ q.window = r.window
      /\ q.reranker = x
  BY DEF Tuned, Fields
<1> QED BY <1>1 DEF Tuned

LEMMA PlainRows ==
  ASSUME SeedKept, NEW p \in {1, 2, 5}
  PROVE  \A r \in PhaseCells(p) : Tuned(r)
<1>1. ASSUME NEW r \in Phase1 PROVE Tuned(r)
  <2>1. PICK s, w : r = Undecayed(Tuning("phase1", s, None, None, w))
    BY <1>1 DEF Phase1
  <2>2. PICK t : t = Tuning("phase1", s, None, None, w)
    OBVIOUS
  <2>3. Tuned(t)
    BY <2>2, TuningRow DEF None
  <2> QED BY <2>1, <2>2, <2>3, DecayedOtherwise DEF Undecayed
<1>2. ASSUME NEW r \in Phase2 PROVE Tuned(r)
  <2>1. CASE r \in {Tuning("phase2", "semantic", m, Local, 0) : m \in LocalModels}
    BY <2>1, TuningRow DEF Models, Local
  <2>2. CASE r \in {Tuning("phase2", "semantic", m, "api", 0) : m \in ApiModels}
    BY <2>2, TuningRow DEF Models
  <2>3. CASE r \in {Tuning("phase2", s, DefaultModel, Local, 0) : s \in {"colbert", "adaptive"}}
    BY <2>3, TuningRow DEF Models, Local
  <2> QED BY <1>2, <2>1, <2>2, <2>3 DEF Phase2
<1>3. ASSUME NEW r \in Phase5 PROVE Tuned(r)
  <2>1. PICK x \in Rerankers :
          r = [Tuning("phase5", IF x = None THEN "bm25" ELSE "llm_rerank", best.model, Local,
                      IF x = None THEN 100 ELSE 0) EXCEPT !.reranker = x]
    BY <1>3 DEF Phase5
  <2>2. PICK s, w : s = (IF x = None THEN "bm25" ELSE "llm_rerank")
                    /\ w = (IF x = None THEN 100 ELSE 0)
    OBVIOUS
  <2>3. PICK t : t = Tuning("phase5", s, best.model, Local, w)
    OBVIOUS
  <2>4. Tuned(t) /\ t.strategy = s
    BY <2>3, TuningRow DEF SeedKept, Local
  <2>5. r = [t EXCEPT !.reranker = x]
    BY <2>1, <2>2, <2>3, Zenon
  <2> QED BY <2>2, <2>4, <2>5, Reranked
<1> QED BY <1>1, <1>2, <1>3 DEF PhaseCells

LEMMA HybridRows ==
  ASSUME SeedKept, NEW phase, NEW weights
  PROVE  \A r \in HybridCells(phase, weights) : Tuned(r)
BY TuningRow DEF HybridCells, SeedKept

LEMMA SweptRows ==
  ASSUME SeedKept, CanLoad(best.model), NEW peak
  PROVE  \A r \in FastRows(peak) : Tuned(r) /\ Runs(r)
<1> SUFFICES ASSUME NEW r \in FastRows(peak) PROVE Tuned(r) /\ Runs(r)
  OBVIOUS
<1>1. PICK w : r = Undecayed(Row("phase3fast", "hybrid", best.model, Local, w, SweepWindow))
  BY DEF FastRows
<1>2. PICK t : t = Row("phase3fast", "hybrid", best.model, Local, w, SweepWindow)
  OBVIOUS
<1>3. /\ DOMAIN t = Fields /\ t.phase = "phase3fast" /\ t.model = best.model
      /\ t.backend = Local /\ t.reranker = None
  BY <1>2, RowFields
<1>4. r = [t EXCEPT !.decay = None]
  BY <1>1, <1>2 DEF Undecayed
<1>5. Tuned(t)
  BY <1>3 DEF Tuned, SeedKept, Local
<1>6. Tuned(r)
  BY <1>4, <1>5, DecayedOtherwise
<1>7. r.model = best.model
  BY <1>3, <1>4 DEF Fields
<1> QED BY <1>6, <1>7 DEF Runs

LEMMA DecayRows ==
  ASSUME SeedKept
  PROVE  \A r \in Phase4 : Tuned(r)
<1> SUFFICES ASSUME NEW r \in Phase4 PROVE Tuned(r)
  OBVIOUS
<1> DEFINE w == IF best.weight = Unset THEN 50 ELSE best.weight
<1> HIDE DEF w
<1>1. PICK phase, x, a, f :
        r = [Tuning(phase, best.strategy, best.model, best.backend, w)
               EXCEPT !.decay = x, !.alpha = a, !.floor = f]
  <2> DEFINE C(phase, x, a, f) ==
        [Tuning(phase, best.strategy, best.model, best.backend, w)
           EXCEPT !.decay = x, !.alpha = a, !.floor = f]
  <2>1. Phase4 = {C("phase4", None, 0, 65), C("phase4", "swept", 50, 65),
                  C("phase4b", "swept", 50, 25)}
    BY DEF Phase4, w
  <2> HIDE DEF C
  <2>2. \E phase, x, a, f : r = C(phase, x, a, f)
    BY <2>1
  <2> QED BY <2>2 DEF C
<1>2. PICK t : t = Tuning(phase, best.strategy, best.model, best.backend, w)
  OBVIOUS
<1>3. Tuned(t)
  BY <1>2, TuningRow DEF SeedKept
<1>4. r = [t EXCEPT !.decay = x, !.alpha = a, !.floor = f]
  BY <1>1, <1>2
<1> QED BY <1>3, <1>4, DecayedOtherwise

(* What the invariant says of rows and of the final test depends on the    *)
(* study alone.                                                            *)
LEMMA SameStudy ==
  ASSUME UNCHANGED setup
  PROVE  /\ LocalModels' = LocalModels /\ ApiModels' = ApiModels /\ Rerankers' = Rerankers
         /\ \A r : (Tuned(r) => Tuned(r)') /\ (Runs(r) => Runs(r)')
<1>1. LocalModels' = LocalModels /\ ApiModels' = ApiModels /\ Rerankers' = Rerankers
  BY DEF LocalModels, ApiModels, Filtered, Rerankers
<1>2. ValidationWindow' = ValidationWindow
  BY DEF ValidationWindow
<1>3. \A m : CanLoad(m)' = CanLoad(m)
  BY DEF CanLoad
<1> QED BY <1>1, <1>2, <1>3 DEF Tuned, Models, Runs, LoadsModel

LEMMA SameFinal ==
  ASSUME UNCHANGED <<setup, final>>, FinalTestCanRun
  PROVE  FinalTestCanRun'
<1>1. \A m : CanLoad(m)' = CanLoad(m)
  BY DEF CanLoad
<1> QED BY <1>1, SameStudy DEF FinalTestCanRun, AsksApi, LoadsModel

(* A step that adds such rows to those there are.                          *)
LEMMA NextSeedStep ==
  ASSUME PhasesInv, NEW new, \A r \in new : Tuned(r) /\ Runs(r), NextSeed(new)
  PROVE  PhasesInv'
<1>1. UNCHANGED <<setup, best, winner, final>> /\ rows' = rows \cup new
  BY DEF NextSeed
<1>2. \A r \in rows' : (Tuned(r) /\ Runs(r))'
  BY <1>1, SameStudy DEF PhasesInv
<1>3. SeedsMeasured'
  BY <1>1, SameStudy DEF PhasesInv, SeedsMeasured
<1>4. FinalTestCanRun'
  BY <1>1, SameFinal DEF PhasesInv
<1> QED BY <1>1, <1>2, <1>3, <1>4 DEF PhasesInv

(* The seeds of the next phase: each is kept, or comes from a row.         *)
LEMMA EndPhaseStep ==
  ASSUME PhasesInv, EndPhase
  PROVE  PhasesInv'
<1>1. UNCHANGED <<setup, rows, winner, final>> /\ best' \in Recommended
  BY DEF EndPhase
<1>2. LocalModels' = LocalModels /\ ApiModels' = ApiModels
  BY <1>1 DEF LocalModels, ApiModels, Filtered
<1>3. \A r \in rows' : (Tuned(r) /\ Runs(r))'
  BY <1>1, SameStudy DEF PhasesInv
<1>4. PICK s, e, w :
        /\ best' = [strategy |-> s, model |-> e[1], backend |-> e[2], weight |-> w]
        /\ s \in IF rows = {} THEN {best.strategy} ELSE {r.strategy : r \in StrategyPopulation(rows)}
        /\ e \in IF EmbeddingPopulation(rows) = {} THEN {<<best.model, best.backend>>}
                 ELSE {<<r.model, r.backend>> : r \in EmbeddingPopulation(rows)}
        /\ w \in IF WeightPopulation(rows) = {} THEN {best.weight}
                 ELSE {r.weight : r \in WeightPopulation(rows)}
  BY <1>1 DEF Recommended
<1>5. best'.strategy = "bm25" \/ \E r \in rows : r.strategy = best'.strategy
  <2>1. StrategyPopulation(rows) \subseteq rows
    BY DEF StrategyPopulation, Comparable
  <2> QED BY <1>4, <2>1 DEF PhasesInv, SeedsMeasured
<1>6. /\ \/ best'.model = DefaultModel /\ best'.backend = Local
         \/ \E r \in rows : r.model = best'.model /\ r.backend = best'.backend
      /\ best'.model \in Models
  <2>1. best'.model = e[1] /\ best'.backend = e[2]
    BY <1>4
  <2>2. CASE EmbeddingPopulation(rows) = {}
    <3>1. e = <<best.model, best.backend>>
      BY <1>4, <2>2
    <3> QED BY <2>1, <3>1 DEF PhasesInv, SeedsMeasured, Models
  <2>3. CASE EmbeddingPopulation(rows) # {}
    <3>1. PICK r \in EmbeddingPopulation(rows) : e = <<r.model, r.backend>>
      BY <1>4, <2>3
    <3>2. r \in rows /\ r.model # None
      BY DEF EmbeddingPopulation, Comparable
    <3> QED BY <2>1, <3>1, <3>2 DEF PhasesInv, Tuned
  <2> QED BY <2>2, <2>3
<1>7. best'.weight # Unset => \E r \in rows : r.strategy = "hybrid" /\ r.weight = best'.weight
  <2>1. \A r \in WeightPopulation(rows) : r \in rows /\ r.strategy = "hybrid"
    BY DEF WeightPopulation
  <2> QED BY <1>4, <2>1 DEF PhasesInv, SeedsMeasured
<1>8. SeedsMeasured'
  BY <1>1, <1>2, <1>5, <1>6, <1>7 DEF SeedsMeasured, Models
<1>9. FinalTestCanRun'
  BY <1>1, SameFinal DEF PhasesInv
<1> QED BY <1>1, <1>3, <1>8, <1>9 DEF PhasesInv

(* The final test: the winner could be run, and what decides whether it    *)
(* can is copied.                                                          *)
LEMMA FinalTestStep ==
  ASSUME PhasesInv, FinalTest
  PROVE  PhasesInv'
<1>1. PICK r \in rows : final' = FinalCell(r)
  BY DEF FinalTest
<1>2. UNCHANGED <<setup, rows, best>>
  BY DEF FinalTest
<1>3. Tuned(r) /\ Runs(r)
  BY DEF PhasesInv
<1>4. /\ final'.strategy = r.strategy /\ final'.model = r.model
      /\ final'.backend = r.backend /\ final'.reranker = r.reranker
  BY <1>1, <1>3 DEF Tuned, Fields, FinalCell
<1>5. AsksApi(final)' => final'.model \in ApiModels'
  BY <1>2, <1>3, <1>4, SameStudy DEF AsksApi, Tuned
<1>6. LoadsModel(final)' => CanLoad(final.model)'
  BY <1>2, <1>3, <1>4 DEF LoadsModel, Runs, CanLoad
<1>7. final'.reranker # None =>
        final'.strategy = "llm_rerank" /\ final'.reranker \in Rerankers'
  BY <1>2, <1>3, <1>4, SameStudy DEF Tuned
<1>8. FinalTestCanRun'
  BY <1>5, <1>6, <1>7 DEF FinalTestCanRun
<1>9. SeedsMeasured' /\ (\A x \in rows' : (Tuned(x) /\ Runs(x))')
  BY <1>2, SameStudy DEF PhasesInv, SeedsMeasured
<1> QED BY <1>2, <1>8, <1>9 DEF PhasesInv

LEMMA Inductive == PhasesSpec => []PhasesInv
<1>1. PhasesInit => PhasesInv
  BY DEF PhasesInit, Defaults, PhasesInv, SeedsMeasured, FinalTestCanRun
<1>2. PhasesInv /\ [PhasesNext]_phaseVars => PhasesInv'
  <2> SUFFICES ASSUME PhasesInv, [PhasesNext]_phaseVars PROVE PhasesInv'
    OBVIOUS
  <2>0. SeedKept
    BY SeedOfRow
  <2>1. CASE RunCells
    <3>1. PICK ok \in Successes(PhaseCells(Phases[at])) : NextSeed(ok)
      BY <2>1 DEF RunCells
    <3>2. Phases[at] \in {1, 2, 5}
      BY <2>1 DEF RunCells, InPhase
    <3> QED BY <2>0, <3>1, <3>2, PlainRows, Successful, NextSeedStep
  <2>2. CASE FastSweep
    <3>1. PICK peak : NextSeed(FastRows(peak))
      BY <2>2 DEF FastSweep
    <3>2. CanLoad(best.model)
      BY <2>2 DEF FastSweep
    <3> QED BY <2>0, <3>1, <3>2, SweptRows, NextSeedStep
  <2>3. CASE SweepCells
    <3>1. PICK coarse \in Successes(HybridCells("phase3broad", BroadWeights)) :
            \E peak : \E fine \in Successes(HybridCells("phase3fine", FineWeights(peak))) :
              NextSeed(coarse \cup fine)
      BY <2>3 DEF SweepCells
    <3>2. PICK peak : \E fine \in Successes(HybridCells("phase3fine", FineWeights(peak))) :
                        NextSeed(coarse \cup fine)
      BY <3>1
    <3>3. PICK fine \in Successes(HybridCells("phase3fine", FineWeights(peak))) :
            NextSeed(coarse \cup fine)
      BY <3>2
    <3>4. \A r \in coarse \cup fine : Tuned(r) /\ Runs(r)
      BY <2>0, HybridRows, Successful
    <3> QED BY <3>3, <3>4, NextSeedStep
  <2>4. CASE SweepDecay
    <3>1. PICK ok \in Successes(Phase4) : NextSeed(ok)
      BY <2>4 DEF SweepDecay
    <3> QED BY <2>0, <3>1, DecayRows, Successful, NextSeedStep
  <2>5. CASE SweepRaises \/ NoFinalTest \/ UNCHANGED phaseVars
    <3>1. UNCHANGED <<setup, rows, best, winner, final>>
      BY <2>5 DEF SweepRaises, NoFinalTest, phaseVars
    <3>2. \A r \in rows' : (Tuned(r) /\ Runs(r))'
      BY <3>1, SameStudy DEF PhasesInv
    <3>3. FinalTestCanRun'
      BY <3>1, SameFinal DEF PhasesInv
    <3> QED BY <3>1, <3>2, <3>3, SameStudy DEF PhasesInv, SeedsMeasured
  <2> QED BY <2>1, <2>2, <2>3, <2>4, <2>5, EndPhaseStep, FinalTestStep DEF PhasesNext
<1> QED BY <1>1, <1>2, PTL DEF PhasesSpec

LEMMA SeedsInPhases == PhasesSpec => []SeedsMeasured
BY Inductive, PTL DEF PhasesInv

LEMMA QueriesInPhases == PhasesSpec => []SeedsFromSameQueries
<1>1. PhasesInv => SeedsFromSameQueries
  <2> SUFFICES ASSUME PhasesInv, Comparable(rows) # {},
                      NEW r \in StrategyPopulation(rows) \cup EmbeddingPopulation(rows)
               PROVE  r.window = ValidationWindow
    BY DEF SeedsFromSameQueries
  <2>1. r \in rows /\ ~IsSweepVariant(r)
    BY DEF StrategyPopulation, EmbeddingPopulation, Comparable
  <2> QED BY <2>1 DEF PhasesInv, Tuned, IsSweepVariant
<1> QED BY <1>1, Inductive, PTL

LEMMA FinalInPhases == PhasesSpec => []FinalTestCanRun
BY Inductive, PTL DEF PhasesInv

LEMMA TailInPhases ==
  ASSUME StudyPhasesAssumption
  PROVE  PhasesSpec => []TailReadOnlyByFastSweep
<1>1. PhasesInv => TailReadOnlyByFastSweep
  <2> SUFFICES ASSUME PhasesInv, NEW r \in rows, Overlap(r.window, FinalWindow),
                      r.phase # "phase3fast"
               PROVE  FALSE
    BY DEF TailReadOnlyByFastSweep
  <2>1. r.window = ValidationWindow
    BY DEF PhasesInv, Tuned
  <2>2. setup.validation \in Nat /\ setup.tail \in Nat
    BY StudyPhasesAssumption DEF PhasesInv, StudyPhasesAssumption
  <2> QED BY <2>1, <2>2 DEF Overlap, FinalWindow, ValidationWindow
<1> QED BY <1>1, Inductive, PTL

(***************************************************************************)
(* DecaySweep: for any number of policies, any patience and any outcome of *)
(* the cells: its type invariant, and that no policy with a measured gain  *)
(* is left out of the fine sweep.                                          *)
(***************************************************************************)

LEMMA SweepTypes == ASSUME DecaySweepAssumption PROVE SweepSpec => []SweepTypeOK
<1>1. SweepInit => SweepTypeOK
  <2> SUFFICES ASSUME SweepInit PROVE SweepTypeOK
    OBVIOUS
  <2>1. Unmeasured \in Results
    BY DEF Unmeasured, Results
  <2>2. sweep \in {"check", "batch", "policies", "done"} /\ next \in 1..(NumPolicies + 1)
    BY DEF SweepInit, DecaySweepAssumption
  <2>3. sweep = "check" => next \in Policies
    BY DEF SweepInit, DecaySweepAssumption, Policies
  <2> QED BY <2>1, <2>2, <2>3 DEF SweepInit, SweepTypeOK
<1>2. SweepTypeOK /\ [SweepNext]_sweepVars => SweepTypeOK'
  <2> SUFFICES ASSUME SweepTypeOK, [SweepNext]_sweepVars PROVE SweepTypeOK'
    OBVIOUS
  <2> USE DEF SweepTypeOK, DecaySweepAssumption
  <2>1. CASE Batch
    <3>1. PICK b \in BOOLEAN, m \in [Policies -> {"none", "level", "gain"}] :
            /\ broad' = [p \in Policies |-> [base |-> b, best |-> m[p]]]
            /\ anyDecay' = (\E p \in Policies : m[p] # "none")
      BY <2>1 DEF Batch
    <3>2. broad' \in [Policies -> Results]
      BY <3>1 DEF Results
    <3>3. anyDecay' \in BOOLEAN
      BY <3>1
    <3> QED BY <2>1, <3>2, <3>3 DEF Batch
  <2>2. CASE QuickCheck
    <3>1. next \in Policies /\ next' \in 1..(NumPolicies + 1) /\ (sweep' = "check" => next' \in Policies)
      BY <2>2 DEF QuickCheck, Policies
    <3>2. futile' \subseteq Policies /\ anyDecay' \in BOOLEAN
      BY <2>2, <3>1 DEF QuickCheck
    <3> QED BY <2>2, <3>1, <3>2 DEF QuickCheck
  <2>3. CASE SkipFutile
    BY <2>3 DEF SkipFutile, EndPolicies
  <2>4. CASE Policy
    <3>1. next \in Policies
      BY <2>4 DEF Policy, EndPolicies, Policies
    <3>2. PICK r \in Results :
            /\ broad' = [broad EXCEPT ![next] = r]
            /\ anyDecay' = (anyDecay \/ r.best # "none")
            /\ noImprove' \in {noImprove, noImprove + 1, 0} /\ zoomed' \subseteq zoomed \cup {next}
      BY <2>4, <3>1 DEF Policy
    <3> QED BY <2>4, <3>1, <3>2 DEF Policy, Policies
  <2>5. CASE FloorSweep
    BY <2>5 DEF FloorSweep
  <2>6. CASE UNCHANGED sweepVars
    BY <2>6 DEF sweepVars, sweepSetting
  <2> QED BY <2>1, <2>2, <2>3, <2>4, <2>5, <2>6 DEF SweepNext
<1> QED BY <1>1, <1>2, PTL DEF SweepSpec

(***************************************************************************)
(* GainsZoomed speaks of the end; the invariant says the same of the       *)
(* policies taken up so far, and that the counter of the patience counts   *)
(* flat policies which no zoomed one interrupts.                           *)
(***************************************************************************)
Sweeping == sweep \in {"policies", "done"}
Begun == ~Sweeping => zoomed = {} /\ noImprove = 0 /\ (sweep = "batch" => next = 1)
SweptOrNot(p) == p \in zoomed \/ p \in futile \/ broad[p].best = "none" \/ Flat(p)
SettledSoFar == Sweeping => \A p \in Policies : p < next => SweptOrNot(p)
ZoomedSoFar == Sweeping => \A z \in zoomed : z < next
FlatBefore == {q \in Policies : q < next /\ Flat(q)}
Streak(run) == Cardinality(run) = noImprove /\ \A q \in run, z \in zoomed : z < q
Streaks == Sweeping => \E run \in SUBSET FlatBefore : Streak(run)
Bounded == patience > 0 => noImprove <= patience
AtEnd == sweep = "done" => EndPolicies
GainsInv == Begun /\ SettledSoFar /\ ZoomedSoFar /\ Streaks /\ Bounded /\ AtEnd

(* What a measured policy adds.                                            *)
LEMMA GainsPolicy ==
  ASSUME DecaySweepAssumption, SweepTypeOK, patience \in Nat, GainsInv, Policy
  PROVE  GainsInv'
<1> USE DEF GainsInv, DecaySweepAssumption
<1>1. /\ Sweeping /\ Sweeping' /\ next \in Policies /\ next' = next + 1 /\ ~OutOfPatience
      /\ UNCHANGED <<futile, patience, sweep>> /\ sweep = "policies"
  BY DEF Policy, Sweeping, EndPolicies, Policies, SweepTypeOK, sweepSetting
<1>2. PICK r \in Results :
        /\ broad' = [broad EXCEPT ![next] = r]
        /\ \/ r.best = "none" /\ UNCHANGED <<noImprove, zoomed>>
           \/ r.best = "level" /\ r.base /\ noImprove' = noImprove + 1 /\ UNCHANGED zoomed
           \/ noImprove' = 0 /\ zoomed' = zoomed \cup {next}
  BY <1>1 DEF Policy, SweepTypeOK
<1>3. broad'[next] = r /\ \A p \in Policies : p < next => broad'[p] = broad[p]
  BY <1>1, <1>2 DEF SweepTypeOK, Policies
<1>4. \A p \in Policies : p = next => SweptOrNot(p)'
  <2>1. r.best = "none" \/ (r.best = "level" /\ r.base) \/ next \in zoomed'
    BY <1>2
  <2> QED BY <1>3, <2>1 DEF SweptOrNot, Flat
<1>5. SettledSoFar'
  <2> SUFFICES ASSUME NEW p \in Policies, p < next' PROVE SweptOrNot(p)'
    BY DEF SettledSoFar
  <2>1. CASE p < next
    BY <1>1, <1>2, <1>3, <2>1 DEF SettledSoFar, SweptOrNot, Flat
  <2>2. CASE ~(p < next)
    <3>1. p = next
      BY <1>1, <2>2 DEF Policies
    <3> QED BY <1>4, <3>1
  <2> QED BY <2>1, <2>2
<1>6. ZoomedSoFar'
  <2>1. zoomed' \subseteq zoomed \cup {next} /\ zoomed \subseteq Policies
    BY <1>2 DEF SweepTypeOK
  <2>2. \A z \in zoomed \cup {next} : z < next + 1
    BY <1>1, <2>1 DEF ZoomedSoFar, Policies
  <2> QED BY <1>1, <2>1, <2>2 DEF ZoomedSoFar
<1>7. Bounded'
  <2>1. noImprove' \in {noImprove, noImprove + 1, 0} /\ noImprove \in Nat
    BY <1>2 DEF SweepTypeOK
  <2> QED BY <1>1, <2>1 DEF Bounded, OutOfPatience
<1>8. Streaks'
  <2>1. PICK run \in SUBSET FlatBefore : Streak(run)
    BY <1>1 DEF Streaks
  <2>2. run \in SUBSET FlatBefore'
    BY <1>1, <1>3, <2>1 DEF FlatBefore, Flat, Policies
  <2>3. CASE r.best = "none" /\ UNCHANGED <<noImprove, zoomed>>
    BY <2>1, <2>2, <2>3 DEF Streaks, Streak
  <2>4. CASE r.best = "level" /\ r.base /\ noImprove' = noImprove + 1 /\ UNCHANGED zoomed
    <3>1. run \cup {next} \in SUBSET FlatBefore'
      BY <1>1, <1>3, <2>2, <2>4 DEF FlatBefore, Flat, Policies
    <3>2. Cardinality(run \cup {next}) = noImprove + 1
      <4>1. IsFiniteSet(run)
        <5>1. IsFiniteSet(Policies) /\ run \in SUBSET Policies
          BY <2>1, FS_Interval DEF FlatBefore, Policies
        <5> QED BY <5>1, FS_Subset
      <4>2. next \notin run
        BY <1>1 DEF FlatBefore, Policies
      <4> QED BY <2>1, <4>1, <4>2, FS_AddElement DEF Streak
    <3>3. \A q \in run \cup {next}, z \in zoomed' : z < q
      BY <1>1, <2>1, <2>4 DEF Streak, ZoomedSoFar
    <3> QED BY <2>4, <3>1, <3>2, <3>3 DEF Streaks, Streak
  <2>5. CASE noImprove' = 0 /\ zoomed' = zoomed \cup {next}
    BY <2>5, FS_EmptySet DEF Streaks, Streak
  <2> QED BY <1>2, <2>3, <2>4, <2>5
<1>9. Begun' /\ AtEnd'
  BY <1>1 DEF Begun, AtEnd
<1> QED BY <1>5, <1>6, <1>7, <1>8, <1>9

(* The patience is one of the option's values throughout.                  *)
LEMMA PatienceType == ASSUME DecaySweepAssumption PROVE SweepSpec => [](patience \in Nat)
<1>1. SweepInit => patience \in Nat
  BY DEF SweepInit, DecaySweepAssumption
<1>2. patience \in Nat /\ [SweepNext]_sweepVars => (patience \in Nat)'
  BY DEF SweepNext, Batch, QuickCheck, SkipFutile, Policy, FloorSweep, sweepVars, sweepSetting
<1> QED BY <1>1, <1>2, PTL DEF SweepSpec

(* At the end a policy that was taken up is settled, and the streak is as  *)
(* long as the patience if one was not.                                    *)
LEMMA GainsAtEnd ==
  ASSUME DecaySweepAssumption, SweepTypeOK, patience \in Nat, GainsInv
  PROVE  GainsZoomed
<1> SUFFICES ASSUME sweep = "done", NEW p \in Policies
    PROVE  \/ p \in zoomed \/ p \in futile
           \/ p < next /\ (broad[p].best = "none" \/ Flat(p))
           \/ p >= next /\ PatienceSpentBefore(p)
  BY DEF GainsZoomed
<1> USE DEF GainsInv, Sweeping
<1>1. CASE p < next
  BY <1>1 DEF SettledSoFar, SweptOrNot
<1>2. CASE p >= next
  <2>1. patience > 0 /\ noImprove = patience
    BY <1>2 DEF AtEnd, EndPolicies, OutOfPatience, Bounded, SweepTypeOK, Policies,
                DecaySweepAssumption
  <2>2. PICK run \in SUBSET FlatBefore : Streak(run)
    BY DEF Streaks
  <2>3. run \in SUBSET {q \in Policies : q < p /\ Flat(q)}
    BY <1>2 DEF FlatBefore, Policies, SweepTypeOK
  <2> QED BY <1>2, <2>1, <2>2, <2>3 DEF PatienceSpentBefore, Streak
<1> QED BY <1>1, <1>2 DEF SweepTypeOK, Policies

LEMMA GainsInSweep == ASSUME DecaySweepAssumption PROVE SweepSpec => []GainsZoomed
<1> USE DEF Sweeping
<1>1. SweepInit => GainsInv
  <2> SUFFICES ASSUME SweepInit PROVE GainsInv
    OBVIOUS
  <2>1. noImprove = 0 /\ zoomed = {} /\ next = 1 /\ sweep # "done" /\ patience \in Nat
    BY DEF SweepInit, DecaySweepAssumption
  <2>2. Streaks
    BY <2>1, FS_EmptySet DEF Streaks, Streak
  <2> QED BY <2>1, <2>2 DEF GainsInv, Begun, SettledSoFar, ZoomedSoFar, Bounded, AtEnd, Policies
<1>2. SweepTypeOK /\ patience \in Nat /\ GainsInv /\ [SweepNext]_sweepVars => GainsInv'
  <2> SUFFICES ASSUME SweepTypeOK, patience \in Nat, GainsInv, [SweepNext]_sweepVars PROVE GainsInv'
    OBVIOUS
  <2> USE DEF GainsInv, sweepSetting
  <2>1. CASE Batch \/ QuickCheck
    <3>1. /\ ~Sweeping /\ zoomed' = {} /\ noImprove' = 0 /\ patience' = patience
          /\ sweep' # "done" /\ sweep' # "batch" /\ (sweep' = "policies" => next' = 1)
      BY <2>1 DEF Batch, QuickCheck, Begun
    <3>2. Streaks'
      BY <3>1, FS_EmptySet DEF Streaks, Streak
    <3>3. SettledSoFar' /\ ZoomedSoFar'
      BY <3>1 DEF SettledSoFar, ZoomedSoFar, Policies
    <3> QED BY <3>1, <3>2, <3>3 DEF Begun, Bounded, AtEnd
  <2>2. CASE SkipFutile
    <3>1. /\ Sweeping /\ Sweeping' /\ next' = next + 1 /\ next \in futile /\ sweep' # "done"
          /\ UNCHANGED <<patience, sweep, futile, broad, noImprove, zoomed>>
      BY <2>2 DEF SkipFutile
    <3>2. SettledSoFar'
      BY <3>1 DEF SettledSoFar, SweptOrNot, Flat, Policies, SweepTypeOK
    <3>3. Streaks'
      <4>1. FlatBefore \subseteq FlatBefore'
        BY <3>1 DEF FlatBefore, Flat, Policies, SweepTypeOK
      <4> QED BY <3>1, <4>1 DEF Streaks, Streak
    <3>4. ZoomedSoFar'
      BY <3>1 DEF ZoomedSoFar, Policies, SweepTypeOK
    <3> QED BY <3>1, <3>2, <3>3, <3>4 DEF Begun, Bounded, AtEnd
  <2>3. CASE Policy
    BY <2>3, GainsPolicy
  <2>4. CASE FloorSweep
    <3>1. /\ Sweeping /\ Sweeping' /\ EndPolicies
          /\ UNCHANGED <<patience, next, futile, broad, noImprove, zoomed>>
      BY <2>4 DEF FloorSweep
    <3> QED BY <3>1 DEF Begun, SettledSoFar, SweptOrNot, Flat, ZoomedSoFar, Streaks, Streak,
                        FlatBefore, Bounded, AtEnd, EndPolicies, OutOfPatience
  <2>5. CASE UNCHANGED sweepVars
    BY <2>5 DEF sweepVars, Begun, SettledSoFar, SweptOrNot, Flat, ZoomedSoFar, Streaks, Streak,
                FlatBefore, Bounded, AtEnd, EndPolicies, OutOfPatience
  <2> QED BY <2>1, <2>2, <2>3, <2>4, <2>5 DEF SweepNext
<1>3. SweepTypeOK /\ patience \in Nat /\ GainsInv => GainsZoomed
  BY GainsAtEnd
<1> QED BY <1>1, <1>2, <1>3, SweepTypes, PatienceType, PTL DEF SweepSpec

(***************************************************************************)
(* DatasetFiles: for any datasets and any number of preparations: its type *)
(* invariant, and where a short dataset comes from.                        *)
(***************************************************************************)

LEMMA SourceType ==
  ASSUME DatasetFilesAssumption, NEW s \in Sources
  PROVE  /\ s.raw \in Formats /\ s.middle \in Formats \ {"table"}
         /\ s.raw = "none" => s.middle = "none"
BY DEF DatasetFilesAssumption

LEMMA CutOffType == \A f : CutOff(f) \subseteq FileContents \ {"absent", "whole"}
BY DEF CutOff, FileContents

(* A download that is there can be read, or fails to.                      *)
LEMMA ReadCases ==
  ASSUME NEW f, NEW c \in FileContents \ {"absent"}
  PROVE  /\ Read(f, c) \in {"all", "some", "nothing", "fails"}
         /\ Read(f, c) = "some" => c = "short" \/ (c = "torn" /\ f = "table")
         /\ Read(f, c) = "fails" => c \in {"torn", "empty"}
BY DEF Read, FileContents

(* What a rewriting leaves; short or torn content comes from such content. *)
LEMMA RewrittenCases ==
  ASSUME FilesTypeOK, raw # "absent", NEW content, NEW fails \in BOOLEAN, Rewritten(content, fails)
  PROVE  /\ content = "absent" => fails
         /\ content = "short" => raw \in {"short", "torn", "empty"}
         /\ content = "short" /\ source.raw = "document" => raw = "short"
<1>1. /\ Read(source.raw, raw) = "some" => raw = "short" \/ (raw = "torn" /\ source.raw = "table")
      /\ Read(source.raw, raw) = "fails" => raw \in {"torn", "empty"}
  BY ReadCases DEF FilesTypeOK
<1> QED BY <1>1 DEF Rewritten

LEMMA FilesTypes == ASSUME DatasetFilesAssumption PROVE FilesSpec => []FilesTypeOK
<1>1. FilesInit => FilesTypeOK
  <2> SUFFICES ASSUME FilesInit PROVE FilesTypeOK
    OBVIOUS
  <2>1. 0 \in 0..MaxStarts
    BY DEF DatasetFilesAssumption
  <2> QED BY <2>1 DEF FilesInit, FilesTypeOK, FileContents
<1>2. FilesTypeOK /\ [FilesNext]_fileVars => FilesTypeOK'
  <2> SUFFICES ASSUME FilesTypeOK, [FilesNext]_fileVars PROVE FilesTypeOK'
    OBVIOUS
  <2> USE DEF FilesTypeOK
  <2>1. CASE Start
    <3>1. starts' \in 0..MaxStarts
      BY <2>1 DEF Start, DatasetFilesAssumption
    <3> QED BY <2>1, <3>1 DEF Start
  <2>8. CASE KeepRaw
    BY <2>8 DEF KeepRaw, End
  <2>9. CASE KeepMiddle \/ Install
    BY <2>9 DEF KeepMiddle, Install
  <2>10. CASE DeleteGold
    BY <2>10 DEF DeleteGold, FileContents
  <2>2. CASE Fetch
    BY <2>2, CutOffType DEF Fetch, End, FileContents
  <2>3. CASE FetchFails
    BY <2>3, CutOffType DEF FetchFails, End, FileContents
  <2>4. CASE Rewrite
    <3>1. PICK content \in FileContents, fails \in BOOLEAN :
            /\ Rewritten(content, fails) /\ middle' = content
            /\ stage' = (IF fails THEN "idle" ELSE "gold")
      BY <2>4 DEF Rewrite
    <3>2. raw # "absent"
      BY <2>4, SourceType DEF Rewrite
    <3> QED BY <2>4, <3>1, <3>2, RewrittenCases DEF Rewrite, FileContents
  <2>5. CASE Convert
    BY <2>5 DEF Convert, FileContents
  <2>6. CASE KillPreparation
    BY <2>6, CutOffType DEF KillPreparation, FileContents
  <2>7. CASE UNCHANGED fileVars
    BY <2>7 DEF fileVars
  <2> QED BY <2>1, <2>2, <2>3, <2>4, <2>5, <2>6, <2>7, <2>8, <2>9, <2>10 DEF FilesNext
<1> QED BY <1>1, <1>2, PTL DEF FilesSpec

(***************************************************************************)
(* ShortOnlyAfterCut needs the same of the files the gold file is made     *)
(* from: whatever is not whole there is the work of a cut, and a document  *)
(* that is cut off is never short.                                         *)
(***************************************************************************)
CutInv ==
  /\ raw \in {"empty", "torn", "short"} => cut
  /\ raw = "short" => source.raw # "document"
  /\ middle = "short" => cut /\ (source.raw = "document" => source.middle = "lines")
  /\ ShortOnlyAfterCut

LEMMA ShortInFiles == ASSUME DatasetFilesAssumption PROVE FilesSpec => []ShortOnlyAfterCut
<1>1. FilesInit => CutInv
  BY DEF FilesInit, CutInv, ShortOnlyAfterCut
<1>2. FilesTypeOK /\ CutInv /\ [FilesNext]_fileVars => CutInv'
  <2> SUFFICES ASSUME FilesTypeOK, CutInv, [FilesNext]_fileVars PROVE CutInv'
    OBVIOUS
  <2> USE DEF CutInv, ShortOnlyAfterCut
  <2>0. source \in Sources
    BY DEF FilesTypeOK
  <2>1. CASE Start \/ KeepRaw \/ KeepMiddle \/ DeleteGold \/ Install \/ UNCHANGED fileVars
    BY <2>1 DEF Start, KeepRaw, KeepMiddle, DeleteGold, Install, fileVars
  <2>2. CASE Fetch
    BY <2>2, CutOffType DEF Fetch, CutOff
  <2>3. CASE FetchFails
    BY <2>3 DEF FetchFails, CutOff
  <2>4. CASE Rewrite
    <3>1. PICK content \in FileContents, fails \in BOOLEAN :
            Rewritten(content, fails) /\ middle' = content
      BY <2>4 DEF Rewrite
    <3>2. raw # "absent"
      BY <2>0, <2>4, SourceType DEF Rewrite, FilesTypeOK
    <3> QED BY <2>4, <3>1, <3>2, RewrittenCases DEF Rewrite
  <2>5. CASE Convert
    <3>1. CASE source.middle # "none"
      <4>1. middle # "absent" /\ middle \in FileContents
        BY <2>5, <3>1 DEF Convert, FilesTypeOK
      <4>2. Read(source.middle, middle) = "some" => middle = "short"
        BY <2>0, <4>1, ReadCases, SourceType
      <4> QED BY <2>5, <3>1, <4>2 DEF Convert, Converted
    <3>2. CASE source.middle = "none" /\ source.raw # "none"
      <4>1. raw # "absent" /\ raw \in FileContents
        BY <2>5, <3>2 DEF Convert, FilesTypeOK
      <4>2. Read(source.raw, raw) = "some" => raw = "short" \/ (raw = "torn" /\ source.raw = "table")
        BY <4>1, ReadCases
      <4> QED BY <2>5, <3>2, <4>2 DEF Convert, Converted
    <3>3. CASE source.middle = "none" /\ source.raw = "none"
      BY <2>5, <3>3 DEF Convert, Converted
    <3> QED BY <3>1, <3>2, <3>3
  <2>6. CASE KillPreparation
    BY <2>0, <2>6, SourceType DEF KillPreparation, CutOff, Formats
  <2> QED BY <2>1, <2>2, <2>3, <2>4, <2>5, <2>6 DEF FilesNext
<1>3. CutInv => ShortOnlyAfterCut
  BY DEF CutInv
<1> QED BY <1>1, <1>2, <1>3, FilesTypes, PTL DEF FilesSpec

(***************************************************************************)
(* ReportFiles: for any number of studies: the type of the report threads  *)
(* and their files, and that reports whose threads were never stopped or   *)
(* overtaken cover every study.                                            *)
(***************************************************************************)

LEMMA ReportsTypes == ASSUME ReportFilesAssumption PROVE ReportsSpec => []ReportsTypeOK
<1> USE DEF ReportsTypeOK
<1>1. ReportsInit => ReportsTypeOK
  <2> SUFFICES ASSUME ReportsInit PROVE ReportsTypeOK
    OBVIOUS
  <2>1. 0 \in 0..NumStudies
    BY DEF ReportFilesAssumption
  <2>2. doc \in {NoFile} \cup SUBSET Sections
    BY DEF ReportsInit, Sections
  <2>3. {} \in SUBSET Sections /\ {} \subseteq Tables
    OBVIOUS
  <2> QED BY <2>1, <2>2, <2>3 DEF ReportsInit
<1>2. ReportsTypeOK /\ [ReportsNext]_reportVars => ReportsTypeOK'
  <2> SUFFICES ASSUME ReportsTypeOK, [ReportsNext]_reportVars PROVE ReportsTypeOK'
    OBVIOUS
  <2>1. CASE EndStudy
    <3>1. grids + 1 \in 0..NumStudies
      BY <2>1 DEF EndStudy, ReportFilesAssumption
    <3>2. stopped' \in BOOLEAN
      BY <2>1 DEF EndStudy
    <3> QED BY <2>1, <3>1, <3>2 DEF EndStudy
  <2>2. ASSUME NEW g \in Studies, Generate(g) PROVE ReportsTypeOK'
    <3>1. CASE Scan(g)
      BY <2>2, <3>1 DEF Scan, To
    <3>2. ASSUME NEW t \in Tables, OpenTable(g, t) PROVE ReportsTypeOK'
      BY <2>2, <3>2 DEF OpenTable, To, Opened, Tables
    <3>3. CASE WriteMaster(g)
      BY <2>2, <3>3 DEF WriteMaster, WriteTable, To, Tables
    <3>4. CASE WriteData(g)
      BY <2>2, <3>4 DEF WriteData, WriteTable, To, Tables
    <3>5. CASE ReadDoc(g)
      BY <2>2, <3>5 DEF ReadDoc, To, NoFile, Sections
    <3>6. CASE OpenDoc(g)
      BY <2>2, <3>6 DEF OpenDoc, To
    <3>7. CASE WriteDoc(g)
      BY <2>2, <3>7 DEF WriteDoc, To, Sections
    <3> QED BY <2>2, <3>1, <3>2, <3>3, <3>4, <3>5, <3>6, <3>7 DEF Generate
  <2>3. CASE Exit \/ NewCommand
    BY <2>3 DEF Exit, NewCommand
  <2>4. CASE UNCHANGED reportVars
    BY <2>4 DEF reportVars
  <2> QED BY <2>1, <2>2, <2>3, <2>4 DEF ReportsNext
<1> QED BY <1>1, <1>2, PTL DEF ReportsSpec

(***************************************************************************)
(* While no thread was stopped or overtaken, only that of the last study   *)
(* is active, nobody else has its files open, and what they hold follows   *)
(* from how far it has come.                                               *)
(***************************************************************************)
Doing(steps) == grids > 0 /\ gen[grids] \in steps
OnlyLast == \A g \in Studies : g # grids => gen[g] \in {"none", "ended"}
NotBegun == \A g \in Studies : g > grids => gen[g] = "none"
LastStarted == grids > 0 => gen[grids] # "none"
Scanned == Doing({"master", "masterOpen", "doc", "read", "text", "data", "dataOpen", "ended"}) =>
             seen[grids] = grids
MasterDone == Doing({"doc", "read", "text", "data", "dataOpen", "ended"}) => table["master"] = grids
DataDone == Doing({"ended"}) => table["data"] = grids
HeadKept == ~Doing({"text"}) => doc = NoFile \/ "head" \in doc
HeadRead == Doing({"read", "text"}) => "head" \in base[grids]
HeadBack == Doing({"data", "dataOpen", "ended"}) => "head" \in doc
Uncut == /\ OnlyLast /\ LastStarted /\ mixed = {} /\ Scanned /\ MasterDone /\ DataDone
         /\ HeadKept /\ HeadRead /\ HeadBack
ReportsInv == NotBegun /\ (~stopped => Uncut)

(* A step of a report thread is one of the last study's.                   *)
LEMMA ReportStep ==
  ASSUME ReportsTypeOK, ReportsInv, ~stopped, NEW g \in Studies, gen[g] \notin {"none", "ended"}
  PROVE  g = grids /\ grids \in Studies /\ grids > 0
BY DEF ReportsInv, Uncut, OnlyLast, Studies

(* It leaves the others as they are.                                       *)
LEMMA OthersKept ==
  ASSUME ReportsTypeOK, ReportsInv, ~stopped, NEW g \in Studies, g = grids,
         NEW step, step # "none", gen' = [gen EXCEPT ![g] = step], UNCHANGED <<grids>>
  PROVE  NotBegun' /\ OnlyLast' /\ LastStarted' /\ gen'[grids'] = step
BY DEF ReportsInv, Uncut, NotBegun, OnlyLast, LastStarted, Studies, ReportsTypeOK

LEMMA UncutReport ==
  ASSUME ReportsTypeOK, ReportsInv, NEW g \in Studies, Generate(g), ~stopped
  PROVE  NotBegun' /\ Uncut'
<1> USE DEF To
<1>1. CASE Scan(g)
  <2>1. gen[g] = "scan" /\ gen' = [gen EXCEPT ![g] = "master"] /\ seen' = [seen EXCEPT ![g] = grids]
        /\ UNCHANGED <<grids, base, table, doc, mixed>>
    BY <1>1 DEF Scan
  <2>2. g = grids /\ grids \in Studies /\ grids > 0
    BY <2>1, ReportStep
  <2>3. NotBegun' /\ OnlyLast' /\ LastStarted' /\ gen'[grids'] = "master"
    BY <2>1, <2>2, OthersKept
  <2>4. Scanned' /\ MasterDone' /\ DataDone'
    BY <2>1, <2>2, <2>3 DEF Scanned, MasterDone, DataDone, Doing, ReportsTypeOK
  <2>5. HeadKept' /\ HeadRead' /\ HeadBack'
    BY <2>1, <2>2, <2>3 DEF HeadKept, HeadRead, HeadBack, Doing, ReportsInv, Uncut
  <2> QED BY <2>1, <2>3, <2>4, <2>5 DEF ReportsInv, Uncut
<1>2. ASSUME NEW t \in Tables, OpenTable(g, t) PROVE NotBegun' /\ Uncut'
  <2>1. gen[g] = t /\ gen' = [gen EXCEPT ![g] = Opened(t)] /\ table' = [table EXCEPT ![t] = Torn]
        /\ UNCHANGED <<grids, seen, base, doc>>
    BY <1>2 DEF OpenTable
  <2>2. g = grids /\ grids \in Studies /\ grids > 0
    BY <2>1, ReportStep DEF Tables
  <2>3. NotBegun' /\ OnlyLast' /\ LastStarted' /\ gen'[grids'] = Opened(t)
    <3>1. Opened(t) # "none"
      BY DEF Opened
    <3> QED BY <2>1, <2>2, <3>1, OthersKept
  <2>4. mixed' = {}
    <3>1. \A h \in Studies : gen[h] # Opened(t)
      BY <2>1, <2>2 DEF Opened, Tables, ReportsInv, Uncut, OnlyLast
    <3> QED BY <1>2, <3>1 DEF OpenTable, ReportsInv, Uncut
  <2>5. Scanned' /\ MasterDone' /\ DataDone'
    BY <2>1, <2>2, <2>3 DEF Scanned, MasterDone, DataDone, Doing, ReportsTypeOK, ReportsInv, Uncut, Opened, Tables
  <2>6. HeadKept' /\ HeadRead' /\ HeadBack'
    BY <2>1, <2>2, <2>3 DEF HeadKept, HeadRead, HeadBack, Doing, ReportsInv, Uncut, Opened, Tables
  <2> QED BY <2>3, <2>4, <2>5, <2>6 DEF Uncut
<1>3. ASSUME NEW t \in Tables, NEW step \in {"doc", "ended"}, WriteTable(g, t), running,
             gen' = [gen EXCEPT ![g] = step], step = IF t = "master" THEN "doc" ELSE "ended"
      PROVE  NotBegun' /\ Uncut'
  <2>1. gen[g] = Opened(t) /\ UNCHANGED <<grids, seen, base, doc, mixed>>
    BY <1>3 DEF WriteTable
  <2>2. g = grids /\ grids \in Studies /\ grids > 0
    BY <2>1, ReportStep DEF Opened
  <2>3. NotBegun' /\ OnlyLast' /\ LastStarted' /\ gen'[grids'] = step
    BY <1>3, <2>1, <2>2, OthersKept
  <2>4. table' = [table EXCEPT ![t] = grids]
    BY <1>3, <2>1, <2>2 DEF WriteTable, ReportsInv, Uncut, Scanned, Doing, Opened
  <2>5. Scanned' /\ MasterDone' /\ DataDone'
    BY <1>3, <2>1, <2>2, <2>3, <2>4
       DEF Scanned, MasterDone, DataDone, Doing, ReportsTypeOK, ReportsInv, Uncut, Opened, Tables
  <2>6. HeadKept' /\ HeadRead' /\ HeadBack'
    BY <1>3, <2>1, <2>2, <2>3 DEF HeadKept, HeadRead, HeadBack, Doing, ReportsInv, Uncut, Opened, Tables
  <2> QED BY <2>1, <2>3, <2>5, <2>6 DEF Uncut, ReportsInv
<1>4. CASE WriteMaster(g)
  BY <1>3, <1>4 DEF WriteMaster, Tables
<1>5. CASE WriteData(g)
  BY <1>3, <1>5 DEF WriteData, Tables
<1>6. CASE ReadDoc(g)
  <2>1. gen[g] = "doc" /\ gen' = [gen EXCEPT ![g] = "read"] /\ UNCHANGED <<grids, seen, table, doc, mixed>>
    BY <1>6 DEF ReadDoc
  <2>2. g = grids /\ grids \in Studies /\ grids > 0
    BY <2>1, ReportStep
  <2>3. NotBegun' /\ OnlyLast' /\ LastStarted' /\ gen'[grids'] = "read"
    BY <2>1, <2>2, OthersKept
  <2>4. Scanned' /\ MasterDone' /\ DataDone' /\ HeadKept' /\ HeadBack'
    BY <2>1, <2>2, <2>3 DEF Scanned, MasterDone, DataDone, HeadKept, HeadBack, Doing, ReportsInv, Uncut
  <2>5. "head" \in base'[grids]
    <3>1. doc = NoFile \/ "head" \in doc
      BY <2>1, <2>2 DEF ReportsInv, Uncut, HeadKept, Doing
    <3> QED BY <1>6, <2>2, <3>1 DEF ReadDoc, ReportsTypeOK, NoFile
  <2> QED BY <2>1, <2>3, <2>4, <2>5 DEF Uncut, ReportsInv, HeadRead
<1>7. CASE OpenDoc(g)
  <2>1. gen[g] = "read" /\ gen' = [gen EXCEPT ![g] = "text"] /\ UNCHANGED <<grids, seen, base, table, mixed>>
    BY <1>7 DEF OpenDoc
  <2>2. g = grids /\ grids \in Studies /\ grids > 0
    BY <2>1, ReportStep
  <2>3. NotBegun' /\ OnlyLast' /\ LastStarted' /\ gen'[grids'] = "text"
    BY <2>1, <2>2, OthersKept
  <2>4. Scanned' /\ MasterDone' /\ DataDone' /\ HeadKept' /\ HeadRead' /\ HeadBack'
    BY <2>1, <2>2, <2>3
       DEF Scanned, MasterDone, DataDone, HeadKept, HeadRead, HeadBack, Doing, ReportsInv, Uncut
  <2> QED BY <2>1, <2>3, <2>4 DEF Uncut, ReportsInv
<1>8. CASE WriteDoc(g)
  <2>1. gen[g] = "text" /\ gen' = [gen EXCEPT ![g] = "data"] /\ doc' = base[g] \cup {"results"}
        /\ UNCHANGED <<grids, seen, base, table, mixed>>
    BY <1>8 DEF WriteDoc
  <2>2. g = grids /\ grids \in Studies /\ grids > 0
    BY <2>1, ReportStep
  <2>3. NotBegun' /\ OnlyLast' /\ LastStarted' /\ gen'[grids'] = "data"
    BY <2>1, <2>2, OthersKept
  <2>4. Scanned' /\ MasterDone' /\ DataDone' /\ HeadKept' /\ HeadRead' /\ HeadBack'
    BY <2>1, <2>2, <2>3
       DEF Scanned, MasterDone, DataDone, HeadKept, HeadRead, HeadBack, Doing, ReportsInv, Uncut
  <2> QED BY <2>1, <2>3, <2>4 DEF Uncut, ReportsInv
<1> QED BY <1>1, <1>2, <1>4, <1>5, <1>6, <1>7, <1>8 DEF Generate

LEMMA CurrentInReports == ASSUME ReportFilesAssumption PROVE ReportsSpec => []ReportsCurrentUnlessCut
<1>1. ReportsInit => ReportsInv
  BY DEF ReportsInit, ReportsInv, Uncut, NotBegun, OnlyLast, LastStarted, Scanned, MasterDone, DataDone,
         HeadKept, HeadRead, HeadBack, Doing, NoFile, Sections, Studies
<1>2. ReportsTypeOK /\ ReportsInv /\ [ReportsNext]_reportVars => ReportsInv'
  <2> SUFFICES ASSUME ReportsTypeOK, ReportsInv, [ReportsNext]_reportVars PROVE ReportsInv'
    OBVIOUS
  <2>1. CASE EndStudy
    <3>1. /\ grids' = grids + 1 /\ grids + 1 \in Studies /\ gen' = [gen EXCEPT ![grids + 1] = "scan"]
          /\ stopped' = (stopped \/ Active # {}) /\ UNCHANGED <<seen, base, table, doc, mixed>>
      BY <2>1 DEF EndStudy, Studies, ReportsTypeOK, ReportFilesAssumption
    <3>2. NotBegun'
      BY <3>1 DEF NotBegun, ReportsInv, Studies, ReportsTypeOK
    <3>3. ASSUME ~stopped' PROVE Uncut'
      <4>1. ~stopped /\ \A g \in Studies : gen[g] \in {"none", "ended"}
        BY <3>1, <3>3 DEF Active
      <4>2. OnlyLast' /\ gen'[grids'] = "scan" /\ grids' > 0
        BY <3>1, <4>1 DEF OnlyLast, ReportsTypeOK
      <4>3. doc = NoFile \/ "head" \in doc
        <5>1. ~Doing({"text"})
          BY <4>1 DEF Doing, Studies, ReportsTypeOK
        <5> QED BY <4>1, <5>1 DEF HeadKept, ReportsInv, Uncut
      <4> QED BY <3>1, <4>1, <4>2, <4>3
              DEF ReportsInv, Uncut, LastStarted, Scanned, MasterDone, DataDone, HeadKept, HeadRead,
                  HeadBack, Doing
    <3> QED BY <3>2, <3>3 DEF ReportsInv
  <2>2. ASSUME NEW g \in Studies, Generate(g) PROVE ReportsInv'
    <3>1. stopped' = stopped /\ grids' = grids
      BY <2>2 DEF Generate, Scan, OpenTable, WriteMaster, WriteData, WriteTable, ReadDoc, OpenDoc, WriteDoc
    <3>2. CASE ~stopped
      BY <2>2, <3>2, UncutReport DEF ReportsInv
    <3>3. CASE stopped
      <4>1. gen[g] # "none"
        BY <2>2 DEF Generate, Scan, OpenTable, WriteMaster, WriteData, WriteTable, ReadDoc, OpenDoc,
                    WriteDoc, Opened, Tables
      <4>2. \A h \in Studies : h # g => gen'[h] = gen[h]
        BY <2>2 DEF Generate, Scan, OpenTable, WriteMaster, WriteData, ReadDoc, OpenDoc, WriteDoc, To,
                    ReportsTypeOK
      <4> QED BY <3>1, <3>3, <4>1, <4>2 DEF ReportsInv, NotBegun
    <3> QED BY <3>2, <3>3 DEF ReportsTypeOK
  <2>3. CASE Exit
    <3>1. UNCHANGED <<grids, seen, base, table, doc, mixed>> /\ stopped' = (stopped \/ Active # {})
          /\ \A h \in Studies : gen'[h] = IF h \in Active THEN "ended" ELSE gen[h]
      BY <2>3 DEF Exit
    <3>2. NotBegun'
      BY <3>1 DEF ReportsInv, NotBegun, Active
    <3>3. ASSUME ~stopped' PROVE Uncut'
      <4>1. ~stopped /\ gen' = gen
        BY <2>3, <3>1, <3>3 DEF Exit, Active, ReportsTypeOK
      <4> QED BY <3>1, <4>1
              DEF ReportsInv, Uncut, OnlyLast, LastStarted, Scanned, MasterDone, DataDone, HeadKept,
                  HeadRead, HeadBack, Doing
    <3> QED BY <3>2, <3>3 DEF ReportsInv
  <2>4. CASE NewCommand \/ UNCHANGED reportVars
    BY <2>4 DEF NewCommand, reportVars, ReportsInv, NotBegun, Uncut, OnlyLast, LastStarted, Scanned,
                MasterDone, DataDone, HeadKept, HeadRead, HeadBack, Doing
  <2> QED BY <2>1, <2>2, <2>3, <2>4 DEF ReportsNext
<1>3. ReportsTypeOK /\ ReportsInv => ReportsCurrentUnlessCut
  <2> SUFFICES ASSUME ReportsTypeOK, ReportsInv, ~stopped, Active = {}, grids > 0
      PROVE table = [t \in Tables |-> grids] /\ "head" \in doc
    BY DEF ReportsCurrentUnlessCut
  <2>1. gen[grids] = "ended"
    BY DEF Active, ReportsInv, Uncut, LastStarted, Studies, ReportsTypeOK
  <2> QED BY <2>1 DEF ReportsInv, Uncut, MasterDone, DataDone, HeadBack, Doing, ReportsTypeOK, Tables
<1> QED BY <1>1, <1>2, <1>3, ReportsTypes, PTL DEF ReportsSpec

(***************************************************************************)
(* PlotFiles: for any grids, names and order of the datasets: the rows of  *)
(* a study go under one name, and a finished run leaves no stale picture.  *)
(***************************************************************************)

LEMMA SameFiniteSet == ASSUME NEW S PROVE Plot!IsFiniteSet(S) <=> IsFiniteSet(S)
BY DEF Plot!IsFiniteSet, IsFiniteSet
LEMMA SameCardinality == ASSUME NEW S PROVE Plot!Cardinality(S) = Cardinality(S)
BY Zenon DEF Plot!Cardinality, Cardinality

(* What a row says of itself.                                              *)
RowFieldsOf == Plot!Fields \cup {"study", "name"}
IsRow(r, s) == DOMAIN r = RowFieldsOf /\ r.cell \in Nat /\ r.study = s

LEMMA AttributedRow ==
  ASSUME Plot!ReportRowsAssumption, NEW s \in DOMAIN StudyGrids, NEW r \in StudyGrids[s]
  PROVE  /\ IsRow(Plot!Row(s, r), s) /\ Plot!Row(s, r).name = Plot!Resolved(r)
         /\ Plot!Resolved(r) \in Plot!Claims(s) \cup {Plot!Unknown}
         /\ Plot!Unknown \notin Plot!Claims(s)
         /\ Plot!Resolved(r) = Plot!Unknown <=> r.count \notin DOMAIN CountName /\ r.stem = Plot!NoStem
<1>1. DOMAIN r = Plot!Fields /\ r.cell \in Nat
  BY DEF Plot!ReportRowsAssumption
<1>2. IsRow(Plot!Row(s, r), s) /\ Plot!Row(s, r).name = Plot!Resolved(r)
  BY <1>1 DEF Plot!Row, IsRow, RowFieldsOf, Plot!Fields
<1>3. Plot!Unknown \notin Plot!Claims(s)
  BY DEF Plot!ReportRowsAssumption, Plot!Claims
<1>4. /\ Plot!Resolved(r) \in Plot!Claims(s) \cup {Plot!Unknown}
      /\ Plot!Resolved(r) = Plot!Unknown <=> r.count \notin DOMAIN CountName /\ r.stem = Plot!NoStem
  BY DEF Plot!Resolved, Plot!Claims, Plot!ReportRowsAssumption
<1> QED BY <1>2, <1>3, <1>4

LEMMA ClaimsFinite ==
  ASSUME Plot!ReportRowsAssumption, NEW s \in DOMAIN StudyGrids
  PROVE  IsFiniteSet(Plot!Claims(s))
<1> DEFINE counted == {q \in StudyGrids[s] : q.count \in DOMAIN CountName}
           stemmed == {q \in StudyGrids[s] : q.stem # Plot!NoStem}
           A == {CountName[r.count] : r \in counted}
           B == {StemName[r.stem] : r \in stemmed}
<1>1. IsFiniteSet(StudyGrids[s])
  BY SameFiniteSet DEF Plot!ReportRowsAssumption
<1>2. IsFiniteSet(counted) /\ IsFiniteSet(stemmed)
  BY <1>1, FS_Subset
<1>3. IsFiniteSet(A)
  <2> DEFINE f == [r \in counted |-> CountName[r.count]]
  <2>1. f \in Surjection(counted, A)
    BY DEF Surjection
  <2> HIDE DEF f, counted, A
  <2> QED BY <1>2, <2>1, FS_Surjection
<1>4. IsFiniteSet(B)
  <2> DEFINE f == [r \in stemmed |-> StemName[r.stem]]
  <2>1. f \in Surjection(stemmed, B)
    BY DEF Surjection
  <2> HIDE DEF f, stemmed, B
  <2> QED BY <1>2, <2>1, FS_Surjection
<1>5. IsFiniteSet(A \cup B)
  <2> HIDE DEF A, B
  <2> QED BY <1>3, <1>4, FS_Union
<1> QED BY <1>5 DEF Plot!Claims

(* The rows go under one name, which is known if the grid claims one.      *)
Named(given, s, n) == (\A r \in given : r.name = n) /\ (Plot!Claims(s) # {} => n # Plot!Unknown)
OneName(given, s) == \E n : Named(given, s, n)
Sole(names, s) == \E n : names = {n} /\ (Plot!Claims(s) # {} => n # Plot!Unknown)

(* Backfilling leaves one name, unless the claims contradict each other.   *)
LEMMA BackfilledName ==
  ASSUME Plot!ReportRowsAssumption, NEW s \in DOMAIN StudyGrids
  PROVE  /\ \A b \in Plot!Backfilled(Plot!Attributed(s)) : IsRow(b, s)
         /\ Cardinality(Plot!Claims(s)) <= 1 => OneName(Plot!Backfilled(Plot!Attributed(s)), s)
<1> DEFINE given == Plot!Attributed(s)
           names == {r.name : r \in Plot!Known(given)}
<1>1. \A a \in given : /\ IsRow(a, s) /\ a.name \in Plot!Claims(s) \cup {Plot!Unknown}
                      /\ Plot!Unknown \notin Plot!Claims(s)
  BY AttributedRow DEF Plot!Attributed
<1>2. names \subseteq Plot!Claims(s)
  BY <1>1 DEF Plot!Known
<1> HIDE DEF given
<1>7. Plot!Cardinality(names) = Cardinality(names)
  BY SameCardinality
<1>3. \A b \in Plot!Backfilled(given) : b \in given \/
        \E a \in given, n \in names : b = [a EXCEPT !.name = n] /\ Cardinality(names) = 1
  <2>1. CASE Cardinality(names) # 1
    BY <1>7, <2>1 DEF Plot!Backfilled
  <2>2. CASE Cardinality(names) = 1
    <3>1. PICK m : names = {m}
      <4>1. IsFiniteSet(names)
        BY <1>2, ClaimsFinite, FS_Subset
      <4> HIDE DEF names
      <4> QED BY <2>2, <4>1, FS_Singleton
    <3>2. (CHOOSE n \in names : TRUE) \in names
      BY <3>1
    <3> QED BY <1>7, <2>2, <3>2 DEF Plot!Backfilled
  <2> QED BY <2>1, <2>2
<1>4. \A b \in Plot!Backfilled(given) : IsRow(b, s)
  <2> SUFFICES ASSUME NEW b \in Plot!Backfilled(given) PROVE IsRow(b, s)
    OBVIOUS
  <2>1. CASE b \in given
    BY <1>1, <2>1
  <2>2. ASSUME NEW a \in given, NEW n, b = [a EXCEPT !.name = n] PROVE IsRow(b, s)
    <3>1. IsRow(a, s)
      BY <1>1
    <3> QED BY <2>2, <3>1 DEF IsRow, RowFieldsOf
  <2> QED BY <1>3, <2>1, <2>2
<1>5. ASSUME Plot!Claims(s) = {} PROVE Named(Plot!Backfilled(given), s, Plot!Unknown)
  BY <1>1, <1>2, <1>3, <1>5 DEF Named
<1>6. ASSUME Plot!Claims(s) # {}, Cardinality(Plot!Claims(s)) <= 1
      PROVE  \E n : Named(Plot!Backfilled(given), s, n)
  <2>1. PICK n : Plot!Claims(s) = {n}
    <3>1. Cardinality(Plot!Claims(s)) \in Nat /\ Cardinality(Plot!Claims(s)) # 0
      BY <1>6, ClaimsFinite, FS_CardinalityType, FS_EmptySet
    <3>2. Cardinality(Plot!Claims(s)) = 1
      BY <1>6, <3>1
    <3> QED BY <3>2, ClaimsFinite, FS_Singleton
  <2>2. n # Plot!Unknown /\ \E r \in StudyGrids[s] : r.count \in DOMAIN CountName \/ r.stem # Plot!NoStem
    BY <2>1 DEF Plot!Claims, Plot!ReportRowsAssumption
  <2>3. names = {n}
    <3>1. PICK r \in StudyGrids[s] : Plot!Resolved(r) # Plot!Unknown
      BY <2>2, AttributedRow
    <3>2. Plot!Row(s, r) \in Plot!Known(given)
      BY <3>1, AttributedRow DEF Plot!Known, Plot!Attributed, given
    <3> QED BY <1>2, <2>1, <3>2
  <2>4. Cardinality(names) = 1 /\ (CHOOSE m \in names : TRUE) = n
    <3>1. Cardinality(names) = 1
      BY <2>3, FS_Singleton
    <3> QED BY <2>3, <3>1
  <2>5. Plot!Backfilled(given) = {[r EXCEPT !.name = n] : r \in given}
    <3>1. Plot!Backfilled(given) = {[r EXCEPT !.name = CHOOSE m \in names : TRUE] : r \in given}
      BY <1>7, <2>4 DEF Plot!Backfilled
    <3> QED BY <2>4, <3>1
  <2>6. \A a \in given : [a EXCEPT !.name = n].name = n
    BY <1>1 DEF IsRow, RowFieldsOf
  <2>7. Named(Plot!Backfilled(given), s, n)
    BY <2>2, <2>5, <2>6 DEF Named
  <2> QED BY <2>7
<1> QED BY <1>4, <1>5, <1>6 DEF given, OneName

(* A set of naturals has a least element.                                  *)
LEMMA LeastNatural ==
  ASSUME NEW S \in SUBSET Nat, S # {}
  PROVE  \E m \in S : \A n \in S : m <= n
<1>1. PICK m \in S : \A n \in S : <<n, m>> \notin OpToRel(<, Nat)
  BY NatLessThanWellFounded, WFMin, Zenon
<1>2. \A n \in S : ~ (n < m)
  BY <1>1, Zenon DEF OpToRel
<1> QED BY <1>2

(* Deduplicating changes neither the study nor the name of a row.          *)
LEMMA DeduplicatedRow ==
  ASSUME NEW s, NEW given, \A q \in given : IsRow(q, s), NEW d \in Plot!Deduplicated(given)
  PROVE  d.study = s /\ d.name \in {q.name : q \in given}
<1> DEFINE swept == {r \in given : r.phase = Plot!HybridSweep}
           Copies(r) == {q \in swept : Plot!SameMeasurement(q, r)}
           First(copies) == CHOOSE r \in copies : \A q \in copies : r.cell <= q.cell
           Merged(copies) ==
             IF \E q \in copies : q.type # First(copies).type
               THEN [First(copies) EXCEPT !.type = "all"] ELSE First(copies)
<1>1. Plot!Deduplicated(given) = (given \ swept) \cup {Merged(Copies(r)) : r \in swept}
  BY DEF Plot!Deduplicated
<1>2. ASSUME NEW r \in swept PROVE First(Copies(r)) \in given
  <2> DEFINE C == Copies(r)
             M == {q.cell : q \in C}
  <2>1. r \in C /\ C \subseteq given
    BY DEF Plot!SameMeasurement
  <2>2. M \in SUBSET Nat /\ M # {}
    BY <2>1 DEF IsRow
  <2>3. PICK m \in M : \A k \in M : m <= k
    <3> HIDE DEF M
    <3> QED BY <2>2, LeastNatural
  <2> HIDE DEF C
  <2>4. \E c \in C : \A q \in C : c.cell <= q.cell
    BY <2>3
  <2>5. First(C) \in C
    BY <2>4
  <2> QED BY <2>1, <2>5 DEF C
<1>3. ASSUME NEW r \in swept PROVE Merged(Copies(r)).study = s /\ \E q \in given : Merged(Copies(r)).name = q.name
  <2> DEFINE q == First(Copies(r))
  <2>1. q \in given /\ IsRow(q, s)
    BY <1>2
  <2>2. Merged(Copies(r)) = q \/ Merged(Copies(r)) = [q EXCEPT !.type = "all"]
    OBVIOUS
  <2> HIDE DEF q, Merged
  <2>3. [q EXCEPT !.type = "all"].study = s /\ [q EXCEPT !.type = "all"].name = q.name
    BY <2>1 DEF IsRow, RowFieldsOf
  <2> QED BY <2>1, <2>2, <2>3 DEF IsRow
<1> HIDE DEF Merged, Copies
<1> QED BY <1>1, <1>3 DEF IsRow

(* What is loaded are the rows of some studies; the order of the datasets. *)
RowsInv == disk \subseteq DOMAIN StudyGrids /\ \E D \in SUBSET DOMAIN StudyGrids : cells = Plot!Loaded(D)

LEMMA LoadedUnderOneName == ASSUME Plot!ReportRowsAssumption, RowsInv PROVE Plot!StudiesUnderOneName
<1>1. PICK D \in SUBSET DOMAIN StudyGrids : cells = UNION {Plot!StudyRows(s) : s \in D}
  BY DEF RowsInv, Plot!Loaded
<1>2. ASSUME NEW s \in DOMAIN StudyGrids, NEW r \in Plot!StudyRows(s)
      PROVE  r.study = s /\ r.name \in {q.name : q \in Plot!Backfilled(Plot!Attributed(s))}
  <2> DEFINE given == Plot!Backfilled(Plot!Attributed(s))
  <2>1. (\A q \in given : IsRow(q, s)) /\ r \in Plot!Deduplicated(given)
    BY BackfilledName DEF Plot!StudyRows
  <2> HIDE DEF given
  <2>2. r.study = s /\ r.name \in {q.name : q \in given}
    BY <2>1, DeduplicatedRow
  <2> QED BY <2>2 DEF given
<1>3. ASSUME NEW s \in {r.study : r \in cells}, Cardinality(Plot!Claims(s)) <= 1
      PROVE  Sole({r.name : r \in {q \in cells : q.study = s}}, s)
  <2>1. PICK r \in cells : r.study = s
    BY <1>3
  <2>2. s \in DOMAIN StudyGrids /\ \A q \in cells : q.study = s => q \in Plot!StudyRows(s)
    BY <1>1, <1>2, <2>1
  <2>3. PICK n : Named(Plot!Backfilled(Plot!Attributed(s)), s, n)
    BY <1>3, <2>2, BackfilledName DEF OneName
  <2>4. \A q \in cells : q.study = s => q.name = n
    BY <1>2, <2>2, <2>3 DEF Named
  <2>5. {q.name : q \in {p \in cells : p.study = s}} = {n}
    BY <2>1, <2>4
  <2> QED BY <2>3, <2>5 DEF Named, Sole
<1>4. ASSUME NEW s \in {r.study : r \in cells} PROVE Plot!UnderOneName(s, cells)
  <2> DEFINE names == {r.name : r \in {q \in cells : q.study = s}}
  <2>1. /\ Plot!Cardinality(Plot!Claims(s)) = Cardinality(Plot!Claims(s))
        /\ Plot!Cardinality(names) = Cardinality(names)
    BY SameCardinality
  <2>2. ASSUME Cardinality(Plot!Claims(s)) <= 1
        PROVE  Cardinality(names) = 1 /\ (Plot!Claims(s) # {} => Plot!Unknown \notin names)
    <3>1. Sole(names, s)
      BY <1>3, <2>2
    <3> HIDE DEF names
    <3>2. PICK n : names = {n} /\ (Plot!Claims(s) # {} => n # Plot!Unknown)
      BY <3>1 DEF Sole
    <3>3. Cardinality({n}) = 1
      BY FS_Singleton
    <3> QED BY <3>2, <3>3
  <2> QED BY <2>1, <2>2 DEF Plot!UnderOneName
<1> QED BY <1>4 DEF Plot!StudiesUnderOneName

LEMMA RowsStep == ASSUME RowsInv, Plot!PlotNext PROVE RowsInv'
<1>1. CASE UNCHANGED cells
  <2>1. disk' \subseteq DOMAIN StudyGrids
    BY DEF RowsInv, Plot!PlotNext, Plot!AddStudy, Plot!RemoveStudy, Plot!Load, Plot!OnePicture,
           Plot!CrossPictures, Plot!SkipAbsent, Plot!SkipIfSaturated, Plot!StrategyComparison,
           Plot!DecaySweepPlot, Plot!RecallCurve, Plot!Bm25Sweep, Plot!MemoryType, Plot!BestConfigCard,
           Plot!Draw, Plot!UnchangedByDrawing, Plot!StrategyBars, Plot!NoStrategyBars, Plot!Raises,
           Plot!CrossDecay, Plot!CompositeBreakdown, Plot!BestConfigsSummary,
           Plot!WriteRecommendations, Plot!NothingToRecommend, Plot!PlotFails
  <2> QED BY <1>1, <2>1 DEF RowsInv
<1>2. CASE Plot!Load
  BY <1>2 DEF Plot!Load, RowsInv
<1>3. CASE ~Plot!Load
  <2>1. UNCHANGED cells
    BY <1>3 DEF Plot!PlotNext, Plot!AddStudy, Plot!RemoveStudy, Plot!OnePicture,
           Plot!CrossPictures, Plot!SkipAbsent, Plot!SkipIfSaturated, Plot!StrategyComparison,
           Plot!DecaySweepPlot, Plot!RecallCurve, Plot!Bm25Sweep, Plot!MemoryType, Plot!BestConfigCard,
           Plot!Draw, Plot!UnchangedByDrawing, Plot!StrategyBars, Plot!NoStrategyBars, Plot!Raises,
           Plot!CrossDecay, Plot!CompositeBreakdown, Plot!BestConfigsSummary,
           Plot!WriteRecommendations, Plot!NothingToRecommend, Plot!PlotFails
  <2> QED BY <1>1, <2>1
<1> QED BY <1>2, <1>3

(* The pictures a run has gone over, of a dataset and across them.         *)
Before(s) ==
  CASE s = "strategies" -> {} [] s = "decay" -> {"strategies"} [] s = "recall" -> {"strategies", "decay"}
    [] s = "bm25" -> {"strategies", "decay", "recall"}
    [] s = "memory" -> {"strategies", "decay", "recall", "bm25"}
    [] s = "card" -> {"strategies", "decay", "recall", "bm25", "memory"}
CrossBefore(s) ==
  CASE s = "strategies" -> {} [] s = "decays" -> {"bars"} [] s = "breakdown" -> {"bars", "decays"}
    [] s = "best" -> {"bars", "decays", "breakdown"} [] s = "document" -> Plot!CrossSlots

Fresh(p) == pictures[p] \in {0, turn}
DatasetsGoneOver ==
  \A i \in DOMAIN DisplayOrder : i < dataset /\ DisplayOrder[i] \in Plot!Present =>
    \A t \in Plot!DatasetSlots : Fresh(<<DisplayOrder[i], t>>)
SlotsGoneOver ==
  IF dataset <= Len(DisplayOrder)
    THEN /\ slot \in Plot!DatasetSlots /\ (slot # "strategies" => Plot!Rows # {})
         /\ \A t \in Before(slot) : Fresh(<<Plot!Name, t>>)
    ELSE /\ slot \in {"strategies", "decays", "breakdown", "best", "document"}
         /\ \A t \in CrossBefore(slot) : Fresh(<<Plot!Across, t>>)

(* A run that is going has gone over what comes before its position; the   *)
(* dashboard is of the rows loaded.                                        *)
PicturesInv ==
  /\ DOMAIN pictures = Plot!Places /\ turn \in Nat /\ dataset \in 1..(Len(DisplayOrder) + 1)
  /\ dashboard = Plot!ReportsData(cells)
  /\ verdict = "running" => DatasetsGoneOver /\ SlotsGoneOver
  /\ Plot!FinishedPlotsAgree

LEMMA OrderTypes ==
  ASSUME Plot!PlotFilesAssumption
  PROVE  /\ Len(DisplayOrder) \in Nat /\ DOMAIN DisplayOrder = 1..Len(DisplayOrder)
         /\ \A i \in DOMAIN DisplayOrder, t \in Plot!DatasetSlots : <<DisplayOrder[i], t>> \in Plot!Places
         /\ \A t \in Plot!CrossSlots : <<Plot!Across, t>> \in Plot!Places
<1>1. Len(DisplayOrder) \in Nat /\ DOMAIN DisplayOrder = 1..Len(DisplayOrder)
  BY DEF Plot!PlotFilesAssumption
<1> QED BY <1>1 DEF Plot!Places, Plot!Ordered

(* Drawing a picture, or removing it, leaves none that is older.           *)
LEMMA FreshStays ==
  ASSUME DOMAIN pictures = Plot!Places, turn \in Nat, turn' = turn,
         NEW place \in Plot!Places, NEW drawn, pictures' = Plot!Redrawn(place, drawn)
  PROVE  /\ DOMAIN pictures' = Plot!Places /\ Fresh(place)'
         /\ \A p \in Plot!Places : Fresh(p) => Fresh(p)'
BY DEF Plot!Redrawn, Fresh

(* The rows of a dataset that is displayed do not change while they are    *)
(* drawn.                                                                  *)
LEMMA SameRows ==
  ASSUME cells' = cells
  PROVE  Plot!Present' = Plot!Present /\ Plot!ReportsData(cells)' = Plot!ReportsData(cells)
BY DEF Plot!Present

LEMMA BeforeSlots ==
  /\ \A t \in Plot!DatasetSlots : Before(t) \subseteq Plot!DatasetSlots
  /\ Before("strategies") = {} /\ CrossBefore("strategies") = {}
  /\ Before("card") \cup {"card"} = Plot!DatasetSlots
BY DEF Before, CrossBefore, Plot!DatasetSlots

LEMMA DrawStep ==
  ASSUME Plot!PlotFilesAssumption, PicturesInv, NEW this \in Plot!DatasetSlots, NEW then, NEW drawn,
         Plot!Draw(this, then, drawn),
         IF this = "card" THEN then = "strategies"
           ELSE /\ then \in Plot!DatasetSlots \ {"strategies"}
                /\ Before(then) \subseteq Before(this) \cup {this}
  PROVE  PicturesInv'
<1>1. /\ verdict = "running" /\ dataset <= Len(DisplayOrder) /\ Plot!Rows # {} /\ slot = this
      /\ pictures' = Plot!Redrawn(<<Plot!Name, this>>, drawn) /\ slot' = then
      /\ dataset' = (IF this = "card" THEN dataset + 1 ELSE dataset)
      /\ UNCHANGED <<disk, cells, turn, verdict, dashboard, document>>
  BY DEF Plot!Draw, Plot!Drawing, Plot!UnchangedByDrawing
<1>2. /\ DOMAIN pictures = Plot!Places /\ turn \in Nat /\ dataset \in 1..(Len(DisplayOrder) + 1)
      /\ DatasetsGoneOver /\ \A t \in Before(this) : Fresh(<<Plot!Name, t>>)
  BY <1>1 DEF PicturesInv, SlotsGoneOver
<1>3. PICK k \in DOMAIN DisplayOrder : k = dataset /\ Plot!Name = DisplayOrder[k]
  BY <1>1, <1>2, OrderTypes DEF Plot!Name
<1>4. dataset' \in 1..(Len(DisplayOrder) + 1)
  BY <1>1, <1>2, OrderTypes
<1>5. /\ DOMAIN pictures' = Plot!Places /\ Fresh(<<DisplayOrder[k], this>>)'
      /\ \A p \in Plot!Places : Fresh(p) => Fresh(p)'
  <2> DEFINE place == <<DisplayOrder[k], this>>
  <2>1. place \in Plot!Places /\ pictures' = Plot!Redrawn(place, drawn)
    BY <1>1, <1>3, OrderTypes
  <2> HIDE DEF place
  <2>2. DOMAIN pictures' = Plot!Places /\ Fresh(place)' /\ \A p \in Plot!Places : Fresh(p) => Fresh(p)'
    BY <1>1, <1>2, <2>1, FreshStays
  <2> QED BY <2>2 DEF place
<1>6. \A t \in Before(this) \cup {this} : Fresh(<<DisplayOrder[k], t>>)'
  BY <1>2, <1>3, <1>5, OrderTypes, BeforeSlots
<1>7. DatasetsGoneOver'
  <2> SUFFICES ASSUME NEW i \in DOMAIN DisplayOrder, i < dataset', DisplayOrder[i] \in Plot!Present,
                      NEW t \in Plot!DatasetSlots
               PROVE  Fresh(<<DisplayOrder[i], t>>)'
    BY <1>1, SameRows DEF DatasetsGoneOver
  <2>1. CASE i < dataset
    BY <1>2, <1>5, <2>1, OrderTypes DEF DatasetsGoneOver
  <2>2. CASE ~(i < dataset)
    <3>1. this = "card" /\ i = k
      BY <1>1, <1>2, <1>3, <2>2, OrderTypes
    <3> QED BY <1>6, <3>1, BeforeSlots
  <2> QED BY <2>1, <2>2
<1>8. SlotsGoneOver'
  <2>1. CASE this = "card"
    BY <1>1, <2>1, BeforeSlots DEF SlotsGoneOver, Plot!DatasetSlots
  <2>2. CASE this # "card"
    <3>1. Plot!Rows' = Plot!Rows /\ Plot!Name' = DisplayOrder[k]
      BY <1>1, <1>3, <2>2 DEF Plot!Rows, Plot!Name
    <3> QED BY <1>1, <1>6, <2>2, <3>1 DEF SlotsGoneOver
  <2> QED BY <2>1, <2>2
<1> QED BY <1>1, <1>2, <1>4, <1>5, <1>7, <1>8 DEF PicturesInv, Plot!FinishedPlotsAgree

(* The same for the pictures across datasets.                              *)
LEMMA CrossStep ==
  ASSUME Plot!PlotFilesAssumption, PicturesInv, NEW this, Plot!Crossing(this),
         NEW place \in Plot!CrossSlots, NEW drawn, Plot!Cross(place, drawn),
         slot' \in {"decays", "breakdown", "best", "document"},
         CrossBefore(slot') \subseteq CrossBefore(this) \cup {place},
         CrossBefore(this) \subseteq Plot!CrossSlots,
         UNCHANGED <<disk, cells, turn, dataset, verdict, dashboard, document>>
  PROVE  PicturesInv'
<1>1. /\ DOMAIN pictures = Plot!Places /\ turn \in Nat /\ dataset \in 1..(Len(DisplayOrder) + 1)
      /\ verdict = "running" /\ ~(dataset <= Len(DisplayOrder)) /\ slot = this
      /\ DatasetsGoneOver /\ \A t \in CrossBefore(this) : Fresh(<<Plot!Across, t>>)
  BY OrderTypes DEF PicturesInv, SlotsGoneOver, Plot!Crossing
<1>2. /\ DOMAIN pictures' = Plot!Places /\ Fresh(<<Plot!Across, place>>)'
      /\ \A p \in Plot!Places : Fresh(p) => Fresh(p)'
  <2> DEFINE q == <<Plot!Across, place>>
  <2>1. q \in Plot!Places /\ pictures' = Plot!Redrawn(q, drawn)
    BY OrderTypes DEF Plot!Cross
  <2> HIDE DEF q
  <2>2. DOMAIN pictures' = Plot!Places /\ Fresh(q)' /\ \A p \in Plot!Places : Fresh(p) => Fresh(p)'
    BY <1>1, <2>1, FreshStays
  <2> QED BY <2>2 DEF q
<1>3. DatasetsGoneOver'
  BY <1>1, <1>2, OrderTypes, SameRows DEF DatasetsGoneOver
<1>4. \A t \in CrossBefore(slot') : Fresh(<<Plot!Across, t>>)'
  BY <1>1, <1>2, OrderTypes
<1>5. SlotsGoneOver'
  BY <1>1, <1>4 DEF SlotsGoneOver
<1> QED BY <1>1, <1>2, <1>3, <1>5 DEF PicturesInv, Plot!FinishedPlotsAgree

LEMMA DatasetStep ==
  ASSUME Plot!PlotFilesAssumption, PicturesInv, Plot!OnePicture
  PROVE  PicturesInv'
<1>1. CASE Plot!SkipAbsent \/ Plot!SkipIfSaturated
  <2>1. /\ verdict = "running" /\ dataset <= Len(DisplayOrder) /\ slot = "strategies" /\ slot' = slot
        /\ dataset' = dataset + 1 /\ UNCHANGED <<disk, cells, turn, verdict, dashboard, document>>
        /\ (Plot!Rows = {} /\ pictures' = pictures) \/ pictures' = Plot!Removed(Plot!Name)
    BY <1>1 DEF Plot!SkipAbsent, Plot!SkipIfSaturated, Plot!Drawing, Plot!UnchangedByDrawing,
                PicturesInv, SlotsGoneOver
  <2>2. /\ DOMAIN pictures = Plot!Places /\ turn \in Nat /\ dataset \in 1..(Len(DisplayOrder) + 1)
        /\ DatasetsGoneOver
    BY <2>1 DEF PicturesInv
  <2>3. PICK k \in DOMAIN DisplayOrder : k = dataset /\ Plot!Name = DisplayOrder[k]
    BY <2>1, <2>2, OrderTypes DEF Plot!Name
  <2>4. /\ DOMAIN pictures' = Plot!Places /\ \A p \in Plot!Places : Fresh(p) => Fresh(p)'
    BY <2>1, <2>2 DEF Plot!Removed, Fresh
  <2>5. DisplayOrder[k] \in Plot!Present => \A t \in Plot!DatasetSlots : Fresh(<<DisplayOrder[k], t>>)'
    <3>1. CASE Plot!Rows = {}
      BY <2>3, <3>1 DEF Plot!Present, Plot!Rows
    <3>2. CASE pictures' = Plot!Removed(Plot!Name)
      BY <2>3, <3>2, OrderTypes DEF Plot!Removed, Fresh
    <3> QED BY <2>1, <3>1, <3>2
  <2>6. DatasetsGoneOver'
    <3> SUFFICES ASSUME NEW i \in DOMAIN DisplayOrder, i < dataset', DisplayOrder[i] \in Plot!Present,
                        NEW t \in Plot!DatasetSlots
                 PROVE  Fresh(<<DisplayOrder[i], t>>)'
      BY <2>1, SameRows DEF DatasetsGoneOver
    <3>1. CASE i < dataset
      BY <2>2, <2>4, <3>1, OrderTypes DEF DatasetsGoneOver
    <3>2. CASE ~(i < dataset)
      <4>1. i = k
        BY <2>1, <2>2, <2>3, <3>2, OrderTypes
      <4> QED BY <2>5, <4>1
    <3> QED BY <3>1, <3>2
  <2>7. SlotsGoneOver'
    BY <2>1, BeforeSlots DEF SlotsGoneOver, Plot!DatasetSlots
  <2>8. dataset' \in 1..(Len(DisplayOrder) + 1)
    BY <2>1, <2>2, OrderTypes
  <2> QED BY <2>1, <2>2, <2>4, <2>6, <2>7, <2>8 DEF PicturesInv, Plot!FinishedPlotsAgree
<1>2. CASE Plot!StrategyComparison
  <2>1. \E drawn : Plot!Draw("strategies", "decay", drawn)
    BY <1>2 DEF Plot!StrategyComparison
  <2> QED BY <2>1, DrawStep DEF Before, Plot!DatasetSlots
<1>3. CASE Plot!DecaySweepPlot
  <2>1. \E drawn : Plot!Draw("decay", "recall", drawn)
    BY <1>3 DEF Plot!DecaySweepPlot
  <2> QED BY <2>1, DrawStep DEF Before, Plot!DatasetSlots
<1>4. CASE Plot!RecallCurve
  <2>1. \E drawn : Plot!Draw("recall", "bm25", drawn)
    BY <1>4 DEF Plot!RecallCurve
  <2> QED BY <2>1, DrawStep DEF Before, Plot!DatasetSlots
<1>5. CASE Plot!Bm25Sweep
  <2>1. \E drawn : Plot!Draw("bm25", "memory", drawn)
    BY <1>5 DEF Plot!Bm25Sweep
  <2> QED BY <2>1, DrawStep DEF Before, Plot!DatasetSlots
<1>6. CASE Plot!MemoryType
  <2>1. \E drawn : Plot!Draw("memory", "card", drawn)
    BY <1>6 DEF Plot!MemoryType
  <2> QED BY <2>1, DrawStep DEF Before, Plot!DatasetSlots
<1>7. CASE Plot!BestConfigCard
  <2>1. \E drawn : Plot!Draw("card", "strategies", drawn)
    BY <1>7 DEF Plot!BestConfigCard
  <2> QED BY <2>1, DrawStep DEF Before, Plot!DatasetSlots
<1> QED BY <1>1, <1>2, <1>3, <1>4, <1>5, <1>6, <1>7 DEF Plot!OnePicture

LEMMA AcrossStep ==
  ASSUME Plot!PlotFilesAssumption, PicturesInv, Plot!CrossPictures
  PROVE  PicturesInv'
<1>1. CASE Plot!StrategyBars
  <2>1. Plot!Crossing("strategies") /\ Plot!Cross("bars", TRUE) /\ slot' = "decays"
        /\ UNCHANGED <<disk, cells, turn, dataset, verdict, dashboard, document>>
    BY <1>1 DEF Plot!StrategyBars, Plot!UnchangedByDrawing
  <2>2. CrossBefore("decays") \subseteq CrossBefore("strategies") \cup {"bars"}
        /\ CrossBefore("strategies") \subseteq Plot!CrossSlots /\ "bars" \in Plot!CrossSlots
    BY DEF CrossBefore, Plot!CrossSlots
  <2> QED BY <2>1, <2>2, CrossStep
<1>2. CASE Plot!CrossDecay
  <2>1. Plot!Crossing("decays") /\ (\E drawn : Plot!Cross("decays", drawn)) /\ slot' = "breakdown"
        /\ UNCHANGED <<disk, cells, turn, dataset, verdict, dashboard, document>>
    BY <1>2 DEF Plot!CrossDecay, Plot!UnchangedByDrawing
  <2>2. CrossBefore("breakdown") \subseteq CrossBefore("decays") \cup {"decays"}
        /\ CrossBefore("decays") \subseteq Plot!CrossSlots /\ "decays" \in Plot!CrossSlots
    BY DEF CrossBefore, Plot!CrossSlots
  <2> QED BY <2>1, <2>2, CrossStep
<1>3. CASE Plot!CompositeBreakdown
  <2>1. Plot!Crossing("breakdown") /\ Plot!Cross("breakdown", TRUE) /\ slot' = "best"
        /\ UNCHANGED <<disk, cells, turn, dataset, verdict, dashboard, document>>
    BY <1>3 DEF Plot!CompositeBreakdown, Plot!UnchangedByDrawing
  <2>2. CrossBefore("best") \subseteq CrossBefore("breakdown") \cup {"breakdown"}
        /\ CrossBefore("breakdown") \subseteq Plot!CrossSlots /\ "breakdown" \in Plot!CrossSlots
    BY DEF CrossBefore, Plot!CrossSlots
  <2> QED BY <2>1, <2>2, CrossStep
<1>4. CASE Plot!BestConfigsSummary
  <2>1. Plot!Crossing("best") /\ Plot!Cross("best", TRUE) /\ slot' = "document"
        /\ UNCHANGED <<disk, cells, turn, dataset, verdict, dashboard, document>>
    BY <1>4 DEF Plot!BestConfigsSummary, Plot!UnchangedByDrawing
  <2>2. CrossBefore("document") \subseteq CrossBefore("best") \cup {"best"}
        /\ CrossBefore("best") \subseteq Plot!CrossSlots /\ "best" \in Plot!CrossSlots
    BY DEF CrossBefore, Plot!CrossSlots
  <2> QED BY <2>1, <2>2, CrossStep
<1>5. CASE Plot!NoStrategyBars
  BY <1>5 DEF Plot!NoStrategyBars, Plot!Raises, PicturesInv, Plot!FinishedPlotsAgree
<1> QED BY <1>1, <1>2, <1>3, <1>4, <1>5 DEF Plot!CrossPictures

(* The document is written after every picture has been gone over, and is  *)
(* of the rows the dashboard is of.                                        *)
LEMMA DocumentStep ==
  ASSUME Plot!PlotFilesAssumption, PicturesInv, Plot!WriteRecommendations
  PROVE  PicturesInv'
<1>1. /\ verdict = "running" /\ ~(dataset <= Len(DisplayOrder)) /\ slot = "document" /\ Plot!Rankable
      /\ document' = [turn |-> turn, of |-> [n \in Plot!Present |-> Plot!Recommended(Plot!OfName(cells, n))]]
      /\ verdict' = "done" /\ UNCHANGED <<disk, cells, turn, dataset, slot, pictures, dashboard>>
  BY OrderTypes DEF Plot!WriteRecommendations, Plot!Crossing, PicturesInv
<1>2. /\ DOMAIN pictures = Plot!Places /\ turn \in Nat /\ dataset \in 1..(Len(DisplayOrder) + 1)
      /\ dashboard = Plot!ReportsData(cells) /\ DatasetsGoneOver
      /\ \A t \in Plot!CrossSlots : Fresh(<<Plot!Across, t>>)
  BY <1>1 DEF PicturesInv, SlotsGoneOver, CrossBefore
<1>3. Plot!NoStalePicture'
  <2>1. \A n \in Plot!Present, t \in Plot!DatasetSlots : Fresh(<<n, t>>)
    <3> SUFFICES ASSUME NEW n \in Plot!Present, NEW t \in Plot!DatasetSlots PROVE Fresh(<<n, t>>)
      OBVIOUS
    <3>1. PICK i \in DOMAIN DisplayOrder : n = DisplayOrder[i]
      BY DEF Plot!Present, Plot!Ordered
    <3>2. i < dataset
      BY <1>1, <1>2, OrderTypes
    <3> QED BY <1>2, <3>1, <3>2 DEF DatasetsGoneOver
  <2> QED BY <1>1, <1>2, <2>1, SameRows DEF Plot!NoStalePicture, Fresh
<1>4. Plot!SameCandidates'
  <2> SUFFICES ASSUME NEW n \in Plot!Present
               PROVE  Plot!Recommended(Plot!OfName(cells, n))
                        = IF dashboard.of[n].tested THEN dashboard.of[n].best ELSE dashboard.of[n].candidates
    BY <1>1, SameRows DEF Plot!SameCandidates
  <2> DEFINE own == Plot!OfName(cells, n)
  <2>1. n \in Plot!Shown(cells)
    <3>1. own # {} /\ n # Plot!Unknown
      BY DEF Plot!Present, Plot!PlotFilesAssumption
    <3> QED BY <3>1 DEF Plot!Shown, Plot!Known, Plot!OfName
  <2>2. /\ dashboard.of[n].tested = (Plot!FinalTestRows(own) # {})
        /\ dashboard.of[n].best = Plot!BestRows(Plot!FinalTestRows(own))
        /\ dashboard.of[n].candidates = Plot!BestRows(Plot!StorePoolRows(own))
    BY <1>2, <2>1 DEF Plot!ReportsData
  <2>3. Plot!StorePoolRows(own) # {}
    <3>1. Plot!RankingComparable(own) # {}
      BY <1>1 DEF Plot!Rankable
    <3> QED BY <3>1 DEF Plot!RankingComparable, Plot!IsRankingComparable, Plot!StorePoolRows
  <2>4. Plot!StoreOnly(own) = Plot!StorePoolRows(own)
    BY <2>3 DEF Plot!StoreOnly
  <2> HIDE DEF own
  <2>5. Plot!Recommended(own) = IF dashboard.of[n].tested THEN dashboard.of[n].best
                                ELSE dashboard.of[n].candidates
    BY <2>2, <2>4 DEF Plot!Recommended
  <2> QED BY <2>5 DEF own
<1> QED BY <1>1, <1>2, <1>3, <1>4 DEF PicturesInv, Plot!FinishedPlotsAgree

LEMMA PicturesStep ==
  ASSUME Plot!PlotFilesAssumption, PicturesInv, Plot!PlotNext
  PROVE  PicturesInv'
<1>1. ASSUME NEW s \in DOMAIN StudyGrids, Plot!AddStudy(s) \/ Plot!RemoveStudy(s) PROVE PicturesInv'
  BY <1>1, SameRows
  DEF Plot!AddStudy, Plot!RemoveStudy, Plot!Idle, PicturesInv, Plot!FinishedPlotsAgree,
      Plot!NoStalePicture, Plot!SameCandidates
<1>2. CASE Plot!Load
  <2>1. /\ verdict' \in {"nothing", "running"} /\ dataset' = 1 /\ slot' = "strategies"
        /\ turn' = turn + 1 /\ pictures' = pictures /\ dashboard' = Plot!ReportsData(cells')
    BY <1>2 DEF Plot!Load
  <2>2. DatasetsGoneOver' /\ SlotsGoneOver'
    BY <2>1, OrderTypes, BeforeSlots DEF DatasetsGoneOver, SlotsGoneOver, Plot!DatasetSlots
  <2> QED BY <2>1, <2>2, OrderTypes DEF PicturesInv, Plot!FinishedPlotsAgree
<1>3. CASE Plot!NothingToRecommend \/ Plot!PlotFails
  BY <1>3 DEF Plot!NothingToRecommend, Plot!PlotFails, Plot!Raises, PicturesInv, Plot!FinishedPlotsAgree
<1> QED BY <1>1, <1>2, <1>3, DatasetStep, AcrossStep, DocumentStep DEF Plot!PlotNext

PlotsInv == part = "plots" => RowsInv /\ PicturesInv

LEMMA PlotsInductive == DriverSpec => []PlotsInv
<1> USE DriverAssumption DEF DriverAssumption
<1>1. DriverInit => PlotsInv
  <2> SUFFICES ASSUME Plot!PlotInit PROVE RowsInv /\ PicturesInv
    BY DEF DriverInit, PlotsInv
  <2>1. Plot!Loaded({}) = {}
    BY DEF Plot!Loaded
  <2>2. RowsInv
    BY <2>1 DEF Plot!PlotInit, RowsInv
  <2>3. PicturesInv
    BY OrderTypes DEF Plot!PlotInit, PicturesInv, Plot!FinishedPlotsAgree
  <2> QED BY <2>2, <2>3
<1>2. PlotsInv /\ [DriverNext]_allVars => PlotsInv'
  <2> SUFFICES ASSUME PlotsInv, [DriverNext]_allVars PROVE PlotsInv'
    OBVIOUS
  <2>1. CASE RunPlots
    BY <2>1, RowsStep, PicturesStep DEF RunPlots, PlotsInv
  <2>2. CASE UNCHANGED <<part, plotVars>>
    BY <2>2, SameRows
    DEF PlotsInv, plotVars, RowsInv, PicturesInv, DatasetsGoneOver, SlotsGoneOver, Fresh, Plot!Rows,
        Plot!Name, Plot!FinishedPlotsAgree, Plot!NoStalePicture, Plot!SameCandidates
  <2>3. CASE ~RunPlots
    BY <2>2, <2>3
    DEF DriverNext, RunDatasets, OfDatasets, RunPhases, RunDecay, RunFiles, RunReports, allVars, PlotsInv
  <2> QED BY <2>1, <2>3
<1> QED BY <1>1, <1>2, PTL DEF DriverSpec

(* The rows of a study that generate_reports.py loads go under one name,   *)
(* those that only say how many queries they asked and those that name     *)
(* their gold file alike, and a study of which some row is identified has  *)
(* no unknown one: unless the stem and the counts contradict each other    *)
(* (load_all_cells).                                                       *)
THEOREM RowsUnderOneName == DriverSpec => []StudiesUnderOneName
<1>1. PlotsInv => StudiesUnderOneName
  BY LoadedUnderOneName, DriverAssumption
  DEF PlotsInv, StudiesUnderOneName, DriverAssumption, Plot!PlotFilesAssumption
<1> QED BY <1>1, PlotsInductive, PTL

(* Whatever studies came and went between the runs, and wherever earlier   *)
(* ones failed: a run that ends has redrawn or removed every picture of    *)
(* the datasets it has rows of and every one across them, and its document *)
(* recommends what the dashboard does (generate_plots).                    *)
THEOREM PicturesOfLastRun == DriverSpec => []FinishedPlotsAgree
<1>1. PlotsInv => FinishedPlotsAgree
  BY DEF PlotsInv, PicturesInv, FinishedPlotsAgree
<1> QED BY <1>1, PlotsInductive, PTL

(***************************************************************************)
(* The driver.  A behaviour that is about a part is one of the part's own, *)
(* and in any other the part stays idle.                                   *)
(***************************************************************************)
AboutDatasets == part = "datasets"
AboutPhases == part = "phases"
AboutDecay == part = "decay"
AboutFiles == part = "files"
AboutReports == part = "reports"

LEMMA DatasetsOrIdle == DriverSpec => (RunsSpec /\ []AboutDatasets) \/ [](~AboutDatasets /\ NoDatasets)
<1>1. DriverInit => (AboutDatasets /\ Init) \/ (~AboutDatasets /\ NoDatasets)
  BY DEF DriverInit, AboutDatasets
<1>2. [DriverNext]_allVars /\ AboutDatasets => [Next]_vars /\ AboutDatasets'
  BY DEF DriverNext, RunDatasets, OfDatasets, RunPhases, RunDecay, RunFiles, RunReports, RunPlots,
         allVars, AboutDatasets
<1>3. [DriverNext]_allVars /\ ~AboutDatasets /\ NoDatasets => ~AboutDatasets' /\ NoDatasets'
  BY DEF DriverNext, RunDatasets, OfDatasets, RunPhases, RunDecay, RunFiles, RunReports, RunPlots,
         allVars, vars, AboutDatasets, NoDatasets
<1> QED BY <1>1, <1>2, <1>3, PTL DEF DriverSpec, RunsSpec

LEMMA PhasesOrIdle == DriverSpec => (PhasesSpec /\ []AboutPhases) \/ [](~AboutPhases /\ NoPhases)
<1>1. DriverInit => (AboutPhases /\ PhasesInit) \/ (~AboutPhases /\ NoPhases)
  BY DEF DriverInit, AboutPhases
<1>2. [DriverNext]_allVars /\ AboutPhases => [PhasesNext]_phaseVars /\ AboutPhases'
  BY DEF DriverNext, RunDatasets, OfDatasets, RunPhases, RunDecay, RunFiles, RunReports, RunPlots,
         allVars, AboutPhases
<1>3. [DriverNext]_allVars /\ ~AboutPhases /\ NoPhases => ~AboutPhases' /\ NoPhases'
  BY DEF DriverNext, RunDatasets, OfDatasets, RunPhases, RunDecay, RunFiles, RunReports, RunPlots,
         allVars, phaseVars, AboutPhases, NoPhases
<1> QED BY <1>1, <1>2, <1>3, PTL DEF DriverSpec, PhasesSpec

LEMMA DecayOrIdle == DriverSpec => (SweepSpec /\ []AboutDecay) \/ [](~AboutDecay /\ NoDecay)
<1>1. DriverInit => (AboutDecay /\ SweepInit) \/ (~AboutDecay /\ NoDecay)
  BY DEF DriverInit, AboutDecay
<1>2. [DriverNext]_allVars /\ AboutDecay => [SweepNext]_sweepVars /\ AboutDecay'
  BY DEF DriverNext, RunDatasets, OfDatasets, RunPhases, RunDecay, RunFiles, RunReports, RunPlots,
         allVars, AboutDecay
<1>3. [DriverNext]_allVars /\ ~AboutDecay /\ NoDecay => ~AboutDecay' /\ NoDecay'
  BY DEF DriverNext, RunDatasets, OfDatasets, RunPhases, RunDecay, RunFiles, RunReports, RunPlots,
         allVars, sweepVars, sweepSetting, AboutDecay, NoDecay
<1> QED BY <1>1, <1>2, <1>3, PTL DEF DriverSpec, SweepSpec

LEMMA FilesOrIdle == DriverSpec => (FilesSpec /\ []AboutFiles) \/ [](~AboutFiles /\ NoFiles)
<1>1. DriverInit => (AboutFiles /\ FilesInit) \/ (~AboutFiles /\ NoFiles)
  BY DEF DriverInit, AboutFiles
<1>2. [DriverNext]_allVars /\ AboutFiles => [FilesNext]_fileVars /\ AboutFiles'
  BY DEF DriverNext, RunDatasets, OfDatasets, RunPhases, RunDecay, RunFiles, RunReports, RunPlots,
         allVars, AboutFiles
<1>3. [DriverNext]_allVars /\ ~AboutFiles /\ NoFiles => ~AboutFiles' /\ NoFiles'
  BY DEF DriverNext, RunDatasets, OfDatasets, RunPhases, RunDecay, RunFiles, RunReports, RunPlots,
         allVars, fileVars, AboutFiles, NoFiles
<1> QED BY <1>1, <1>2, <1>3, PTL DEF DriverSpec, FilesSpec

LEMMA ReportsOrIdle == DriverSpec => (ReportsSpec /\ []AboutReports) \/ [](~AboutReports /\ NoReports)
<1>1. DriverInit => (AboutReports /\ ReportsInit) \/ (~AboutReports /\ NoReports)
  BY DEF DriverInit, AboutReports
<1>2. [DriverNext]_allVars /\ AboutReports => [ReportsNext]_reportVars /\ AboutReports'
  BY DEF DriverNext, RunDatasets, OfDatasets, RunPhases, RunDecay, RunFiles, RunReports, RunPlots,
         allVars, AboutReports
<1>3. [DriverNext]_allVars /\ ~AboutReports /\ NoReports => ~AboutReports' /\ NoReports'
  BY DEF DriverNext, RunDatasets, OfDatasets, RunPhases, RunDecay, RunFiles, RunReports, RunPlots,
         allVars, reportVars, AboutReports, NoReports
<1> QED BY <1>1, <1>2, <1>3, PTL DEF DriverSpec, ReportsSpec

(* Every variable keeps its type through every action of the command.      *)
THEOREM RunsTypeCorrect == DriverSpec => [](AboutDatasets => TypeOK)
BY DatasetsOrIdle, RunsTypes, DriverAssumption, PTL DEF DriverAssumption

(* A command that measures one dataset at a time leaves, whenever it is    *)
(* looked at, stops, is killed or is started again, no leaderboards.json   *)
(* or the whole report of one dataset.                                     *)
THEOREM BoardAlone == DriverSpec => []BoardWholeAlone
<1>1. NoDatasets => BoardWholeAlone
  BY DEF NoDatasets, BoardWholeAlone, BoardWhole
<1>2. DatasetRunsAssumption
  BY DriverAssumption DEF DriverAssumption
<1> QED BY <1>1, <1>2, DatasetsOrIdle, BoardInRuns, PTL

(* No dataset that was started is lost, whatever the others do, in the     *)
(* loop and in the pool, through failures, kills and restarts              *)
(* (_run_multi_dataset).                                                   *)
THEOREM NothingLost == DriverSpec => []NothingFinishedLost
<1>1. NoDatasets => NothingFinishedLost
  BY DEF NoDatasets, NothingFinishedLost, Grids
<1>2. DatasetRunsAssumption
  BY DriverAssumption DEF DriverAssumption
<1> QED BY <1>1, <1>2, DatasetsOrIdle, LostInRuns, PTL

(* Every seed was measured or is the default, whatever cells fail and      *)
(* whichever row is ranked first (_run_single_dataset, after each phase).  *)
THEOREM MeasuredSeeds == DriverSpec => []SeedsMeasured
<1>1. NoPhases => SeedsMeasured
  BY DEF NoPhases, SeedsMeasured, Defaults
<1>2. StudyPhasesAssumption
  BY DriverAssumption DEF DriverAssumption
<1> QED BY <1>1, <1>2, PhasesOrIdle, SeedsInPhases, PTL

(* Seeds are ranked among rows that answered the same queries.             *)
THEOREM SameQueries == DriverSpec => []SeedsFromSameQueries
<1>1. NoPhases => SeedsFromSameQueries
  BY DEF NoPhases, SeedsFromSameQueries, Comparable
<1>2. StudyPhasesAssumption
  BY DriverAssumption DEF DriverAssumption
<1> QED BY <1>1, <1>2, PhasesOrIdle, QueriesInPhases, PTL

(* Whatever wins the study can be run in the final test: the model, the    *)
(* backend and the reranker of _run_single_dataset's final cell fit each   *)
(* other and what the study has.                                           *)
THEOREM FinalTestRuns == DriverSpec => []FinalTestCanRun
<1>1. NoPhases => FinalTestCanRun
  BY DEF NoPhases, FinalTestCanRun
<1>2. StudyPhasesAssumption
  BY DriverAssumption DEF DriverAssumption
<1> QED BY <1>1, <1>2, PhasesOrIdle, FinalInPhases, PTL

(* The tail is read by nothing but the fast sweep before the final test.   *)
THEOREM TailUntouched == DriverSpec => []TailReadOnlyByFastSweep
<1>1. NoPhases => TailReadOnlyByFastSweep
  BY DEF NoPhases, TailReadOnlyByFastSweep
<1>2. StudyPhasesAssumption
  BY DriverAssumption DEF DriverAssumption
<1> QED BY <1>1, <1>2, PhasesOrIdle, TailInPhases, PTL

(* Every variable of the decay phase keeps its type.                       *)
THEOREM SweepTypeCorrect == DriverSpec => [](AboutDecay => SweepTypeOK)
BY DecayOrIdle, SweepTypes, DriverAssumption, PTL DEF DriverAssumption

(* However the cells of phase 4 turn out, a policy that is not zoomed into *)
(* gained nothing when it was measured, was found futile by the quick      *)
(* check, or comes after as many flat policies as the patience allows.     *)
THEOREM GainsFound == DriverSpec => []GainsZoomed
<1>1. NoDecay => GainsZoomed
  BY DEF NoDecay, GainsZoomed
<1>2. DecaySweepAssumption
  BY DriverAssumption DEF DriverAssumption
<1> QED BY <1>1, <1>2, DecayOrIdle, GainsInSweep, PTL

(* Every file of a dataset is in one of the states of FileContents, and a step *)
(* of the preparation finds the file it reads.                             *)
THEOREM FilesTypeCorrect == DriverSpec => [](AboutFiles => FilesTypeOK)
BY FilesOrIdle, FilesTypes, DriverAssumption, PTL DEF DriverAssumption

(* However often a preparation is interrupted, killed or started again, a  *)
(* dataset that loads without all of its rows was made from a download, a  *)
(* file or a process that was cut short.                                   *)
THEOREM ShortFromCut == DriverSpec => []ShortOnlyAfterCut
<1>1. NoFiles => ShortOnlyAfterCut
  BY DEF NoFiles, ShortOnlyAfterCut
<1>2. DatasetFilesAssumption
  BY DriverAssumption DEF DriverAssumption
<1> QED BY <1>1, <1>2, FilesOrIdle, ShortInFiles, PTL

(* Every variable of the report threads keeps its type.                    *)
THEOREM ReportsTypeCorrect == DriverSpec => [](AboutReports => ReportsTypeOK)
BY ReportsOrIdle, ReportsTypes, DriverAssumption, PTL DEF DriverAssumption

(* As long as every report thread ended before the next study and before   *)
(* the end of its command, the finished reports cover every study, and the *)
(* document has kept its head.                                             *)
THEOREM ReportsCurrent == DriverSpec => []ReportsCurrentUnlessCut
<1>1. NoReports => ReportsCurrentUnlessCut
  BY DEF NoReports, ReportsCurrentUnlessCut
<1>2. ReportFilesAssumption
  BY DriverAssumption DEF DriverAssumption
<1> QED BY <1>1, <1>2, ReportsOrIdle, CurrentInReports, PTL
=============================================================================
