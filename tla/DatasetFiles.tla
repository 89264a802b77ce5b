---------------------------- MODULE DatasetFiles ----------------------------
(***************************************************************************)
(* The files behind one dataset: what prepare_datasets.py (core datasets)  *)
(* and prepare_extended_datasets.py (extended ones) download, rewrite and  *)
(* convert, when the study or the user asks for them, over interrupted     *)
(* transfers, killed processes and a missing parquet library.  A file that *)
(* is there is never made again, except by a forced conversion.            *)
(***************************************************************************)
EXTENDS Integers

CONSTANTS
  Sources,     \* the datasets, by how they are prepared
  MaxStarts    \* bound on the preparations

VARIABLES
  source,
  library,     \* pyarrow is installed
  raw, middle, gold,
  stage,       \* of the running preparation
  starts,
  cut          \* a transfer or a process was cut short so far

fileVars == <<source, library, raw, middle, gold, stage, starts, cut>>

(* A file cut off anywhere is empty, torn inside a record, or short by     *)
(* whole records; only a file of lines or a table can be short and read.   *)
FileContents == {"absent", "empty", "torn", "short", "whole"}
Formats == {"none", "lines", "table", "document"}
CutOff(format) == {"empty", "torn"} \cup (IF format = "document" THEN {} ELSE {"short"})

ReadEmptyAsSome(format, content) ==   \* a slip: a file without rows is one with a few
  CASE content = "whole" -> "all"
    [] content \in {"short", "empty"} -> "some"
    [] content = "torn" -> IF format = "table" THEN "some" ELSE "fails"

Read(format, content) ==
  CASE content = "whole" -> "all"
    [] content = "short" -> "some"
    [] content = "torn" -> IF format = "table" THEN "some" ELSE "fails"
    [] content = "empty" -> IF format = "document" THEN "fails" ELSE "nothing"

(* raw and middle are the formats of the download and of the rewritten     *)
(* file; the rewriting may open its output before it reads the download,   *)
(* need pyarrow, and stop at a sample of the rows.                         *)
DatasetFilesAssumption ==
  /\ MaxStarts \in Nat
  /\ Sources \subseteq [core : BOOLEAN, raw : Formats, middle : Formats \ {"table"},
                        opensFirst : BOOLEAN, parquet : BOOLEAN, sample : BOOLEAN]
  /\ \A s \in Sources : s.raw = "none" => s.middle = "none"

FilesInit ==
  /\ source \in Sources /\ library \in BOOLEAN
  /\ raw = "absent" /\ middle = "absent" /\ gold = "absent"
  /\ stage = "idle" /\ starts = 0 /\ cut = FALSE

(* The study prepares a missing gold file; --force and the command line of *)
(* the extended script convert again, so any gold file may be replaced.    *)
Start ==
  /\ stage = "idle" /\ starts < MaxStarts
  /\ stage' = "fetch" /\ starts' = starts + 1
  /\ UNCHANGED <<source, library, raw, middle, gold, cut>>

End(stops) == stage' = (IF stops THEN "idle" ELSE "middle")

KeepRaw ==
  /\ stage = "fetch" /\ (source.raw = "none" \/ raw # "absent")
  /\ End(FALSE)
  /\ UNCHANGED <<source, library, raw, middle, gold, starts, cut>>
(* A server that closes early ends the transfer like a complete one.       *)
Fetch ==
  /\ stage = "fetch" /\ source.raw # "none" /\ raw = "absent"
  /\ \/ raw' = "whole" /\ UNCHANGED cut
     \/ raw' \in CutOff(source.raw) /\ cut' = TRUE
  /\ End(FALSE)
  /\ UNCHANGED <<source, library, middle, gold, starts>>
(* After an exception the core download removes its file, the extended one *)
(* leaves what it had; the dataset is not converted.                       *)
FetchFails ==
  /\ stage = "fetch" /\ source.raw # "none" /\ raw = "absent"
  /\ raw' \in (IF source.core THEN {"absent"} ELSE {"absent"} \cup CutOff(source.raw))
  /\ cut' = TRUE /\ End(TRUE)
  /\ UNCHANGED <<source, library, middle, gold, starts>>

(* What is in the middle file, and whether the rewriting has failed.       *)
Rewritten(content, fails) ==
  LET read == Read(source.raw, raw)
      opened == source.opensFirst
  IN  IF source.parquet /\ ~library THEN content = "empty" /\ fails
      ELSE \/ read = "all" /\ content = "whole" /\ ~fails
           \/ read = "nothing" /\ content = "empty" /\ ~fails
           \/ read = "some" /\ content = "short" /\ ~fails
           \/ read = "some" /\ source.sample /\ content = "whole" /\ ~fails
           \/ read = "fails" /\ ~opened /\ content = "absent" /\ fails
           \/ read = "fails" /\ opened /\ content = "empty" /\ fails
           \/ read = "fails" /\ opened /\ source.raw = "lines" /\ content = "short" /\ fails
           \/ read = "fails" /\ opened /\ source.sample /\ content = "whole" /\ ~fails

KeepMiddle ==
  /\ stage = "middle" /\ (source.middle = "none" \/ middle # "absent")
  /\ stage' = "gold"
  /\ UNCHANGED <<source, library, raw, middle, gold, starts, cut>>
Rewrite ==
  /\ stage = "middle" /\ source.middle # "none" /\ middle = "absent"
  /\ \E content \in FileContents, fails \in BOOLEAN :
       /\ Rewritten(content, fails) /\ middle' = content
       /\ stage' = (IF fails THEN "idle" ELSE "gold")
  /\ UNCHANGED <<source, library, raw, gold, starts, cut>>

(* The adapters refuse a file they cannot read and one without rows.       *)
Converted ==
  IF source.middle # "none" THEN Read(source.middle, middle)
  ELSE IF source.raw # "none" THEN Read(source.raw, raw) ELSE "all"
Convert ==
  /\ stage = "gold" /\ stage' = "idle"
  /\ gold' = CASE Converted = "all" -> "whole"
               [] Converted = "some" -> "short"
               [] OTHER -> gold
  /\ UNCHANGED <<source, library, raw, middle, starts, cut>>

(* The process is killed while it writes, or before it opens the file.     *)
KillPreparation ==
  /\ stage # "idle" /\ stage' = "idle" /\ cut' = TRUE
  /\ \/ stage = "fetch" /\ source.raw # "none" /\ raw = "absent"
        /\ raw' \in {"absent"} \cup CutOff(source.raw) /\ UNCHANGED <<middle, gold>>
     \/ stage = "middle" /\ source.middle # "none" /\ middle = "absent"
        /\ middle' \in {"absent"} \cup CutOff(source.middle) /\ UNCHANGED <<raw, gold>>
     \/ stage = "gold" /\ gold' \in {gold} \cup CutOff("document") /\ UNCHANGED <<raw, middle>>
  /\ UNCHANGED <<source, library, starts>>

(* What the messages ask of the user: delete a gold file that the study    *)
(* cannot load, and install pyarrow.                                       *)
Loads == gold # "absent" /\ Read("document", gold) # "fails"
DeleteGold ==
  /\ stage = "idle" /\ gold # "absent" /\ ~Loads /\ gold' = "absent"
  /\ UNCHANGED <<source, library, raw, middle, stage, starts, cut>>
Install ==
  /\ stage = "idle" /\ ~library /\ library' = TRUE
  /\ UNCHANGED <<source, raw, middle, gold, stage, starts, cut>>

FilesNext == Start \/ KeepRaw \/ Fetch \/ FetchFails \/ KeepMiddle \/ Rewrite \/ Convert
        \/ KillPreparation \/ DeleteGold \/ Install
FilesSpec == FilesInit /\ [][FilesNext]_fileVars

(* A dataset that loads without all its rows is the work of a cut, never   *)
(* of a missing library or of an error that was reported; and one that is  *)
(* converted straight from a document is never short.                      *)
ShortOnlyAfterCut ==
  gold = "short" => cut /\ (source.raw = "document" => source.middle = "lines")

FilesTypeOK ==
  /\ source \in Sources /\ {raw, middle, gold} \subseteq FileContents
  /\ stage \in {"idle", "fetch", "middle", "gold"} /\ starts \in 0..MaxStarts
  /\ cut \in BOOLEAN /\ library \in BOOLEAN
  /\ stage \in {"middle", "gold"} /\ source.raw # "none" => raw # "absent"
  /\ stage = "gold" /\ source.middle # "none" => middle # "absent"
=============================================================================
