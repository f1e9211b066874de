----------------------------- MODULE DurableCell -----------------------------
(***************************************************************************)
(* A transaction file of /EXPORTS as its readers see it: the file itself   *)
(* (path) and the previous version that an interrupted replacement can     *)
(* leave beside it (path.bak).  The operators below summarise one call of  *)
(* atomic_write: which pairs of files each ending of the call can leave.   *)
(* Module AtomicFile walks through the call one file operation at a time,  *)
(* and module AtomicFile_proofs shows that it ends within this summary;    *)
(* ExportService writes its state files with the summary.                  *)
(***************************************************************************)
CONSTANT Nothing        \* no such file

Cells(V) == [main : V \cup {Nothing}, bak : V \cup {Nothing}]

EmptyCell == [main |-> Nothing, bak |-> Nothing]

(***************************************************************************)
(* read_json_with_backup: the file, or its backup when there is no file.   *)
(***************************************************************************)
Readable(c) == IF c.main # Nothing THEN c.main ELSE c.bak

(***************************************************************************)
(* atomic_write(v) returned ESP_OK.  The backup of the replaced version    *)
(* survives only if unlink(backup) failed, which the code ignores; a call  *)
(* that found no original leaves an older backup where it was.             *)
(***************************************************************************)
OkOutcomes(c, v) ==
    IF c.main = Nothing
      THEN {[main |-> v, bak |-> c.bak]}
      ELSE {[main |-> v, bak |-> b] : b \in {Nothing, c.main}}

(***************************************************************************)
(* atomic_write returned an error: nothing moved, or only the old backup   *)
(* went, or the original was moved aside and could not be moved back.      *)
(***************************************************************************)
FailOutcomes(c) ==
    IF c.main = Nothing
      THEN {c}
      ELSE {c} \cup {[main |-> c.main, bak |-> Nothing], [main |-> Nothing, bak |-> c.main]}

(***************************************************************************)
(* Power was lost, or the task was deleted, somewhere inside the call.     *)
(***************************************************************************)
CrashOutcomes(c, v) == OkOutcomes(c, v) \cup FailOutcomes(c)
==============================================================================
