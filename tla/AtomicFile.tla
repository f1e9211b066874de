----------------------------- MODULE AtomicFile ------------------------------
(***************************************************************************)
(* atomic_write of export_service.c, one file operation per step, on a FAT *)
(* volume: rename fails when the new name exists, every operation may      *)
(* fail without effect, and power may be lost between any two of them.     *)
(* The files are path (main), path.bak (bak) and path.tmp (tmp).           *)
(***************************************************************************)
EXTENDS DurableCell

CONSTANTS
    Values,         \* the contents callers write
    Partial         \* a created or truncated file that is not complete

ASSUME DistinctContents == Nothing \notin Values /\ Partial \notin Values \cup {Nothing}

VARIABLES
    main, bak, tmp,     \* the three directory entries
    pc,                 \* the next file operation of the call, "idle" outside one
    data,               \* the value of the current or the last call
    had_original,
    reply,              \* how the last call ended
    entry               \* history: the cell when the call began

vars == <<main, bak, tmp, pc, data, had_original, reply, entry>>

cell == [main |-> main, bak |-> bak]

Steps == {"idle", "create", "write", "access", "drop_old_backup", "set_aside",
          "rename", "restore", "installed"}

TypeOK ==
    /\ cell \in Cells(Values)
    /\ tmp \in Values \cup {Nothing, Partial}
    /\ pc \in Steps
    /\ data \in Values \cup {Nothing}
    /\ had_original \in BOOLEAN
    /\ reply \in {"none", "ok", "fail"}
    /\ entry \in Cells(Values)

Init ==
    /\ main \in Values \cup {Nothing}
    /\ bak = Nothing
    /\ tmp = Nothing
    /\ pc = "idle"
    /\ data = Nothing
    /\ had_original = FALSE
    /\ reply = "none"
    /\ entry = cell

(***************************************************************************)
(* return: how the call ends, with the clean-up unlink(tmp) that error     *)
(* paths perform and whose failure is ignored.                             *)
(***************************************************************************)
ReturnError ==
    /\ pc' = "idle"
    /\ reply' = "fail"
    /\ tmp' \in {Nothing, tmp}
    /\ had_original' = FALSE
    /\ UNCHANGED data

Call(v) ==
    /\ pc = "idle"
    /\ pc' = "create"
    /\ data' = v
    /\ reply' = "none"
    /\ entry' = cell
    /\ UNCHANGED <<main, bak, tmp, had_original>>

\* unlink(tmp), fopen(tmp, "wb"): the file is empty, or could not be opened.
CreateTmp ==
    /\ pc = "create"
    /\ \/ /\ tmp' = Partial
          /\ pc' = "write"
          /\ UNCHANGED <<data, had_original, reply>>
       \/ ReturnError
    /\ UNCHANGED <<main, bak, entry>>

\* Mutant: after a failed write or sync the call goes on.
WriteUnchecked ==
    /\ pc = "write"
    /\ tmp' \in {data, Partial}
    /\ pc' = "access"
    /\ UNCHANGED <<main, bak, data, had_original, reply, entry>>

\* fwrite, fflush, fsync and fclose of the temporary file.
WriteTmp ==
    /\ pc = "write"
    /\ \/ /\ tmp' = data
          /\ pc' = "access"
          /\ UNCHANGED <<data, had_original, reply>>
       \/ ReturnError
    /\ UNCHANGED <<main, bak, entry>>

\* had_original = access(path, F_OK) == 0; an I/O error reads as "no file".
CheckOriginal ==
    /\ pc = "access"
    /\ had_original' \in {main # Nothing, FALSE}
    /\ pc' = IF had_original' THEN "drop_old_backup" ELSE "rename"
    /\ UNCHANGED <<main, bak, tmp, data, reply, entry>>

DropOldBackup ==
    /\ pc = "drop_old_backup"
    /\ bak' \in {Nothing, bak}
    /\ pc' = "set_aside"
    /\ UNCHANGED <<main, tmp, data, had_original, reply, entry>>

\* Mutant: the original is unlinked to make room for the new file.
UnlinkOriginal ==
    /\ pc = "set_aside"
    /\ \/ /\ main' = Nothing
          /\ pc' = "rename"
          /\ UNCHANGED <<tmp, data, had_original, reply>>
       \/ /\ ReturnError
          /\ UNCHANGED main
    /\ UNCHANGED <<bak, entry>>

\* rename(path, backup)
SetAside ==
    /\ pc = "set_aside"
    /\ \/ /\ bak = Nothing
          /\ bak' = main
          /\ main' = Nothing
          /\ pc' = "rename"
          /\ UNCHANGED <<tmp, data, had_original, reply>>
       \/ /\ ReturnError
          /\ UNCHANGED <<main, bak>>
    /\ UNCHANGED entry

\* rename(tmp, path)
RenameTmp ==
    /\ pc = "rename"
    /\ \/ /\ main = Nothing
          /\ main' = tmp
          /\ tmp' = Nothing
          /\ pc' = "installed"
          /\ UNCHANGED <<data, had_original, reply>>
       \/ /\ had_original
          /\ pc' = "restore"
          /\ UNCHANGED <<main, tmp, data, had_original, reply>>
       \/ /\ ~had_original
          /\ ReturnError
          /\ UNCHANGED main
    /\ UNCHANGED <<bak, entry>>

\* Mutant: the failed installation cleans up everything it made.
DropBackup ==
    /\ pc = "restore"
    /\ bak' = Nothing
    /\ ReturnError
    /\ UNCHANGED <<main, entry>>

\* rename(backup, path) after a failed installation; its result is ignored.
Restore ==
    /\ pc = "restore"
    /\ \/ main' = bak /\ bak' = Nothing
       \/ UNCHANGED <<main, bak>>
    /\ ReturnError
    /\ UNCHANGED entry

\* the last unlink(backup), ignored when it fails, and return ESP_OK
ReturnOk ==
    /\ pc = "installed"
    /\ bak' \in IF had_original THEN {Nothing, bak} ELSE {bak}
    /\ pc' = "idle"
    /\ reply' = "ok"
    /\ had_original' = FALSE
    /\ UNCHANGED <<main, tmp, data, entry>>

\* Power loss, reset, or day_usb_link_stop deleting the task that writes.
Crash ==
    /\ pc # "idle"
    /\ pc' = "idle"
    /\ reply' = "none"
    /\ had_original' = FALSE
    /\ UNCHANGED <<main, bak, tmp, data, entry>>

Next ==
    \/ \E v \in Values : Call(v)
    \/ CreateTmp \/ WriteTmp \/ CheckOriginal \/ DropOldBackup \/ SetAside
    \/ RenameTmp \/ Restore \/ ReturnOk
    \/ Crash

Spec == Init /\ [][Next]_vars

------------------------------------------------------------------------------
(***************************************************************************)
(* The readable content is what a register would hold.                     *)
(***************************************************************************)
Register ==
    INSTANCE AtomicRegister WITH
        content <- Readable(cell),
        pending <- IF pc = "idle" THEN Nothing ELSE data,
        installed <- pc = "installed"

\* atomic_write (export_service.c:295-338) with read_json_with_backup (375-386)
\* behaves as a register that is written in one step, whatever operation fails
\* and wherever the power is lost.
ImplementsRegister == Register!Spec

\* While a call runs, the two files are a pair that the summary allows after a
\* crash; when it has returned they are one it allows after that return value.
WithinSummary ==
    /\ pc # "idle" => cell \in CrashOutcomes(entry, data)
    /\ pc = "idle" /\ reply = "fail" => cell \in FailOutcomes(entry)
    /\ pc = "idle" /\ reply = "ok" => cell \in OkOutcomes(entry, data)

==============================================================================
