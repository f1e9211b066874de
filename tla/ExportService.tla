---------------------------- MODULE ExportService ----------------------------
(***************************************************************************)
(* The transactional export of export_service.c, on the protocol task: a   *)
(* host freezes the recordings of a date (begin), copies them over mass    *)
(* storage, then has them deleted (commit) or not (abort).                 *)
(*                                                                         *)
(* Every file operation that changes the card is a step of its own, so the *)
(* device can lose power, or day_usb_link_stop can delete the task,        *)
(* between any two of them; a replaced state file is written with the      *)
(* outcomes that module AtomicFile derives.  A recording may be finalised  *)
(* by the other tasks between any two steps.                               *)
(***************************************************************************)
EXTENDS DurableCell, Naturals, Sequences, FiniteSets

CONSTANTS
    Record,             \* recording names, ordered as strcmp orders them
    Date, DateOf,       \* the date record_name_parse reads in a name
    Request,            \* client_request_id values
    Export,             \* export ids day_export_begin may draw
    NumFiles,           \* files of a recording: 4 (meta, video, audio, imu)
    MaxActive,          \* DAY_EXPORT_MAX_ACTIVE: 32
    MaxFaults,          \* bound: crashes and failed operations in a behaviour
    MaxEdits,           \* bound: changes the host makes over writable storage
    ReadFaults          \* whether reading a transaction file may fail too

ASSUME ConstantsOK ==
    /\ Record \subseteq Nat /\ IsFiniteSet(Record)
    /\ IsFiniteSet(Export)
    /\ DateOf \in [Record -> Date]
    /\ NumFiles \in Nat \ {0} /\ MaxActive \in Nat \ {0}
    /\ MaxFaults \in Nat /\ MaxEdits \in Nat
    /\ ReadFaults \in BOOLEAN
    /\ Nothing \notin Export

Files == 1..NumFiles
Absent == 0
Phases == {"prepared", "aborted", "committing", "committed"}

VARIABLES
    \* the card
    born,       \* names of the recordings ever finalised
    dir,        \* recordings whose directory exists
    size,       \* size[r][f]: size of a file, Absent when there is none
    extra,      \* directories that also hold a file of some other name
    man,        \* man[e]: EXPORTS/e.json
    st,         \* st[e]: EXPORTS/e.state and its backup
    \* the request the protocol task is serving
    pc,         \* the next file operation, "idle" between requests
    cur,        \* the export concerned
    info,       \* transaction_info_t: phase and deleted_count
    plan,       \* the manifest in memory
    file,       \* the next file of the recording being deleted
    \* history and bounds
    told,       \* told[e]: the states successful replies have reported
    confirmed,  \* exports whose deletion the host has asked for
    faults, edits

card == <<born, dir, size, extra, man, st>>
task == <<pc, cur, info, plan, file>>
hist == <<told, confirmed>>
vars == <<card, task, hist, faults, edits>>

States == [phase : Phases, deleted : Nat]
Prepared == [phase |-> "prepared", deleted |-> 0]

ASSUME NothingIsNoState == Nothing \notin States

------------------------------------------------------------------------------
(***************************************************************************)
(* Reading the card.                                                       *)
(***************************************************************************)
\* load_complete_record: the directory and its four files exist.  A record whose
\* metadata names another device is not collected either (188); none is here.
Complete(r) == r \in dir /\ \A f \in Files : size[r][f] # Absent

\* collect_records: the complete recordings of a date
RecordsOf(d) == {r \in Record : DateOf[r] = d /\ Complete(r)}

\* The sequences that list S in qsort order (there is one).
Sorted(S) == {s \in [1..Cardinality(S) -> S] :
                 /\ \A i, j \in DOMAIN s : i < j => s[i] < s[j]
                 /\ \A r \in S : \E i \in DOMAIN s : s[i] = r}

\* load_transaction: the state of an export, Nothing when a file is missing.
Load(e) == IF man[e] = Nothing THEN Nothing ELSE Readable(st[e])

\* What load_transaction may return: when an open, a read or an allocation
\* fails, the state comes from the backup file, or not at all.
CanFault == faults < MaxFaults
Loads(e) ==
    {Load(e)} \cup IF ReadFaults /\ CanFault /\ man[e] # Nothing
                     THEN {Nothing, st[e].bak} ELSE {}

\* A read that did not return what the files hold uses up a fault.
Counted(faulty) == faults' = IF faulty THEN faults + 1 ELSE faults

\* Mutant: an export in the middle of its deletion is not counted.
OnlyPreparedActive(s) == s # Nothing /\ s.phase = "prepared"

ActiveState(s) == s # Nothing /\ s.phase \in {"prepared", "committing"}

\* Mutant: only an active transaction answers a repeated request.
AnswersIfActive(e, s, q) == ActiveState(s) /\ man[e].req = q

\* The transaction a repeated client_request_id is answered with.
Answers(e, s, q) == s # Nothing /\ man[e].req = q

\* Mutant: active_count > DAY_EXPORT_MAX_ACTIVE.
RoomForTwo(view) == Cardinality({e \in Export : ActiveState(view[e])}) <= MaxActive

\* active_count < DAY_EXPORT_MAX_ACTIVE, in what the scan could read
RoomForOne(view) == Cardinality({e \in Export : ActiveState(view[e])}) < MaxActive

Names(m) == {m.names[i] : i \in DOMAIN m.names}

\* Mutant: the sizes in the manifest are not compared.
AnySize(m, r, f) == TRUE

\* The size test that check_record_directory and delete_one_record share.
SizeMatches(m, r, f) == size[r][f] = m.sizes[r][f]

\* Mutant: files of other names are overlooked.
DirectoryWithExtrasOK(m, r, allow_missing, require_absent) ==
    IF r \notin dir
      THEN allow_missing \/ require_absent
      ELSE /\ ~require_absent
           /\ \A f \in Files : IF size[r][f] = Absent THEN allow_missing
                                                      ELSE SizeMatches(m, r, f)

\* check_record_directory; readdir is taken to list what the directory holds
\* (an error of it ends the loop, 808, as the end of the directory does).
DirectoryOK(m, r, allow_missing, require_absent) ==
    IF r \notin dir
      THEN allow_missing \/ require_absent
      ELSE /\ ~require_absent
           /\ r \notin extra
           /\ \A f \in Files : IF size[r][f] = Absent THEN allow_missing
                                                      ELSE SizeMatches(m, r, f)

\* Mutant: the recording at the cursor must be whole when a commit resumes.
PreflightWholeCursor(m, deleted, resuming) ==
    /\ deleted <= Len(m.names)
    /\ \A i \in DOMAIN m.names :
          DirectoryOK(m, m.names[i], FALSE, resuming /\ i <= deleted)

\* preflight_records
Preflight(m, deleted, resuming) ==
    /\ deleted <= Len(m.names)
    /\ \A i \in DOMAIN m.names :
          DirectoryOK(m, m.names[i], resuming /\ i = deleted + 1, resuming /\ i <= deleted)

------------------------------------------------------------------------------
(***************************************************************************)
(* The end of a request, and the endings of a state write.                 *)
(***************************************************************************)
Idle == pc = "idle"

Done ==
    /\ pc' = "idle"
    /\ cur' = Nothing /\ info' = Nothing /\ plan' = Nothing
    /\ file' = 1

ReplyState(e, phase) == told' = [told EXCEPT ![e] = @ \cup {phase}]

WriteOk == \E c \in OkOutcomes(st[cur], info) : st' = [st EXCEPT ![cur] = c]

WriteFails ==
    /\ CanFault /\ faults' = faults + 1
    /\ \E c \in FailOutcomes(st[cur]) : st' = [st EXCEPT ![cur] = c]

------------------------------------------------------------------------------
(***************************************************************************)
(* day_export_begin                                                        *)
(***************************************************************************)
\* scan_transactions finds the request answered already: the reply reports
\* that transaction (or a date mismatch, which changes nothing).
BeginKnown(q, d) ==
    /\ Idle
    /\ \E e \in Export : \E s \in Loads(e) :
          /\ Answers(e, s, q) /\ man[e].date = d
          /\ ReplyState(e, s.phase)
          /\ Counted(s # Load(e))
    /\ UNCHANGED <<card, task, confirmed, edits>>

\* No transaction of this request, none active for the date, and room for one
\* more, as far as the scan could read: freeze the date's complete recordings.
BeginFresh(q, d) ==
    /\ Idle
    /\ \E view \in {v \in [Export -> UNION {Loads(e) : e \in Export}] :
                       \A e \in Export : v[e] \in Loads(e)} :
          /\ \A e \in Export :
                /\ ~Answers(e, view[e], q)
                /\ ActiveState(view[e]) => man[e].date # d
          /\ RoomForOne(view)
          /\ Counted(\E e \in Export : view[e] # Load(e))
    /\ LET wanted == RecordsOf(d)
       IN  /\ wanted # {}
           /\ \E names \in Sorted(wanted) :
                 plan' = [req |-> q, date |-> d, names |-> names,
                          sizes |-> [r \in wanted |-> size[r]]]
    /\ \E e \in Export :
          /\ man[e] = Nothing /\ st[e].main = Nothing
          /\ cur' = e
    /\ info' = Prepared
    /\ pc' = "begin_manifest"
    /\ UNCHANGED <<card, file, hist, edits>>

\* The cleanup after a failed write: each unlink may fail unnoticed.
BeginCleanup ==
    /\ man' \in {man, [man EXCEPT ![cur] = Nothing]}
    /\ Done

\* atomic_write of a file that did not exist
BeginManifest ==
    /\ pc = "begin_manifest"
    /\ \/ /\ man' = [man EXCEPT ![cur] = plan]
          /\ pc' = "begin_state"
          /\ UNCHANGED <<cur, info, plan, file, faults>>
       \/ /\ CanFault /\ faults' = faults + 1
          /\ BeginCleanup
    /\ UNCHANGED <<born, dir, size, extra, st, hist, edits>>

BeginState ==
    /\ pc = "begin_state"
    /\ \/ /\ WriteOk
          /\ ReplyState(cur, "prepared")
          /\ Done
          /\ UNCHANGED <<man, faults>>
       \/ /\ WriteFails
          /\ BeginCleanup
          /\ UNCHANGED told
    /\ UNCHANGED <<born, dir, size, extra, confirmed, edits>>

------------------------------------------------------------------------------
(***************************************************************************)
(* day_export_commit_delete                                                *)
(***************************************************************************)
\* The host confirms with the manifest's digest and record count.  A stat or an
\* opendir that fails makes the preflight fail on a card that is as it should be.
Commit(e) ==
    /\ Idle
    /\ man[e] # Nothing
    /\ \E s \in Loads(e) \ {Nothing} : \E passes \in BOOLEAN :
          LET resuming == s.phase = "committing"
              whole    == Preflight(man[e], s.deleted, resuming)
          IN
          /\ passes # whole => ~passes /\ CanFault
          /\ Counted(s # Load(e) \/ passes # whole)
          /\ confirmed' = confirmed \cup {e}
          /\ \/ /\ s.phase = "committed"
                /\ ReplyState(e, "committed")
                /\ UNCHANGED task
             \/ /\ s.phase = "aborted"
                /\ UNCHANGED <<task, told>>
             \/ /\ s.phase = "prepared" /\ ~passes
                /\ UNCHANGED <<task, told>>
             \/ /\ s.phase = "prepared" /\ passes
                /\ pc' = "mark"
                /\ info' = [phase |-> "committing", deleted |-> 0]
                /\ cur' = e /\ plan' = man[e]
                /\ UNCHANGED <<file, told>>
             \/ /\ resuming
                /\ pc' = IF ~passes THEN "note"
                         ELSE IF s.deleted < Len(man[e].names) THEN "erase" ELSE "finish"
                /\ info' = IF passes /\ s.deleted = Len(man[e].names)
                             THEN [s EXCEPT !.phase = "committed"] ELSE s
                /\ cur' = e /\ plan' = man[e]
                /\ UNCHANGED <<file, told>>
    /\ UNCHANGED <<card, edits>>

\* Mutant: deletion goes on although the committing state was not written.
MarkUnchecked ==
    /\ pc = "mark"
    /\ \/ WriteOk /\ UNCHANGED faults
       \/ WriteFails
    /\ pc' = "erase"
    /\ UNCHANGED <<cur, info, plan, file>>
    /\ UNCHANGED <<born, dir, size, extra, man, hist, edits>>

\* The committing state is on the card before anything is deleted.
CommitMark ==
    /\ pc = "mark"
    /\ \/ WriteOk /\ pc' = "erase" /\ UNCHANGED <<cur, info, plan, file, faults>>
       \/ WriteFails /\ Done
    /\ UNCHANGED <<born, dir, size, extra, man, hist, edits>>

Victim == plan.names[info.deleted + 1]

DeleteFails == pc' = "note" /\ UNCHANGED <<cur, info, plan, file>>

\* Mutant: the loop over the files runs once too often.
EraseOneTooMany ==
    /\ pc = "erase" /\ Victim \in dir
    /\ size' = [size EXCEPT ![Victim][file] = Absent]
    /\ pc' = IF file > NumFiles THEN "rmdir" ELSE "erase"
    /\ file' = IF file > NumFiles THEN 1 ELSE file + 1
    /\ UNCHANGED <<cur, info, plan, faults>>
    /\ UNCHANGED <<born, dir, extra, man, st, hist, edits>>

\* delete_one_record: one turn of its loop over the four files
CommitErase ==
    /\ pc = "erase"
    /\ \/ /\ Victim \notin dir
          /\ pc' = "progress"
          /\ info' = [info EXCEPT !.deleted = @ + 1]
          /\ UNCHANGED <<size, cur, plan, file, faults>>
       \/ /\ Victim \in dir
          /\ size[Victim][file] = Absent
          /\ pc' = IF file = NumFiles THEN "rmdir" ELSE "erase"
          /\ file' = IF file = NumFiles THEN 1 ELSE file + 1
          /\ UNCHANGED <<size, cur, info, plan, faults>>
       \/ /\ Victim \in dir
          /\ size[Victim][file] # Absent /\ SizeMatches(plan, Victim, file)
          /\ size' = [size EXCEPT ![Victim][file] = Absent]
          /\ pc' = IF file = NumFiles THEN "rmdir" ELSE "erase"
          /\ file' = IF file = NumFiles THEN 1 ELSE file + 1
          /\ UNCHANGED <<cur, info, plan, faults>>
       \/ /\ Victim \in dir
          /\ size[Victim][file] # Absent /\ ~SizeMatches(plan, Victim, file)
          /\ DeleteFails
          /\ UNCHANGED <<size, faults>>
       \/ /\ CanFault /\ faults' = faults + 1
          /\ DeleteFails
          /\ UNCHANGED size
    /\ UNCHANGED <<born, dir, extra, man, st, hist, edits>>

\* rmdir fails on a directory that still holds something.
CommitRmdir ==
    /\ pc = "rmdir"
    /\ \/ /\ Victim \notin extra
          /\ dir' = dir \ {Victim}
          /\ pc' = "progress"
          /\ info' = [info EXCEPT !.deleted = @ + 1]
          /\ UNCHANGED <<cur, plan, file, faults>>
       \/ /\ Victim \in extra
          /\ DeleteFails
          /\ UNCHANGED <<dir, faults>>
       \/ /\ CanFault /\ faults' = faults + 1
          /\ DeleteFails
          /\ UNCHANGED dir
    /\ UNCHANGED <<born, size, extra, man, st, hist, edits>>

\* Mutant: the result of persisting deleted_count is ignored.
ProgressUnchecked ==
    /\ pc = "progress"
    /\ \/ WriteOk /\ UNCHANGED faults
       \/ WriteFails
    /\ IF info.deleted < Len(plan.names)
         THEN pc' = "erase" /\ UNCHANGED info
         ELSE pc' = "finish" /\ info' = [info EXCEPT !.phase = "committed"]
    /\ UNCHANGED <<cur, plan, file>>
    /\ UNCHANGED <<born, dir, size, extra, man, hist, edits>>

\* deleted_count = i + 1 is persisted before the next recording is touched.
CommitProgress ==
    /\ pc = "progress"
    /\ \/ /\ WriteOk
          /\ IF info.deleted < Len(plan.names)
               THEN pc' = "erase" /\ UNCHANGED info
               ELSE pc' = "finish" /\ info' = [info EXCEPT !.phase = "committed"]
          /\ UNCHANGED <<cur, plan, file, faults>>
       \/ WriteFails /\ Done
    /\ UNCHANGED <<born, dir, size, extra, man, hist, edits>>

\* last_error is written with the state as loaded; the request fails either way.
CommitNote ==
    /\ pc = "note"
    /\ \/ WriteOk /\ UNCHANGED faults
       \/ WriteFails
    /\ Done
    /\ UNCHANGED <<born, dir, size, extra, man, hist, edits>>

CommitFinish ==
    /\ pc = "finish"
    /\ \/ WriteOk /\ ReplyState(cur, "committed") /\ UNCHANGED faults
       \/ WriteFails /\ UNCHANGED told
    /\ Done
    /\ UNCHANGED <<born, dir, size, extra, man, confirmed, edits>>

------------------------------------------------------------------------------
(***************************************************************************)
(* day_export_abort and day_export_get_status                              *)
(***************************************************************************)
\* Mutant: commit_recovery_required is dropped.
AbortAnyway(e) ==
    /\ Idle
    /\ \E s \in Loads(e) \ {Nothing} :
          /\ s.phase \in {"prepared", "committing"}
          /\ Counted(s # Load(e))
          /\ pc' = "abort"
          /\ cur' = e /\ info' = [s EXCEPT !.phase = "aborted"]
          /\ UNCHANGED <<plan, file, told>>
    /\ UNCHANGED <<card, confirmed, edits>>

Abort(e) ==
    /\ Idle
    /\ \E s \in Loads(e) \ {Nothing} :
          /\ s.phase # "committing"                 \* commit_recovery_required
          /\ Counted(s # Load(e))
          /\ IF s.phase = "prepared"
               THEN /\ pc' = "abort"
                    /\ cur' = e /\ info' = [s EXCEPT !.phase = "aborted"]
                    /\ UNCHANGED <<plan, file, told>>
               ELSE ReplyState(e, s.phase) /\ UNCHANGED task
    /\ UNCHANGED <<card, confirmed, edits>>

\* Mutant: the abort is acknowledged whether or not it was written.
AbortUnchecked ==
    /\ pc = "abort"
    /\ \/ WriteOk /\ UNCHANGED faults
       \/ WriteFails
    /\ ReplyState(cur, "aborted")
    /\ Done
    /\ UNCHANGED <<born, dir, size, extra, man, confirmed, edits>>

AbortWrite ==
    /\ pc = "abort"
    /\ \/ WriteOk /\ ReplyState(cur, "aborted") /\ UNCHANGED faults
       \/ WriteFails /\ UNCHANGED told
    /\ Done
    /\ UNCHANGED <<born, dir, size, extra, man, confirmed, edits>>

GetStatus(e) ==
    /\ Idle
    /\ \E s \in Loads(e) \ {Nothing} :
          ReplyState(e, s.phase) /\ Counted(s # Load(e))
    /\ UNCHANGED <<card, task, confirmed, edits>>

\* Every other request ends in an error reply or a page of a list, and changes
\* nothing: a date already prepared, too many active exports, no complete
\* recording, a wrong digest or count, an unknown or unreadable export,
\* commit_recovery_required.
Refuse == Idle /\ UNCHANGED vars

------------------------------------------------------------------------------
(***************************************************************************)
(* The surroundings.                                                       *)
(***************************************************************************)
\* The recorder finalises a recording: a complete directory under a new name.
NewRecording(r) ==
    /\ r \notin born
    /\ born' = born \cup {r}
    /\ dir' = dir \cup {r}
    /\ size' = [size EXCEPT ![r] = [f \in Files |-> 1]]
    /\ UNCHANGED <<extra, man, st, task, hist, faults, edits>>

\* Power loss, reset, or the protocol task deleted in the middle of a request.
Writing == pc \in {"begin_state", "mark", "progress", "note", "finish", "abort"}

Crash ==
    /\ ~Idle
    /\ CanFault /\ faults' = faults + 1
    /\ IF Writing
         THEN \E c \in CrashOutcomes(st[cur], info) : st' = [st EXCEPT ![cur] = c]
         ELSE UNCHANGED st
    /\ IF pc = "begin_manifest"
         THEN man' \in {man, [man EXCEPT ![cur] = plan]}
         ELSE UNCHANGED man
    /\ Done
    /\ UNCHANGED <<born, dir, size, extra, hist, edits>>

\* A writable mass-storage session between requests: the host resizes or
\* removes a file, adds one of its own or takes it away, or removes a directory.
HostEdit(r) ==
    /\ Idle /\ r \in dir
    /\ edits < MaxEdits /\ edits' = edits + 1
    /\ \/ \E f \in Files : \E n \in {Absent, 2} :
             /\ size[r][f] \notin {Absent, n}
             /\ size' = [size EXCEPT ![r][f] = n]
             /\ UNCHANGED <<dir, extra>>
       \/ /\ extra' = IF r \in extra THEN extra \ {r} ELSE extra \cup {r}
          /\ UNCHANGED <<dir, size>>
       \/ /\ dir' = dir \ {r}
          /\ size' = [size EXCEPT ![r] = [f \in Files |-> Absent]]
          /\ extra' = extra \ {r}
    /\ UNCHANGED <<born, man, st, task, hist, faults>>

TaskStep ==
    \/ BeginManifest \/ BeginState
    \/ CommitMark \/ CommitErase \/ CommitRmdir \/ CommitProgress \/ CommitNote
    \/ CommitFinish
    \/ AbortWrite

Next ==
    \/ \E q \in Request, d \in Date : BeginKnown(q, d) \/ BeginFresh(q, d)
    \/ \E e \in Export : Commit(e) \/ Abort(e) \/ GetStatus(e)
    \/ Refuse
    \/ TaskStep
    \/ \E r \in Record : NewRecording(r) \/ HostEdit(r)
    \/ Crash

Init ==
    /\ born \in SUBSET Record
    /\ dir = born
    /\ size = [r \in Record |-> [f \in Files |-> IF r \in born THEN 1 ELSE Absent]]
    /\ extra = {}
    /\ man = [e \in Export |-> Nothing]
    /\ st = [e \in Export |-> EmptyCell]
    /\ pc = "idle" /\ cur = Nothing /\ info = Nothing /\ plan = Nothing /\ file = 1
    /\ told = [e \in Export |-> {}]
    /\ confirmed = {}
    /\ faults = 0 /\ edits = 0

Spec == Init /\ [][Next]_vars

\* A client that asked for the deletion keeps asking until it is told the end,
\* and the protocol task runs whenever it can; the host does not edit the card.
Fairness == WF_vars(TaskStep) /\ \A e \in Export : SF_vars(Commit(e))

FairSpec == Spec /\ Fairness

------------------------------------------------------------------------------
IsManifest(m) ==
    \E S \in SUBSET Record :
        /\ S # {}
        /\ m \in [req : Request, date : Date, names : Sorted(S),
                  sizes : [S -> [Files -> Nat \ {Absent}]]]

ASSUME NothingIsNoManifest == ~IsManifest(Nothing)

TypeOK ==
    /\ dir \subseteq born /\ born \subseteq Record /\ extra \subseteq dir
    /\ size \in [Record -> [Files -> Nat]]
    /\ \A e \in Export : man[e] # Nothing => IsManifest(man[e])
    /\ st \in [Export -> Cells(States)]
    /\ pc \in {"idle", "begin_manifest", "begin_state", "mark", "erase", "rmdir",
               "progress", "note", "finish", "abort"}
    /\ cur \in Export \cup {Nothing}
    /\ info \in States \cup {Nothing}
    /\ plan # Nothing => IsManifest(plan)
    /\ file \in Files
    /\ told \in [Export -> SUBSET Phases]
    /\ confirmed \subseteq Export
    /\ faults \in 0..MaxFaults /\ edits \in 0..MaxEdits

Phase(e) == IF Load(e) = Nothing THEN "none" ELSE Load(e).phase
Active(e) == Phase(e) \in {"prepared", "committing"}

\* date_already_prepared (export_service.c:1102-1105) keeps the dates of the
\* active exports distinct, across every crash and every failed write.
OneActivePerDate ==
    \A a, b \in Export : a # b /\ Active(a) /\ Active(b) => man[a].date # man[b].date

\* A retried BEGIN_EXPORT never creates a second transaction: one loadable
\* export per client_request_id (scan_transactions, 973-1008).
OneExportPerRequest ==
    \A a, b \in Export :
        a # b /\ Phase(a) # "none" /\ Phase(b) # "none" => man[a].req # man[b].req

\* too_many_active_exports (1106-1109) bounds the active exports.
ActiveBounded == Cardinality({e \in Export : Active(e)}) <= MaxActive

\* Wherever a commit stopped, the next one passes preflight_records (848-866):
\* deleted_count is never more than one recording behind the card.
Resumable ==
    Idle /\ edits = 0 =>
        \A e \in Export : Phase(e) = "committing" =>
            Preflight(man[e], Load(e).deleted, TRUE)

\* What a successful reply has told the host outlives every later crash: an
\* aborted export stays aborted, a committed one stays committed with nothing
\* of its recordings left, a prepared one stays on the card.
AcknowledgedIsDurable ==
    \A e \in Export :
        /\ told[e] # {} => Phase(e) # "none"
        /\ "aborted" \in told[e] => Phase(e) = "aborted"
        /\ "committed" \in told[e] => Phase(e) = "committed" /\ Names(man[e]) \cap dir = {}

\* No recording is lost: unless the host itself edited the card, every recording ever
\* finalised is there with all its files, or is listed by an export that the host
\* confirmed and whose deletion the card remembers, begun or done, wherever requests,
\* retries and power were cut (868-916, 1337-1376).
NothingLost ==
    edits = 0 =>
        \A r \in born : \/ Complete(r)
                        \/ \E e \in confirmed : /\ Phase(e) \in {"committing", "committed"}
                                                 /\ r \in Names(man[e])

\* No file of a recording is deleted but by an export whose deletion the host
\* asked for, whose committing state is on the card, and whose manifest lists
\* the file with the size it still has (868-916, 1348-1376).
DeletesOnlyConfirmed ==
    [][\A r \in Record, f \in Files :
          size[r][f] # Absent /\ size'[r][f] = Absent /\ edits' = edits =>
              \E e \in confirmed :
                  /\ Phase(e) = "committing" /\ r \in Names(man[e])
                  /\ man[e].sizes[r][f] = size[r][f]]_vars

\* Deletion starts only when every listed recording is still exactly as frozen,
\* whatever the host did to the card since the export was prepared.
StartsOnlyIntact ==
    [][\A e \in Export : Phase(e) = "prepared" /\ Phase(e)' = "committing" =>
          \A r \in Names(man[e]) : r \in dir \ extra /\ size[r] = man[e].sizes[r]]_vars

\* The service keeps the promises of ExportTransactions.
Fate(r) ==
    IF r \notin born THEN "unborn"
    ELSE IF Complete(r) THEN "whole"
    ELSE IF r \in dir THEN "torn" ELSE "gone"

Transactions ==
    INSTANCE ExportTransactions WITH
        phase <- [e \in Export |-> Phase(e)],
        listed <- [e \in Export |-> IF Phase(e) = "none" THEN {} ELSE Names(man[e])],
        fate <- [r \in Record |-> Fate(r)]

ImplementsTransactions == Transactions!Spec

\* A deletion that was started is finished, if the host keeps asking and
\* failures end: "commit_recovery_required" is never the last word.
CommitCompletes ==
    \A e \in Export : Phase(e) = "committing" ~> Phase(e) = "committed"
==============================================================================
