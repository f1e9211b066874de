------------------------------ MODULE Recorder -------------------------------
(***************************************************************************)
(* One recording at a time, as recorder.c makes it: the caller of          *)
(* day_recorder_record_once (main) and one task per stream meet at an      *)
(* event group, write into a directory of /.recording, and main moves the  *)
(* directory to the root of the card with one rename (storage_service.c).  *)
(* Any driver call and any file operation may fail, both waits may time    *)
(* out, and the power may be lost between any two steps.                   *)
(*                                                                         *)
(* Data is reduced to what can go wrong: a stream's error is "ok" or       *)
(* "failed", a file is "none", "partial" (open, cut short or a             *)
(* placeholder) or "full" (everything captured, written and closed).       *)
(***************************************************************************)
EXTENDS Naturals

CONSTANTS
    NumStreams,     \* 3: 1 camera, 2 audio, 3 imu, in the order main treats them
    HeaderFirst,    \* streams that write a header before READY: audio, imu
    Stamp,          \* the times of day a name can carry, clock or fallback
    Modulus,        \* DAY_RECORD_SEQUENCE_MODULUS: 10000
    MaxCounter,     \* DAY_RECORD_COUNTER_MAX: about 2^53
    Nothing

Stream == 1..NumStreams

ASSUME RecorderAssumption ==
    /\ NumStreams \in Nat \ {0}
    /\ HeaderFirst \subseteq Stream
    /\ Modulus \in Nat \ {0} /\ MaxCounter \in Nat

VARIABLES
    \* what survives a reset
    counter,    \* the next recording counter, in NVS
    part,       \* part[n]: /.recording/n.partial, a function on the names in use
    arch,       \* arch[n]: /n
    \* the context of record_once and its control flow; s_recording is pc # "idle"
    pc,
    at,         \* the stream main is treating
    cnt,        \* paths.record_counter
    cur,        \* paths.record_name, Nothing before its directory exists
    late,       \* streams found missing when the READY wait timed out
    missing,    \* streams main has still to mark as timed out
    err,        \* metadata.<stream>.error
    \* the event group
    ready, done, cancel, started, stopped,
    early,      \* the CANCEL bits START found: what a task woken by START reads
    \* the stream tasks
    task,       \* control point of each task, "none" when there is none
    res,        \* its local result
    \* history
    issued      \* counters of the recordings that ever reached the root

card == <<counter, part, arch>>
main == <<pc, at, cnt, cur, late, missing>>
bits == <<ready, done, cancel, started, stopped, early>>
tasks == <<task, res>>
vars == <<card, main, err, bits, tasks, issued>>

Names == (0..Modulus - 1) \X Stamp
Directory == [counter : 1..MaxCounter, file : [Stream -> {"none", "partial", "full"}],
              meta : [Stream -> {"ok", "failed"}] \cup {Nothing}]

NoDirectories == [n \in {} |-> Nothing]
With(f, n, v) == [m \in DOMAIN f \cup {n} |-> IF m = n THEN v ELSE f[m]]
Without(f, n) == [m \in DOMAIN f \ {n} |-> f[m]]

Idle == pc = "idle"
Live(s) == task[s] # "none"
First == 1
Last == NumStreams

------------------------------------------------------------------------------
(***************************************************************************)
(* Main, up to the creation of the directory.                              *)
(***************************************************************************)
\* The flag, the context and the event group; without memory nothing starts.
Begin ==
    /\ Idle
    /\ pc' = "open"
    /\ UNCHANGED <<card, at, cnt, cur, late, missing, err, bits, tasks, issued>>

\* day_storage_init and day_storage_require_free_bytes
OpenStorage ==
    /\ pc = "open"
    /\ pc' \in {"count", "end"}
    /\ UNCHANGED <<card, at, cnt, cur, late, missing, err, bits, tasks, issued>>

\* Mutant: the counter is stored after the recording, not before.
CountLater ==
    /\ pc = "count"
    /\ IF counter < MaxCounter
         THEN cnt' = counter /\ pc' = "mkdir"
         ELSE pc' = "end" /\ UNCHANGED cnt
    /\ UNCHANGED <<card, at, cur, late, missing, err, bits, tasks, issued>>

\* Mutant: the counter starts over instead of running out.
CountAround ==
    /\ pc = "count"
    /\ counter' = IF counter < MaxCounter THEN counter + 1 ELSE 1
    /\ cnt' = counter
    /\ pc' = "mkdir"
    /\ UNCHANGED <<part, arch, at, cur, late, missing, err, bits, tasks, issued>>

\* allocate_record_counter: the successor is committed before the value is used.
AllocateCounter ==
    /\ pc = "count"
    /\ \/ /\ counter < MaxCounter
          /\ counter' = counter + 1
          /\ cnt' = counter
          /\ pc' = "mkdir"
       \/ /\ counter' \in {counter} \cup {c \in {counter + 1} : c <= MaxCounter}
          /\ pc' = "end"
          /\ UNCHANGED cnt
    /\ UNCHANGED <<part, arch, at, cur, late, missing, err, bits, tasks, issued>>

Free(n) == n \notin DOMAIN part /\ n \notin DOMAIN arch

\* The sequence number that probing from the counter's own finds first.
Probe(t) ==
    LET seq(i) == (cnt + i) % Modulus
    IN  CHOOSE n \in Names :
            \E i \in 0..Modulus - 1 :
                /\ n = <<seq(i), t>> /\ Free(n)
                /\ \A j \in 0..i - 1 : ~Free(<<seq(j), t>>)

\* day_storage_make_record_paths from the probing on; t is the clock's time,
\* or one derived from the counter when the clock is not set.  After the mkdir
\* nothing fails: the four paths fit their buffers whenever the directory's did.
MakePaths ==
    /\ pc = "mkdir"
    /\ \/ \E t \in Stamp :
            /\ \E i \in 0..Modulus - 1 : Free(<<i, t>>)
            /\ cur' = Probe(t)
            /\ part' = With(part, cur', [counter |-> cnt, file |-> [s \in Stream |-> "none"],
                                         meta |-> Nothing])
            /\ pc' = "drivers"
       \/ /\ pc' = "end"
          /\ UNCHANGED <<cur, part>>
    /\ UNCHANGED <<counter, arch, at, cnt, late, missing, err, bits, tasks, issued>>

------------------------------------------------------------------------------
(***************************************************************************)
(* Main, from the drivers to the end of the capture.                       *)
(***************************************************************************)
InitDrivers ==
    /\ pc = "drivers"
    /\ err' \in [Stream -> {"ok", "failed"}]
    /\ at' = First
    /\ pc' = "spawn"
    /\ UNCHANGED <<card, cnt, cur, late, missing, bits, tasks, issued>>

NextStream(after) ==
    /\ at' = IF at = Last THEN First ELSE at + 1
    /\ pc' = IF at = Last THEN after ELSE pc

\* Mutant: a task that cannot be created is not reported as READY and DONE.
SpawnSilently ==
    /\ pc = "spawn"
    /\ \/ /\ err[at] = "ok"
          /\ task' = [task EXCEPT ![at] = "open"]
          /\ UNCHANGED <<err, ready, done>>
       \/ /\ err' = [err EXCEPT ![at] = "failed"]
          /\ ready' = ready \cup {at}
          /\ UNCHANGED <<task, done>>
    /\ NextStream("await_ready")
    /\ UNCHANGED <<card, cnt, cur, late, missing, cancel, started, stopped, early, res, issued>>

\* start_record_task, or the bits of a stream without driver or task
Spawn ==
    /\ pc = "spawn"
    /\ \/ /\ err[at] = "ok"
          /\ task' = [task EXCEPT ![at] = "open"]
          /\ UNCHANGED <<err, ready, done>>
       \/ /\ err' = [err EXCEPT ![at] = "failed"]
          /\ ready' = ready \cup {at}
          /\ done' = done \cup {at}
          /\ UNCHANGED task
    /\ NextStream("await_ready")
    /\ UNCHANGED <<card, cnt, cur, late, missing, cancel, started, stopped, early, res, issued>>

\* The READY wait: all bits, or the bits there are when three seconds are over.
AwaitReady ==
    /\ pc = "await_ready"
    /\ late' = Stream \ ready
    /\ pc' = IF late' = {} THEN "start" ELSE "mark_late"
    /\ UNCHANGED <<card, at, cnt, cur, missing, err, bits, tasks, issued>>

\* Mutant: a late stream is reported but not cancelled.
MarkOnly ==
    /\ pc = "mark_late"
    /\ err' = IF at \in late THEN [err EXCEPT ![at] = "failed"] ELSE err
    /\ NextStream("start")
    /\ UNCHANGED <<card, cnt, cur, late, missing, bits, tasks, issued>>

\* mark_prepare_timeout: one error after the other, then all CANCEL bits at once.
MarkPrepareTimeout ==
    /\ pc = "mark_late"
    /\ err' = IF at \in late THEN [err EXCEPT ![at] = "failed"] ELSE err
    /\ NextStream("start")
    /\ cancel' = IF at = Last THEN cancel \cup late ELSE cancel
    /\ UNCHANGED <<card, cnt, cur, late, missing, ready, done, started, stopped, early, tasks,
                   issued>>

Start ==
    /\ pc = "start"
    /\ started' = TRUE
    /\ early' = cancel
    /\ pc' = "capture"
    /\ UNCHANGED <<card, at, cnt, cur, late, missing, err, ready, done, cancel, stopped, tasks,
                   issued>>

\* STOP, DAY_RECORD_SECONDS later (at once when every stream is DONE).
Stop ==
    /\ pc = "capture"
    /\ stopped' = TRUE
    /\ pc' = "await_done"
    /\ UNCHANGED <<card, at, cnt, cur, late, missing, err, ready, done, cancel, started, early,
                   tasks, issued>>

\* The DONE wait, or what is DONE when eight seconds are over.
AwaitDone ==
    /\ pc = "await_done"
    /\ missing' = Stream \ done
    /\ pc' = IF missing' = {} THEN "sync" ELSE "mark_done"
    /\ UNCHANGED <<card, at, cnt, cur, late, err, bits, tasks, issued>>

\* mark_completion_timeout; a stream that has recorded its own error keeps it.
MarkCompletionTimeout ==
    /\ pc = "mark_done"
    /\ err' = IF at \in missing THEN [err EXCEPT ![at] = "failed"] ELSE err
    /\ NextStream("await_all")
    /\ cancel' = IF at = Last THEN cancel \cup missing ELSE cancel
    /\ UNCHANGED <<card, cnt, cur, late, missing, ready, done, started, stopped, early, tasks,
                   issued>>

\* Mutant: the second wait for DONE is bounded as well.
AwaitAllBounded ==
    /\ pc = "await_all"
    /\ pc' = "sync"
    /\ UNCHANGED <<card, at, cnt, cur, late, missing, err, bits, tasks, issued>>

\* The second wait has no timeout.
AwaitAll ==
    /\ pc = "await_all"
    /\ done = Stream
    /\ pc' = "sync"
    /\ UNCHANGED <<card, at, cnt, cur, late, missing, err, bits, tasks, issued>>

------------------------------------------------------------------------------
(***************************************************************************)
(* Main, after the capture: the directory is completed and published.      *)
(***************************************************************************)
\* Mutant: the loop runs one stream too far.
SyncOneTooMany ==
    /\ pc = "sync"
    /\ at' = at + 1
    /\ pc' = IF at = Last THEN "meta" ELSE pc
    /\ UNCHANGED <<card, cnt, cur, late, missing, err, bits, tasks, issued>>

Synced == IF part[cur].file[at] = "none"
            THEN [part EXCEPT ![cur].file[at] = "partial"] ELSE part

\* synchronize_media_files: a missing file is created empty, another is synced.
SyncFile ==
    /\ pc = "sync"
    /\ \/ /\ part' = Synced
          /\ NextStream("meta")
       \/ /\ part' \in {part, Synced}
          /\ pc' = "end"
          /\ UNCHANGED at
    /\ UNCHANGED <<counter, arch, cnt, cur, late, missing, err, bits, tasks, issued>>

\* day_record_metadata_write_atomic: a temporary file, synced and renamed.
WriteMetadata ==
    /\ pc = "meta"
    /\ \/ /\ part' = [part EXCEPT ![cur].meta = err]
          /\ pc' = "finalize"
       \/ /\ pc' = "end"
          /\ UNCHANGED part
    /\ UNCHANGED <<counter, arch, at, cnt, cur, late, missing, err, bits, tasks, issued>>

\* day_storage_finalize_record: the four files are there, the name is free, and
\* one rename publishes the directory.
Finalize ==
    /\ pc = "finalize"
    /\ \/ /\ part[cur].meta # Nothing
          /\ \A s \in Stream : part[cur].file[s] # "none"
          /\ cur \notin DOMAIN arch
          /\ arch' = With(arch, cur, part[cur])
          /\ part' = Without(part, cur)
          /\ issued' = issued \cup {part[cur].counter}
       \/ UNCHANGED <<part, arch, issued>>
    /\ pc' = "end"
    /\ UNCHANGED <<counter, at, cnt, cur, late, missing, err, bits, tasks>>

\* Everything volatile, as before the first recording or after a reset.
Cleared ==
    /\ pc' = "idle" /\ at' = First /\ cnt' = Nothing /\ cur' = Nothing
    /\ late' = {} /\ missing' = {}
    /\ err' = [s \in Stream |-> "ok"]
    /\ ready' = {} /\ done' = {} /\ cancel' = {} /\ early' = {}
    /\ started' = FALSE /\ stopped' = FALSE
    /\ task' = [s \in Stream |-> "none"] /\ res' = [s \in Stream |-> "ok"]

\* Mutant: a failed recording removes its staging directory.
EndTidily ==
    /\ pc = "end"
    /\ Cleared
    /\ part' = IF cur \in DOMAIN part THEN Without(part, cur) ELSE part
    /\ UNCHANGED <<counter, arch, issued>>

\* The camera is stopped, the event group and the context are freed, and the
\* flag is cleared.
End ==
    /\ pc = "end"
    /\ Cleared
    /\ UNCHANGED <<card, issued>>

------------------------------------------------------------------------------
(***************************************************************************)
(* camera_task, audio_task and imu_task.                                   *)
(***************************************************************************)
Goes(s, from, to) == task[s] = from /\ task' = [task EXCEPT ![s] = to]

Fails(s) == res' = [res EXCEPT ![s] = "failed"]

Writes(s, content) == part' = [part EXCEPT ![cur].file[s] = content]

\* Mutant: a file that cannot be opened is not recorded as an error.
OpenSilently(s) ==
    /\ \/ /\ Goes(s, "open", "header")
          /\ Writes(s, "partial")
          /\ UNCHANGED <<ready, done>>
       \/ /\ Goes(s, "open", "none")
          /\ ready' = ready \cup {s} /\ done' = done \cup {s}
          /\ UNCHANGED part
    /\ UNCHANGED <<counter, arch, main, err, cancel, started, stopped, early, res, issued>>

\* fopen; a stream that fails here is READY and DONE and gone.
OpenFile(s) ==
    /\ \/ /\ Goes(s, "open", "header")
          /\ Writes(s, "partial")
          /\ UNCHANGED <<err, ready, done>>
       \/ /\ Goes(s, "open", "none")
          /\ err' = [err EXCEPT ![s] = "failed"]
          /\ ready' = ready \cup {s} /\ done' = done \cup {s}
          /\ UNCHANGED part
    /\ UNCHANGED <<counter, arch, main, cancel, started, stopped, early, res, issued>>

\* READY; without a header the task does not wait for START.
Header(s) ==
    /\ \/ Goes(s, "header", "wait") /\ UNCHANGED res
       \/ s \in HeaderFirst /\ Goes(s, "header", "close") /\ Fails(s)
    /\ ready' = ready \cup {s}
    /\ UNCHANGED <<card, main, err, done, cancel, started, stopped, early, issued>>

\* control_cancelled: a task that was already waiting gets the bits START
\* found, one that comes later the bits of that moment.
Control(s) ==
    /\ started \/ s \in cancel
    /\ \/ /\ s \in cancel
          /\ Goes(s, "wait", "close") /\ Fails(s)
       \/ /\ started /\ (s \notin cancel \/ s \notin early)
          /\ Goes(s, "wait", "capture") /\ UNCHANGED res
    /\ UNCHANGED <<card, main, err, bits, issued>>

\* The capture loop, left on STOP or on an error of the driver or of a write.
Capture(s) ==
    /\ Goes(s, "capture", "close")
    /\ \/ stopped /\ UNCHANGED res
       \/ Fails(s)
    /\ UNCHANGED <<card, main, err, bits, issued>>

\* The trailer of the format and flush_sync_close
Close(s) ==
    /\ Goes(s, "close", "check")
    /\ \/ /\ res[s] = "ok"
          /\ Writes(s, "full")
          /\ UNCHANGED res
       \/ Fails(s) /\ UNCHANGED part
    /\ UNCHANGED <<counter, arch, main, err, bits, issued>>

\* if (error == ESP_OK): main may be marking the stream as timed out meanwhile.
CheckError(s) ==
    /\ Goes(s, "check", IF err[s] = "ok" THEN "store" ELSE "done")
    /\ UNCHANGED <<card, main, err, bits, res, issued>>

StoreError(s) ==
    /\ Goes(s, "store", "done")
    /\ err' = [err EXCEPT ![s] = res[s]]
    /\ UNCHANGED <<card, main, bits, res, issued>>

SetDone(s) ==
    /\ Goes(s, "done", "none")
    /\ done' = done \cup {s}
    /\ UNCHANGED <<card, main, err, ready, cancel, started, stopped, early, res, issued>>

------------------------------------------------------------------------------
\* Power loss or reset: the card and NVS keep what was written.
Crash ==
    /\ ~Idle
    /\ Cleared
    /\ UNCHANGED <<card, issued>>

\* An export removes a recording, or its owner does over USB: the rmdir, which
\* makes the name free; what the files before it leave is ExportService's subject.
Removed(n) ==
    /\ n \in DOMAIN arch
    /\ arch' = Without(arch, n)
    /\ UNCHANGED <<counter, part, main, err, bits, tasks, issued>>

MainStep ==
    \/ OpenStorage \/ AllocateCounter \/ MakePaths \/ InitDrivers \/ Spawn
    \/ AwaitReady \/ MarkPrepareTimeout \/ Start \/ Stop
    \/ AwaitDone \/ MarkCompletionTimeout \/ AwaitAll
    \/ SyncFile \/ WriteMetadata \/ Finalize \/ End

StreamStep(s) ==
    \/ OpenFile(s) \/ Header(s) \/ Control(s) \/ Capture(s) \/ Close(s)
    \/ CheckError(s) \/ StoreError(s) \/ SetDone(s)

Next ==
    \/ Begin
    \/ MainStep
    \/ \E s \in Stream : StreamStep(s)
    \/ Crash
    \/ \E n \in Names : Removed(n)

Init ==
    /\ counter \in 1..MaxCounter
    /\ part = NoDirectories /\ arch = NoDirectories
    /\ pc = "idle" /\ at = First /\ cnt = Nothing /\ cur = Nothing
    /\ late = {} /\ missing = {}
    /\ err = [s \in Stream |-> "ok"]
    /\ ready = {} /\ done = {} /\ cancel = {} /\ early = {}
    /\ started = FALSE /\ stopped = FALSE
    /\ task = [s \in Stream |-> "none"] /\ res = [s \in Stream |-> "ok"]
    /\ issued = {}

Spec == Init /\ [][Next]_vars

\* Every task runs when it can, and every driver and file call returns.
Fairness == WF_vars(MainStep) /\ \A s \in Stream : WF_vars(StreamStep(s))

FairSpec == Spec /\ Fairness

------------------------------------------------------------------------------
TypeOK ==
    /\ counter \in 1..MaxCounter
    /\ DOMAIN part \subseteq Names /\ \A n \in DOMAIN part : part[n] \in Directory
    /\ DOMAIN arch \subseteq Names /\ \A n \in DOMAIN arch : arch[n] \in Directory
    /\ pc \in {"idle", "open", "count", "mkdir", "drivers", "spawn", "await_ready", "mark_late",
               "start", "capture", "await_done", "mark_done", "await_all", "sync", "meta",
               "finalize", "end"}
    /\ at \in Stream
    /\ cnt \in (1..MaxCounter) \cup {Nothing}
    /\ cur \in Names \cup {Nothing}
    /\ late \subseteq Stream /\ missing \subseteq Stream
    /\ err \in [Stream -> {"ok", "failed"}]
    /\ ready \subseteq Stream /\ done \subseteq Stream
    /\ cancel \subseteq Stream /\ early \subseteq Stream
    /\ started \in BOOLEAN /\ stopped \in BOOLEAN
    /\ task \in [Stream -> {"none", "open", "header", "wait", "capture", "close", "check",
                            "store", "done"}]
    /\ res \in [Stream -> {"ok", "failed"}]
    /\ issued \subseteq 1..MaxCounter

\* Once main leaves the waits no stream task exists that could still write the
\* files, the metadata or the event group that main reads, publishes and frees
\* (recorder.c:619-626, 634-658), however late the streams were.
QuietWhenPublished ==
    pc \in {"idle", "open", "count", "mkdir", "drivers", "sync", "meta", "finalize", "end"} =>
        \A s \in Stream : ~Live(s)

\* The streams share one epoch: none captures before START, all of them were
\* READY or given up by then, and one that was given up never captures
\* (recorder.c:606-612, 83-88).
CommonStart ==
    \A s \in Stream : task[s] = "capture" =>
        started /\ s \notin late /\ Stream \subseteq ready \cup late

\* The last wait has no timeout, and main is alone in ending it: whatever failed, came
\* late or was given up, a stream that main still waits for has a task, which nothing
\* keeps waiting in its turn (recorder.c:85, 614-620).
NobodyWaitsForever ==
    pc = "await_all" => started /\ stopped /\ \A s \in Stream \ done : Live(s)

\* A published recording says "ok" only of streams whose file holds all that
\* was captured: every failed driver, task, file or deadline is in meta.json.
MetadataTruthful ==
    \A n \in DOMAIN arch : \A s \in Stream :
        arch[n].meta[s] = "ok" => arch[n].file[s] = "full"

\* No two directories ever carry the same counter, hence the same record_id,
\* even when the device resets in the middle of a recording.
CountersDistinct ==
    /\ \A m, n \in DOMAIN part : m # n => part[m].counter # part[n].counter
    /\ \A n \in DOMAIN part : part[n].counter \notin issued /\ part[n].counter < counter
    /\ DOMAIN part \cap DOMAIN arch = {}

\* A staging directory is never lost: it stays under its name until it becomes
\* a recording, with nothing taken from it (no unlink or rmdir in the recorder).
StagingKept ==
    [][\A n \in DOMAIN part :
          \/ n \in DOMAIN part' /\ part'[n].counter = part[n].counter
             /\ \A s \in Stream : part[n].file[s] # "none" => part'[n].file[s] # "none"
          \/ n \in DOMAIN arch' /\ arch'[n] = part[n]]_vars

\* The root of the card behaves as RecordArchive.
Archive ==
    INSTANCE RecordArchive WITH
        Name <- Names, Counter <- 1..MaxCounter,
        shelf <- [n \in DOMAIN arch |->
                    [counter |-> arch[n].counter,
                     full |-> {s \in Stream : arch[n].file[s] = "full"}]]

ArchiveSpec == Archive!Spec

\* Every recording ends: the caller gets its answer although a stream is late,
\* fails or cannot be started at all.
RecordingEnds == ~Idle ~> Idle
==============================================================================
