# Verification of the Day Distiller firmware

TLA+ models of the parts of `main/src` that decide what happens to a
recording: how it is made, how it is frozen and copied by a host, and how it is
deleted. TLC checks the models on small instances; TLAPS proves the results
listed below for all values of the constants.

## 1. The system

The firmware (ESP-IDF, FreeRTOS, one ESP32-S3) wakes up, offers a web portal for
a few seconds, makes one short recording (video, audio, motion) and goes back to
deep sleep, unless a USB host keeps it awake.

| component | source | state it keeps | operations | interacts with |
|---|---|---|---|---|
| atomic files | `export/export_service.c` 295-386 | `path`, `path.bak`, `path.tmp` | replace a small JSON file; read it or its backup | every state change of an export |
| export transactions | `export/export_service.c` | `/EXPORTS/<id>.json` (manifest), `<id>.state` (phase, `deleted_count`), the recordings | begin, commit-delete, abort, get-status, list | called by the USB protocol task; shares the card with the recorder and, in mass-storage mode, with the host |
| recorder | `media/recorder.c`, `media/record_metadata.c` | `s_recording`, a heap context with metadata, an event group, `/.recording/<name>.partial` | `record_once`, three stream tasks | called by app_main and by a web task; drivers; storage |
| recording storage | `storage/storage_service.c` | mount state, NVS recording counter, directories | allocate counter, choose a name, publish | recorder, export, web page |
| USB session | `usb/usb_session.c` | mode intent in RTC memory (survives reset) | begin maintenance, prepare mass storage, prepare serial, end, boot | USB link, application |
| USB link | `usb/usb_link.c` | mode, receive queue, SLIP decoder, activity times, host latch | dispatch of all requests, mass-storage boot, timeouts, stop | session, export, settings, LED, status |
| wire protocol | `usb/usb_protocol.c` | none | frame and request parsing | USB link |
| application | `app_core.c`, `power/power_manager.c`, `drivers/battery.c` | wake reason, low-battery latch (RTC) | one boot from wake-up to deep sleep | everything |
| settings | `config/*.c` | configuration and revision, in RAM under a lock and in NVS; an unlocked copy in `app_core.c` | get, replace if the revision matches, load | web server, USB link, Wi-Fi |
| web server, portal | `web/web_server.c`, `net/wifi_portal.c` | request flags, clients, Wi-Fi state | configuration, record request, preview, Wi-Fi operation, telemetry | settings, recorder, camera |
| camera | `media/camera_service.c` | driver, `s_initialized`, `s_status` | initialise for a use, capture, stream, release | recorder, preview server, changes of the settings |
| audio, IMU, clock, board, AVI | `media/*.c`, `drivers/*.c`, `board/*.c` | driver handles | capture, convert, write | recorder |
| LED, status, identity | `drivers/led_status.c`, `device/*.c` | mode, preview, cached readings | show, snapshot | most components |

What is hard about it: the protocol task can be deleted and the power can be lost
between any two file operations; replies are lost and requests repeated; four tasks
meet at an event group with timeouts; a host writes to the same card; several
configuration writers; a camera shared without a lock; state that has to survive in
RTC memory, in NVS and on a FAT volume whose `rename` does not replace. `PROJECT.json`
lists each hazard at its line with the property that covers it, or why none does.

Correctness, per component:

* atomic files - a reader sees the old or the new content at every moment;
  success and failure are reported truthfully.
* export - at most one active export per date, one per client request;
  recordings are deleted only for an export the host confirmed, only as frozen,
  only after the fact is on the card; an interrupted deletion can always be
  resumed and an answered outcome is never taken back; no recording is lost on
  the way.
* recorder - a recording appears at once and whole, under a fresh name and
  counter; its metadata does not claim more than its files hold; no task outlives
  the memory it uses; nobody is waited for who is not there; every recording ends.
* USB - a storage session that carries exports is never writable; host and device
  never use the card at once; storage mode is left when it is meant to be.
* boot - a host that was seen keeps the device awake; a locked battery keeps it
  quiet until power-on; a cold boot makes its record; the recorder's flag is never
  left behind.
* settings - the numbers the device runs with are in range, whatever mixture of
  entries a loss of power left, and nobody brings a malformed text in; a revision
  stands for one configuration for ever; no writer undoes a change it did not know
  of, where the code guards against it; a recording keeps the parameters it was
  started with, where the code tests for it (section 6 has the exceptions).
* serial line - a request that loses bytes costs only itself.
* camera - who ends last switches it off; the flag that a preview trusts to mean
  "the recorder will" is never set for nothing.

## 2. Modules

| module | models | from |
|---|---|---|
| `DurableCell` | a transaction file with its backup, what a reader obtains, and how one `atomic_write` can end | `export_service.c` |
| `AtomicRegister` | abstract: a register written in one step | - |
| `AtomicFile` | `atomic_write`, one file operation per step, failures, power loss; refines `AtomicRegister` | `export_service.c` 295-386 |
| `AtomicFile_proofs` | proofs about `AtomicFile` | - |
| `ExportTransactions` | abstract: what an export may do to recordings | - |
| `ExportTransactions_proofs` | proofs about `ExportTransactions` | - |
| `ExportService` | the export operations, one card-changing operation per step; refines `ExportTransactions` | `export_service.c` |
| `MCExport` | instances of `ExportService` for TLC | - |
| `ExportService_proofs` | proofs about `ExportService`, its refinement included | - |
| `RecordArchive` | abstract: the recordings in the root of the card | - |
| `Recorder` | `record_once`, its stream tasks and the storage steps; refines `RecordArchive` | `recorder.c`, `storage_service.c`, `record_metadata.c` |
| `Recorder_proofs` | proofs about `Recorder` | - |
| `UsbLink` | host latch, boot intent, driver, protocol task, mode commands, mass-storage hand-over | `usb_session.c`, `usb_link.c` |
| `Boot` | `day_app_run` from reset to sleep, the web recording task, resets; composes `UsbLink` | `app_core.c`, `power_manager.c`, `web_server.c`, `wifi_portal.c` |
| `Boot_proofs` | proofs about `Boot` and `UsbLink` | - |
| `Camera` | the camera and its five users, on top of `Boot`; refines `Boot` | `camera_service.c`, `recorder.c`, `web_server.c`, `app_core.c` |
| `MCCamera` | an instance of `Camera`, and so of `Boot`, with fairness | - |
| `Camera_proofs` | proofs about `Camera` | - |
| `DayConfig` | a configuration: defaults, validation, repair, patches | `app_config.c`, `device_settings.c`, `usb_protocol.c` |
| `Settings` | the settings service with its three writers, entry by entry in NVS | `device_settings.c`, `app_core.c`, `usb_link.c`, `web_server.c`, `wifi_portal.c` |
| `Settings_proofs` | proofs about `DayConfig` and `Settings` | - |
| `UsbLine` | framing, receive queue and frame decoder | `usb_link.c` |
| `UsbLine_proofs` | proofs about `UsbLine` | - |
| `MCSettings` | an instance of `Settings` and `UsbLine` | - |

`AtomicFile` and `ExportService` compose through `DurableCell`: the step-level
model is proved to end within the summary (`OkOutcomes`, `FailOutcomes`,
`CrashOutcomes`), and `ExportService` takes one step of the summary wherever the
code calls `atomic_write`. `Boot` extends `UsbLink`: the link's steps leave main's
state alone (`LinkStep`), main starts and stops the link through `StartProtocol`,
`StopTask` and `Uninstall`. What happens inside a recording is `Recorder`'s
subject; `Boot` has only the flag `s_recording`, with its test and its setting
as two steps, because main and the web task both call `record_once`. `Camera` extends
`Boot`: each of its steps is a step of `Boot`, of the camera, or of both (a
recording that begins enters the camera, a reset switches it off), and it only
restricts when `Boot`'s steps can happen (`BootImplemented`); what `Boot_proofs`
shows therefore holds in it. `Settings` takes the data from `DayConfig`.
`MCSettings` puts `UsbLine` before `Settings`: they share no variable, so the order
of their steps says nothing, and the line comes to rest first.

### State and actions

*AtomicFile.* `main`, `bak`, `tmp` are the directory entries of `path`,
`path.bak`, `path.tmp`; `pc` is the next file operation; `data` the argument;
`entry` remembers the files at the call. `Call`, `CreateTmp`, `WriteTmp`,
`CheckOriginal`, `DropOldBackup`, `SetAside`, `RenameTmp`, `Restore`, `ReturnOk`
are the lines of `atomic_write` in order; an error path is `ReturnError`; `Crash`
is power loss or the deletion of the task. A failed operation has no effect, a
rename is atomic and fails if the new name exists.

*ExportService.* `born`, `dir`, `size`, `extra` are the recordings, `man` and
`st` the two files of an export; `pc`, `cur`, `info`, `plan`, `file` the request
being served (the protocol task serves one at a time). `BeginKnown` and
`BeginFresh` are the two outcomes of `scan_transactions`, followed by
`BeginManifest` and `BeginState`; `Commit` is `day_export_commit_delete` up to
its first write, then `CommitMark`, per recording `CommitErase` (per file),
`CommitRmdir`, `CommitProgress`, and `CommitFinish`; the preflight in `Commit` may
fail on a card that is as it should be; `CommitNote` is the path that
persists `last_error`; `Abort`, `AbortWrite`, `GetStatus` as named; `Refuse` is
every answer that changes nothing. `NewRecording`, `HostEdit`, `Crash` are the
surroundings. `told` and `confirmed` record what the host was told and asked for.
A manifest is its request, date, ordered names and sizes; the digest the host
repeats stands for that value.

*Recorder.* `pc` and `at` walk through `record_once` (`s_recording` is
`pc # "idle"`), `task[s]` through the task of each stream; `ready`, `done`,
`cancel`, `started`, `stopped` are the bits of the event group and `early` the
CANCEL bits that START found, which is what a task blocked in `control_cancelled`
reads even if it runs later. `err[s]` is `metadata.<stream>.error`; it is written
by main and by the stream without a lock, so the stream's check and store are two
steps. `part` and `arch` are the staging and the final directories with the state
of each file. The three tasks differ for the model only in whether a header
precedes READY (`HeaderFirst`). Time is abstracted: a wait with a timeout may
end whenever it likes, and the recording length is any number of steps.

*UsbLink, Boot.* `hostSeen`, `intent` and `low` are the three structures in RTC
memory (host latch, boot intent, battery lock); a structure whose checksum fails is
FALSE or `NoIntent`. `pc` walks through `day_app_run`; `cold`, `serialStarted` are
its locals; `mode`, `tinyusb`, `proto`, `maint` are the link's statics, `attached`
the bus (a host that has "left" may have frames in the queue); `card` says who has
the card, `ejected`, `readOnly` are the statics that `tud_msc_is_writable_cb` reads;
`web`, `webTask` the portal's server and its recording task. `PowerOn`, `Panic`,
`Restart` and `Wake` clear the volatile state and differ in what they do to RTC
memory and to `cold`. ENTER_MSC is three steps (`EnterMsc`, `PrepareMsc`,
`HandOver`), because the recorder is tested long before the card is unmounted, and
main may delete the protocol task between any two. `MscStart` offers the volume
before the driver runs, and `MscUndo` takes it back when the protocol task could not
be started. `Other` is every command that leaves the link as it is, and every
rejected one. Each timeout and each wait may end at any time. `made` is history: a
recording ended since the reset.

*Camera.* `driver` is the running `esp_camera` driver, `ready` is `s_initialized`,
`capturing` is `s_status.recording`; `use[u]` is the control point of each user: the
two callers of `record_once`, the preview's handler, and a change of the settings
over USB or from the page. `day_camera_deinit` is two steps, the driver (`Leave`)
and then the statics (`Clear`), also at the start of an initialisation (`Enter`,
`Leave`, `Clear`, `Power`), each with its own test of `s_initialized`. `PreviewTest`
and `PreviewEnd` are the two places at which `day_camera_stream_mjpeg` reads the
recorder's flag. `day_web_stop` is `StopPreviews`, `StopPages`, `Close`: stopping a
server waits for the handler that runs. `crossed` is history: an initialisation
ended in the middle of somebody else's release, or found the driver running.

*Settings.* `nvs` holds the entries of name space `day_cfg`, `ram` is `s_settings`
(kept as history while the device is down), `copy` is `s_config` of `app_core.c`,
`lock` is `s_mutex` while somebody writes to NVS, `at` the next entry to write.
`pc[w]` is where each writer is: `main`, which stores the defaults or an older
firmware's settings at the first boot (`Load`), `usb` (`SetConfig`), `web`
(`PostConfig`) and `wifi` (`SaveCredentials`). `Check` is the snapshot of
`apply_config_cb` and `Test` its test of the recorder, `Replace` the checks of
`day_settings_replace`, `WriteEntry`, `PersistFails` and `Install` are
`persist_config` with its commit, `Refresh` and `Assign` the new snapshot and its
unlocked store to `s_config`, `GiveUp` a lock that was not free in time. A copy of
`s_config` taken while others store it is any mixture, field by field. `StopUsb` is
the deletion of the protocol task wherever it is - a mutex it holds stays taken
(`lock = "gone"`) - and `Crash` is any reset. `want`, `guard`, `named` are the
candidate, the revision it is for and the fields the request names. Two variables
are history. `overlap` is "now" while the requests served overlap or one was
deleted, "past" after that, and "none" again from the moment a request that was
served alone has refreshed `s_config`. `late` holds the requests that had passed the
recorder's test when the recording began. `ssid` is a text that may be well formed
(`Wellformed`) or not; the old firmware of `MCLegacy` has left a malformed one, or
nothing.

*UsbLine.* The host sends `requests` one after the other, each framed as
`send_slip_bytes` frames the answers. `stream` holds the *places* of the bytes sent
(which request, which byte of it, which half of an escape): `After` says which place
comes next and `ByteAt` which byte it is, so a chunk is an interval of `stream`.
`Arrive` is `cdc_rx_callback` with a chunk, which is dropped if `queue` is full;
`Receive` and `Decode` are the protocol task that takes a chunk and passes it byte by
byte to `slip_decode_byte`; `frames` is what `process_frame` got and at which byte,
`lost` the bytes that were dropped. Any number of requests may follow each other;
`MCSettings` sends two, with one of the old stores.

## 3. Runs

| run | question | bounds | distinct states |
|---|---|---|---|
| `atomic_file` | is `atomic_write` atomic? | 3 values; every failure and crash | 1,405 |
| `export_safety` | do exports keep their promises through retries, crashes and failed writes? | 3 recordings of 2 dates, 2 requests, 2 exports, 2 files each, 2 faults | 199k |
| `export_edits` | and when the host edits the card? | the same with 1 edit, 1 fault, 1 active export | 480k |
| `export_live` | is a started deletion finished? | 1 export, 4 files, 3 faults | 22k |
| `export_one_active` | violation: unreadable transaction overlooked | reads may fail | - |
| `export_resume` | violation: stale backup written back | reads may fail | - |
| `recorder_streams` | do three streams and main end well together? | 3 streams, 1 recording, every failure and timeout | 110k |
| `recorder_card` | and the card over several recordings? | 1 stream, 3 recordings, sequence modulus 2, 2 time stamps | 165k |
| `boot` | do main, host, protocol task, web task, previews and changes of the settings get along, over resets? | 2 resets that nobody asked for, restarts unbounded; four sets of visitors; one change of the settings at a time | 231k |
| `settings` | does a request arrive, and do the writers of the settings get along, over failed writes and resets? | 5 bytes, frames of 2, chunks of 2, a queue of 1; 3 revisions, 2 requests at once, 2 old stores | 559k |
| `boot_latch` | violation: recording with a host latched | 2 resets that nobody asked for | - |
| `boot_records` | violation: a cold boot without a record | same | - |

Why the bounds are enough. `atomic_write` distinguishes the old, the new and an
older backed-up value: three. Every rule about exports relates two of them, or an
export and a recording of its own or the other date; two recordings of one date
put the deletion cursor before, at and after a boundary, two files let a recording
be torn, and two faults allow a crash during the recovery from another. In
`export_live` the file count is the real one. `MaxEdits`, `MaxFaults` bound
host edits and failures per behaviour; `MaxActive` is 32 in the code and 1 or 2
here so that the limit is met. Three streams is the real number;
`MaxCounter` is about 2^53 in the code and small here so that running out
happens; the sequence modulus is 10000 in the code and 2 here so that wrapping,
probing past an occupied name and finding none free all happen. Crashes of the
recorder are unbounded. In `boot` time and restarts are unbounded; two resets allow a
wake-up, which alone can lock the battery, and a reset after it, or a panic in the
middle of a mode change and another in the boot that follows. Who may visit
(`Parties`) is a host with a preview, with a recording from the page or with changes
of the settings, or the last three without a host: the camera does not tell a
change by the page from one over USB, and the safety properties are proved for all of
them together. In `settings`, three revisions are the stored one, a change, and the end
of the counter (2^32 - 1 in the code); two requests at once are what every race of
two writers needs, and the proofs have no such bound. The line sees every first
request of one or two bytes over the four SLIP bytes and one plain one, and one that
is too long; the buffer is full, the queue overflows in the middle of a frame, of
an escape and at the delimiters. The proof about the line has none of these bounds.

Fairness. `export_live`: weak fairness of the protocol task's steps (it is a FreeRTOS
task that never waits inside a request) and strong fairness of `Commit(e)`, the client
that asks again until it hears "committed"; the host does not edit the card and
failures end. `recorder_streams`: weak fairness of main and of each stream task - the
scheduler runs them and every driver and file call returns; a driver that never
returns would hang `record_once`, whose second wait has no timeout. `boot` (`MCSpec`
of `MCCamera`): weak fairness of main's steps and of a restart that was decided on.
The portal window is excepted while no maintenance is active: a connected client may
keep it open for ever (`wifi_portal.c:297-301`). No fairness of the host or the
protocol task is assumed. The portal closes only when the handlers of its servers have
ended, so these are fair too, and the client of a preview goes away at last (strong
fairness of `PreviewLost`): the code does not enforce that, `day_web_stop` waits for
it. `settings`: weak fairness of whoever writes to NVS, whose calls return.

Every property has a mutant in the module, marked `Mutant`, that
changes one definition as a plausible bug would and makes TLC find it violated.

## 4. Findings

* `export_one_active`. `scan_transactions` (`export_service.c:990`) skips a
  transaction whenever `load_transaction` fails. A file that exists but cannot be
  read at the moment (a failing read, or no memory for its text) is then no
  transaction at all, and `day_export_begin` prepares a second active export for
  the date, or a second one for the same request. The test
  `test_begin_export_idempotency_key_and_one_prepared_per_date_are_enforced`
  names the rule. With reads that do not fail the rule holds (`export_safety`).
* `export_resume`. The backup that `atomic_write` could not unlink, or did not
  come to unlink, holds the previous `deleted_count`. If the state file cannot be
  read once, `read_json_with_backup` returns that one; the commit preflights with
  a count one too low, finds a recording gone that it believes whole, and its
  error path writes the low count over the right one (`export_service.c:1343`).
  From then on every commit is refused, and abort too. The test
  `test_every_directory_boundary_resumes_idempotently` states the contrary. With
  reads that do not fail every commit can resume (`export_safety`).
* `boot_latch`. `serial_started` (`app_core.c:211`) is true only if the whole of
  `start_protocol` succeeded, but a failure after `tinyusb_driver_install` leaves
  the driver running. `day_app_run` then skips `day_usb_link_stop`, and a host that
  attaches after the last check (`app_core.c:282`) is latched while main records
  and later sleeps. The comment at 173-175 says a host connection is irreversible
  and must not fall through into recording. `HostKeepsAwake` states the rule with
  exactly this exception, and holds.
* `boot_records`. A recording started from the web page runs in its own task, which
  nobody waits for. If it is still running when main calls `record_once` (a
  recording may take 3 s until READY, 5 s, 8 s until DONE and longer; the portal
  closes 10 s after its last client left, one more second passes), main's own call
  is refused (`recorder.c:533-535`), the refusal is only logged, and deep sleep cuts
  the running one before it is published. The comment at `app_core.c:290` says a
  cold power-up always makes one record. `RecordingsAccounted` states that this is
  the only way in which the record can be missing, and holds.

## 5. Proofs

Proofs hold for all values of the constants that satisfy the named assumptions.

* `AtomicFile_proofs`, from `DistinctContents`. The inductive invariant says, for
  each control point, which files exist relative to the files at the call (e.g. at
  "rename" with an original, `main` is gone and `bak` is the original). From it:
  `TypeCorrect`, `SummaryCorrect` (each ending is within the summary) and
  `RegisterCorrect` (every step is a step or a stutter of `AtomicRegister`).
* `Recorder_proofs`, from `RecorderAssumption`, for any number of streams, any
  modulus, any stamps. The inductive invariant has five layers, each proved to be
  kept by every step with the help of those before it:
  - `Types`: `TypeOK`, and that main has a staging directory exactly where it uses
    one. The step that needs work is `MakePaths`: `ProbeFinds` shows that trying the
    sequence numbers in cyclic order ends at a free name if there is one (`Least`,
    `ModUnique`). Result: `TypeCorrect`.
  - `Protocol`: DONE is the last act of a task, nobody runs before `Spawn` or after
    the waits, START finds everybody READY or cancelled, and a CANCEL bit found by
    START is never cleared. `QuietWhenPublished` and `CommonStart` are not inductive
    without it: why no task is alive at "sync" is that it would have to be in `done`
    and still running. Results: `QuietCorrect`, `CommonStartCorrect`.
  - `Attended`: from the spawning on, a stream that has not reported DONE has a task,
    and at each place of main START and STOP or CANCEL are as far as they should be.
    Result: `NobodyWaitsForeverCorrect`: the wait without a timeout is never one for a
    task that is gone, failed to start or waits itself. That such a task does end is
    liveness, and `RecordingEnds` is checked by TLC.
  - `Bookkeeping`: every counter in NVS, in hand, staged or published lies below the
    next one and they differ. Results: `CountersDistinctCorrect`,
    `StagingKeptCorrect`, and `ArchiveImplemented`, the refinement of
    `RecordArchive`, where the fresh name comes from `Finalize`'s own check and the
    fresh counter from this layer.
  - `Truth`: a task between its close and its DONE has an "ok" result only of a full
    file, and a stream that is DONE has an "ok" error only of a full file, although
    main and the task may both write the error. Result: `MetadataTruthfulCorrect`.
* `Boot_proofs`, from `BootAssumption`, for any number of resets. The inductive
  invariant says, for each place of main, who can have the card and whether a portal
  exists (`Places`), what the intent may say while a volume is open (`Intents`), where
  a locked battery leaves main (`Locked`), and whether a protocol task or a driver is
  left (`Tasks`). One lemma for each kind of step (host and protocol task, main, web
  task, resets) shows that it is kept. Results: `TypeCorrect`, `ReadOnlyCorrect`,
  `HostOwnsCardCorrect`, `StorageIsLeftCorrect`, `LockedStaysQuietCorrect`,
  `HostKeepsAwakeCorrect`. `ReadOnlyCorrect` needs `Intents`, because the volume's
  access was read at the boot from an intent that later steps rewrite. On top of it,
  `Flag` relates `s_recording` to its owners: it is not true that an owner's flag stays
  set (two recordings may overlap and the first to end clears it), but a flag that is
  set has an owner, and main is refused only by a recording under way. Result:
  `RecordingsAccountedCorrect`.

* `Camera_proofs`, without assumptions on constants beyond `Boot`'s. `CameraReleased`
  is not inductive; `Held` adds, as long as no initialisation has crossed a release,
  that a running driver is known to the statics and has a holder other than a change of
  the settings (which only ever releases it), and that nobody is between the two steps
  of a release while it runs. Results: `CameraTypeCorrect`, `FlagTruthfulCorrect`,
  `CameraReleasedCorrect`, and `BootImplemented`: every step of `Camera` is a step
  or a stutter of `Boot`.
* `Settings_proofs`, from `SettingsAssumption`, `NobodyAssumption` and
  `SsidAssumption`, for any revisions, patches, old contents of NVS and any number of
  requests at once. `NormalizeRanges`: the numbers that `day_config_normalize` returns
  are in range, whatever it is given, and the texts are those it was given, so that a
  malformed one stays malformed; `NormalizeKeeps`: it leaves settings in range alone.
  The invariant has layers:
  - `Locking`: one writer persists at a time, and holds the lock.
  - `Writing`, `Sound`: what a client writes is valid, what the boot writes and what is
    in memory is in range, and the entries before `at` are those of the candidate.
  - `Stored`: NVS never says less than memory: its revision is higher, or it holds the
    same configuration. This is why the revision is written before the fields, and
    what `RevisionIdentifies` needs across a loss of power.
  - `Texts`: a malformed text in NVS is the one in memory, so a reboot brings no other.
  - `Guarded`: a serial request whose revision still counts was made from what is in
    memory.
  - `Tested`: a request of USB or the page whose revision still counts, and which passed
    the recorder's test during this recording, has the recording fields of what is in
    memory. This is how the revision guard makes a test hold that was made without the
    lock.
  - `Alone`, `Deleted`: while requests do not overlap at most one is served; once one
    that was served alone has refreshed it, the unlocked copy is what is in memory, and
    so is what the page and the Wi-Fi task start from.

  Results: `Types`, `Validity`, `RevisionTheorem`, `GuardedTheorem`, `AloneTheorem`,
  `RecordingFieldsTheorem`.
* `ExportService_proofs`, from `ConstantsOK`, `NothingIsNoState` and
  `NothingIsNoManifest`, for any recordings, dates, requests and exports, any number of
  crashes and failed writes, and (except for the refinement) any edits of the host. Where
  it is said, the results also assume `NoReadFaults`: a file that is there can be read.
  Without it two of the properties are violated as the runs of section 4 show, and
  others in the same way (an abort that reads an old state is followed by a commit that
  reads another, and deletes for an export that was aborted). With failing reads:
  - `Types`: `TypeOK`, and what the protocol task holds at each place of a request
    (`Shape`). Result: `TypeCorrect`.
  - `Steady`: a prepared export never has an older state beside its own, so that what a
    commit reads of it is what is there; an export that was confirmed can be loaded from
    then on and keeps its manifest; the deletion that goes on was marked on the card and
    is the deletion of such an export. Results: `StartsOnlyIntactCorrect`, and what
    remains of two properties: `DeletesOnlyListedCorrect` (the export may have been
    aborted meanwhile) and `OnlyConfirmedLostCorrect`. These two are stated in
    the proof module; no run lists them.

  And with `NoReadFaults`:
  - `Stage`: how the state in memory relates to what a reader would find on the card;
    e.g. after the last erase the count in hand is one more than the stored one.
  - `Alone`: nobody but the export that is being prepared has its request or its date,
    and there is room for it. Results: `OneActivePerDateCorrect`,
    `OneExportPerRequestCorrect`, `ActiveBoundedCorrect`.
  - `Progress`: what lies before the stored cursor is gone, deletions are confirmed,
    and what the host was told still holds. Results: `AcknowledgedIsDurableCorrect`,
    `DeletesOnlyConfirmedCorrect`, and `NothingLostCorrect`: a recording stops being
    whole only where a commit deletes it (`LossStep`), which is on behalf of a deletion
    that is never undone (`DeletionStays`).
  - `Intact`: without edits, everything behind the cursor is as it was frozen and the
    recording at the cursor lacks whole files only. Result: `ResumableCorrect`.
  - `Torn`: the files of the recording at the cursor go in order.

  `TransactionsImplemented` combines them for `MaxEdits = 0`: an erase is the abstract
  deletion's beginning or a stutter, `rmdir` its end. That a deletion touches no other
  active export follows from dates: a manifest lists recordings of its own date only,
  and active exports have different dates. What follows from the abstract specification
  alone is proved there, in `ExportTransactions_proofs` (`PromisesKept`), and carried
  over: `DeletionsInOrderCorrect` says of the card that an interrupted deletion leaves
  at most one recording of its export without some of its files, and that no recording
  belongs to two exports of which none was aborted. It is stated in the proof module; no
  run lists it.

* `UsbLine_proofs`, from `LineAssumption`, for any number of requests, any bytes in
  them, any size of frames, chunks and queue. The invariant follows a byte from the host
  to the decoder:
  - `Chain`: the places in `stream` follow each other; so the bytes of a request are an
    interval of it, and what they decode to is known place by place.
  - `Flow`: what was sent but is neither decoded nor lost is in the queue or in the
    chunk at hand, in the order in which it was sent.
  - `Decoded`: while a request has lost nothing so far, the buffer holds what was sent of
    it, and the escape is pending exactly between the two halves of an escaped byte.
  - `FramesPast`: what was passed on belongs to bytes that were decoded.

  Result: `IntactRequestsArriveCorrect`. Nothing is assumed of the bytes around a
  gap: whatever buffer and escape a lost chunk leaves behind, the next delimiter that
  arrives ends it.

Every invariant and action property of the runs is proved, except the statements of the
findings, which are false. Only model-checked is everything about liveness
(`RecordingEnds`, `CommitCompletes`, `HostIsAwaited`, `StorageBootEnds`,
`LockIsFreed`): fairness and `ENABLED` are beyond the prover.

## 6. Assumptions and what is left out

* A file operation that fails has no effect; a FAT rename or unlink is atomic with
  respect to power loss; what fsync returned for is on the card.
* The host does not edit `/EXPORTS` or `/.recording`; in `HostEdit` it changes
  recordings only. NVS keeps the counter: the erase at boot when NVS has no free page
  or another layout (app_core.c:46-54), after which the counter starts at a random
  number and the settings at revision 1, is not modelled.
* Preflight: `readdir` is taken to list what a directory holds. An error of it ends the
  loop of `check_record_directory` as the end of the directory does (808), so a file of
  the host's could be overlooked; `rmdir` then fails later, and the file stays.
  `load_record_identity` (105-158), which leaves recordings of another device out of an
  export, is not modelled: none is on the card.
* Clients of SET_CONFIG name only revisions that they were told. `ssid` stands for
  the texts of the configuration, `prev_fs` for the numbers with a range of their own.
  A text is tested (`device_settings.c:161-173`) but not repaired (`app_config.c:125-130`
  replaces an empty time zone or server only): a device on which an older firmware left a
  malformed one runs with it, and refuses every change that does not replace it.
  `ConfigValid` says that this is the only way. `cam_fs`, which
  `day_settings_validate` does not look at, is repaired at the next boot instead;
  that this changes nothing under an old revision rests on what the page and the
  serial request can send (`SettingsAssumption`).
* `AloneKeepsOthers` excepts overlapping requests: then the
  page and the Wi-Fi task can undo each other's or the host's change, because they
  start from an unlocked copy, and a copy whose refresh timed out or overlapped
  another stays stale or mixed until a request that is served alone has refreshed it.
* `RecordingFieldsFixed` has two parts. USB and the page never change a running
  recording's size and rate, whatever overlaps, but by a request that had passed the
  test of the recorder when the recording began (`apply_config_cb` tests before it
  takes the lock, and the recorder does not look at requests). Without such a request,
  and while requests have not overlapped since one was last served alone, nothing
  changes them. What remains is real: after overlapping requests have left a stale
  `s_config`, storing Wi-Fi credentials (`wifi_portal.c:403-412`), which tests nothing,
  can bring back an older size or rate in the middle of a recording. The repository
  promises nothing here. `LockIsFreed` excepts a protocol task that is deleted
  while it holds the mutex, which then stays taken until the reset.
* Camera: frame sizes, quality and frame rates are left open, a capture may fail at
  any time, and so may one whose driver somebody else has just released: what the
  driver does to frames in flight is its own. `CameraReleased` excepts the two tasks
  whose initialisation and release cross (`crossed`), which the code does not
  exclude: the statics then say "off" while the driver runs, and the next
  initialisation meets a running driver.
* The counter in the battery's charge estimate and the readings of the sensors are
  not modelled.
* The removal of a recording is one step in `Recorder`, the `rmdir` that frees its name;
  file by file it is `ExportService`'s. Two error returns are left out because they
  cannot be taken: `set_record_file_paths` (a directory name that fits its buffer leaves
  room for the file names in theirs), and `httpd_resp_set_type` at the start of a
  preview (it fails only for a request the server does not know).
* Without a protocol task nobody executes the maintenance timeout of `Expire`; only
  `day_usb_link_maintenance_active` would notice it by its own clock. The model then
  stays in maintenance, which is one more wait for the host.
* `Recorder` is about one call of `record_once` at a time. `s_recording` is checked
  and set without a lock, so main and the web task can both get past the check;
  `Boot` contains that, but not what two recordings then do to each other.
* Above `UsbLine` a frame is a command: header, checksum, JSON syntax of the arguments
  and the texts of answers are left out. A frame that lost bytes may come out
  mutilated, and its checksum is what tells `process_frame`. A store to RTC memory is
  one step: the code copies a structure with a checksum, and a torn copy counts as
  none. Shutting down the peripherals and sleeping is one step. After a power-on the
  intent may have survived by chance or not.
* Response texts, `last_error`, listing pages, JSON layout, digests and time
  stamps inside metadata are abstracted.
* The stream that finishes while main marks it as late can overwrite the timeout
  with its own result. The model contains that race; it is harmless to
  `MetadataTruthful`, because the file is complete then.

## 7. Plan

Done: `AtomicFile`, `ExportService`, `Recorder`, `UsbLink`, `Boot`, `Camera`,
`Settings`, `UsbLine`, and the proofs of all their safety properties, the three
refinements of abstract specifications included. Next, in order:

1. Two callers of `record_once` on the recorder's level: what two recordings that
   passed the unlocked check do to each other's staging directory and context.
2. The LED controller: preview, battery and breathing on one mode variable.
3. Device status: the cached snapshot and who may read it while it is refreshed.

Not modelled, and not planned: audio, AVI layout, sensors, clock and board are register
access, data conversion and container layout, without decisions the rest depends on;
their outcomes are choices of the models. The web page is the client's side.
