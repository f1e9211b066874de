-------------------------------- MODULE Boot ---------------------------------
(***************************************************************************)
(* day_app_run (app_core.c) from reset to deep sleep, with the recording   *)
(* that the web portal starts in a task of its own (web_server.c), the     *)
(* sleep of power_manager.c and, from UsbLink, the host and the protocol   *)
(* task, which run all the time between.                                   *)
(*                                                                         *)
(* What a recording does is Recorder's subject: here it is the time during *)
(* which s_recording is set.  Windows and delays may end at any time; the  *)
(* settings that choose a path may have any value.                         *)
(***************************************************************************)
EXTENDS UsbLink

CONSTANT MaxResets      \* bound: power-ons, panics and wake-ups in a behaviour

ASSUME BootAssumption == MaxResets \in Nat

VARIABLES
    low,            \* s_latch of power_manager.c, in RTC memory
    pc,             \* control point of app_main
    cold,           \* cold_boot
    serialStarted,  \* serial_started
    web,            \* the portal's server runs
    webTask,        \* control point of record_request_task
    made,           \* history: a recording ended since the last reset
    resets          \* number of resets that nobody asked for

app == <<low, pc, cold, serialStarted, web, webTask, made, resets>>
vars == <<rtc, link, card, msc, recording, app>>

\* A step of the link leaves main and the web task alone.
LinkStep(A) == A /\ UNCHANGED app

------------------------------------------------------------------------------
(***************************************************************************)
(* Resets.                                                                 *)
(***************************************************************************)
\* All volatile state; the RTC memory is the caller's business.
Restarted(isCold) ==
    /\ pc' = "boot" /\ cold' = isCold /\ serialStarted' = FALSE
    /\ web' = FALSE /\ webTask' = "none" /\ made' = FALSE
    /\ mode' = "serial" /\ tinyusb' = FALSE /\ attached' = "no"
    /\ proto' = "none" /\ maint' = FALSE
    /\ card' = "none" /\ ejected' = FALSE /\ readOnly' = FALSE
    /\ recording' = FALSE

\* Power-on: the latches are cleared, but an intent that happens to have
\* survived in the RTC memory still counts.
PowerOn ==
    /\ resets < MaxResets /\ resets' = resets + 1
    /\ Restarted(TRUE)
    /\ hostSeen' = FALSE /\ low' = FALSE
    /\ intent' \in {intent, NoIntent}

\* Panic or watchdog
Panic ==
    /\ pc \notin {"asleep", "locked_asleep"}
    /\ resets < MaxResets /\ resets' = resets + 1
    /\ Restarted(TRUE)
    /\ UNCHANGED <<rtc, low>>

\* esp_restart, by the protocol task or by main
Restart ==
    /\ pc = "restart" \/ proto = "restart"
    /\ Restarted(TRUE)
    /\ UNCHANGED <<rtc, low, resets>>

\* The timer or a shake ends deep sleep; locked sleep has no wake source.
Wake ==
    /\ pc = "asleep"
    /\ resets < MaxResets /\ resets' = resets + 1
    /\ Restarted(FALSE)
    /\ UNCHANGED <<rtc, low>>

------------------------------------------------------------------------------
(***************************************************************************)
(* Main, from reset to the end of the portal.                              *)
(***************************************************************************)
Goto(from, to) == pc = from /\ pc' = to

\* The intent decides between mass storage and the normal course.
Choose ==
    /\ Goto("boot", IF Targets("msc") THEN "msc_start"
                    ELSE IF cold THEN "usb_start"
                    ELSE IF low THEN "locked" ELSE "storage")
    /\ readOnly' = (Targets("msc") /\ intent.access = "RO")
    /\ UNCHANGED <<rtc, link, card, ejected, recording, low, cold, serialStarted, web, webTask,
                   made, resets>>

\* Mutant: a volume that cannot be offered restarts with its intent.
MscKeepsIntent ==
    /\ \/ /\ Goto("msc_start", "msc")
          /\ card' = "host" /\ ejected' = FALSE
          /\ StartProtocol("msc", "started")
          /\ UNCHANGED intent
       \/ /\ Goto("msc_start", "restart")
          /\ UNCHANGED <<intent, mode, tinyusb, proto, maint, card, ejected>>
    /\ UNCHANGED <<hostSeen, attached, readOnly, recording, low, cold, serialStarted, web,
                   webTask, made, resets>>

\* day_usb_link_run_msc_mode: card, volume and protocol, or the end of the intent.
\* The volume is the host's before the driver starts.
MscStart ==
    /\ \/ /\ Goto("msc_start", "msc")
          /\ card' = "host" /\ ejected' = FALSE
          /\ StartProtocol("msc", "started")
          /\ UNCHANGED intent
       \/ /\ Goto("msc_start", "msc_undo")
          /\ card' = "host" /\ ejected' = FALSE
          /\ \E outcome \in {"failed", "installed"} : StartProtocol("msc", outcome)
          /\ UNCHANGED intent
       \/ /\ Goto("msc_start", "restart")
          /\ intent' = NoIntent
          /\ UNCHANGED <<mode, tinyusb, proto, maint, card, ejected>>
    /\ UNCHANGED <<hostSeen, attached, readOnly, recording, low, cold, serialStarted, web,
                   webTask, made, resets>>

\* A volume without a protocol task, which a host may have seen, is taken back.
MscUndo ==
    /\ Goto("msc_undo", "restart")
    /\ intent' = NoIntent
    /\ card' = "none"
    /\ UNCHANGED <<hostSeen, link, msc, recording, low, cold, serialStarted, web, webTask, made,
                   resets>>

\* Mutant: the latch of the battery is not looked at after a cold boot.
StartSerialOnly ==
    /\ Goto("usb_start", "storage")
    /\ \E outcome \in {"failed", "installed", "started"} :
          /\ StartProtocol("serial", outcome)
          /\ serialStarted' = (outcome = "started")
    /\ UNCHANGED <<rtc, attached, card, msc, recording, low, cold, web, webTask, made, resets>>

\* USB for a cold boot
StartSerial ==
    /\ Goto("usb_start", IF low THEN "low_wait" ELSE "storage")
    /\ \E outcome \in {"failed", "installed", "started"} :
          /\ StartProtocol("serial", outcome)
          /\ serialStarted' = (outcome = "started")
    /\ UNCHANGED <<rtc, attached, card, msc, recording, low, cold, web, webTask, made, resets>>

\* wait_for_usb_preemption, or the check that follows a stage of the portal.
Preempted(from, next) ==
    /\ Goto(from, IF MaintenanceActive THEN "usb_wait" ELSE next)
    /\ UNCHANGED <<rtc, link, card, msc, recording, low, cold, serialStarted, webTask, made,
                   resets>>

LowWait == Preempted("low_wait", "locked") /\ UNCHANGED web

\* day_storage_init; an automatic wake-up goes on to record, or to sleep when
\* auto_record_enabled is off.
MountCard ==
    /\ pc = "storage"
    /\ pc' \in IF cold THEN {"first_wait"} ELSE {"record", "shutdown"}
    /\ card' \in {"none", "app"}
    /\ UNCHANGED <<rtc, link, msc, recording, low, cold, serialStarted, web, webTask, made,
                   resets>>

FirstWait == Preempted("first_wait", "sync") /\ UNCHANGED web

\* day_wifi_sync_time
SyncTime == Preempted("sync", "portal") /\ UNCHANGED web

\* day_web_start, which may fail
OpenPortal ==
    /\ Goto("portal", "window")
    /\ web' \in BOOLEAN
    /\ UNCHANGED <<rtc, link, card, msc, recording, low, cold, serialStarted, webTask, made,
                   resets>>

\* day_wifi_run_portal_window ends for USB or after its deadline; then
\* day_web_stop, which does not wait for record_request_task.
ClosePortal == Preempted("window", "last_wait") /\ web' = FALSE

------------------------------------------------------------------------------
(***************************************************************************)
(* Main, from the last wait to deep sleep.                                 *)
(***************************************************************************)
LastWait ==
    /\ Preempted("last_wait", IF serialStarted THEN "usb_stop" ELSE "recheck")
    /\ UNCHANGED web

StopUsb ==
    /\ Goto("usb_stop", "usb_uninstall")
    /\ StopTask
    /\ UNCHANGED <<rtc, mode, tinyusb, attached, card, msc, recording, low, cold, serialStarted,
                   web, webTask, made, resets>>

\* tinyusb_driver_uninstall; if it fails main waits for a power cycle.
UninstallUsb ==
    /\ \/ /\ Goto("usb_uninstall", "recheck")
          /\ Uninstall
          /\ serialStarted' = FALSE
       \/ /\ Goto("usb_uninstall", "usb_wait")
          /\ UNCHANGED <<tinyusb, attached, serialStarted>>
    /\ UNCHANGED <<rtc, mode, proto, maint, card, msc, recording, low, cold, web, webTask, made,
                   resets>>

\* Mutant: the host that came while USB was stopped is overlooked.
GoOnAnyway ==
    /\ Goto("recheck", "record")
    /\ UNCHANGED <<rtc, link, card, msc, recording, low, cold, serialStarted, web, webTask, made,
                   resets>>

\* The host that came while USB was stopped gets it back.
Recheck ==
    /\ \/ /\ hostSeen /\ Goto("recheck", "usb_wait")
          /\ \E outcome \in {"failed", "installed", "started"} : StartProtocol("serial", outcome)
       \/ /\ ~hostSeen /\ Goto("recheck", "record")
          /\ UNCHANGED <<mode, tinyusb, proto, maint>>
    /\ UNCHANGED <<rtc, attached, card, msc, recording, low, cold, serialStarted, web, webTask,
                   made, resets>>

\* record_once_cb: s_recording is tested and set in two steps, and refuses a
\* second caller.
TestFlag ==
    /\ Goto("record", IF recording THEN "after_record" ELSE "set_flag")
    /\ UNCHANGED <<rtc, link, card, msc, recording, low, cold, serialStarted, web, webTask, made,
                   resets>>

\* The flag, and the card is mounted if it was not.
BeginRecording ==
    /\ recording' = TRUE
    /\ card' \in {card, "app"}

SetFlag ==
    /\ Goto("set_flag", "recording")
    /\ BeginRecording
    /\ UNCHANGED <<rtc, link, msc, low, cold, serialStarted, web, webTask, made, resets>>

\* Mutant: a recording that fails does not clear the flag.
EndKeepsFlag ==
    /\ Goto("recording", "after_record")
    /\ recording' \in {recording, FALSE}
    /\ made' = TRUE
    /\ UNCHANGED <<rtc, link, card, msc, low, cold, serialStarted, web, webTask, resets>>

EndRecording ==
    /\ Goto("recording", "after_record")
    /\ recording' = FALSE
    /\ made' = TRUE
    /\ UNCHANGED <<rtc, link, card, msc, low, cold, serialStarted, web, webTask, resets>>

\* After an automatic recording a low battery locks the device.
AfterRecord ==
    /\ \/ Goto("after_record", "shutdown") /\ UNCHANGED low
       \/ ~cold /\ Goto("after_record", "locked") /\ low' = TRUE
    /\ UNCHANGED <<rtc, link, card, msc, recording, cold, serialStarted, web, webTask, made,
                   resets>>

\* shutdown_peripherals, day_usb_link_stop and esp_deep_sleep_start; whatever
\* still runs is gone.
Sleep ==
    /\ \/ Goto("shutdown", "asleep") \/ Goto("locked", "locked_asleep")
    /\ web' = FALSE /\ webTask' = "none" /\ serialStarted' = FALSE
    /\ tinyusb' = FALSE /\ attached' = "no" /\ proto' = "none" /\ maint' = FALSE
    /\ card' = "none" /\ recording' = FALSE
    /\ UNCHANGED <<rtc, mode, msc, low, cold, made, resets>>

------------------------------------------------------------------------------
(***************************************************************************)
(* The recording that the portal starts.                                   *)
(***************************************************************************)
webOnly == <<rtc, link, msc, low, pc, cold, serialStarted, web, resets>>

\* record_handler
WebRequest ==
    /\ web /\ webTask = "none" /\ ~recording
    /\ webTask' = "test"
    /\ UNCHANGED <<webOnly, card, recording, made>>

WebTest ==
    /\ webTask = "test"
    /\ webTask' = IF recording THEN "none" ELSE "set"
    /\ UNCHANGED <<webOnly, card, recording, made>>

WebSet ==
    /\ webTask = "set"
    /\ webTask' = "recording"
    /\ BeginRecording
    /\ UNCHANGED <<webOnly, made>>

WebEnd ==
    /\ webTask = "recording"
    /\ webTask' = "none"
    /\ recording' = FALSE
    /\ made' = TRUE
    /\ UNCHANGED <<webOnly, card>>

WebStep == WebTest \/ WebSet \/ WebEnd

MainStep ==
    \/ Choose \/ MscStart \/ MscUndo \/ StartSerial \/ LowWait \/ MountCard
    \/ FirstWait \/ SyncTime \/ OpenPortal \/ ClosePortal
    \/ LastWait \/ StopUsb \/ UninstallUsb \/ Recheck
    \/ TestFlag \/ SetFlag \/ EndRecording \/ AfterRecord \/ Sleep

\* The protocol task has been told to restart: it does nothing else, and main
\* may still run.
Next ==
    \/ MainStep \/ Restart
    \/ LinkStep(HostStep) \/ LinkStep(ProtocolStep)
    \/ WebRequest \/ WebStep
    \/ PowerOn \/ Panic \/ Wake

Init ==
    /\ hostSeen = FALSE /\ intent = NoIntent /\ low = FALSE
    /\ mode = "serial" /\ tinyusb = FALSE /\ attached = "no" /\ proto = "none" /\ maint = FALSE
    /\ card = "none" /\ ejected = FALSE /\ readOnly = FALSE /\ recording = FALSE
    /\ pc = "boot" /\ cold = TRUE /\ serialStarted = FALSE
    /\ web = FALSE /\ webTask = "none" /\ made = FALSE /\ resets = 0

Spec == Init /\ [][Next]_vars

------------------------------------------------------------------------------
AppTypeOK ==
    /\ low \in BOOLEAN /\ cold \in BOOLEAN /\ serialStarted \in BOOLEAN
    /\ pc \in {"boot", "msc_start", "msc_undo", "msc", "restart", "usb_start", "low_wait",
               "storage", "first_wait", "sync", "portal", "window", "last_wait", "usb_stop",
               "usb_uninstall", "recheck", "record", "set_flag", "recording", "after_record",
               "shutdown", "locked", "usb_wait", "asleep", "locked_asleep"}
    /\ web \in BOOLEAN
    /\ webTask \in {"none", "test", "set", "recording"}
    /\ made \in BOOLEAN

\* RTC memory, the link's statics, main's locals and the bus have their types
\* (usb_session.c, usb_link.c, app_core.c).
TypeOK == LinkTypeOK /\ AppTypeOK /\ resets \in 0..MaxResets

\* A hand-over that names exports is never writable, through any sequence of
\* sessions, resets and failed hand-overs (usb_link.c:880-884, 1571, 1599-1603).
TransactionalReadOnly ==
    Writable => intent = NoIntent \/ ~intent.export

\* While the host has the card's sectors nothing on the device records, and no
\* portal can start a recording (usb_link.c:866-900, app_core.c:203-206).
HostOwnsCard ==
    card = "host" => ~recording /\ ~web /\ webTask = "none"

\* A restart out of storage mode is not a restart into it
\* (usb_link.c:1115-1147, 1280-1284).
StorageIsLeft ==
    pc = "msc" /\ proto = "restart" => ~Targets("msc")

\* A locked battery allows neither a portal nor a recording until power-on
\* (app_core.c:220-227, 301-308).
LockedStaysQuiet ==
    low => pc \notin {"portal", "window", "set_flag", "recording"} /\ webTask = "none"

\* A cold boot that has seen a host does not go on to record or sleep, unless
\* USB was left half started and nobody stopped it (app_core.c:263-285).
HostKeepsAwake ==
    cold /\ hostSeen /\ pc \in {"record", "set_flag", "recording", "after_record", "shutdown"} =>
        tinyusb /\ ~serialStarted /\ proto = "none"

\* The flag that main and the portal test and set in two steps (recorder.c:533-536) may
\* let both pass and is then cleared under the one that ends last.  All the same it is
\* never left behind, to refuse every later recording; the recording of a wake-up is
\* alone and keeps it; and main goes to sleep after a cold boot without a record only
\* if it cuts off the portal's, which was under way when main wanted its own
\* (app_core.c:290-294).
RecordingsAccounted ==
    /\ recording => pc = "recording" \/ webTask = "recording"
    /\ ~cold /\ pc = "recording" => recording /\ webTask = "none"
    /\ cold /\ pc \in {"after_record", "shutdown"} /\ ~made => webTask = "recording"

\* With USB up and no locked battery, a host once seen is waited for in the end,
\* as a serial device or as a volume, unless it asks for a restart first or a
\* power-on forgets it.
HostIsAwaited ==
    hostSeen /\ serialStarted /\ ~low ~>
        pc \in {"usb_wait", "msc"} \/ proto = "restart" \/ ~hostSeen

\* A boot into storage mode ends in storage mode or in another course: a card
\* that cannot be offered does not restart the device for ever.
StorageBootEnds ==
    pc = "msc_start" ~> pc \in {"msc", "usb_start"}

\* "A physical USB host connection is deliberately irreversible for this power
\* cycle. Closing the desktop app or unplugging the cable must not allow the
\* boot flow to fall through into recording." (app_core.c:173-175)
NoRecordingOnceLatched ==
    [][pc = "set_flag" /\ pc' = "recording" => ~hostSeen]_vars

\* "A genuine cold power-up always makes one record after the portal stage."
\* (app_core.c:290-292)
ColdBootRecords ==
    pc = "asleep" /\ cold => made
==============================================================================
