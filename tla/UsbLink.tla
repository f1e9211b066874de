------------------------------- MODULE UsbLink -------------------------------
(***************************************************************************)
(* The USB side of the device: the host latch and the boot intent, which   *)
(* survive every reset but a power-on (usb_session.c, usb_link.c), the     *)
(* protocol task with the commands that move the device between its modes, *)
(* and the mass-storage hand-over.                                         *)
(*                                                                         *)
(* A frame is the command it carries; session ids and the text of answers  *)
(* are left out.  Timeouts may expire whenever they are armed.             *)
(***************************************************************************)
EXTENDS Naturals

CONSTANT NoIntent       \* the RTC copy does not pass intent_valid

VARIABLES
    \* RTC memory
    hostSeen,   \* s_host_latch, valid and set
    intent,     \* s_boot_intent
    \* the link
    mode,       \* s_mode
    tinyusb,    \* s_tinyusb_started: the driver is installed
    attached,   \* whether a host has the device configured: "no", "yes", or "left",
                \* when frames of a host that is gone may still be queued
    proto,      \* control point of protocol_task, "none" when there is none
    maint,      \* s_maintenance_active
    \* the card
    card,       \* who has it: "none", "app" (FAT mounted), "host" (raw sectors)
    ejected, readOnly,  \* s_msc_ejected, s_msc_read_only
    \* the recorder's flag, which the link reads
    recording   \* s_recording

rtc == <<hostSeen, intent>>
link == <<mode, tinyusb, attached, proto, maint>>
msc == <<ejected, readOnly>>

Intent == [target : {"serial", "msc"}, access : {"RO", "RW"}, export : BOOLEAN]

Targets(t) == intent # NoIntent /\ intent.target = t

\* day_usb_link_maintenance_active
MaintenanceActive == hostSeen \/ maint

\* tud_msc_is_writable_cb
Writable == mode = "msc" /\ card = "host" /\ ~ejected /\ ~readOnly

------------------------------------------------------------------------------
(***************************************************************************)
(* The driver and its events.                                              *)
(***************************************************************************)
\* start_protocol: it may fail before the driver is installed, between that
\* and the creation of the task, or not at all; a task that gets no memory for
\* its buffer ends at once.
StartProtocol(m, outcome) ==
    /\ outcome \in {"failed", "installed", "started"}
    /\ mode' = m
    /\ maint' = (maint \/ (m = "serial" /\ Targets("serial")))
    /\ tinyusb' = (tinyusb \/ outcome # "failed")
    /\ proto' \in IF outcome = "started" THEN {"idle", "none"} ELSE {proto}

\* day_usb_link_stop, up to the deletion of the task, wherever the task is.
StopTask ==
    /\ maint' = FALSE
    /\ proto' = "none"

Uninstall ==
    /\ tinyusb' = FALSE
    /\ attached' = "no"

\* usb_device_event: ATTACHED latches the host; DETACHED only drives the LED.
Attach ==
    /\ tinyusb /\ attached # "yes"
    /\ attached' = "yes"
    /\ hostSeen' = TRUE
    /\ UNCHANGED <<intent, mode, tinyusb, proto, maint, card, msc, recording>>

Detach ==
    /\ attached = "yes"
    /\ attached' = "left"
    /\ UNCHANGED <<rtc, mode, tinyusb, proto, maint, card, msc, recording>>

\* msc_event_callback: the volume goes back to the device or to the host.
Eject ==
    /\ mode = "msc" /\ attached = "yes"
    /\ ejected' \in BOOLEAN
    /\ UNCHANGED <<rtc, link, card, readOnly, recording>>

------------------------------------------------------------------------------
(***************************************************************************)
(* Commands.                                                               *)
(***************************************************************************)
\* mark_protocol_activity, with begin_maintenance: a valid intent stays.
Maintained ==
    IF mode = "serial" /\ intent = NoIntent
      THEN [target |-> "serial", access |-> "RO", export |-> FALSE] ELSE intent

\* protocol_task takes a frame from its queue; who sent it need not be there now.
Request == attached # "no" /\ proto = "idle"

\* prepare_serial_maintenance; without a valid intent access is RW.
ForSerial(i) ==
    IF i = NoIntent THEN [target |-> "serial", access |-> "RW", export |-> FALSE]
    ELSE [i EXCEPT !.target = "serial"]

\* The commands that leave the link as it is, and the rejected ones.
Other ==
    /\ Request
    /\ intent' = Maintained
    /\ maint' = TRUE
    /\ UNCHANGED <<hostSeen, mode, tinyusb, attached, proto, card, msc, recording>>

\* ENTER_MSC as far as the test of the recorder.
EnterMsc ==
    /\ Request
    /\ mode = "serial" /\ ~recording
    /\ intent' = Maintained
    /\ maint' = TRUE
    /\ proto' = "enter"
    /\ UNCHANGED <<hostSeen, mode, tinyusb, attached, card, msc, recording>>

\* Mutant: a transactional hand-over may ask for write access.
PrepareAnyMsc ==
    /\ proto = "enter"
    /\ \/ \E access \in {"RO", "RW"}, export \in BOOLEAN :
            /\ intent' = [target |-> "msc", access |-> access, export |-> export]
            /\ proto' = "prepared"
       \/ proto' = "idle" /\ UNCHANGED intent
    /\ UNCHANGED <<hostSeen, mode, tinyusb, attached, maint, card, msc, recording>>

\* The arguments and validate_prepared, then the intent; RW only without exports.
PrepareMsc ==
    /\ proto = "enter"
    /\ \/ \E access \in {"RO", "RW"}, export \in BOOLEAN :
            /\ export => access = "RO"
            /\ intent' = [target |-> "msc", access |-> access, export |-> export]
            /\ proto' = "prepared"
       \/ proto' = "idle" /\ UNCHANGED intent
    /\ UNCHANGED <<hostSeen, mode, tinyusb, attached, maint, card, msc, recording>>

\* Mutant: the card is handed over at once, without a restart.
HandOverInPlace ==
    /\ proto = "prepared"
    /\ card' = "host" /\ mode' = "msc" /\ ejected' = FALSE
    /\ readOnly' = (intent.access = "RO")
    /\ proto' = "idle"
    /\ UNCHANGED <<rtc, tinyusb, attached, maint, recording>>

\* The answer, day_storage_deinit and the restart
HandOver ==
    /\ proto = "prepared"
    /\ card' = "none"
    /\ proto' = "restart"
    /\ UNCHANGED <<rtc, mode, tinyusb, attached, maint, msc, recording>>

\* EXIT_MSC; in serial mode it only sets the intent.  Force stands in for an
\* ejected volume; without either the command is one of Other.
ExitMsc ==
    /\ Request
    /\ \E next \in {"maintenance", "end"} :
          /\ intent' = IF next = "maintenance" THEN ForSerial(Maintained) ELSE NoIntent
          /\ maint' = (mode = "msc" \/ next = "maintenance")
    /\ proto' = IF mode = "msc" THEN "restart" ELSE proto
    /\ UNCHANGED <<hostSeen, mode, tinyusb, attached, card, msc, recording>>

EndSession ==
    /\ Request
    /\ mode = "serial"
    /\ intent' = NoIntent
    /\ maint' = FALSE
    /\ UNCHANGED <<hostSeen, mode, tinyusb, attached, proto, card, msc, recording>>

\* protocol_task: 300 s without a request.  day_usb_link_maintenance_active reads the
\* clock itself as well (1436); without a protocol task only that could tell, and
\* maint stays: one reason more to wait for the host.
Expire ==
    /\ proto = "idle" /\ maint
    /\ maint' = FALSE
    /\ intent' = IF mode = "serial" THEN NoIntent ELSE intent
    /\ UNCHANGED <<hostSeen, mode, tinyusb, attached, proto, card, msc, recording>>

\* Mutant: the restart of an idle volume keeps the intent.
IdleKeepsIntent ==
    /\ proto = "idle" /\ mode = "msc" /\ ejected
    /\ proto' = "restart"
    /\ UNCHANGED <<rtc, mode, tinyusb, attached, maint, card, msc, recording>>

\* protocol_task: 900 s after the volume was ejected
MscIdle ==
    /\ proto = "idle" /\ mode = "msc" /\ ejected
    /\ intent' = NoIntent
    /\ proto' = "restart"
    /\ UNCHANGED <<hostSeen, mode, tinyusb, attached, maint, card, msc, recording>>

HostStep == Attach \/ Detach \/ Eject \/ Other \/ EnterMsc \/ ExitMsc \/ EndSession
ProtocolStep == PrepareMsc \/ HandOver \/ Expire \/ MscIdle

LinkTypeOK ==
    /\ hostSeen \in BOOLEAN /\ intent \in Intent \cup {NoIntent}
    /\ mode \in {"serial", "msc"} /\ tinyusb \in BOOLEAN
    /\ attached \in {"no", "yes", "left"}
    /\ proto \in {"none", "idle", "enter", "prepared", "restart"}
    /\ maint \in BOOLEAN
    /\ card \in {"none", "app", "host"}
    /\ ejected \in BOOLEAN /\ readOnly \in BOOLEAN
    /\ recording \in BOOLEAN
==============================================================================
