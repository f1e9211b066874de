----------------------------- MODULE Boot_proofs ------------------------------
(***************************************************************************)
(* The safety properties of Boot, for any number of resets.  Who has the   *)
(* card, what the intent may say and whether a task of the link exists all *)
(* follow from where main is; the inductive invariant states that in four  *)
(* parts, which every step keeps together.                                 *)
(***************************************************************************)
EXTENDS Boot, TLAPS

\* Before the portal and after it main is alone; a wake-up has no portal.
Early ==
    {"boot", "msc_start", "msc_undo", "msc", "restart", "usb_start", "low_wait", "locked",
     "storage", "first_wait", "sync", "portal", "asleep", "locked_asleep"}

Late == {"record", "set_flag", "recording", "after_record", "shutdown"}

\* Storage mode and the host's hold on the card are tied to main's place.
Places ==
    /\ mode = "msc" => pc \in {"msc_undo", "msc", "restart"}
    /\ pc = "msc" => mode = "msc"
    /\ card = "host" => pc \in {"msc_undo", "msc"}
    /\ pc \in Early \/ ~cold => ~web /\ webTask = "none"
    /\ pc \in {"first_wait", "sync", "portal"} => cold
    /\ pc \in {"boot", "msc_start", "msc_undo", "msc"} => ~recording

\* An intent with exports asks for read access, and the volume was opened with
\* what the intent says, or with less; it is rewritten only in serial mode, or
\* when storage mode ends.
Intents ==
    /\ intent # NoIntent /\ intent.export => intent.access = "RO"
    /\ pc = "msc_start" \/ mode = "msc" => (intent # NoIntent /\ intent.export => readOnly)
    /\ proto \in {"enter", "prepared"} => mode = "serial"
    /\ StorageIsLeft

\* The battery lock leaves only the paths without a portal.
Locked ==
    low => /\ pc \in {"boot", "msc_start", "msc_undo", "msc", "restart", "usb_start",
                       "low_wait", "locked", "usb_wait", "locked_asleep"}
           /\ ~web /\ webTask = "none"

\* A protocol task exists only where serialStarted says so, until USB is stopped;
\* past the last check a new host needs a driver that was left behind.
Tasks ==
    /\ pc \in {"boot", "msc_start", "msc_undo", "usb_start", "usb_uninstall", "recheck"} =>
          proto = "none"
    /\ pc \in {"low_wait", "storage", "first_wait", "sync", "portal", "window", "last_wait"} =>
          serialStarted \/ proto = "none"
    /\ pc = "recheck" => ~serialStarted
    /\ cold /\ pc \in Late => /\ hostSeen => tinyusb
                              /\ ~serialStarted /\ proto = "none"

Rules == Places /\ Intents /\ Locked /\ Tasks

IInv == TypeOK /\ Rules

------------------------------------------------------------------------------
(***************************************************************************)
(* The start, and one lemma for each kind of step.                         *)
(***************************************************************************)
LEMMA Initially == Init => IInv
  <1> SUFFICES ASSUME Init PROVE IInv
    OBVIOUS
  <1> USE DEF Init
  <1>1. LinkTypeOK /\ AppTypeOK
    BY DEF LinkTypeOK, AppTypeOK
  <1>2. resets \in 0..MaxResets
    BY BootAssumption DEF BootAssumption
  <1>3. Rules
    BY DEF Rules, Places, Intents, StorageIsLeft, Locked, Tasks, Early, Late, Targets
  <1>4. QED
    BY <1>1, <1>2, <1>3 DEF IInv, TypeOK

\* The host and the protocol task keep the invariant.
LEMMA LinkSteps ==
    ASSUME IInv, LinkStep(HostStep) \/ LinkStep(ProtocolStep)
    PROVE  IInv'
  <1> USE DEF rtc, link, msc, app
  <1>a. LinkTypeOK /\ AppTypeOK /\ resets \in 0..MaxResets /\ Rules
    BY DEF IInv, TypeOK
  <1>1. CASE Attach /\ UNCHANGED app
    <2>1. LinkTypeOK'
      BY <1>a, <1>1 DEF Attach, LinkTypeOK
    <2>2. AppTypeOK'
      BY <1>a, <1>1 DEF AppTypeOK
    <2>3. Rules'
      BY <1>a, <1>1 DEF Attach, Rules, Places, Intents, StorageIsLeft, Locked, Tasks, Early,
         Late, Targets, LinkTypeOK, AppTypeOK
    <2>4. resets' \in 0..MaxResets
      BY <1>a, <1>1
    <2>5. QED
      BY <2>1, <2>2, <2>3, <2>4 DEF IInv, TypeOK
  <1>2. CASE Detach /\ UNCHANGED app
    <2>1. LinkTypeOK'
      BY <1>a, <1>2 DEF Detach, LinkTypeOK
    <2>2. AppTypeOK'
      BY <1>a, <1>2 DEF AppTypeOK
    <2>3. Rules'
      BY <1>a, <1>2 DEF Detach, Rules, Places, Intents, StorageIsLeft, Locked, Tasks, Early,
         Late, Targets, LinkTypeOK, AppTypeOK
    <2>4. resets' \in 0..MaxResets
      BY <1>a, <1>2
    <2>5. QED
      BY <2>1, <2>2, <2>3, <2>4 DEF IInv, TypeOK
  <1>3. CASE Eject /\ UNCHANGED app
    <2>1. LinkTypeOK'
      BY <1>a, <1>3 DEF Eject, LinkTypeOK
    <2>2. AppTypeOK'
      BY <1>a, <1>3 DEF AppTypeOK
    <2>3. Rules'
      BY <1>a, <1>3 DEF Eject, Rules, Places, Intents, StorageIsLeft, Locked, Tasks, Early,
         Late, Targets, LinkTypeOK, AppTypeOK
    <2>4. resets' \in 0..MaxResets
      BY <1>a, <1>3
    <2>5. QED
      BY <2>1, <2>2, <2>3, <2>4 DEF IInv, TypeOK
  <1>4. CASE Other /\ UNCHANGED app
    <2>1. LinkTypeOK'
      BY <1>a, <1>4 DEF Other, Request, Maintained, LinkTypeOK, Intent
    <2>2. AppTypeOK'
      BY <1>a, <1>4 DEF AppTypeOK
    <2>3. Rules'
      BY <1>a, <1>4 DEF Other, Request, Maintained, Rules, Places, Intents, StorageIsLeft,
         Locked, Tasks, Early, Late, Targets, LinkTypeOK, AppTypeOK
    <2>4. resets' \in 0..MaxResets
      BY <1>a, <1>4
    <2>5. QED
      BY <2>1, <2>2, <2>3, <2>4 DEF IInv, TypeOK
  <1>5. CASE EnterMsc /\ UNCHANGED app
    <2>1. LinkTypeOK'
      BY <1>a, <1>5 DEF EnterMsc, Request, Maintained, LinkTypeOK, Intent
    <2>2. AppTypeOK'
      BY <1>a, <1>5 DEF AppTypeOK
    <2>3. Rules'
      BY <1>a, <1>5 DEF EnterMsc, Request, Maintained, Rules, Places, Intents,
         StorageIsLeft, Locked, Tasks, Early, Late, Targets, LinkTypeOK, AppTypeOK
    <2>4. resets' \in 0..MaxResets
      BY <1>a, <1>5
    <2>5. QED
      BY <2>1, <2>2, <2>3, <2>4 DEF IInv, TypeOK
  <1>6. CASE ExitMsc /\ UNCHANGED app
    <2>1. LinkTypeOK'
      <3>1. intent' \in Intent \cup {NoIntent}
        <4>1. Maintained \in Intent \cup {NoIntent}
          BY <1>a DEF Maintained, LinkTypeOK, Intent
        <4>2. ForSerial(Maintained) \in Intent
          BY <4>1 DEF ForSerial, Intent
        <4>3. QED
          BY <1>6, <4>2 DEF ExitMsc
      <3>2. maint' \in BOOLEAN
        BY <1>6 DEF ExitMsc
      <3>3. proto' \in {proto, "restart"}
        BY <1>6 DEF ExitMsc
      <3>4. UNCHANGED <<hostSeen, mode, tinyusb, attached, card, msc, recording>>
        BY <1>6 DEF ExitMsc
      <3>5. QED
        BY <1>a, <3>1, <3>2, <3>3, <3>4 DEF LinkTypeOK
    <2>2. AppTypeOK'
      BY <1>a, <1>6 DEF AppTypeOK
    <2>3. Rules'
      BY <1>a, <1>6 DEF ExitMsc, Request, Maintained, ForSerial, Rules, Places, Intents,
         StorageIsLeft, Locked, Tasks, Early, Late, Targets, LinkTypeOK, AppTypeOK
    <2>4. resets' \in 0..MaxResets
      BY <1>a, <1>6
    <2>5. QED
      BY <2>1, <2>2, <2>3, <2>4 DEF IInv, TypeOK
  <1>7. CASE EndSession /\ UNCHANGED app
    <2>1. LinkTypeOK'
      BY <1>a, <1>7 DEF EndSession, Request, LinkTypeOK
    <2>2. AppTypeOK'
      BY <1>a, <1>7 DEF AppTypeOK
    <2>3. Rules'
      BY <1>a, <1>7 DEF EndSession, Request, Rules, Places, Intents, StorageIsLeft, Locked,
         Tasks, Early, Late, Targets, LinkTypeOK, AppTypeOK
    <2>4. resets' \in 0..MaxResets
      BY <1>a, <1>7
    <2>5. QED
      BY <2>1, <2>2, <2>3, <2>4 DEF IInv, TypeOK
  <1>8. CASE PrepareMsc /\ UNCHANGED app
    <2>1. LinkTypeOK'
      BY <1>a, <1>8 DEF PrepareMsc, LinkTypeOK, Intent
    <2>2. AppTypeOK'
      BY <1>a, <1>8 DEF AppTypeOK
    <2>3. Rules'
      BY <1>a, <1>8 DEF PrepareMsc, Rules, Places, Intents, StorageIsLeft, Locked, Tasks,
         Early, Late, Targets, LinkTypeOK, AppTypeOK
    <2>4. resets' \in 0..MaxResets
      BY <1>a, <1>8
    <2>5. QED
      BY <2>1, <2>2, <2>3, <2>4 DEF IInv, TypeOK
  <1>9. CASE HandOver /\ UNCHANGED app
    <2>1. LinkTypeOK'
      BY <1>a, <1>9 DEF HandOver, LinkTypeOK
    <2>2. AppTypeOK'
      BY <1>a, <1>9 DEF AppTypeOK
    <2>3. Rules'
      BY <1>a, <1>9 DEF HandOver, Rules, Places, Intents, StorageIsLeft, Locked, Tasks,
         Early, Late, Targets, LinkTypeOK, AppTypeOK
    <2>4. resets' \in 0..MaxResets
      BY <1>a, <1>9
    <2>5. QED
      BY <2>1, <2>2, <2>3, <2>4 DEF IInv, TypeOK
  <1>10. CASE Expire /\ UNCHANGED app
    <2>1. LinkTypeOK'
      BY <1>a, <1>10 DEF Expire, LinkTypeOK
    <2>2. AppTypeOK'
      BY <1>a, <1>10 DEF AppTypeOK
    <2>3. Rules'
      BY <1>a, <1>10 DEF Expire, Rules, Places, Intents, StorageIsLeft, Locked, Tasks,
         Early, Late, Targets, LinkTypeOK, AppTypeOK
    <2>4. resets' \in 0..MaxResets
      BY <1>a, <1>10
    <2>5. QED
      BY <2>1, <2>2, <2>3, <2>4 DEF IInv, TypeOK
  <1>11. CASE MscIdle /\ UNCHANGED app
    <2>1. LinkTypeOK'
      BY <1>a, <1>11 DEF MscIdle, LinkTypeOK
    <2>2. AppTypeOK'
      BY <1>a, <1>11 DEF AppTypeOK
    <2>3. Rules'
      BY <1>a, <1>11 DEF MscIdle, Rules, Places, Intents, StorageIsLeft, Locked, Tasks,
         Early, Late, Targets, LinkTypeOK, AppTypeOK
    <2>4. resets' \in 0..MaxResets
      BY <1>a, <1>11
    <2>5. QED
      BY <2>1, <2>2, <2>3, <2>4 DEF IInv, TypeOK
  <1>12. QED
    BY <1>1, <1>2, <1>3, <1>4, <1>5, <1>6, <1>7, <1>8, <1>9, <1>10, <1>11 DEF LinkStep,
       HostStep, ProtocolStep

\* Main keeps the invariant.
LEMMA MainSteps ==
    ASSUME IInv, MainStep
    PROVE  IInv'
  <1> USE DEF rtc, link, msc, app
  <1>a. LinkTypeOK /\ AppTypeOK /\ resets \in 0..MaxResets /\ Rules
    BY DEF IInv, TypeOK
  <1>1. CASE Choose
    <2>1. LinkTypeOK'
      BY <1>a, <1>1 DEF Choose, Goto, LinkTypeOK
    <2>2. AppTypeOK'
      BY <1>a, <1>1 DEF Choose, Goto, AppTypeOK
    <2>3. Rules'
      BY <1>a, <1>1 DEF Choose, Goto, Rules, Places, Intents, StorageIsLeft, Locked, Tasks,
         Early, Late, Targets, LinkTypeOK, AppTypeOK
    <2>4. resets' \in 0..MaxResets
      BY <1>a, <1>1 DEF Choose
    <2>5. QED
      BY <2>1, <2>2, <2>3, <2>4 DEF IInv, TypeOK
  <1>2. CASE MscStart
    <2>1. LinkTypeOK'
      <3>1. intent' \in {intent, NoIntent} /\ card' \in {card, "host"}
        BY <1>2 DEF MscStart
      <3>2. mode' \in {mode, "msc"} /\ proto' \in {proto, "idle", "none"}
        BY <1>2 DEF MscStart, StartProtocol
      <3>3. ejected' \in BOOLEAN
        BY <1>a, <1>2 DEF MscStart, LinkTypeOK
      <3>4. tinyusb' \in BOOLEAN /\ maint' \in BOOLEAN
        BY <1>a, <1>2 DEF MscStart, StartProtocol, LinkTypeOK
      <3>5. UNCHANGED <<hostSeen, attached, readOnly, recording>>
        BY <1>2 DEF MscStart
      <3>6. QED
        BY <1>a, <3>1, <3>2, <3>3, <3>4, <3>5 DEF LinkTypeOK
    <2>2. AppTypeOK'
      BY <1>a, <1>2 DEF MscStart, Goto, StartProtocol, AppTypeOK
    <2>3. Rules'
      BY <1>a, <1>2 DEF MscStart, Goto, StartProtocol, Rules, Places, Intents,
         StorageIsLeft, Locked, Tasks, Early, Late, Targets, LinkTypeOK, AppTypeOK
    <2>4. resets' \in 0..MaxResets
      BY <1>a, <1>2 DEF MscStart
    <2>5. QED
      BY <2>1, <2>2, <2>3, <2>4 DEF IInv, TypeOK
  <1>3. CASE StartSerial
    <2>1. LinkTypeOK'
      BY <1>a, <1>3 DEF StartSerial, Goto, StartProtocol, LinkTypeOK
    <2>2. AppTypeOK'
      BY <1>a, <1>3 DEF StartSerial, Goto, StartProtocol, AppTypeOK
    <2>3. Rules'
      BY <1>a, <1>3 DEF StartSerial, Goto, StartProtocol, Rules, Places, Intents,
         StorageIsLeft, Locked, Tasks, Early, Late, Targets, LinkTypeOK, AppTypeOK
    <2>4. resets' \in 0..MaxResets
      BY <1>a, <1>3 DEF StartSerial
    <2>5. QED
      BY <2>1, <2>2, <2>3, <2>4 DEF IInv, TypeOK
  <1>4. CASE LowWait
    <2>1. LinkTypeOK'
      BY <1>a, <1>4 DEF LowWait, Preempted, Goto, MaintenanceActive, LinkTypeOK
    <2>2. AppTypeOK'
      BY <1>a, <1>4 DEF LowWait, Preempted, Goto, MaintenanceActive, AppTypeOK
    <2>3. Rules'
      BY <1>a, <1>4 DEF LowWait, Preempted, Goto, MaintenanceActive, Rules, Places, Intents,
         StorageIsLeft, Locked, Tasks, Early, Late, Targets, LinkTypeOK, AppTypeOK
    <2>4. resets' \in 0..MaxResets
      BY <1>a, <1>4 DEF LowWait, Preempted
    <2>5. QED
      BY <2>1, <2>2, <2>3, <2>4 DEF IInv, TypeOK
  <1>5. CASE MountCard
    <2>1. LinkTypeOK'
      BY <1>a, <1>5 DEF MountCard, Goto, LinkTypeOK
    <2>2. AppTypeOK'
      BY <1>a, <1>5 DEF MountCard, Goto, AppTypeOK
    <2>3. Rules'
      BY <1>a, <1>5 DEF MountCard, Goto, Rules, Places, Intents, StorageIsLeft, Locked,
         Tasks, Early, Late, Targets, LinkTypeOK, AppTypeOK
    <2>4. resets' \in 0..MaxResets
      BY <1>a, <1>5 DEF MountCard
    <2>5. QED
      BY <2>1, <2>2, <2>3, <2>4 DEF IInv, TypeOK
  <1>6. CASE FirstWait
    <2>1. LinkTypeOK'
      BY <1>a, <1>6 DEF FirstWait, Preempted, Goto, MaintenanceActive, LinkTypeOK
    <2>2. AppTypeOK'
      BY <1>a, <1>6 DEF FirstWait, Preempted, Goto, MaintenanceActive, AppTypeOK
    <2>3. Rules'
      BY <1>a, <1>6 DEF FirstWait, Preempted, Goto, MaintenanceActive, Rules, Places,
         Intents, StorageIsLeft, Locked, Tasks, Early, Late, Targets, LinkTypeOK, AppTypeOK
    <2>4. resets' \in 0..MaxResets
      BY <1>a, <1>6 DEF FirstWait, Preempted
    <2>5. QED
      BY <2>1, <2>2, <2>3, <2>4 DEF IInv, TypeOK
  <1>7. CASE SyncTime
    <2>1. LinkTypeOK'
      BY <1>a, <1>7 DEF SyncTime, Preempted, Goto, MaintenanceActive, LinkTypeOK
    <2>2. AppTypeOK'
      BY <1>a, <1>7 DEF SyncTime, Preempted, Goto, MaintenanceActive, AppTypeOK
    <2>3. Rules'
      BY <1>a, <1>7 DEF SyncTime, Preempted, Goto, MaintenanceActive, Rules, Places,
         Intents, StorageIsLeft, Locked, Tasks, Early, Late, Targets, LinkTypeOK, AppTypeOK
    <2>4. resets' \in 0..MaxResets
      BY <1>a, <1>7 DEF SyncTime, Preempted
    <2>5. QED
      BY <2>1, <2>2, <2>3, <2>4 DEF IInv, TypeOK
  <1>8. CASE OpenPortal
    <2>1. LinkTypeOK'
      BY <1>a, <1>8 DEF OpenPortal, Goto, LinkTypeOK
    <2>2. AppTypeOK'
      BY <1>a, <1>8 DEF OpenPortal, Goto, AppTypeOK
    <2>3. Rules'
      BY <1>a, <1>8 DEF OpenPortal, Goto, Rules, Places, Intents, StorageIsLeft, Locked,
         Tasks, Early, Late, Targets, LinkTypeOK, AppTypeOK
    <2>4. resets' \in 0..MaxResets
      BY <1>a, <1>8 DEF OpenPortal
    <2>5. QED
      BY <2>1, <2>2, <2>3, <2>4 DEF IInv, TypeOK
  <1>9. CASE ClosePortal
    <2>1. LinkTypeOK'
      BY <1>a, <1>9 DEF ClosePortal, Preempted, Goto, MaintenanceActive, LinkTypeOK
    <2>2. AppTypeOK'
      BY <1>a, <1>9 DEF ClosePortal, Preempted, Goto, MaintenanceActive, AppTypeOK
    <2>3. Rules'
      BY <1>a, <1>9 DEF ClosePortal, Preempted, Goto, MaintenanceActive, Rules, Places,
         Intents, StorageIsLeft, Locked, Tasks, Early, Late, Targets, LinkTypeOK, AppTypeOK
    <2>4. resets' \in 0..MaxResets
      BY <1>a, <1>9 DEF ClosePortal, Preempted
    <2>5. QED
      BY <2>1, <2>2, <2>3, <2>4 DEF IInv, TypeOK
  <1>10. CASE LastWait
    <2>1. LinkTypeOK'
      BY <1>a, <1>10 DEF LastWait, Preempted, Goto, MaintenanceActive, LinkTypeOK
    <2>2. AppTypeOK'
      BY <1>a, <1>10 DEF LastWait, Preempted, Goto, MaintenanceActive, AppTypeOK
    <2>3. Rules'
      BY <1>a, <1>10 DEF LastWait, Preempted, Goto, MaintenanceActive, Rules, Places,
         Intents, StorageIsLeft, Locked, Tasks, Early, Late, Targets, LinkTypeOK, AppTypeOK
    <2>4. resets' \in 0..MaxResets
      BY <1>a, <1>10 DEF LastWait, Preempted
    <2>5. QED
      BY <2>1, <2>2, <2>3, <2>4 DEF IInv, TypeOK
  <1>11. CASE StopUsb
    <2>1. LinkTypeOK'
      BY <1>a, <1>11 DEF StopUsb, Goto, StopTask, LinkTypeOK
    <2>2. AppTypeOK'
      BY <1>a, <1>11 DEF StopUsb, Goto, StopTask, AppTypeOK
    <2>3. Rules'
      BY <1>a, <1>11 DEF StopUsb, Goto, StopTask, Rules, Places, Intents, StorageIsLeft,
         Locked, Tasks, Early, Late, Targets, LinkTypeOK, AppTypeOK
    <2>4. resets' \in 0..MaxResets
      BY <1>a, <1>11 DEF StopUsb
    <2>5. QED
      BY <2>1, <2>2, <2>3, <2>4 DEF IInv, TypeOK
  <1>12. CASE UninstallUsb
    <2>1. LinkTypeOK'
      <3>1. tinyusb' \in BOOLEAN /\ attached' \in {"no", "yes", "left"}
        BY <1>a, <1>12 DEF UninstallUsb, Uninstall, LinkTypeOK
      <3>2. UNCHANGED <<rtc, mode, proto, maint, card, msc, recording>>
        BY <1>12 DEF UninstallUsb
      <3>3. QED
        BY <1>a, <3>1, <3>2 DEF LinkTypeOK
    <2>2. AppTypeOK'
      BY <1>a, <1>12 DEF UninstallUsb, Goto, Uninstall, AppTypeOK
    <2>3. Rules'
      BY <1>a, <1>12 DEF UninstallUsb, Goto, Uninstall, Rules, Places, Intents,
         StorageIsLeft, Locked, Tasks, Early, Late, Targets, LinkTypeOK, AppTypeOK
    <2>4. resets' \in 0..MaxResets
      BY <1>a, <1>12 DEF UninstallUsb
    <2>5. QED
      BY <2>1, <2>2, <2>3, <2>4 DEF IInv, TypeOK
  <1>13. CASE Recheck
    <2>1. LinkTypeOK'
      BY <1>a, <1>13 DEF Recheck, Goto, StartProtocol, LinkTypeOK
    <2>2. AppTypeOK'
      BY <1>a, <1>13 DEF Recheck, Goto, StartProtocol, AppTypeOK
    <2>3. Rules'
      BY <1>a, <1>13 DEF Recheck, Goto, StartProtocol, Rules, Places, Intents,
         StorageIsLeft, Locked, Tasks, Early, Late, Targets, LinkTypeOK, AppTypeOK
    <2>4. resets' \in 0..MaxResets
      BY <1>a, <1>13 DEF Recheck
    <2>5. QED
      BY <2>1, <2>2, <2>3, <2>4 DEF IInv, TypeOK
  <1>14. CASE TestFlag
    <2>1. LinkTypeOK'
      BY <1>a, <1>14 DEF TestFlag, Goto, LinkTypeOK
    <2>2. AppTypeOK'
      BY <1>a, <1>14 DEF TestFlag, Goto, AppTypeOK
    <2>3. Rules'
      BY <1>a, <1>14 DEF TestFlag, Goto, Rules, Places, Intents, StorageIsLeft, Locked,
         Tasks, Early, Late, Targets, LinkTypeOK, AppTypeOK
    <2>4. resets' \in 0..MaxResets
      BY <1>a, <1>14 DEF TestFlag
    <2>5. QED
      BY <2>1, <2>2, <2>3, <2>4 DEF IInv, TypeOK
  <1>15. CASE SetFlag
    <2>1. LinkTypeOK'
      BY <1>a, <1>15 DEF SetFlag, Goto, BeginRecording, LinkTypeOK
    <2>2. AppTypeOK'
      BY <1>a, <1>15 DEF SetFlag, Goto, BeginRecording, AppTypeOK
    <2>3. Rules'
      BY <1>a, <1>15 DEF SetFlag, Goto, BeginRecording, Rules, Places, Intents,
         StorageIsLeft, Locked, Tasks, Early, Late, Targets, LinkTypeOK, AppTypeOK
    <2>4. resets' \in 0..MaxResets
      BY <1>a, <1>15 DEF SetFlag
    <2>5. QED
      BY <2>1, <2>2, <2>3, <2>4 DEF IInv, TypeOK
  <1>16. CASE EndRecording
    <2>1. LinkTypeOK'
      BY <1>a, <1>16 DEF EndRecording, Goto, LinkTypeOK
    <2>2. AppTypeOK'
      BY <1>a, <1>16 DEF EndRecording, Goto, AppTypeOK
    <2>3. Rules'
      BY <1>a, <1>16 DEF EndRecording, Goto, Rules, Places, Intents, StorageIsLeft, Locked,
         Tasks, Early, Late, Targets, LinkTypeOK, AppTypeOK
    <2>4. resets' \in 0..MaxResets
      BY <1>a, <1>16 DEF EndRecording
    <2>5. QED
      BY <2>1, <2>2, <2>3, <2>4 DEF IInv, TypeOK
  <1>17. CASE AfterRecord
    <2>1. LinkTypeOK'
      BY <1>a, <1>17 DEF AfterRecord, Goto, LinkTypeOK
    <2>2. AppTypeOK'
      BY <1>a, <1>17 DEF AfterRecord, Goto, AppTypeOK
    <2>3. Rules'
      BY <1>a, <1>17 DEF AfterRecord, Goto, Rules, Places, Intents, StorageIsLeft, Locked,
         Tasks, Early, Late, Targets, LinkTypeOK, AppTypeOK
    <2>4. resets' \in 0..MaxResets
      BY <1>a, <1>17 DEF AfterRecord
    <2>5. QED
      BY <2>1, <2>2, <2>3, <2>4 DEF IInv, TypeOK
  <1>18. CASE Sleep
    <2>1. LinkTypeOK'
      BY <1>a, <1>18 DEF Sleep, Goto, LinkTypeOK
    <2>2. AppTypeOK'
      BY <1>a, <1>18 DEF Sleep, Goto, AppTypeOK
    <2>3. Rules'
      BY <1>a, <1>18 DEF Sleep, Goto, Rules, Places, Intents, StorageIsLeft, Locked, Tasks,
         Early, Late, Targets, LinkTypeOK, AppTypeOK
    <2>4. resets' \in 0..MaxResets
      BY <1>a, <1>18 DEF Sleep
    <2>5. QED
      BY <2>1, <2>2, <2>3, <2>4 DEF IInv, TypeOK
  <1>19. CASE MscUndo
    <2>1. LinkTypeOK'
      BY <1>a, <1>19 DEF MscUndo, Goto, link, msc, LinkTypeOK
    <2>2. AppTypeOK'
      BY <1>a, <1>19 DEF MscUndo, Goto, AppTypeOK
    <2>3. Rules'
      BY <1>a, <1>19 DEF MscUndo, Goto, link, msc, Rules, Places, Intents, StorageIsLeft, Locked,
         Tasks, Early, Late, Targets, LinkTypeOK, AppTypeOK
    <2>4. resets' \in 0..MaxResets
      BY <1>a, <1>19 DEF MscUndo
    <2>5. QED
      BY <2>1, <2>2, <2>3, <2>4 DEF IInv, TypeOK
  <1>20. QED
    BY <1>1, <1>2, <1>3, <1>4, <1>5, <1>6, <1>7, <1>8, <1>9, <1>10, <1>11, <1>12, <1>13,
       <1>14, <1>15, <1>16, <1>17, <1>18, <1>19 DEF MainStep

\* The portal and its recording task keep the invariant.
LEMMA WebSteps ==
    ASSUME IInv, WebRequest \/ WebStep
    PROVE  IInv'
  <1> USE DEF rtc, link, msc, app, webOnly
  <1>a. LinkTypeOK /\ AppTypeOK /\ resets \in 0..MaxResets /\ Rules
    BY DEF IInv, TypeOK
  <1>1. CASE WebRequest
    <2>1. LinkTypeOK'
      BY <1>a, <1>1 DEF WebRequest, LinkTypeOK
    <2>2. AppTypeOK'
      BY <1>a, <1>1 DEF WebRequest, AppTypeOK
    <2>3. Rules'
      BY <1>a, <1>1 DEF WebRequest, Rules, Places, Intents, StorageIsLeft, Locked, Tasks,
         Early, Late, Targets, LinkTypeOK, AppTypeOK
    <2>4. resets' \in 0..MaxResets
      BY <1>a, <1>1 DEF WebRequest
    <2>5. QED
      BY <2>1, <2>2, <2>3, <2>4 DEF IInv, TypeOK
  <1>2. CASE WebTest
    <2>1. LinkTypeOK'
      BY <1>a, <1>2 DEF WebTest, LinkTypeOK
    <2>2. AppTypeOK'
      BY <1>a, <1>2 DEF WebTest, AppTypeOK
    <2>3. Rules'
      BY <1>a, <1>2 DEF WebTest, Rules, Places, Intents, StorageIsLeft, Locked, Tasks,
         Early, Late, Targets, LinkTypeOK, AppTypeOK
    <2>4. resets' \in 0..MaxResets
      BY <1>a, <1>2 DEF WebTest
    <2>5. QED
      BY <2>1, <2>2, <2>3, <2>4 DEF IInv, TypeOK
  <1>3. CASE WebSet
    <2>1. LinkTypeOK'
      BY <1>a, <1>3 DEF WebSet, BeginRecording, LinkTypeOK
    <2>2. AppTypeOK'
      BY <1>a, <1>3 DEF WebSet, BeginRecording, AppTypeOK
    <2>3. Rules'
      BY <1>a, <1>3 DEF WebSet, BeginRecording, Rules, Places, Intents, StorageIsLeft,
         Locked, Tasks, Early, Late, Targets, LinkTypeOK, AppTypeOK
    <2>4. resets' \in 0..MaxResets
      BY <1>a, <1>3 DEF WebSet
    <2>5. QED
      BY <2>1, <2>2, <2>3, <2>4 DEF IInv, TypeOK
  <1>4. CASE WebEnd
    <2>1. LinkTypeOK'
      BY <1>a, <1>4 DEF WebEnd, LinkTypeOK
    <2>2. AppTypeOK'
      BY <1>a, <1>4 DEF WebEnd, AppTypeOK
    <2>3. Rules'
      BY <1>a, <1>4 DEF WebEnd, Rules, Places, Intents, StorageIsLeft, Locked, Tasks, Early,
         Late, Targets, LinkTypeOK, AppTypeOK
    <2>4. resets' \in 0..MaxResets
      BY <1>a, <1>4 DEF WebEnd
    <2>5. QED
      BY <2>1, <2>2, <2>3, <2>4 DEF IInv, TypeOK
  <1>5. QED
    BY <1>1, <1>2, <1>3, <1>4 DEF WebStep

\* Resets, wanted or not, keep the invariant.
LEMMA ResetSteps ==
    ASSUME IInv, PowerOn \/ Panic \/ Restart \/ Wake
    PROVE  IInv'
  <1> USE DEF rtc, link, msc, app
  <1>a. LinkTypeOK /\ AppTypeOK /\ resets \in 0..MaxResets /\ Rules
    BY DEF IInv, TypeOK
  <1>1. CASE PowerOn
    <2>1. LinkTypeOK'
      BY <1>a, <1>1 DEF PowerOn, Restarted, LinkTypeOK
    <2>2. AppTypeOK'
      BY <1>a, <1>1 DEF PowerOn, Restarted, AppTypeOK
    <2>3. Rules'
      BY <1>a, <1>1 DEF PowerOn, Restarted, Rules, Places, Intents, StorageIsLeft, Locked,
         Tasks, Early, Late, Targets, LinkTypeOK, AppTypeOK
    <2>4. resets' \in 0..MaxResets
      BY <1>a, <1>1, BootAssumption DEF PowerOn, BootAssumption
    <2>5. QED
      BY <2>1, <2>2, <2>3, <2>4 DEF IInv, TypeOK
  <1>2. CASE Panic
    <2>1. LinkTypeOK'
      BY <1>a, <1>2 DEF Panic, Restarted, LinkTypeOK
    <2>2. AppTypeOK'
      BY <1>a, <1>2 DEF Panic, Restarted, AppTypeOK
    <2>3. Rules'
      BY <1>a, <1>2 DEF Panic, Restarted, Rules, Places, Intents, StorageIsLeft, Locked,
         Tasks, Early, Late, Targets, LinkTypeOK, AppTypeOK
    <2>4. resets' \in 0..MaxResets
      BY <1>a, <1>2, BootAssumption DEF Panic, BootAssumption
    <2>5. QED
      BY <2>1, <2>2, <2>3, <2>4 DEF IInv, TypeOK
  <1>3. CASE Restart
    <2>1. LinkTypeOK'
      BY <1>a, <1>3 DEF Restart, Restarted, LinkTypeOK
    <2>2. AppTypeOK'
      BY <1>a, <1>3 DEF Restart, Restarted, AppTypeOK
    <2>3. Rules'
      BY <1>a, <1>3 DEF Restart, Restarted, Rules, Places, Intents, StorageIsLeft, Locked,
         Tasks, Early, Late, Targets, LinkTypeOK, AppTypeOK
    <2>4. resets' \in 0..MaxResets
      BY <1>a, <1>3 DEF Restart
    <2>5. QED
      BY <2>1, <2>2, <2>3, <2>4 DEF IInv, TypeOK
  <1>4. CASE Wake
    <2>1. LinkTypeOK'
      BY <1>a, <1>4 DEF Wake, Restarted, LinkTypeOK
    <2>2. AppTypeOK'
      BY <1>a, <1>4 DEF Wake, Restarted, AppTypeOK
    <2>3. Rules'
      BY <1>a, <1>4 DEF Wake, Restarted, Rules, Places, Intents, StorageIsLeft, Locked,
         Tasks, Early, Late, Targets, LinkTypeOK, AppTypeOK
    <2>4. resets' \in 0..MaxResets
      BY <1>a, <1>4, BootAssumption DEF Wake, BootAssumption
    <2>5. QED
      BY <2>1, <2>2, <2>3, <2>4 DEF IInv, TypeOK
  <1>5. QED
    BY <1>1, <1>2, <1>3, <1>4 DEF IInv

------------------------------------------------------------------------------
(***************************************************************************)
(* The theorems.                                                           *)
(***************************************************************************)
LEMMA Inductive == Spec => []IInv
  <1>1. IInv /\ [Next]_vars => IInv'
    <2> SUFFICES ASSUME IInv, [Next]_vars PROVE IInv'
      OBVIOUS
    <2>1. CASE LinkStep(HostStep) \/ LinkStep(ProtocolStep)
      BY <2>1, LinkSteps
    <2>2. CASE MainStep
      BY <2>2, MainSteps
    <2>3. CASE WebRequest \/ WebStep
      BY <2>3, WebSteps
    <2>4. CASE PowerOn \/ Panic \/ Restart \/ Wake
      BY <2>4, ResetSteps
    <2>5. CASE UNCHANGED vars
      <3> USE DEF vars, rtc, link, msc, app
      <3>1. LinkTypeOK /\ AppTypeOK /\ resets \in 0..MaxResets /\ Rules
        BY DEF IInv, TypeOK
      <3>2. LinkTypeOK'
        BY <2>5, <3>1 DEF LinkTypeOK
      <3>3. AppTypeOK'
        BY <2>5, <3>1 DEF AppTypeOK
      <3>4. resets' \in 0..MaxResets
        BY <2>5, <3>1
      <3>5. Rules'
        BY <2>5, <3>1 DEF Rules, Places, Intents, StorageIsLeft, Locked, Tasks, Targets
      <3>6. QED
        BY <3>2, <3>3, <3>4, <3>5 DEF IInv, TypeOK
    <2>6. QED
      BY <2>1, <2>2, <2>3, <2>4, <2>5 DEF Next
  <1>2. QED
    BY Initially, <1>1, PTL DEF Spec

\* The variables of the link and of main keep their types (usb_link.c, app_core.c).
THEOREM TypeCorrect == Spec => []TypeOK
  <1>1. IInv => TypeOK
    BY DEF IInv
  <1>2. QED
    BY Inductive, <1>1, PTL

\* A volume handed over for exports is not writable, whatever sessions, resets and
\* failed hand-overs came before (usb_link.c:880-884, 1572, 1599-1603).
THEOREM ReadOnlyCorrect == Spec => []TransactionalReadOnly
  <1>1. IInv => TransactionalReadOnly
    BY DEF IInv, Rules, Intents, TransactionalReadOnly, Writable
  <1>2. QED
    BY Inductive, <1>1, PTL

\* The card's sectors belong to the host only while nothing on the device records
\* or could start to (usb_link.c:866-900, app_core.c:203-206).
THEOREM HostOwnsCardCorrect == Spec => []HostOwnsCard
  <1>1. IInv => HostOwnsCard
    BY DEF IInv, Rules, Places, Early, HostOwnsCard
  <1>2. QED
    BY Inductive, <1>1, PTL

\* The restart that ends storage mode does not find an intent for storage mode
\* (usb_link.c:1115-1147, 1281-1284).
THEOREM StorageIsLeftCorrect == Spec => []StorageIsLeft
  <1>1. IInv => StorageIsLeft
    BY DEF IInv, Rules, Intents
  <1>2. QED
    BY Inductive, <1>1, PTL

\* While the battery is locked there is neither a portal nor a recording
\* (app_core.c:220-227, 301-308).
THEOREM LockedStaysQuietCorrect == Spec => []LockedStaysQuiet
  <1>1. IInv => LockedStaysQuiet
    BY DEF IInv, Rules, Locked, LockedStaysQuiet
  <1>2. QED
    BY Inductive, <1>1, PTL

\* A cold boot past its last check with a host seen has a driver that nobody
\* stopped, and no protocol task (app_core.c:263-285).
THEOREM HostKeepsAwakeCorrect == Spec => []HostKeepsAwake
  <1>1. IInv => HostKeepsAwake
    BY DEF IInv, Rules, Tasks, Late, HostKeepsAwake
  <1>2. QED
    BY Inductive, <1>1, PTL

------------------------------------------------------------------------------
(***************************************************************************)
(* The flag of the recorder, which main and the portal test and set in two *)
(* steps (recorder.c:533-536).                                             *)
(***************************************************************************)
\* A flag that is set has an owner, although not every owner's flag stays set; and
\* main has nothing to show for its record only if it found the portal's under way.
Flag ==
    /\ recording => pc = "recording" \/ webTask = "recording"
    /\ ~cold /\ pc = "recording" => recording
    /\ cold /\ pc \in {"after_record", "shutdown"} /\ ~made => webTask = "recording"

LEMMA FlagLink ==
    ASSUME Flag, LinkStep(HostStep) \/ LinkStep(ProtocolStep)
    PROVE  Flag'
  <1>1. UNCHANGED <<recording, pc, webTask, cold, made>>
    BY DEF LinkStep, app, HostStep, ProtocolStep, Attach, Detach, Eject, Other, EnterMsc,
           ExitMsc, EndSession, PrepareMsc, HandOver, Expire, MscIdle, Maintained, Request, msc
  <1>2. QED
    BY <1>1 DEF Flag

LEMMA FlagKept ==
    ASSUME IInv, Flag, [Next]_vars
    PROVE  Flag'
  <1>1. CASE UNCHANGED <<recording, pc, webTask, cold, made>>
    BY <1>1 DEF Flag
  <1>2. ASSUME UNCHANGED <<recording, webTask, cold, made>>,
               pc' \notin {"recording", "after_record", "shutdown"}, pc # "recording"
        PROVE  Flag'
    BY <1>2 DEF Flag
  <1>3. CASE TestFlag \/ SetFlag \/ EndRecording \/ AfterRecord
    BY <1>3 DEF TestFlag, SetFlag, EndRecording, AfterRecord, Goto, BeginRecording, Flag
  <1>4. CASE Sleep
    BY <1>4 DEF Sleep, Goto, Flag
  <1>5. CASE MountCard
    BY <1>5 DEF MountCard, Flag
  <1>6. CASE MainStep
    BY <1>2, <1>3, <1>4, <1>5, <1>6
       DEF MainStep, Choose, MscStart, MscUndo, StartSerial, LowWait, FirstWait, SyncTime,
           OpenPortal, ClosePortal, LastWait, StopUsb, UninstallUsb, Recheck, Preempted, Goto, msc
  <1>7. CASE WebRequest \/ WebStep
    BY <1>7 DEF WebRequest, WebStep, WebTest, WebSet, WebEnd, BeginRecording, webOnly, Flag,
                IInv, Rules, Places
  <1>8. CASE Restart \/ PowerOn \/ Panic \/ Wake
    BY <1>8 DEF Restart, PowerOn, Panic, Wake, Restarted, Flag
  <1>9. CASE UNCHANGED vars
    BY <1>1, <1>9 DEF vars, app
  <1>10. QED
    BY <1>6, <1>7, <1>8, <1>9, FlagLink DEF Next

LEMMA FlagInvariant == Spec => []Flag
  <1>1. Init => Flag
    BY DEF Init, Flag
  <1>2. QED
    BY <1>1, FlagKept, Inductive, PTL DEF Spec

\* No recording leaves the flag behind, a wake-up's recording is alone with it, and a
\* cold boot without a record cuts off the portal's (recorder.c:533-536, 655,
\* app_core.c:290-294).
THEOREM RecordingsAccountedCorrect == Spec => []RecordingsAccounted
  <1>1. IInv /\ Flag => RecordingsAccounted
    BY DEF IInv, Rules, Places, Flag, RecordingsAccounted
  <1>2. QED
    BY Inductive, FlagInvariant, <1>1, PTL
==============================================================================
