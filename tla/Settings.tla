------------------------------ MODULE Settings -------------------------------
(***************************************************************************)
(* The settings service (device_settings.c) with its three writers: the    *)
(* USB protocol task (SET_CONFIG), the web server's task (POST config) and *)
(* the Wi-Fi task that stores credentials, and with app_core.c between     *)
(* them, which keeps an unlocked copy of the configuration.                *)
(*                                                                         *)
(* A configuration is stored as one NVS entry per field, each written at   *)
(* once; power may be lost and a write may fail between any two.  Locks    *)
(* are taken with a timeout, so a wait may always be given up.             *)
(***************************************************************************)
EXTENDS DayConfig, FiniteSets, Sequences

CONSTANTS
    MaxRevision,    \* UINT32_MAX
    AnyRevision,    \* DAY_SETTINGS_ANY_REVISION
    Missing,        \* no such entry
    Nobody,
    MaxBusy,        \* bound: requests served at once
    Legacy,         \* what an older firmware, or none, may have left in NVS
    UsbPatches,     \* the patches of SET_CONFIG requests
    WebPatches      \* the fields and values a page may post

Key == Field \cup {"cfg_schema", "cfg_revision"}

\* The contents of name space day_cfg
Store == {s \in [Key -> Int \cup Ssid \cup {Missing}] :
             /\ \A f \in Field : s[f] \in Value(f) \cup {Missing}
             /\ s["cfg_schema"] \in {2, Missing}
             /\ s["cfg_revision"] \in 1..MaxRevision \cup {Missing}}

ASSUME SettingsAssumption ==
    /\ MaxRevision \in Nat \ {0}
    /\ AnyRevision \notin Nat
    /\ MaxBusy \in Nat
    /\ Missing \notin Int /\ Missing \notin Ssid
    /\ \A s \in Legacy : s \in Store /\ s["cfg_revision"] = Missing
    /\ \A p \in UsbPatches \cup WebPatches :
          DOMAIN p \subseteq Field /\ \A f \in DOMAIN p : p[f] \in Value(f)
    \* The serial request has no cam_fs of its own; the page offers no other.
    /\ \A p \in UsbPatches : "cam_fs" \in DOMAIN p =>
          "rec_fs" \in DOMAIN p /\ p["cam_fs"] = p["rec_fs"]
    /\ \A p \in WebPatches : "cam_fs" \in DOMAIN p => p["cam_fs"] \in 0..23

Writer == {"main", "usb", "web", "wifi"}    \* main stores the defaults at the first boot
Clients == Writer \ {"main"}

ASSUME NobodyAssumption == Nobody \notin Writer \cup {"gone"}

\* Mutant: the revision is stored after the fields.
RevisionLast ==
    <<"cfg_schema", "cam_fs", "prev_fs", "rec_fs", "prev_fps", "rec_fps", "ssid",
      "cfg_revision">>

\* persist_config, in its order
Keys == <<"cfg_schema", "cfg_revision", "cam_fs", "prev_fs", "rec_fs", "prev_fps", "rec_fps",
          "ssid">>

VARIABLES
    nvs,        \* the entries of name space day_cfg
    up,         \* s_initialized
    ram,        \* s_settings: revision and configuration; kept here while down
    copy,       \* s_config of app_core.c
    lock,       \* who writes to NVS, holding s_mutex; gone: a task deleted meanwhile
    at,         \* the next entry to write
    \* the writers
    pc,
    want,       \* the candidate
    guard,      \* the revision it is meant for
    snap,       \* the snapshot to compare with, or on its way to s_config
    \* the surroundings
    recording,  \* s_recording
    \* history
    named,      \* the fields the request names
    overlap,    \* now: the requests served overlap, or one was deleted; past: none
                \* that was served alone has refreshed s_config since
    late        \* whose request had passed the recorder's test when the recording began

volatile == <<up, copy, recording>>
locals == <<pc, want, guard, snap, named>>
history == <<overlap, late>>
vars == <<nvs, up, ram, copy, lock, at, locals, recording, history>>

Update(v, w, x) == v' = [v EXCEPT ![w] = x]
Goto(w, from, to) == pc[w] = from /\ Update(pc, w, to)

------------------------------------------------------------------------------
(***************************************************************************)
(* load_config and day_settings_init                                       *)
(***************************************************************************)
\* A missing entry leaves the default, a missing rec_fs what cam_fs says.
Loaded ==
    LET stored == [f \in Field |-> IF nvs[f] = Missing THEN Defaults[f] ELSE nvs[f]]
    IN  Normalize(IF nvs["rec_fs"] = Missing
                    THEN [stored EXCEPT !["rec_fs"] = stored["cam_fs"]] ELSE stored)

Revision == IF nvs["cfg_revision"] = Missing THEN 0 ELSE nvs["cfg_revision"]

\* Entries of an older firmware get a revision before anything else happens.
Current == nvs["cfg_schema"] = 2 /\ Revision # 0

Initialized(revision, config) ==
    /\ up' = TRUE
    /\ ram' = [revision |-> revision, config |-> config]
    /\ copy' = config

Load ==
    /\ ~up /\ pc["main"] = "idle"
    /\ \/ /\ Current
          /\ Initialized(Revision, Loaded)
          /\ UNCHANGED <<lock, at, pc, want>>
       \/ /\ ~Current
          /\ Update(want, "main", Loaded)
          /\ Update(pc, "main", "persist")
          /\ lock' = "main" /\ at' = 1
          /\ UNCHANGED <<up, ram, copy>>
    /\ UNCHANGED <<nvs, guard, snap, recording, named, history>>

------------------------------------------------------------------------------
(***************************************************************************)
(* The requests                                                            *)
(***************************************************************************)
Begin(w, stage, config, revision, fields) ==
    /\ up
    /\ Goto(w, "idle", stage)
    /\ Update(want, w, config)
    /\ Update(guard, w, revision)
    /\ Update(named, w, fields)
    /\ LET busy == {x \in Clients : pc[x] # "idle"}
       IN  /\ Cardinality(busy) < MaxBusy
           /\ overlap' = IF busy # {} THEN "now" ELSE IF overlap = "now" THEN "past" ELSE overlap
    /\ UNCHANGED <<nvs, up, ram, copy, lock, at, snap, recording, late>>

\* A client names a revision that GET_CONFIG or an answer to SET_CONFIG told it, or
\* none.
Told == 1..ram.revision \cup {AnyRevision}

\* SET_CONFIG: the patch is applied to a snapshot; without a revision in the
\* request the snapshot's counts.
SetConfig(p, expected) ==
    /\ ~recording
    /\ lock = Nobody
    /\ Begin("usb", "check", Patch(ram.config, p),
             IF expected = AnyRevision THEN ram.revision ELSE expected, DOMAIN p)

\* What a copy of s_config, which no lock protects, may be while others store it
Storing == {w \in Clients : pc[w] \in {"store", "crossed"}}
CopyReads == Mixtures({copy} \cup {snap[w] : w \in Storing})

\* config_post_handler
PostConfig(p) ==
    \E base \in CopyReads :
        Begin("web", "check", Patch(base, p), AnyRevision, DOMAIN p)

\* day_wifi_save_credentials_and_connect; the page must send a name.
SaveCredentials(s) ==
    \E base \in CopyReads :
        Begin("wifi", "replace", [base EXCEPT !["ssid"] = s], AnyRevision, {"ssid"})

\* What the rest of the request does not look at is not kept.
Forget(w) ==
    /\ Update(want, w, Defaults) /\ Update(guard, w, AnyRevision) /\ Update(named, w, {})
    /\ Update(snap, w, Defaults)

Done(w) == Update(pc, w, "idle") /\ Forget(w) /\ late' = late \ {w}

Refused(w) == Done(w) /\ UNCHANGED <<nvs, volatile, ram, lock, at, overlap>>

\* apply_config_cb, for USB and web: day_settings_get_config ...
Check(w) ==
    /\ Goto(w, "check", "test") /\ lock = Nobody
    /\ Update(snap, w, ram.config)
    /\ Update(guard, w, IF guard[w] = AnyRevision THEN ram.revision ELSE guard[w])
    /\ UNCHANGED <<nvs, volatile, ram, lock, at, want, named, history>>

\* ... and the recorder's test against that snapshot
Test(w) ==
    /\ pc[w] = "test"
    /\ IF recording /\ RecordingFields(snap[w]) # RecordingFields(want[w])
         THEN Refused(w)
         ELSE /\ Update(pc, w, "replace") /\ Update(snap, w, Defaults)
              /\ UNCHANGED <<nvs, volatile, ram, lock, at, want, guard, named, history>>

\* A lock that is not free in time
GiveUp(w) ==
    /\ pc[w] \in {"check", "replace", "refresh"} /\ lock # Nobody
    /\ Refused(w)

------------------------------------------------------------------------------
(***************************************************************************)
(* day_settings_replace                                                    *)
(***************************************************************************)
\* Mutant: the revision is not compared.
NoConflict(w) == FALSE

Conflict(w) == guard[w] # AnyRevision /\ guard[w] # ram.revision

\* Mutant: the counter is not tested for its end.
NeverExhausted == FALSE

Exhausted == ram.revision = MaxRevision

Replace(w) ==
    /\ pc[w] = "replace" /\ lock = Nobody
    /\ CASE ~Valid(want[w]) \/ Conflict(w) -> Refused(w)
         [] Valid(want[w]) /\ ~Conflict(w) /\ want[w] = ram.config ->
              /\ Update(pc, w, "refresh") /\ Forget(w)
              /\ UNCHANGED <<nvs, volatile, ram, lock, at, history>>
         [] Valid(want[w]) /\ ~Conflict(w) /\ want[w] # ram.config /\ Exhausted -> Refused(w)
         [] OTHER ->
              /\ Update(pc, w, "persist")
              /\ lock' = w /\ at' = 1
              /\ UNCHANGED <<nvs, volatile, ram, want, guard, snap, named, history>>

\* What persist_config stores under a key
Entry(w, k) ==
    CASE k = "cfg_schema" -> 2
      [] k = "cfg_revision" -> IF w = "main" THEN 1 ELSE ram.revision + 1
      [] k \in Field -> want[w][k]

WriteEntry(w) ==
    /\ pc[w] = "persist" /\ at <= Len(Keys)
    /\ nvs' = [nvs EXCEPT ![Keys[at]] = Entry(w, Keys[at])]
    /\ at' = at + 1
    /\ UNCHANGED <<volatile, ram, lock, locals, history>>

\* Mutant: an error leaves the mutex taken.
PersistFailsLocked(w) ==
    /\ pc[w] = "persist"
    /\ Done(w)
    /\ at' = 1
    /\ UNCHANGED <<nvs, volatile, ram, lock, overlap>>

\* An entry that cannot be written, or the commit: what was written stays.  At
\* boot ESP_ERROR_CHECK restarts the device.
PersistFails(w) ==
    /\ pc[w] = "persist"
    /\ Done(w)
    /\ lock' = Nobody /\ at' = 1
    /\ UNCHANGED <<nvs, volatile, ram, overlap>>

\* Mutant: s_config is left as it was.
InstallOnly(w) ==
    /\ pc[w] = "persist" /\ at > Len(Keys)
    /\ lock' = Nobody /\ at' = 1
    /\ IF w = "main"
         THEN Initialized(1, want[w])
         ELSE ram' = [revision |-> ram.revision + 1, config |-> want[w]] /\ UNCHANGED <<up, copy>>
    /\ Done(w)
    /\ UNCHANGED <<nvs, recording, overlap>>

\* nvs_commit succeeded: memory follows.
Install(w) ==
    /\ pc[w] = "persist" /\ at > Len(Keys)
    /\ lock' = Nobody /\ at' = 1
    /\ IF w = "main"
         THEN Initialized(1, want[w]) /\ Update(pc, w, "idle")
         ELSE /\ ram' = [revision |-> ram.revision + 1, config |-> want[w]]
              /\ Update(pc, w, "refresh")
              /\ UNCHANGED <<up, copy>>
    /\ Forget(w)
    /\ UNCHANGED <<nvs, recording, history>>

------------------------------------------------------------------------------
(***************************************************************************)
(* day_settings_get_config into s_config: the snapshot is taken under the  *)
(* lock, the copy to s_config is not.                                      *)
(***************************************************************************)
Refresh(w) ==
    /\ Goto(w, "refresh", "store") /\ lock = Nobody
    /\ Update(snap, w, ram.config)
    /\ UNCHANGED <<nvs, volatile, ram, lock, at, want, guard, named, history>>

\* Stores that overlap leave a mixture, field by field.  A request that was served
\* alone leaves what is in memory.
Assign(w) ==
    /\ w \in Storing
    /\ copy' \in Mixtures({snap[x] : x \in Storing} \cup (IF pc[w] = "crossed" THEN {copy} ELSE {}))
    /\ pc' = [x \in Writer |-> IF x = w THEN "idle"
                               ELSE IF x \in Storing THEN "crossed" ELSE pc[x]]
    /\ Update(snap, w, Defaults)
    /\ overlap' = IF overlap = "past" THEN "none" ELSE overlap
    /\ late' = late \ {w}
    /\ UNCHANGED <<nvs, up, ram, lock, at, want, guard, named, recording>>

\* day_usb_link_stop deletes the protocol task wherever it is.  A mutex it holds
\* stays taken, a copy to s_config stays half done.
StopUsb ==
    /\ up /\ pc["usb"] # "idle"
    /\ IF lock = "usb" THEN lock' = "gone" /\ at' = 1 ELSE UNCHANGED <<lock, at>>
    /\ copy' \in IF "usb" \in Storing THEN CopyReads ELSE {copy}
    /\ pc' = [x \in Writer |-> IF x = "usb" THEN "idle"
                               ELSE IF {"usb", x} \subseteq Storing THEN "crossed" ELSE pc[x]]
    /\ Forget("usb")
    /\ overlap' = "now" /\ late' = late \ {"usb"}
    /\ UNCHANGED <<nvs, up, ram, recording>>

BeginRecording ==
    /\ up /\ ~recording
    /\ recording' = TRUE
    /\ late' = {w \in {"usb", "web"} : pc[w] \notin {"idle", "check", "test"}}
    /\ UNCHANGED <<nvs, up, ram, copy, lock, at, locals, overlap>>

EndRecording ==
    /\ recording
    /\ recording' = FALSE /\ late' = {}
    /\ UNCHANGED <<nvs, up, ram, copy, lock, at, locals, overlap>>

\* Power loss or any reset
Crash ==
    /\ up' = FALSE /\ recording' = FALSE
    /\ overlap' = "none" /\ late' = {}
    /\ copy' = Defaults
    /\ lock' = Nobody /\ at' = 1
    /\ pc' = [w \in Writer |-> "idle"]
    /\ want' = [w \in Writer |-> Defaults] /\ snap' = [w \in Writer |-> Defaults]
    /\ guard' = [w \in Writer |-> AnyRevision]
    /\ named' = [w \in Writer |-> {}]
    /\ UNCHANGED <<nvs, ram>>

Persist(w) == WriteEntry(w) \/ PersistFails(w) \/ Install(w)

Step(w) ==
    Check(w) \/ Test(w) \/ GiveUp(w) \/ Replace(w) \/ Persist(w) \/ Refresh(w) \/ Assign(w)

Next ==
    \/ Load
    \/ \E p \in UsbPatches, r \in Told : SetConfig(p, r)
    \/ \E p \in WebPatches : PostConfig(p)
    \/ \E s \in Ssid \ {DefaultSsid} : SaveCredentials(s)
    \/ \E w \in Writer : Step(w)
    \/ BeginRecording \/ EndRecording
    \/ StopUsb \/ Crash

Init ==
    /\ nvs \in Legacy
    /\ up = FALSE /\ recording = FALSE
    /\ overlap = "none" /\ late = {}
    /\ ram = [revision |-> 0, config |-> Defaults]
    /\ copy = Defaults
    /\ lock = Nobody /\ at = 1
    /\ pc = [w \in Writer |-> "idle"]
    /\ want = [w \in Writer |-> Defaults] /\ snap = [w \in Writer |-> Defaults]
    /\ guard = [w \in Writer |-> AnyRevision]
    /\ named = [w \in Writer |-> {}]

Spec == Init /\ [][Next]_vars

\* Who writes to NVS gets the processor, and the calls return.
FairSpec == Spec /\ \A w \in Writer : WF_vars(Persist(w))

------------------------------------------------------------------------------
(***************************************************************************)
(* Properties                                                              *)
(***************************************************************************)
Revisions == 1..MaxRevision

\* Type correctness; the revision never passes its last value, because
\* day_settings_replace refuses a change then.
TypeOK ==
    /\ nvs \in Store
    /\ up \in BOOLEAN /\ recording \in BOOLEAN
    /\ overlap \in {"none", "now", "past"} /\ late \in SUBSET {"usb", "web"}
    /\ ram \in [revision : 0..MaxRevision, config : Config]
    /\ copy \in Config
    /\ lock \in Writer \cup {Nobody, "gone"}
    /\ at \in 1..Len(Keys) + 1
    /\ pc \in [Writer -> {"idle", "check", "test", "replace", "persist", "refresh", "store", "crossed"}]
    /\ want \in [Writer -> Config] /\ snap \in [Writer -> Config]
    /\ guard \in [Writer -> Revisions \cup {AnyRevision}]
    /\ named \in [Writer -> SUBSET Field]

\* Whatever comes into memory, from NVS or from a request, has its numbers in
\* range: day_config_normalize repairs what an older firmware left and what a loss
\* of power between two entries mixed.  Texts are not repaired: a malformed one
\* comes from an older firmware and stays until a request replaces it, but no
\* request, failed write or loss of power brings one in or back.
ConfigValid ==
    [][ram' # ram => /\ InRange(ram'.config)
                     /\ ram'.config["ssid"] \in Wellformed
                        \/ ram.revision = 0 \/ ram'.config["ssid"] = ram.config["ssid"]]_vars

\* A revision that was told stands for one configuration for ever: no crash
\* and no failed write brings another one under the same number, and none
\* brings an older number back (persist_config stores the revision first).
RevisionIdentifies == [][ram' # ram => ram'.revision > ram.revision]_vars

Installs(w) == pc[w] = "persist" /\ pc'[w] # "persist" /\ ram' # ram

KeepsOthers(w) == \A f \in Field \ named[w] : ram'.config[f] = ram.config[f]

\* SET_CONFIG never undoes what another writer changed after its snapshot
\* (the revision guard of apply_config_cb).
GuardedKeepsOthers == [][Installs("usb") => KeepsOthers("usb")]_vars

\* The page and the Wi-Fi task start from the unlocked copy.  They keep the fields
\* they do not name: the copy follows every change before the next request, and
\* after requests that overlapped, from the first one that is served alone.
AloneKeepsOthers ==
    [][\A w \in {"web", "wifi"} : Installs(w) /\ overlap = "none" => KeepsOthers(w)]_vars

\* What the recorder reads from s_config until it ends
InUse(c) == <<c["rec_fs"], c["rec_fps"]>>
InMemory == InUse(ram.config)
InCopy == InUse(copy)

\* What a recording was started with stays as it is until it ends.  USB and the
\* page do not change it, however requests overlap, unless the request had passed
\* the recorder's test when the recording began.  Without such a request nothing
\* does, neither in memory nor in s_config, but a Wi-Fi save from a copy that
\* overlapping requests left stale: nothing tests the recorder there.
RecordingFieldsFixed ==
    [][recording /\ recording' =>
         /\ \A w \in {"usb", "web"} : Installs(w) /\ w \notin late => InMemory' = InMemory
         /\ overlap = "none" /\ late = {} => InMemory' = InMemory /\ InCopy' = InCopy]_vars

\* The settings can always be read and written again, after every failure but
\* one: day_usb_link_stop while the protocol task holds the mutex.
LockIsFreed == []<>(lock \in {Nobody, "gone"})
==============================================================================
