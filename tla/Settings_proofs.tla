--------------------------- MODULE Settings_proofs ---------------------------
(***************************************************************************)
(* For every bound, patch and content of NVS that an older firmware left:  *)
(* the settings keep their types, what comes into memory is in range and   *)
(* brings no malformed text, a revision stands for one configuration, and  *)
(* no writer undoes another's change where the code promises it.           *)
(***************************************************************************)
EXTENDS Settings, TLAPS

(***************************************************************************)
(* One writer persists at a time, holding the lock.                        *)
(***************************************************************************)
Locking ==
    /\ \A w \in Writer : pc[w] = "persist" <=> lock = w
    /\ lock = Nobody => at = 1
    /\ pc["main"] \in {"idle", "persist"}
    /\ up => pc["main"] = "idle"
    /\ \A w \in Clients : pc[w] # "idle" => up

(***************************************************************************)
(* What is being written fits its place: a client's candidate is valid,    *)
(* that of the boot at least in range, the counter has room and the        *)
(* entries before at are those of the candidate.                           *)
(***************************************************************************)
CamOk(c) == c["cam_fs"] \in 0..23
Sane(c) == CamOk(c) \/ c["cam_fs"] = c["rec_fs"]

Writing ==
    \A w \in Writer : pc[w] = "persist" =>
        /\ InRange(want[w])
        /\ w \in Clients => ram.revision < MaxRevision /\ Valid(want[w])
        /\ w = "main" => ram.revision = 0
        /\ \A i \in 1..at - 1 : nvs[Keys[i]] = Entry(w, Keys[i])

Sound ==
    /\ up => InRange(ram.config) /\ ram.revision # 0
    /\ CamOk(ram.config) /\ CamOk(copy)
    /\ \A w \in Writer : CamOk(snap[w]) /\ Sane(want[w])

(***************************************************************************)
(* NVS never says less than memory: its revision is higher, or it holds    *)
(* the same configuration.                                                 *)
(***************************************************************************)
Stored ==
    ram.revision # 0 =>
        /\ nvs["cfg_schema"] = 2
        /\ Revision >= ram.revision
        /\ Revision = ram.revision => Loaded = ram.config

(***************************************************************************)
(* A malformed text in NVS is the one in memory: nobody stores another.    *)
(***************************************************************************)
Texts == ram.revision # 0 => nvs["ssid"] \in Wellformed \cup {Missing, ram.config["ssid"]}

(***************************************************************************)
(* A serial request whose revision still counts was made from what is in   *)
(* memory.                                                                 *)
(***************************************************************************)
Agrees(w) == \A f \in Field \ named[w] : want[w][f] = ram.config[f]

Guarded ==
    /\ pc["usb"] \in {"check", "test", "replace", "persist"} =>
          /\ guard["usb"] \in Nat /\ guard["usb"] <= ram.revision
          /\ guard["usb"] = ram.revision => Agrees("usb")
    /\ pc["usb"] = "persist" => guard["usb"] = ram.revision

(***************************************************************************)
(* A request whose revision still counts passed the recorder's test        *)
(* against what is in memory, if it passed it during the recording.        *)
(***************************************************************************)
Recorded == RecordingFields(ram.config)
FromCopy == RecordingFields(copy)
SameFields(w) == RecordingFields(want[w]) = Recorded

TestedFor(w) ==
    /\ w = "web" /\ pc[w] = "check" => guard[w] = AnyRevision
    /\ pc[w] \in {"test", "replace", "persist"} => guard[w] \in Nat /\ guard[w] <= ram.revision
    /\ pc[w] = "persist" => guard[w] = ram.revision
    /\ pc[w] = "test" /\ guard[w] = ram.revision => snap[w] = ram.config
    /\ recording /\ w \notin late /\ pc[w] \in {"replace", "persist"} /\ guard[w] = ram.revision
         => SameFields(w)

Tested == TestedFor("usb") /\ TestedFor("web")

(***************************************************************************)
(* While requests do not overlap, at most one is served; once one that was *)
(* served alone has refreshed s_config, the next starts from what is in    *)
(* memory.                                                                 *)
(***************************************************************************)
AloneFor(w) ==
    /\ pc[w] # "crossed"
    /\ pc[w] = "store" => snap[w] = ram.config
    /\ overlap = "none" =>
          /\ w # "usb" /\ pc[w] \in {"check", "test", "replace", "persist"} => Agrees(w)
          /\ w = "wifi" /\ pc[w] \in {"check", "test", "replace", "persist"} => SameFields(w)
          /\ pc[w] \in {"refresh", "store"} /\ (w = "wifi" \/ (recording /\ w \notin late))
               => FromCopy = Recorded

OneBusy == \A w, x \in Clients : pc[w] # "idle" /\ pc[x] # "idle" => w = x

CopyAgrees ==
    overlap = "none" /\ (\A w \in Clients : pc[w] \notin {"refresh", "store"}) => copy = ram.config

Alone == up /\ overlap # "now" => OneBusy /\ CopyAgrees /\ \A w \in Clients : AloneFor(w)

\* With a lock that will not be freed no request gets as far as s_config.
Deleted ==
    lock = "gone" =>
      /\ overlap # "none"
      /\ overlap # "now" => \A w \in Clients : pc[w] \in {"idle", "check", "test", "replace"}

IInv ==
    /\ TypeOK /\ Locking /\ Writing /\ Sound /\ Stored /\ Texts
    /\ Guarded /\ Tested /\ Deleted /\ Alone

------------------------------------------------------------------------------
(***************************************************************************)
(* Configurations                                                          *)
(***************************************************************************)
\* What a configuration is, field by field.
LEMMA ConfigFields ==
    ASSUME NEW c
    PROVE  c \in Config <=> /\ c = [f \in Field |-> c[f]]
                           /\ \A f \in Field : c[f] \in Value(f)
BY DEF Config, Value

LEMMA MaxFpsType == \A n \in Int : MaxFps(n) \in {5, 10, 15, 20, 30}
BY DEF MaxFps

\* day_config_normalize returns numbers that day_settings_validate accepts, a
\* cam_fs that it would not touch again, and the texts as they were.
LEMMA NormalizeRanges ==
    ASSUME NEW c \in Config
    PROVE  /\ Normalize(c) \in Config /\ InRange(Normalize(c)) /\ CamOk(Normalize(c))
           /\ Normalize(c)["ssid"] = c["ssid"]
<1> DEFINE n == Normalize(c)
<1>1. /\ c["cam_fs"] \in Int /\ c["prev_fs"] \in Int /\ c["rec_fs"] \in Int
      /\ c["prev_fps"] \in Int /\ c["rec_fps"] \in Int /\ c["ssid"] \in Ssid
  BY DEF Config, Field, Value
<1>2. c = [f \in Field |-> c[f]] /\ DOMAIN n = Field
  BY DEF Config, Normalize
<1>3. n["cam_fs"] \in 0..23 /\ n["prev_fs"] \in PreviewSizes /\ n["ssid"] = c["ssid"]
  BY <1>1, <1>2 DEF Normalize, PreviewSizes, Field
<1>4. n["rec_fs"] \in RecordSizes
  BY <1>1, <1>2 DEF Normalize, RecordSizes, Field
<1>5. n["prev_fps"] = IF c["prev_fps"] \in 1..MaxFps(n["prev_fs"]) THEN c["prev_fps"]
                      ELSE MaxFps(n["prev_fs"])
  BY <1>1, <1>2 DEF Normalize, Field
<1>6. n["rec_fps"] = IF c["rec_fps"] \in RecordRates /\ c["rec_fps"] <= MaxFps(n["rec_fs"])
                       THEN c["rec_fps"]
                     ELSE IF MaxFps(n["rec_fs"]) >= 15 THEN 15 ELSE 10
  BY <1>1, <1>2 DEF Normalize, Field
<1>7. n["prev_fps"] \in 1..MaxFps(n["prev_fs"])
  <2>1. MaxFps(n["prev_fs"]) \in {10, 15, 20, 30}
    BY <1>3 DEF MaxFps, PreviewSizes
  <2>2. QED
    BY <1>1, <1>5, <2>1
<1>8. n["rec_fps"] \in RecordRates /\ n["rec_fps"] <= MaxFps(n["rec_fs"])
  <2>1. MaxFps(n["rec_fs"]) \in {10, 15, 20, 30}
    BY <1>4 DEF MaxFps, RecordSizes
  <2>2. QED
    BY <1>1, <1>6, <2>1 DEF RecordRates
<1>9. n \in Config
  <2>1. n = [f \in Field |-> n[f]]
    BY DEF Normalize
  <2>2. \A f \in Field : n[f] \in Value(f)
    BY <1>1, <1>3, <1>4, <1>7, <1>8, MaxFpsType
    DEF Field, Value, PreviewSizes, RecordSizes, RecordRates
  <2> HIDE DEF n
  <2>3. QED
    BY <2>1, <2>2, ConfigFields
<1>10. QED
  BY <1>3, <1>4, <1>7, <1>8, <1>9 DEF InRange, CamOk

\* It leaves a configuration that is in range as it is.
LEMMA NormalizeKeeps ==
    ASSUME NEW c \in Config, InRange(c), Sane(c)
    PROVE  Normalize(c) = c
<1>1. /\ c["cam_fs"] \in Int /\ c["prev_fs"] \in Int /\ c["rec_fs"] \in Int
      /\ c["prev_fps"] \in Int /\ c["rec_fps"] \in Int
  BY DEF Config, Field, Value
<1>2. c = [f \in Field |-> c[f]]
  BY DEF Config
<1>3. c["rec_fs"] \in RecordSizes /\ c["cam_fs"] \in 0..23 /\ c["rec_fs"] > 0
  BY <1>1 DEF InRange, Sane, CamOk, RecordSizes
<1>4. QED
  BY <1>1, <1>2, <1>3 DEF Normalize, InRange

\* A configuration in range that is sane has a cam_fs in range.
LEMMA SaneCam ==
    ASSUME NEW c, InRange(c), Sane(c) PROVE CamOk(c)
BY DEF InRange, Sane, CamOk, RecordSizes

LEMMA DefaultsFine == Defaults \in Config /\ CamOk(Defaults) /\ Sane(Defaults)
BY SsidAssumption DEF Defaults, Config, Field, Value, CamOk, Sane

LEMMA PatchType ==
    ASSUME NEW c \in Config, NEW p \in UsbPatches \cup WebPatches
    PROVE  /\ Patch(c, p) \in Config
           /\ \A f \in Field \ DOMAIN p : Patch(c, p)[f] = c[f]
<1>1. DOMAIN p \subseteq Field /\ \A f \in DOMAIN p : p[f] \in Value(f)
  BY SettingsAssumption
<1>2. \A f \in Field : Patch(c, p)[f] = IF f \in DOMAIN p THEN p[f] ELSE c[f]
  BY DEF Patch
<1>3. \A f \in Field : c[f] \in Value(f)
  BY ConfigFields
<1>4. \A f \in Field : Patch(c, p)[f] \in Value(f)
  BY <1>1, <1>2, <1>3
<1>5. Patch(c, p) = [f \in Field |-> Patch(c, p)[f]]
  BY DEF Patch
<1>6. QED
  BY <1>2, <1>4, <1>5, ConfigFields

LEMMA MixtureType ==
    ASSUME NEW S \in SUBSET Config, NEW m \in Mixtures(S)
    PROVE  /\ m \in Config
           /\ (\A c \in S : CamOk(c)) => CamOk(m)
           /\ \A c : S = {c} => m = c
           /\ \A x : (\A c \in S : RecordingFields(c) = x) => RecordingFields(m) = x
<1>1. PICK from \in [Field -> S] : m = [f \in Field |-> from[f][f]]
  BY DEF Mixtures
<1>2. \A f \in Field : m[f] = from[f][f] /\ from[f] \in S /\ from[f] \in Config
  BY <1>1
<1>3. \A f \in Field : m[f] \in Value(f)
  BY <1>2, ConfigFields
<1>4. m \in Config
  BY <1>1, <1>2, <1>3, ConfigFields
<1>5. ASSUME \A c \in S : CamOk(c) PROVE CamOk(m)
  BY <1>2, <1>5 DEF CamOk, Field
<1>6. ASSUME NEW c, S = {c} PROVE m = c
  <2>1. \A f \in Field : m[f] = c[f]
    BY <1>2, <1>6
  <2>2. c \in Config
    BY <1>6
  <2>3. c = [f \in Field |-> c[f]] /\ m = [f \in Field |-> m[f]]
    BY <1>4, <2>2, ConfigFields
  <2>4. QED
    BY <2>1, <2>3
<1>7. ASSUME NEW x, \A c \in S : RecordingFields(c) = x PROVE RecordingFields(m) = x
  <2>1. RecordingFields(from["rec_fs"]) = x /\ RecordingFields(from["rec_fps"]) = x
    BY <1>2, <1>7 DEF Field
  <2>2. m["rec_fs"] = from["rec_fs"]["rec_fs"] /\ m["rec_fps"] = from["rec_fps"]["rec_fps"]
    BY <1>2 DEF Field
  <2>3. QED
    BY <2>1, <2>2 DEF RecordingFields
<1>8. QED
  BY <1>4, <1>5, <1>6, <1>7

------------------------------------------------------------------------------
(***************************************************************************)
(* What is stored                                                          *)
(***************************************************************************)
LEMMA KeysFacts ==
    /\ Len(Keys) = 8
    /\ \A i \in 1..8 : Keys[i] \in Key
    /\ Keys[1] = "cfg_schema" /\ Keys[2] = "cfg_revision"
    /\ \A i \in 3..8 : Keys[i] \in Field
    /\ \A f \in Field : \E i \in 3..8 : Keys[i] = f
    /\ \A i, j \in 1..8 : Keys[i] = Keys[j] => i = j
<1> DEFINE K == Keys
<1>1. /\ Len(K) = 8
      /\ K[1] = "cfg_schema" /\ K[2] = "cfg_revision" /\ K[3] = "cam_fs" /\ K[4] = "prev_fs"
      /\ K[5] = "rec_fs" /\ K[6] = "prev_fps" /\ K[7] = "rec_fps" /\ K[8] = "ssid"
  BY DEF Keys
<1> HIDE DEF K
<1>2. \A i \in 1..8 : i \in {1, 2, 3, 4, 5, 6, 7, 8}
  OBVIOUS
<1>3. \A i, j \in 1..8 : K[i] = K[j] => i = j
  BY <1>1, <1>2
<1>4. QED
  BY <1>1, <1>2, <1>3 DEF Key, Field, K

LEMMA KeysDiffer == "cfg_schema" \notin Field /\ "cfg_revision" \notin Field
BY DEF Field

\* Whatever mixture of entries a loss of power left, the configuration made from
\* it is in range, and has the stored texts.
LEMMA LoadedFine ==
    ASSUME nvs \in Store
    PROVE  /\ Loaded \in Config /\ InRange(Loaded) /\ CamOk(Loaded)
           /\ Loaded["ssid"] = IF nvs["ssid"] = Missing THEN DefaultSsid ELSE nvs["ssid"]
           /\ Revision \in 0..MaxRevision
<1> DEFINE stored == [f \in Field |-> IF nvs[f] = Missing THEN Defaults[f] ELSE nvs[f]]
           taken == IF nvs["rec_fs"] = Missing
                      THEN [stored EXCEPT !["rec_fs"] = stored["cam_fs"]] ELSE stored
<1>1. \A f \in Field : nvs[f] \in Value(f) \cup {Missing} /\ Defaults[f] \in Value(f)
  BY DefaultsFine, ConfigFields DEF Store
<1>2. stored \in Config
  BY <1>1, ConfigFields
<1>3. taken \in Config
  <2>1. CASE nvs["rec_fs"] = Missing
    <3>1. \A f \in Field : taken[f] = IF f = "rec_fs" THEN stored["cam_fs"] ELSE stored[f]
      BY <2>1
    <3>2. \A f \in Field : taken[f] \in Value(f)
      BY <1>1, <3>1 DEF Value, Field
    <3>3. taken = [f \in Field |-> taken[f]]
      BY <2>1
    <3> HIDE DEF taken
    <3>4. QED
      BY <3>2, <3>3, ConfigFields
  <2>2. CASE nvs["rec_fs"] # Missing
    BY <1>2, <2>2
  <2>3. QED
    BY <2>1, <2>2
<1>4. Loaded = Normalize(taken)
  BY DEF Loaded
<1>5. Revision \in 0..MaxRevision
  BY SettingsAssumption DEF Revision, Store
<1>6. taken["ssid"] = IF nvs["ssid"] = Missing THEN DefaultSsid ELSE nvs["ssid"]
  <2>1. "ssid" \in Field /\ Defaults["ssid"] = DefaultSsid
    BY DEF Field, Defaults
  <2>2. stored["ssid"] = IF nvs["ssid"] = Missing THEN DefaultSsid ELSE nvs["ssid"]
    BY <2>1
  <2>3. taken["ssid"] = stored["ssid"]
    BY <2>1
  <2>4. QED
    BY <2>2, <2>3
<1> HIDE DEF taken, stored
<1>7. QED
  BY <1>3, <1>4, <1>5, <1>6, NormalizeRanges

\* Once all entries are those of a candidate, it is what is loaded.
LEMMA LoadedWhole ==
    ASSUME NEW c \in Config, InRange(c), Sane(c), \A f \in Field : nvs[f] = c[f]
    PROVE  Loaded = c
<1>1. \A f \in Field : c[f] \in Value(f) /\ c[f] # Missing
  BY ConfigFields, SettingsAssumption DEF Value
<1>2. c = [f \in Field |-> c[f]]
  BY ConfigFields
<1>3. [f \in Field |-> IF nvs[f] = Missing THEN Defaults[f] ELSE nvs[f]] = c
  BY <1>1, <1>2
<1>4. nvs["rec_fs"] # Missing
  BY <1>1 DEF Field
<1>5. Loaded = Normalize(c)
  BY <1>3, <1>4 DEF Loaded
<1>6. QED
  BY <1>5, NormalizeKeeps

LEMMA EntryFacts ==
    ASSUME NEW w
    PROVE  /\ Entry(w, "cfg_schema") = 2
           /\ Entry(w, "cfg_revision") = IF w = "main" THEN 1 ELSE ram.revision + 1
           /\ \A f \in Field : Entry(w, f) = want[w][f]
BY KeysDiffer DEF Entry

LEMMA EntryType ==
    ASSUME NEW w \in Writer, want[w] \in Config, ram.revision \in Nat,
           w # "main" => ram.revision < MaxRevision, NEW k \in Key
    PROVE  /\ k \in Field => Entry(w, k) = want[w][k] /\ Entry(w, k) \in Value(k)
           /\ k = "cfg_schema" => Entry(w, k) = 2
           /\ k = "cfg_revision" => Entry(w, k) \in 1..MaxRevision
<1>1. \A f \in Field : want[w][f] \in Value(f)
  BY ConfigFields
<1>2. QED
  BY <1>1, KeysDiffer, SettingsAssumption DEF Entry

LEMMA StoreStep ==
    ASSUME nvs \in Store, NEW k \in Key, NEW e, nvs' = [nvs EXCEPT ![k] = e],
           k \in Field => e \in Value(k),
           k = "cfg_schema" => e = 2,
           k = "cfg_revision" => e \in 1..MaxRevision
    PROVE  nvs' \in Store
<1>1. \A x \in Key : nvs'[x] = IF x = k THEN e ELSE nvs[x]
  BY DEF Store
<1>2. nvs' \in [Key -> Int \cup Ssid \cup {Missing}]
  BY DEF Store, Key, Value
<1>3. "cfg_schema" \in Key /\ "cfg_revision" \in Key /\ Field \subseteq Key
  BY DEF Key
<1>4. \A f \in Field : nvs'[f] \in Value(f) \cup {Missing}
  BY <1>1, <1>3 DEF Store
<1>5. nvs'["cfg_schema"] \in {2, Missing} /\ nvs'["cfg_revision"] \in 1..MaxRevision \cup {Missing}
  BY <1>1, <1>3 DEF Store
<1>6. QED
  BY <1>2, <1>4, <1>5 DEF Store

------------------------------------------------------------------------------
(***************************************************************************)
(* Types                                                                   *)
(***************************************************************************)
LEMMA WriterFacts == /\ Clients \subseteq Writer /\ "usb" \in Clients /\ "web" \in Clients
                     /\ "wifi" \in Clients /\ "main" \in Writer /\ "main" \notin Clients
                     /\ "gone" \notin Writer
BY DEF Writer, Clients

LEMMA CopyReadsType ==
    ASSUME TypeOK, Sound, NEW base \in CopyReads
    PROVE  base \in Config /\ CamOk(base)
<1> DEFINE S == {copy} \cup {snap[w] : w \in Storing}
<1>1. \A w \in Storing : w \in Writer
  BY WriterFacts DEF Storing
<1>2. S \in SUBSET Config /\ \A c \in S : CamOk(c)
  BY <1>1 DEF TypeOK, Sound
<1>3. base \in Mixtures(S)
  BY DEF CopyReads
<1> HIDE DEF S
<1>4. QED
  BY <1>2, <1>3, MixtureType

LEMMA NamedSsid ==
    ASSUME NEW c \in Config, NEW s \in Ssid
    PROVE  /\ [c EXCEPT !["ssid"] = s] \in Config
           /\ \A f \in Field \ {"ssid"} : [c EXCEPT !["ssid"] = s][f] = c[f]
<1> DEFINE d == [c EXCEPT !["ssid"] = s]
<1>1. c \in [Field -> Int \cup Ssid] /\ \A f \in Field : c[f] \in Value(f)
  BY DEF Config
<1>2. d \in [Field -> Int \cup Ssid]
  BY <1>1 DEF Field
<1>3. \A f \in Field : d[f] = IF f = "ssid" THEN s ELSE c[f]
  BY <1>1
<1>4. \A f \in Field : d[f] \in Value(f)
  BY <1>1, <1>3 DEF Value
<1> HIDE DEF d
<1>5. QED
  BY <1>2, <1>3, <1>4 DEF Config, d

LEMMA BeginType ==
    ASSUME TypeOK, NEW w \in Writer, NEW stage \in {"check", "replace"}, NEW config \in Config,
           NEW revision \in Revisions \cup {AnyRevision}, NEW fields \in SUBSET Field,
           Begin(w, stage, config, revision, fields)
    PROVE  TypeOK'
<1> USE DEF Begin, Goto, Update, TypeOK
<1>1. overlap' \in {"none", "now", "past"}
  OBVIOUS
<1>2. /\ pc' \in [Writer -> {"idle", "check", "test", "replace", "persist", "refresh", "store", "crossed"}]
      /\ want' \in [Writer -> Config] /\ guard' \in [Writer -> Revisions \cup {AnyRevision}]
      /\ named' \in [Writer -> SUBSET Field]
  OBVIOUS
<1>3. UNCHANGED <<nvs, up, ram, copy, lock, at, snap, recording, late>>
  OBVIOUS
<1>4. QED
  BY <1>1, <1>2, <1>3 DEF Store, Revisions

LEMMA ForgetType ==
    ASSUME TypeOK, NEW w \in Writer, Forget(w)
    PROVE  /\ want' \in [Writer -> Config] /\ guard' \in [Writer -> Revisions \cup {AnyRevision}]
           /\ named' \in [Writer -> SUBSET Field] /\ snap' \in [Writer -> Config]
BY DefaultsFine DEF Forget, Update, TypeOK

LEMMA DoneType ==
    ASSUME TypeOK, NEW w \in Writer, Done(w)
    PROVE  /\ pc' \in [Writer -> {"idle", "check", "test", "replace", "persist", "refresh", "store", "crossed"}]
           /\ want' \in [Writer -> Config] /\ guard' \in [Writer -> Revisions \cup {AnyRevision}]
           /\ named' \in [Writer -> SUBSET Field] /\ snap' \in [Writer -> Config]
           /\ late' \in SUBSET {"usb", "web"}
BY ForgetType DEF Done, Update, TypeOK

LEMMA RefusedType ==
    ASSUME TypeOK, NEW w \in Writer, Refused(w) PROVE TypeOK'
<1>1. UNCHANGED <<nvs, volatile, ram, lock, at, overlap>>
  BY DEF Refused
<1>2. QED
  BY <1>1, DoneType DEF Refused, TypeOK, volatile, Store, Revisions

\* The deletion of the protocol task ends its request and moves no other one,
\* but for a store that it leaves half done.
LEMMA StopFacts ==
    ASSUME TypeOK, StopUsb
    PROVE  /\ up /\ pc'["usb"] = "idle" /\ overlap' = "now" /\ late' \subseteq late
           /\ \A w \in Writer \ {"usb"} :
                 pc'[w] = pc[w] \/ (pc[w] \in {"store", "crossed"} /\ pc'[w] = "crossed")
           /\ pc' \in [Writer -> {"idle", "check", "test", "replace", "persist", "refresh", "store", "crossed"}]
           /\ lock' \in {lock, "gone"} /\ (lock' # lock => lock = "usb")
           /\ lock = "usb" => lock' = "gone"
           /\ at' \in {at, 1} /\ (at' # at => lock = "usb")
           /\ copy' = copy \/ copy' \in CopyReads
           /\ UNCHANGED <<nvs, up, ram, recording>>
<1> USE WriterFacts
<1>1. \A w \in Writer : pc'[w] = IF w = "usb" THEN "idle"
                                 ELSE IF {"usb", w} \subseteq Storing THEN "crossed" ELSE pc[w]
  BY DEF StopUsb
<1>2. pc'["usb"] = "idle" /\ \A w \in Writer \ {"usb"} :
         pc'[w] = pc[w] \/ (pc[w] \in {"store", "crossed"} /\ pc'[w] = "crossed")
  BY <1>1 DEF Storing
<1>3. pc' \in [Writer -> {"idle", "check", "test", "replace", "persist", "refresh", "store", "crossed"}]
  BY DEF StopUsb, TypeOK
<1>4. /\ lock' \in {lock, "gone"} /\ (lock' # lock => lock = "usb")
      /\ lock = "usb" => lock' = "gone"
      /\ at' \in {at, 1} /\ (at' # at => lock = "usb")
  BY DEF StopUsb
<1>5. copy' = copy \/ copy' \in CopyReads
  BY DEF StopUsb
<1>6. QED
  BY <1>2, <1>3, <1>4, <1>5 DEF StopUsb

LEMMA TypeInit == Init => TypeOK
<1> SUFFICES ASSUME Init PROVE TypeOK
  OBVIOUS
<1>1. nvs \in Store
  BY SettingsAssumption DEF Init
<1>2. ram \in [revision : 0..MaxRevision, config : Config] /\ copy \in Config
  BY DefaultsFine, SettingsAssumption DEF Init
<1>3. at \in 1..Len(Keys) + 1
  BY KeysFacts DEF Init
<1>4. want \in [Writer -> Config] /\ snap \in [Writer -> Config]
  BY DefaultsFine DEF Init
<1>5. QED
  BY <1>1, <1>2, <1>3, <1>4 DEF Init, TypeOK

\* The revision stays in range because Writing holds: a client persists only
\* below the last revision.
LEMMA TypeStep == TypeOK /\ Locking /\ Writing /\ Sound /\ [Next]_vars => TypeOK'
<1> SUFFICES ASSUME TypeOK, Locking, Writing, Sound, [Next]_vars PROVE TypeOK'
  OBVIOUS
<1> DEFINE Stages == {"idle", "check", "test", "replace", "persist", "refresh", "store", "crossed"}
<1>0. /\ MaxRevision \in Nat \ {0} /\ \A w \in Clients : pc[w] # "idle" => ram.revision \in Revisions
      /\ up => ram.revision \in Revisions
  BY SettingsAssumption DEF Locking, Sound, TypeOK, Revisions
<1>1. CASE Load
  <2>1. Loaded \in Config /\ Revision \in 0..MaxRevision
    BY LoadedFine DEF TypeOK
  <2>2. nvs' = nvs /\ UNCHANGED <<guard, snap, recording, named, overlap, late>>
    BY <1>1 DEF Load, history
  <2>3. CASE Current /\ Initialized(Revision, Loaded) /\ UNCHANGED <<lock, at, pc, want>>
    BY <2>1, <2>2, <2>3 DEF Initialized, TypeOK, Store, Revisions
  <2>4. CASE /\ Update(want, "main", Loaded) /\ Update(pc, "main", "persist")
             /\ lock' = "main" /\ at' = 1 /\ UNCHANGED <<up, ram, copy>>
    <3>1. want' \in [Writer -> Config] /\ pc' \in [Writer -> Stages]
      BY <2>1, <2>4 DEF Update, TypeOK
    <3>2. at' \in 1..Len(Keys) + 1 /\ lock' \in Writer \cup {Nobody}
      BY <2>4, KeysFacts, WriterFacts
    <3>3. QED
      BY <2>2, <2>4, <3>1, <3>2 DEF TypeOK, Store, Revisions
  <2>5. QED
    BY <1>1, <2>3, <2>4 DEF Load
<1>2. ASSUME NEW p \in UsbPatches, NEW r \in Told, SetConfig(p, r)
      PROVE  TypeOK'
  <2> DEFINE meant == IF r = AnyRevision THEN ram.revision ELSE r
             patched == Patch(ram.config, p)
  <2>1. patched \in Config /\ DOMAIN p \in SUBSET Field
    BY PatchType, SettingsAssumption DEF TypeOK
  <2>2. meant \in Revisions \cup {AnyRevision}
    BY <1>0, <1>2 DEF Told, SetConfig, Begin, Revisions, TypeOK
  <2>3. Begin("usb", "check", patched, meant, DOMAIN p)
    BY <1>2 DEF SetConfig
  <2> HIDE DEF meant, patched
  <2>4. PICK config \in Config, revision \in Revisions \cup {AnyRevision} :
           Begin("usb", "check", config, revision, DOMAIN p)
    BY <2>1, <2>2, <2>3 DEF Begin
  <2>5. QED
    BY <2>1, <2>4, BeginType, WriterFacts
<1>3. ASSUME NEW p \in WebPatches, PostConfig(p) PROVE TypeOK'
  <2>1. PICK base \in CopyReads : Begin("web", "check", Patch(base, p), AnyRevision, DOMAIN p)
    BY <1>3 DEF PostConfig
  <2>2. Patch(base, p) \in Config /\ DOMAIN p \in SUBSET Field
    BY CopyReadsType, PatchType, SettingsAssumption
  <2>3. QED
    BY <2>1, <2>2, BeginType, WriterFacts
<1>4. ASSUME NEW s \in Ssid, SaveCredentials(s) PROVE TypeOK'
  <2>1. PICK base \in CopyReads :
           Begin("wifi", "replace", [base EXCEPT !["ssid"] = s], AnyRevision, {"ssid"})
    BY <1>4 DEF SaveCredentials
  <2>2. [base EXCEPT !["ssid"] = s] \in Config /\ {"ssid"} \in SUBSET Field
    BY CopyReadsType, NamedSsid DEF Field
  <2>3. QED
    BY <2>1, <2>2, BeginType, WriterFacts
<1>5. ASSUME NEW w \in Writer, Check(w) PROVE TypeOK'
  <2>1. ram.revision \in Revisions
    BY <1>0, <1>5 DEF Check, Goto, Locking, Clients
  <2>2. /\ pc' \in [Writer -> Stages] /\ guard' \in [Writer -> Revisions \cup {AnyRevision}]
        /\ snap' \in [Writer -> Config]
    BY <1>5, <2>1 DEF Check, Goto, Update, TypeOK
  <2>3. QED
    BY <1>5, <2>2 DEF Check, TypeOK, volatile, history, Store, Revisions
<1>19. ASSUME NEW w \in Writer, Test(w) PROVE TypeOK'
  <2>1. CASE Refused(w)
    BY <2>1, RefusedType
  <2>2. CASE /\ Update(pc, w, "replace") /\ Update(snap, w, Defaults)
             /\ UNCHANGED <<nvs, volatile, ram, lock, at, want, guard, named, history>>
    <3>1. pc' \in [Writer -> Stages] /\ snap' \in [Writer -> Config]
      BY <2>2, DefaultsFine DEF Update, TypeOK
    <3>2. QED
      BY <2>2, <3>1 DEF TypeOK, volatile, history, Store, Revisions
  <2>3. QED
    BY <1>19, <2>1, <2>2 DEF Test
<1>6. ASSUME NEW w \in Writer, GiveUp(w) PROVE TypeOK'
  BY <1>6, RefusedType DEF GiveUp
<1>7. ASSUME NEW w \in Writer, Replace(w) PROVE TypeOK'
  <2>1. CASE Refused(w)
    BY <2>1, RefusedType
  <2>2. CASE /\ Update(pc, w, "refresh") /\ Forget(w)
             /\ UNCHANGED <<nvs, volatile, ram, lock, at, history>>
    <3>1. pc' \in [Writer -> Stages]
      BY <2>2 DEF Update, TypeOK
    <3>2. QED
      BY <2>2, <3>1, ForgetType DEF TypeOK, volatile, history, Store, Revisions
  <2>3. CASE /\ Update(pc, w, "persist") /\ lock' = w /\ at' = 1
             /\ UNCHANGED <<nvs, volatile, ram, want, guard, snap, named, history>>
    <3>1. pc' \in [Writer -> Stages] /\ at' \in 1..Len(Keys) + 1 /\ lock' \in Writer \cup {Nobody}
      BY <2>3, KeysFacts DEF Update, TypeOK
    <3>2. QED
      BY <2>3, <3>1 DEF TypeOK, volatile, history, Store, Revisions
  <2>4. QED
    BY <1>7, <2>1, <2>2, <2>3 DEF Replace
<1>8. ASSUME NEW w \in Writer, WriteEntry(w) PROVE TypeOK'
  <2>1. at \in 1..8 /\ Keys[at] \in Key
    BY <1>8, KeysFacts DEF WriteEntry, TypeOK
  <2>2. want[w] \in Config /\ ram.revision \in Nat /\ (w # "main" => ram.revision < MaxRevision)
    BY <1>8 DEF WriteEntry, TypeOK, Writing, Clients
  <2>3. nvs' \in Store
    <3>1. /\ Keys[at] \in Field => Entry(w, Keys[at]) \in Value(Keys[at])
          /\ Keys[at] = "cfg_schema" => Entry(w, Keys[at]) = 2
          /\ Keys[at] = "cfg_revision" => Entry(w, Keys[at]) \in 1..MaxRevision
      BY <2>1, <2>2, EntryType
    <3>2. QED
      BY <1>8, <2>1, <3>1, StoreStep DEF WriteEntry, TypeOK
  <2>4. at' \in 1..Len(Keys) + 1
    BY <1>8, <2>1, KeysFacts DEF WriteEntry
  <2>5. QED
    BY <1>8, <2>3, <2>4 DEF WriteEntry, TypeOK, volatile, locals, history, Revisions
<1>9. ASSUME NEW w \in Writer, PersistFails(w) PROVE TypeOK'
  <2>1. at' \in 1..Len(Keys) + 1 /\ lock' \in Writer \cup {Nobody}
    BY <1>9, KeysFacts DEF PersistFails
  <2>2. QED
    BY <1>9, <2>1, DoneType DEF PersistFails, TypeOK, volatile, Store, Revisions
<1>10. ASSUME NEW w \in Writer, Install(w) PROVE TypeOK'
  <2>1. at' \in 1..Len(Keys) + 1 /\ lock' \in Writer \cup {Nobody}
    BY <1>10, KeysFacts DEF Install
  <2>2. want[w] \in Config /\ ram.revision \in Nat /\ (w # "main" => ram.revision < MaxRevision)
    BY <1>10 DEF Install, TypeOK, Writing, Clients
  <2>3. /\ ram' \in [revision : 0..MaxRevision, config : Config]
        /\ copy' \in Config /\ up' \in BOOLEAN
    <3>1. CASE w = "main"
      BY <1>0, <1>10, <2>2, <3>1 DEF Install, Initialized
    <3>2. CASE w # "main"
      <4>1. ram' = [revision |-> ram.revision + 1, config |-> want[w]] /\ UNCHANGED <<up, copy>>
        BY <1>10, <3>2 DEF Install
      <4>2. ram.revision + 1 \in 0..MaxRevision
        BY <1>0, <2>2, <3>2, <4>1
      <4>3. QED
        BY <2>2, <4>1, <4>2 DEF TypeOK
    <3>3. QED
      BY <3>1, <3>2
  <2>4. pc' \in [Writer -> Stages]
    BY <1>10 DEF Install, Update, TypeOK
  <2>5. QED
    BY <1>10, <2>1, <2>3, <2>4, ForgetType DEF Install, TypeOK, history, Store, Revisions
<1>11. ASSUME NEW w \in Writer, Refresh(w) PROVE TypeOK'
  <2>1. pc' \in [Writer -> Stages] /\ snap' \in [Writer -> Config]
    BY <1>11 DEF Refresh, Goto, Update, TypeOK
  <2>2. QED
    BY <1>11, <2>1 DEF Refresh, TypeOK, volatile, history, Store, Revisions
<1>12. ASSUME NEW w \in Writer, Assign(w) PROVE TypeOK'
  <2>1. pc' \in [Writer -> Stages] /\ snap' \in [Writer -> Config]
    BY <1>12, DefaultsFine DEF Assign, Update, TypeOK
  <2>2. copy' \in Config
    <3> DEFINE S == {snap[x] : x \in Storing} \cup (IF pc[w] = "crossed" THEN {copy} ELSE {})
    <3>1. S \in SUBSET Config
      BY WriterFacts DEF TypeOK, Storing
    <3>2. copy' \in Mixtures(S)
      BY <1>12 DEF Assign
    <3> HIDE DEF S
    <3>3. QED
      BY <3>1, <3>2, MixtureType
  <2>3. QED
    BY <1>12, <2>1, <2>2 DEF Assign, TypeOK, Store, Revisions
<1>13. CASE BeginRecording
  BY <1>13 DEF BeginRecording, TypeOK, locals, Store, Revisions
<1>14. CASE EndRecording
  BY <1>14 DEF EndRecording, TypeOK, locals, Store, Revisions
<1>15. CASE Crash
  <2>1. /\ copy' \in Config /\ want' \in [Writer -> Config] /\ snap' \in [Writer -> Config]
        /\ at' \in 1..Len(Keys) + 1
    BY <1>15, DefaultsFine, KeysFacts DEF Crash
  <2>2. QED
    BY <1>15, <2>1 DEF Crash, TypeOK, Store, Revisions
<1>16. CASE UNCHANGED vars
  BY <1>16 DEF vars, locals, history, TypeOK, Store, Revisions
<1>17. CASE StopUsb
  <2>1. copy' \in Config
    BY <1>17, StopFacts, CopyReadsType DEF TypeOK
  <2>2. at' \in 1..Len(Keys) + 1 /\ lock' \in Writer \cup {Nobody, "gone"}
    <3>1. lock' \in {lock, "gone"} /\ at' \in {at, 1}
      BY <1>17, StopFacts
    <3>2. 1 \in 1..Len(Keys) + 1
      BY KeysFacts
    <3>3. QED
      BY <3>1, <3>2 DEF TypeOK
  <2>3. /\ want' \in [Writer -> Config] /\ guard' \in [Writer -> Revisions \cup {AnyRevision}]
        /\ named' \in [Writer -> SUBSET Field] /\ snap' \in [Writer -> Config]
    BY <1>17, WriterFacts, ForgetType DEF StopUsb
  <2>4. /\ overlap' \in {"none", "now", "past"} /\ late' \in SUBSET {"usb", "web"}
        /\ pc' \in [Writer -> Stages]
    BY <1>17, StopFacts DEF TypeOK
  <2>5. UNCHANGED <<nvs, up, ram, recording>>
    BY <1>17, StopFacts
  <2>6. QED
    BY <2>1, <2>2, <2>3, <2>4, <2>5 DEF TypeOK, Store, Revisions
<1>18. QED
  BY <1>1, <1>2, <1>3, <1>4, <1>5, <1>6, <1>7, <1>8, <1>9, <1>10, <1>11, <1>12, <1>13, <1>14,
     <1>15, <1>16, <1>17, <1>19
  DEF Next, Step, Persist

------------------------------------------------------------------------------
(***************************************************************************)
(* The lock                                                                *)
(***************************************************************************)
\* A request begins at a writer that is idle, and only that one moves.
LEMMA LockBegin ==
    ASSUME TypeOK, Locking, NEW w \in Clients, NEW stage \in {"check", "replace"},
           up, Goto(w, "idle", stage), UNCHANGED <<up, lock, at>>
    PROVE  Locking'
BY WriterFacts DEF Locking, Goto, Update, TypeOK

LEMMA LockRefused ==
    ASSUME TypeOK, Locking, NEW w \in Writer, pc[w] # "persist", pc[w] # "idle", Refused(w)
    PROVE  Locking'
BY WriterFacts DEF Locking, Refused, Done, Update, volatile, TypeOK

LEMMA LockStep == TypeOK /\ Locking /\ [Next]_vars => Locking'
<1> SUFFICES ASSUME TypeOK, Locking, [Next]_vars PROVE Locking'
  OBVIOUS
<1> USE WriterFacts, NobodyAssumption
<1>1. CASE Load
  BY <1>1 DEF Load, Initialized, Locking, Update, TypeOK, Clients
<1>2. ASSUME NEW p \in UsbPatches, NEW r, SetConfig(p, r) PROVE Locking'
  <2>1. up /\ Goto("usb", "idle", "check") /\ UNCHANGED <<up, lock, at>>
    BY <1>2 DEF SetConfig, Begin
  <2>2. QED
    BY <2>1, LockBegin
<1>3. ASSUME NEW p \in WebPatches, PostConfig(p) PROVE Locking'
  <2>1. up /\ Goto("web", "idle", "check") /\ UNCHANGED <<up, lock, at>>
    BY <1>3 DEF PostConfig, Begin
  <2>2. QED
    BY <2>1, LockBegin
<1>4. ASSUME NEW s \in Ssid, SaveCredentials(s) PROVE Locking'
  <2>1. up /\ Goto("wifi", "idle", "replace") /\ UNCHANGED <<up, lock, at>>
    BY <1>4 DEF SaveCredentials, Begin
  <2>2. QED
    BY <2>1, LockBegin
<1>5. ASSUME NEW w \in Writer, Check(w) \/ Test(w) PROVE Locking'
  <2>1. CASE Refused(w) /\ Test(w)
    BY <1>5, <2>1, LockRefused DEF Test
  <2>2. CASE /\ pc[w] \in {"check", "test"}
             /\ Update(pc, w, "test") \/ Update(pc, w, "replace")
             /\ UNCHANGED <<volatile, lock, at>>
    BY <1>5, <2>2 DEF Locking, Update, volatile, TypeOK, Clients
  <2>3. QED
    BY <1>5, <2>1, <2>2 DEF Check, Test, Goto, Update
<1>6. ASSUME NEW w \in Writer, GiveUp(w) PROVE Locking'
  BY <1>6, LockRefused DEF GiveUp
<1>7. ASSUME NEW w \in Writer, Replace(w) PROVE Locking'
  <2>1. CASE Refused(w)
    BY <1>7, <2>1, LockRefused DEF Replace
  <2>2. CASE Update(pc, w, "refresh") /\ UNCHANGED <<volatile, lock, at>>
    BY <1>7, <2>2 DEF Replace, Locking, Update, volatile, TypeOK, Clients
  <2>3. CASE Update(pc, w, "persist") /\ lock' = w /\ at' = 1 /\ UNCHANGED volatile
    BY <1>7, <2>3 DEF Replace, Locking, Update, volatile, TypeOK, Clients
  <2>4. QED
    BY <1>7, <2>1, <2>2, <2>3 DEF Replace
<1>8. ASSUME NEW w \in Writer, WriteEntry(w) PROVE Locking'
  BY <1>8 DEF WriteEntry, Locking, volatile, locals, TypeOK
<1>9. ASSUME NEW w \in Writer, PersistFails(w) PROVE Locking'
  BY <1>9 DEF PersistFails, Done, Locking, Update, volatile, TypeOK
<1>10. ASSUME NEW w \in Writer, Install(w) PROVE Locking'
  <2>1. CASE w = "main"
    BY <1>10, <2>1 DEF Install, Initialized, Locking, Update, TypeOK
  <2>2. CASE w # "main"
    BY <1>10, <2>2 DEF Install, Locking, Update, TypeOK, Clients
  <2>3. QED
    BY <2>1, <2>2
<1>11. ASSUME NEW w \in Writer, Refresh(w) PROVE Locking'
  BY <1>11 DEF Refresh, Goto, Update, Locking, volatile, TypeOK, Clients
<1>12. ASSUME NEW w \in Writer, Assign(w) PROVE Locking'
  BY <1>12 DEF Assign, Storing, Update, Locking, TypeOK
<1>13. CASE BeginRecording \/ EndRecording
  BY <1>13 DEF BeginRecording, EndRecording, locals, Locking
<1>14. CASE Crash
  BY <1>14 DEF Crash, Locking
<1>15. CASE UNCHANGED vars
  BY <1>15 DEF vars, locals, Locking
<1>16. CASE StopUsb
  <2>1. \A w \in Writer : pc'[w] = "persist" => lock' = w
    BY <1>16, StopFacts DEF Locking
  <2>2. \A w \in Writer : lock' = w => pc'[w] = "persist"
    BY <1>16, StopFacts DEF Locking
  <2>3. /\ lock' = Nobody => at' = 1
        /\ pc'["main"] \in {"idle", "persist"}
        /\ up' => pc'["main"] = "idle"
        /\ \A w \in Clients : pc'[w] # "idle" => up'
    BY <1>16, StopFacts DEF Locking
  <2>4. QED
    BY <2>1, <2>2, <2>3 DEF Locking
<1>17. QED
  BY <1>1, <1>2, <1>3, <1>4, <1>5, <1>6, <1>7, <1>8, <1>9, <1>10, <1>11, <1>12, <1>13, <1>14,
     <1>15, <1>16
  DEF Next, Step, Persist

------------------------------------------------------------------------------
(***************************************************************************)
(* What is written is sound                                                *)
(***************************************************************************)
\* Only these steps matter to what is being written.
LEMMA WritingFrame ==
    ASSUME TypeOK, Locking, Writing, UNCHANGED <<nvs, ram, at>>,
           \A w \in Writer : pc'[w] = "persist" => pc[w] = "persist" /\ want'[w] = want[w]
    PROVE  Writing'
<1> SUFFICES ASSUME NEW w \in Writer, pc'[w] = "persist"
             PROVE  /\ InRange(want'[w])
                    /\ w \in Clients => ram'.revision < MaxRevision /\ Valid(want'[w])
                    /\ w = "main" => ram'.revision = 0
                    /\ \A i \in 1..at' - 1 : nvs'[Keys[i]] = Entry(w, Keys[i])'
  BY DEF Writing
<1>1. want'[w] = want[w] /\ pc[w] = "persist"
  OBVIOUS
<1>2. \A k : Entry(w, k)' = Entry(w, k)
  BY <1>1 DEF Entry
<1>3. QED
  BY <1>1, <1>2 DEF Writing

LEMMA WritingStep == TypeOK /\ Locking /\ Writing /\ Sound /\ Stored /\ [Next]_vars => Writing'
<1> SUFFICES ASSUME TypeOK, Locking, Writing, Sound, Stored, [Next]_vars PROVE Writing'
  OBVIOUS
<1> USE WriterFacts, NobodyAssumption
<1>1. CASE Load
  <2>1. CASE UNCHANGED pc
    <3>1. \A w \in Writer : pc'[w] # "persist"
      BY <1>1, <2>1 DEF Load, Locking, Writer, Clients
    <3>2. QED
      BY <3>1 DEF Writing
  <2>2. CASE ~Current /\ Update(want, "main", Loaded) /\ Update(pc, "main", "persist") /\ at' = 1
             /\ UNCHANGED <<nvs, ram>>
    <3>1. InRange(Loaded)
      BY LoadedFine DEF TypeOK
    <3>2. \A w \in Clients : pc'[w] = "idle"
      BY <1>1, <2>2 DEF Load, Locking, Update, TypeOK
    <3>3. want'["main"] = Loaded
      BY <2>2 DEF Update, TypeOK
    <3>4. ram'.revision = 0
      BY <2>2, LoadedFine DEF Current, Stored, TypeOK
    <3>5. QED
      BY <2>2, <3>1, <3>2, <3>3, <3>4 DEF Writing, Clients
  <2>3. QED
    BY <1>1, <2>1, <2>2 DEF Load
<1>2. ASSUME NEW p \in UsbPatches, NEW r, SetConfig(p, r) PROVE Writing'
  BY <1>2, WritingFrame DEF SetConfig, Begin, Goto, Update, TypeOK
<1>3. ASSUME NEW p \in WebPatches, PostConfig(p) PROVE Writing'
  BY <1>3, WritingFrame DEF PostConfig, Begin, Goto, Update, TypeOK
<1>4. ASSUME NEW s \in Ssid, SaveCredentials(s) PROVE Writing'
  BY <1>4, WritingFrame DEF SaveCredentials, Begin, Goto, Update, TypeOK
<1>5. ASSUME NEW w \in Writer, Check(w) \/ Test(w) \/ GiveUp(w) \/ Refresh(w) PROVE Writing'
  BY <1>5, WritingFrame
  DEF Check, Test, GiveUp, Refresh, Goto, Refused, Done, Forget, Update, volatile, TypeOK
<1>6. ASSUME NEW w \in Writer, Replace(w) PROVE Writing'
  <2>1. CASE Refused(w) \/ (Update(pc, w, "refresh") /\ Forget(w) /\ UNCHANGED <<nvs, ram, at>>)
    BY <1>6, <2>1, WritingFrame DEF Replace, Refused, Done, Forget, Update, TypeOK
  <2>2. CASE /\ Valid(want[w]) /\ ~Conflict(w) /\ ~Exhausted
             /\ Update(pc, w, "persist") /\ at' = 1 /\ UNCHANGED <<nvs, ram, want>>
    <3>1. \A x \in Writer : pc'[x] = "persist" => x = w
      BY <1>6, <2>2 DEF Replace, Locking, Update, TypeOK
    <3>2. w # "main"
      BY <1>6 DEF Replace, Locking
    <3>3. ram'.revision < MaxRevision
      BY <2>2, SettingsAssumption DEF Exhausted, TypeOK
    <3>4. QED
      BY <2>2, <3>1, <3>2, <3>3 DEF Writing, Valid
  <2>3. QED
    BY <1>6, <2>1, <2>2 DEF Replace, volatile
<1>7. ASSUME NEW w \in Writer, WriteEntry(w) PROVE Writing'
  <2>1. at \in 1..8 /\ Keys[at] \in Key /\ at' = at + 1
    BY <1>7, KeysFacts DEF WriteEntry, TypeOK
  <2>2. UNCHANGED <<ram, pc, want>>
    BY <1>7 DEF WriteEntry, locals
  <2>3. \A x \in Writer : pc[x] = "persist" => x = w
    BY <1>7 DEF WriteEntry, Locking
  <2>4. \A k : Entry(w, k)' = Entry(w, k)
    BY <2>2 DEF Entry
  <2>5. \A i \in 1..at' - 1 : nvs'[Keys[i]] = Entry(w, Keys[i])
    <3> SUFFICES ASSUME NEW i \in 1..at' - 1 PROVE nvs'[Keys[i]] = Entry(w, Keys[i])
      OBVIOUS
    <3>1. nvs' = [nvs EXCEPT ![Keys[at]] = Entry(w, Keys[at])] /\ nvs \in [Key -> Int \cup Ssid \cup {Missing}]
      BY <1>7 DEF WriteEntry, TypeOK, Store
    <3>2. CASE i = at
      BY <2>1, <3>1, <3>2
    <3>3. CASE i # at
      <4>1. i \in 1..at - 1 /\ i \in 1..8
        BY <2>1, <3>3
      <4>2. nvs[Keys[i]] = Entry(w, Keys[i]) /\ Keys[i] # Keys[at] /\ Keys[i] \in Key
        BY <1>7, <2>1, <4>1, <3>3, KeysFacts DEF Writing, WriteEntry
      <4>3. QED
        BY <3>1, <4>2
    <3>4. QED
      BY <3>2, <3>3
  <2>6. QED
    BY <1>7, <2>2, <2>3, <2>4, <2>5 DEF Writing, WriteEntry
<1>8. ASSUME NEW w \in Writer, PersistFails(w) \/ Install(w) PROVE Writing'
  <2>1. \A x \in Writer : pc'[x] # "persist"
    BY <1>8 DEF PersistFails, Install, Done, Update, Locking, TypeOK
  <2>2. QED
    BY <2>1 DEF Writing
<1>9. ASSUME NEW w \in Writer, Assign(w) PROVE Writing'
  BY <1>9, WritingFrame DEF Assign, Storing, Update, TypeOK
<1>10. CASE BeginRecording \/ EndRecording \/ UNCHANGED vars
  BY <1>10, WritingFrame DEF BeginRecording, EndRecording, vars, locals
<1>11. CASE Crash
  BY <1>11 DEF Crash, Writing
<1>12. CASE StopUsb
  <2>1. \A w \in Writer : pc'[w] = "persist" => w # "usb" /\ pc[w] = "persist" /\ lock = w
    BY <1>12, StopFacts DEF Locking
  <2>2. \A w \in Writer \ {"usb"} : want'[w] = want[w]
    BY <1>12 DEF StopUsb, Forget, Update, TypeOK
  <2>3. CASE lock = "usb"
    BY <2>1, <2>3 DEF Writing
  <2>4. CASE lock # "usb"
    <3>1. UNCHANGED <<nvs, ram, at>>
      BY <1>12, <2>4, StopFacts
    <3>2. QED
      BY <2>1, <2>2, <3>1, WritingFrame
  <2>5. QED
    BY <2>3, <2>4
<1>13. QED
  BY <1>1, <1>2, <1>3, <1>4, <1>5, <1>6, <1>7, <1>8, <1>9, <1>10, <1>11, <1>12
  DEF Next, Step, Persist

\* A patch that names cam_fs gives it a value in range, or that of rec_fs.
LEMMA PatchSane ==
    ASSUME NEW c, CamOk(c), NEW p \in UsbPatches \cup WebPatches
    PROVE  Sane(Patch(c, p))
<1>1. /\ Patch(c, p)["cam_fs"] = IF "cam_fs" \in DOMAIN p THEN p["cam_fs"] ELSE c["cam_fs"]
      /\ Patch(c, p)["rec_fs"] = IF "rec_fs" \in DOMAIN p THEN p["rec_fs"] ELSE c["rec_fs"]
  BY DEF Patch, Field
<1>2. CASE "cam_fs" \in DOMAIN p
  BY <1>1, <1>2, SettingsAssumption DEF Sane, CamOk
<1>3. CASE "cam_fs" \notin DOMAIN p
  BY <1>1, <1>3 DEF Sane, CamOk
<1>4. QED
  BY <1>2, <1>3

LEMMA SoundFrame ==
    ASSUME TypeOK, Sound, UNCHANGED <<ram, up, copy>>,
           \A w \in Writer : snap'[w] = snap[w] \/ CamOk(snap'[w]),
           \A w \in Writer : want'[w] = want[w] \/ Sane(want'[w])
    PROVE  Sound'
BY DEF Sound, Sane, CamOk

LEMMA SoundForget ==
    ASSUME TypeOK, NEW w \in Writer, Forget(w)
    PROVE  \A x \in Writer : /\ want'[x] = want[x] \/ Sane(want'[x])
                             /\ snap'[x] = snap[x] \/ CamOk(snap'[x])
BY DefaultsFine DEF Forget, Update, TypeOK

LEMMA SoundStep == TypeOK /\ Locking /\ Writing /\ Sound /\ [Next]_vars => Sound'
<1> SUFFICES ASSUME TypeOK, Locking, Writing, Sound, [Next]_vars PROVE Sound'
  OBVIOUS
<1> USE WriterFacts
<1>1. CASE Load
  <2>1. Loaded \in Config /\ InRange(Loaded) /\ CamOk(Loaded) /\ Sane(Loaded)
    BY LoadedFine DEF TypeOK, Sane
  <2>2. CASE Current /\ Initialized(Revision, Loaded) /\ UNCHANGED <<want, snap>>
    BY <2>1, <2>2 DEF Initialized, Current, Sound
  <2>3. CASE Update(want, "main", Loaded) /\ UNCHANGED <<up, ram, copy, snap>>
    BY <2>1, <2>3, SoundFrame DEF Update, TypeOK
  <2>4. QED
    BY <1>1, <2>2, <2>3 DEF Load
<1>2. ASSUME NEW p \in UsbPatches, NEW r, SetConfig(p, r) PROVE Sound'
  <2>1. Sane(Patch(ram.config, p))
    BY PatchSane DEF Sound
  <2>2. \A w \in Writer : want'[w] = want[w] \/ want'[w] = Patch(ram.config, p)
    BY <1>2 DEF SetConfig, Begin, Update, TypeOK
  <2>3. UNCHANGED <<ram, up, copy, snap>>
    BY <1>2 DEF SetConfig, Begin
  <2>4. \A w \in Writer : want'[w] = want[w] \/ Sane(want'[w])
    BY <2>1, <2>2
  <2>5. QED
    BY <2>3, <2>4, SoundFrame
<1>3. ASSUME NEW p \in WebPatches, PostConfig(p) PROVE Sound'
  <2>1. PICK base \in CopyReads : Begin("web", "check", Patch(base, p), AnyRevision, DOMAIN p)
    BY <1>3 DEF PostConfig
  <2>2. Sane(Patch(base, p))
    BY CopyReadsType, PatchSane
  <2>3. UNCHANGED <<ram, up, copy, snap>> /\ Update(want, "web", Patch(base, p))
    BY <2>1 DEF Begin
  <2>4. \A w \in Writer : want'[w] = want[w] \/ Sane(want'[w])
    BY <2>2, <2>3 DEF Update, TypeOK
  <2>5. QED
    BY <2>3, <2>4, SoundFrame
<1>4. ASSUME NEW s \in Ssid, SaveCredentials(s) PROVE Sound'
  <2>1. PICK base \in CopyReads :
           Begin("wifi", "replace", [base EXCEPT !["ssid"] = s], AnyRevision, {"ssid"})
    BY <1>4 DEF SaveCredentials
  <2>2. Sane([base EXCEPT !["ssid"] = s])
    BY CopyReadsType, NamedSsid DEF Sane, CamOk, Field
  <2>3. UNCHANGED <<ram, up, copy, snap>> /\ Update(want, "wifi", [base EXCEPT !["ssid"] = s])
    BY <2>1 DEF Begin
  <2>4. \A w \in Writer : want'[w] = want[w] \/ Sane(want'[w])
    BY <2>2, <2>3 DEF Update, TypeOK
  <2>5. QED
    BY <2>3, <2>4, SoundFrame
<1>5. ASSUME NEW w \in Writer, GiveUp(w) \/ Replace(w) \/ PersistFails(w) \/ Refused(w)
      PROVE  Sound'
  <2>1. UNCHANGED <<ram, up, copy>> /\ (UNCHANGED <<want, snap>> \/ Forget(w))
    BY <1>5 DEF GiveUp, Replace, PersistFails, Refused, Done, volatile
  <2>2. QED
    BY <2>1, SoundForget, SoundFrame
<1>14. ASSUME NEW w \in Writer, Check(w) \/ Test(w), ~Refused(w) PROVE Sound'
  <2>1. UNCHANGED <<ram, up, copy, want>> /\ \A x \in Writer : snap'[x] \in {snap[x], ram.config, Defaults}
    BY <1>14 DEF Check, Test, Update, volatile, TypeOK
  <2>2. \A x \in Writer : snap'[x] = snap[x] \/ CamOk(snap'[x])
    BY <2>1, DefaultsFine DEF Sound
  <2>3. QED
    BY <2>1, <2>2, SoundFrame
<1>6. ASSUME NEW w \in Writer, WriteEntry(w) PROVE Sound'
  BY <1>6, SoundFrame DEF WriteEntry, volatile, locals
<1>7. ASSUME NEW w \in Writer, Install(w) PROVE Sound'
  <2>1. InRange(want[w]) /\ CamOk(want[w])
    BY <1>7, SaneCam DEF Install, Writing, Sound
  <2>2. ram'.config = want[w] /\ ram'.revision # 0 /\ copy' \in {copy, want[w]}
    <3>1. CASE w = "main"
      BY <1>7, <3>1 DEF Install, Initialized
    <3>2. CASE w # "main"
      BY <1>7, <3>2 DEF Install, TypeOK
    <3>3. QED
      BY <3>1, <3>2
  <2>3. \A x \in Writer : /\ want'[x] = want[x] \/ Sane(want'[x])
                          /\ snap'[x] = snap[x] \/ CamOk(snap'[x])
    BY <1>7, SoundForget DEF Install
  <2>4. QED
    BY <2>1, <2>2, <2>3 DEF Sound, Sane, CamOk
<1>8. ASSUME NEW w \in Writer, Refresh(w) PROVE Sound'
  <2>1. \A x \in Writer : snap'[x] \in {snap[x], ram.config}
    BY <1>8 DEF Refresh, Update, TypeOK
  <2>2. \A x \in Writer : snap'[x] = snap[x] \/ CamOk(snap'[x])
    BY <2>1 DEF Sound
  <2>3. QED
    BY <1>8, <2>2, SoundFrame DEF Refresh, volatile
<1>9. ASSUME NEW w \in Writer, Assign(w) PROVE Sound'
  <2>1. CamOk(copy')
    <3> DEFINE S == {snap[x] : x \in Storing} \cup (IF pc[w] = "crossed" THEN {copy} ELSE {})
    <3>1. S \in SUBSET Config /\ \A c \in S : CamOk(c)
      BY DEF TypeOK, Storing, Sound
    <3>2. copy' \in Mixtures(S)
      BY <1>9 DEF Assign
    <3> HIDE DEF S
    <3>3. PICK m \in Mixtures(S) : copy' = m
      BY <3>2
    <3>4. QED
      BY <3>1, <3>3, MixtureType DEF CamOk
  <2>2. \A x \in Writer : snap'[x] = snap[x] \/ CamOk(snap'[x])
    BY <1>9, DefaultsFine DEF Assign, Update, TypeOK
  <2>3. UNCHANGED <<up, ram, want>>
    BY <1>9 DEF Assign
  <2>4. QED
    BY <2>1, <2>2, <2>3 DEF Sound, CamOk, Sane
<1>10. CASE BeginRecording \/ EndRecording \/ UNCHANGED vars
  BY <1>10, SoundFrame DEF BeginRecording, EndRecording, vars, locals
<1>11. CASE Crash
  BY <1>11, DefaultsFine DEF Crash, Sound, CamOk, Sane
<1>12. CASE StopUsb
  <2>1. CamOk(copy')
    BY <1>12, StopFacts, CopyReadsType DEF Sound, CamOk
  <2>2. \A x \in Writer : snap'[x] = snap[x] \/ CamOk(snap'[x])
    BY <1>12, WriterFacts, SoundForget DEF StopUsb
  <2>3. \A x \in Writer : want'[x] = want[x] \/ Sane(want'[x])
    BY <1>12, WriterFacts, SoundForget DEF StopUsb
  <2>4. UNCHANGED <<up, ram>>
    BY <1>12, StopFacts
  <2>5. QED
    BY <2>1, <2>2, <2>3, <2>4 DEF Sound, CamOk, Sane
<1>13. QED
  BY <1>1, <1>2, <1>3, <1>4, <1>5, <1>6, <1>7, <1>8, <1>9, <1>10, <1>11, <1>12,
     <1>14
  DEF Next, Step, Persist

------------------------------------------------------------------------------
(***************************************************************************)
(* NVS and memory                                                          *)
(***************************************************************************)
LEMMA LoadedSame ==
    ASSUME nvs \in Store, \A f \in Field : nvs'[f] = nvs[f]
    PROVE  Loaded' = Loaded
<1> DEFINE stored == [f \in Field |-> IF nvs[f] = Missing THEN Defaults[f] ELSE nvs[f]]
<1>1. nvs'["rec_fs"] = nvs["rec_fs"]
  BY DEF Field
<1>2. stored' = stored
  OBVIOUS
<1>3. Loaded = Normalize(IF nvs["rec_fs"] = Missing
                           THEN [stored EXCEPT !["rec_fs"] = stored["cam_fs"]] ELSE stored)
  BY DEF Loaded
<1>4. Loaded' = Normalize(IF nvs'["rec_fs"] = Missing
                            THEN [stored' EXCEPT !["rec_fs"] = stored'["cam_fs"]] ELSE stored')
  BY DEF Loaded
<1> HIDE DEF stored
<1>5. QED
  BY <1>1, <1>2, <1>3, <1>4

LEMMA StoredFrame == Stored /\ UNCHANGED <<nvs, ram>> => Stored'
BY DEF Stored, Loaded, Revision

LEMMA StoredStep == TypeOK /\ Locking /\ Writing /\ Sound /\ Stored /\ [Next]_vars => Stored'
<1> SUFFICES ASSUME TypeOK, Locking, Writing, Sound, Stored, [Next]_vars PROVE Stored'
  OBVIOUS
<1> USE WriterFacts
<1>1. CASE Load
  <2>1. CASE UNCHANGED <<nvs, ram>>
    BY <2>1, StoredFrame
  <2>2. CASE Current /\ ram' = [revision |-> Revision, config |-> Loaded] /\ UNCHANGED nvs
    <3>1. Loaded' = Loaded /\ Revision' = Revision
      BY <2>2 DEF Loaded, Revision
    <3>2. Revision \in 0..MaxRevision
      BY LoadedFine DEF TypeOK
    <3>3. QED
      BY <2>2, <3>1, <3>2 DEF Stored, Current
  <2>3. QED
    BY <1>1, <2>1, <2>2 DEF Load, Initialized
<1>2. ASSUME NEW w \in Writer, WriteEntry(w) PROVE Stored'
  <2>1. at \in 1..8 /\ Keys[at] \in Key /\ "cfg_schema" \in Key /\ "cfg_revision" \in Key
    BY <1>2, KeysFacts DEF WriteEntry, TypeOK, Key
  <2>2. \A k \in Key : nvs'[k] = IF k = Keys[at] THEN Entry(w, k) ELSE nvs[k]
    BY <1>2, <2>1 DEF WriteEntry, TypeOK, Store
  <2>3. ram' = ram
    BY <1>2 DEF WriteEntry
  <2> SUFFICES ASSUME ram.revision # 0
               PROVE  /\ nvs'["cfg_schema"] = 2
                      /\ Revision' >= ram.revision
                      /\ Revision' = ram.revision => Loaded' = ram.config
    BY <2>3 DEF Stored
  <2>4. w # "main" /\ pc[w] = "persist" /\ ram.revision \in Nat /\ ram.revision + 1 # Missing
    BY <1>2, SettingsAssumption DEF WriteEntry, Writing, TypeOK
  <2>5. Entry(w, "cfg_schema") = 2 /\ Entry(w, "cfg_revision") = ram.revision + 1
    BY <2>4, EntryFacts
  <2>6. nvs'["cfg_schema"] = 2
    BY <2>1, <2>2, <2>5 DEF Stored
  <2>7. CASE at = 1
    <3>1. nvs'["cfg_revision"] = nvs["cfg_revision"] /\ \A f \in Field : nvs'[f] = nvs[f]
      BY <2>1, <2>2, <2>7, KeysFacts, KeysDiffer DEF Key
    <3>2. Revision' = Revision /\ Loaded' = Loaded
      BY <3>1, LoadedSame DEF Revision, TypeOK
    <3>3. QED
      BY <2>6, <3>2 DEF Stored
  <2>8. CASE at # 1
    <3>1. nvs'["cfg_revision"] = ram.revision + 1
      <4>1. CASE at = 2
        BY <2>1, <2>2, <2>5, <4>1, KeysFacts
      <4>2. CASE at # 2
        <5>1. 2 \in 1..at - 1 /\ Keys[2] # Keys[at]
          BY <2>1, <2>8, <4>2, KeysFacts
        <5>2. nvs["cfg_revision"] = Entry(w, "cfg_revision")
          BY <2>4, <5>1, KeysFacts DEF Writing
        <5>3. QED
          BY <2>1, <2>2, <2>5, <5>1, <5>2, KeysFacts
      <4>3. QED
        BY <4>1, <4>2
    <3>2. Revision' = ram.revision + 1
      BY <2>4, <3>1 DEF Revision
    <3>3. QED
      BY <2>4, <2>6, <3>2
  <2>9. QED
    BY <2>7, <2>8
<1>3. ASSUME NEW w \in Writer, Install(w) PROVE Stored'
  <2>1. at - 1 = 8 /\ nvs' = nvs /\ pc[w] = "persist"
    BY <1>3, KeysFacts DEF Install, TypeOK
  <2>2. \A i \in 1..8 : nvs[Keys[i]] = Entry(w, Keys[i])
    BY <2>1 DEF Writing
  <2>3. nvs["cfg_schema"] = 2 /\ nvs["cfg_revision"] = Entry(w, "cfg_revision")
    BY <2>2, KeysFacts DEF Entry
  <2>4. \A f \in Field : nvs[f] = want[w][f]
    <3>1. \A f \in Field : Entry(w, f) = want[w][f]
      BY KeysDiffer DEF Entry
    <3>2. \A f \in Field : \E i \in 1..8 : Keys[i] = f
      BY KeysFacts
    <3>3. QED
      BY <2>2, <3>1, <3>2
  <2>5. want[w] \in Config /\ InRange(want[w]) /\ Sane(want[w])
    BY <2>1 DEF TypeOK, Writing, Sound
  <2>6. Loaded = want[w]
    <3>1. PICK c \in Config : c = want[w]
      BY <2>5
    <3>2. InRange(c) /\ Sane(c) /\ \A f \in Field : nvs[f] = c[f]
      BY <2>4, <2>5, <3>1
    <3>3. QED
      BY <3>1, <3>2, LoadedWhole
  <2>7. ram'.revision = nvs["cfg_revision"] /\ ram'.config = want[w]
    <3>1. CASE w = "main"
      BY <1>3, <2>3, <3>1, EntryFacts DEF Install, Initialized
    <3>2. CASE w # "main"
      BY <1>3, <2>3, <3>2, EntryFacts DEF Install
    <3>3. QED
      BY <3>1, <3>2
  <2>8. nvs["cfg_revision"] # Missing /\ ram'.revision \in Nat
    <3>1. Entry(w, "cfg_revision") \in Nat
      BY EntryFacts DEF TypeOK
    <3>2. QED
      BY <2>3, <2>7, <3>1, SettingsAssumption
  <2>9. Loaded' = Loaded /\ Revision' = ram'.revision
    BY <2>1, <2>7, <2>8 DEF Loaded, Revision
  <2>10. QED
    BY <2>1, <2>3, <2>6, <2>7, <2>8, <2>9 DEF Stored
<1>4. CASE UNCHANGED <<nvs, ram>>
  BY <1>4, StoredFrame
<1>5. QED
  BY <1>1, <1>2, <1>3, <1>4
  DEF Next, Step, Persist, SetConfig, PostConfig, SaveCredentials, Begin, Check, Test, GiveUp,
      Replace, Refused, PersistFails, Refresh, Assign, BeginRecording, EndRecording, StopUsb,
      Crash, vars

\* A client stores only texts that day_settings_validate accepts, and the boot
\* stores before anything was told.
LEMMA TextsStep == TypeOK /\ Writing /\ Sound /\ Texts /\ [Next]_vars => Texts'
<1> SUFFICES ASSUME TypeOK, Writing, Sound, Texts, [Next]_vars PROVE Texts'
  OBVIOUS
<1>1. CASE UNCHANGED <<nvs, ram>>
  BY <1>1 DEF Texts
<1>2. CASE ram' = [revision |-> Revision, config |-> Loaded] /\ UNCHANGED nvs
  <2>1. Loaded["ssid"] = IF nvs["ssid"] = Missing THEN DefaultSsid ELSE nvs["ssid"]
    BY LoadedFine DEF TypeOK
  <2>2. QED
    BY <1>2, <2>1 DEF Texts
<1>3. ASSUME NEW w \in Writer, WriteEntry(w) PROVE Texts'
  <2>1. at \in 1..8 /\ Keys[at] \in Key /\ "ssid" \in Key
    BY <1>3, KeysFacts DEF WriteEntry, TypeOK, Key, Field
  <2>2. nvs'["ssid"] = IF Keys[at] = "ssid" THEN Entry(w, "ssid") ELSE nvs["ssid"]
    BY <1>3, <2>1 DEF WriteEntry, TypeOK, Store
  <2>3. ram' = ram /\ pc[w] = "persist"
    BY <1>3 DEF WriteEntry
  <2>4. ram.revision # 0 => Valid(want[w])
    BY <2>3 DEF Writing, Writer, Clients
  <2>5. Entry(w, "ssid") = want[w]["ssid"]
    BY EntryFacts DEF Field
  <2>6. QED
    BY <2>2, <2>3, <2>4, <2>5 DEF Texts, Valid
<1>4. ASSUME NEW w \in Writer, Install(w) PROVE Texts'
  <2>1. at - 1 = 8 /\ nvs' = nvs /\ pc[w] = "persist"
    BY <1>4, KeysFacts DEF Install, TypeOK
  <2>2. \A i \in 1..8 : nvs[Keys[i]] = Entry(w, Keys[i])
    BY <2>1 DEF Writing
  <2>3. PICK i \in 1..8 : Keys[i] = "ssid"
    BY KeysFacts DEF Field
  <2>4. nvs["ssid"] = want[w]["ssid"]
    BY <2>2, <2>3, EntryFacts DEF Field
  <2>5. ram'.config = want[w]
    BY <1>4 DEF Install, Initialized
  <2>6. QED
    BY <2>1, <2>4, <2>5 DEF Texts
<1>5. QED
  BY <1>1, <1>2, <1>3, <1>4
  DEF Next, Step, Persist, Load, Initialized, SetConfig, PostConfig, SaveCredentials, Begin, Check,
      Test, GiveUp, Replace, Refused, PersistFails, Refresh, Assign, BeginRecording, EndRecording,
      StopUsb, Crash, vars

------------------------------------------------------------------------------
(***************************************************************************)
(* The revision guard                                                      *)
(***************************************************************************)
LEMMA GuardedIdle == pc'["usb"] \notin {"check", "test", "replace", "persist"} => Guarded'
BY DEF Guarded

LEMMA GuardedFrame ==
    ASSUME Guarded, ram' = ram, pc'["usb"] = pc["usb"], want'["usb"] = want["usb"],
           guard'["usb"] = guard["usb"], named'["usb"] = named["usb"]
    PROVE  Guarded'
BY DEF Guarded, Agrees

LEMMA GuardedStep == TypeOK /\ Locking /\ Writing /\ Guarded /\ [Next]_vars => Guarded'
<1> SUFFICES ASSUME TypeOK, Locking, Writing, Guarded, [Next]_vars PROVE Guarded'
  OBVIOUS
<1> USE WriterFacts
<1>1. CASE Load
  <2>1. pc["usb"] = "idle"
    BY <1>1 DEF Load, Locking
  <2>2. pc'["usb"] = "idle"
    BY <1>1, <2>1 DEF Load, Update, TypeOK
  <2>3. QED
    BY <2>2, GuardedIdle
<1>2. ASSUME NEW p \in UsbPatches, NEW r \in Told, SetConfig(p, r)
      PROVE  Guarded'
  <2>1. /\ pc'["usb"] = "check" /\ want'["usb"] = Patch(ram.config, p)
        /\ guard'["usb"] = (IF r = AnyRevision THEN ram.revision ELSE r)
        /\ named'["usb"] = DOMAIN p /\ ram' = ram
    BY <1>2 DEF SetConfig, Begin, Goto, Update, TypeOK
  <2>2. guard'["usb"] \in Nat /\ guard'["usb"] <= ram.revision
    BY <2>1 DEF Told, TypeOK
  <2>3. \A f \in Field \ named'["usb"] : want'["usb"][f] = ram'.config[f]
    BY <2>1 DEF Patch
  <2>4. QED
    BY <2>1, <2>2, <2>3 DEF Guarded, Agrees
<1>3. ASSUME NEW p \in WebPatches, PostConfig(p) PROVE Guarded'
  BY <1>3, GuardedFrame DEF PostConfig, Begin, Goto, Update, TypeOK
<1>4. ASSUME NEW s \in Ssid, SaveCredentials(s) PROVE Guarded'
  BY <1>4, GuardedFrame DEF SaveCredentials, Begin, Goto, Update, TypeOK
<1>5. ASSUME NEW w \in Writer, Refused(w) PROVE Guarded'
  <2>1. CASE w = "usb"
    BY <1>5, <2>1, GuardedIdle DEF Refused, Done, Update, TypeOK
  <2>2. CASE w # "usb"
    BY <1>5, <2>2, GuardedFrame DEF Refused, Done, Forget, Update, TypeOK
  <2>3. QED
    BY <2>1, <2>2
<1>6. ASSUME NEW w \in Writer, Check(w) PROVE Guarded'
  <2>1. /\ pc[w] = "check" /\ Update(pc, w, "test") /\ UNCHANGED <<ram, want, named>>
        /\ Update(guard, w, IF guard[w] = AnyRevision THEN ram.revision ELSE guard[w])
    BY <1>6 DEF Check, Goto
  <2>2. CASE w = "usb"
    <3>1. pc'["usb"] = "test"
      BY <2>1, <2>2 DEF Update, TypeOK
    <3>2. guard["usb"] \in Nat /\ guard["usb"] # AnyRevision
      BY <2>1, <2>2, SettingsAssumption DEF Guarded
    <3>3. guard'["usb"] = guard["usb"]
      BY <2>1, <2>2, <3>2 DEF Update, TypeOK
    <3>4. QED
      BY <2>1, <2>2, <3>1, <3>3 DEF Guarded, Agrees
  <2>3. CASE w # "usb"
    BY <2>1, <2>3, GuardedFrame DEF Update, TypeOK
  <2>4. QED
    BY <2>2, <2>3
<1>16. ASSUME NEW w \in Writer, Test(w), ~Refused(w) PROVE Guarded'
  <2>1. pc[w] = "test" /\ Update(pc, w, "replace") /\ UNCHANGED <<ram, want, named, guard>>
    BY <1>16 DEF Test
  <2>2. CASE w = "usb"
    <3>1. pc["usb"] = "test" /\ pc'["usb"] = "replace"
      BY <2>1, <2>2 DEF Update, TypeOK
    <3>2. QED
      BY <2>1, <3>1 DEF Guarded, Agrees
  <2>3. CASE w # "usb"
    BY <2>1, <2>3, GuardedFrame DEF Update, TypeOK
  <2>4. QED
    BY <2>2, <2>3
<1>7. ASSUME NEW w \in Writer, Replace(w) PROVE Guarded'
  <2>1. CASE Refused(w)
    BY <1>5, <2>1
  <2>2. CASE Update(pc, w, "refresh") /\ Forget(w) /\ UNCHANGED ram
    <3>1. CASE w = "usb"
      BY <2>2, <3>1, GuardedIdle DEF Update, TypeOK
    <3>2. CASE w # "usb"
      BY <2>2, <3>2, GuardedFrame DEF Forget, Update, TypeOK
    <3>3. QED
      BY <3>1, <3>2
  <2>3. CASE ~Conflict(w) /\ Update(pc, w, "persist") /\ UNCHANGED <<ram, want, guard, named>>
    <3>1. CASE w = "usb"
      <4>1. pc["usb"] = "replace" /\ pc'["usb"] = "persist"
        BY <1>7, <2>3, <3>1 DEF Replace, Update, TypeOK
      <4>2. guard["usb"] = ram.revision
        BY <2>3, <3>1, <4>1, SettingsAssumption DEF Guarded, Conflict
      <4>3. QED
        BY <2>3, <4>1, <4>2 DEF Guarded, Agrees
    <3>2. CASE w # "usb"
      BY <2>3, <3>2, GuardedFrame DEF Update, TypeOK
    <3>3. QED
      BY <3>1, <3>2
  <2>4. QED
    BY <1>7, <2>1, <2>2, <2>3 DEF Replace
<1>8. ASSUME NEW w \in Writer, PersistFails(w) PROVE Guarded'
  <2>1. CASE w = "usb"
    BY <1>8, <2>1, GuardedIdle DEF PersistFails, Done, Update, TypeOK
  <2>2. CASE w # "usb"
    BY <1>8, <2>2, GuardedFrame DEF PersistFails, Done, Forget, Update, TypeOK
  <2>3. QED
    BY <2>1, <2>2
<1>9. ASSUME NEW w \in Writer, Install(w) PROVE Guarded'
  <2>1. CASE w = "usb"
    BY <1>9, <2>1, GuardedIdle DEF Install, Update, TypeOK
  <2>2. CASE w = "main"
    <3>1. pc["usb"] = "idle"
      BY <1>9, <2>2 DEF Install, Locking
    <3>2. pc'["usb"] = "idle"
      BY <1>9, <2>2, <3>1 DEF Install, Update, TypeOK
    <3>3. QED
      BY <3>2, GuardedIdle
  <2>3. CASE w # "usb" /\ w # "main"
    <3>1. pc'["usb"] = pc["usb"] /\ pc["usb"] # "persist" /\ guard'["usb"] = guard["usb"]
      BY <1>9, <2>3 DEF Install, Forget, Update, Locking, TypeOK
    <3>2. ram'.revision = ram.revision + 1
      BY <1>9, <2>3 DEF Install
    <3>3. pc["usb"] \in {"check", "test", "replace"} =>
            guard["usb"] \in Nat /\ guard["usb"] <= ram'.revision /\ guard["usb"] # ram'.revision
      BY <3>2 DEF Guarded, TypeOK
    <3>4. QED
      BY <3>1, <3>3 DEF Guarded
  <2>4. QED
    BY <2>1, <2>2, <2>3
<1>10. ASSUME NEW w \in Writer, Refresh(w) PROVE Guarded'
  <2>1. CASE w = "usb"
    BY <1>10, <2>1, GuardedIdle DEF Refresh, Goto, Update, TypeOK
  <2>2. CASE w # "usb"
    BY <1>10, <2>2, GuardedFrame DEF Refresh, Goto, Update, TypeOK
  <2>3. QED
    BY <2>1, <2>2
<1>11. ASSUME NEW w \in Writer, Assign(w) PROVE Guarded'
  <2>1. CASE pc["usb"] \in {"store", "crossed"}
    BY <1>11, <2>1, GuardedIdle DEF Assign, Storing
  <2>2. CASE pc["usb"] \notin {"store", "crossed"}
    BY <1>11, <2>2, GuardedFrame DEF Assign, Storing
  <2>3. QED
    BY <2>1, <2>2
<1>12. CASE BeginRecording \/ EndRecording \/ UNCHANGED vars \/ \E w \in Writer : WriteEntry(w)
  BY <1>12, GuardedFrame DEF BeginRecording, EndRecording, WriteEntry, vars, locals
<1>13. CASE Crash
  BY <1>13, GuardedIdle DEF Crash
<1>14. CASE StopUsb
  BY <1>14, StopFacts, GuardedIdle
<1>15. QED
  BY <1>1, <1>2, <1>3, <1>4, <1>5, <1>6, <1>7, <1>8, <1>9, <1>10, <1>11, <1>12, <1>13,
     <1>14, <1>16
  DEF Next, Step, Persist, GiveUp

------------------------------------------------------------------------------
(***************************************************************************)
(* The recorder's test                                                     *)
(***************************************************************************)
LEMMA TestedIdle ==
    ASSUME NEW w \in Clients, pc'[w] \notin {"check", "test", "replace", "persist"}
    PROVE  TestedFor(w)'
BY DEF TestedFor

LEMMA TestedFrame ==
    ASSUME NEW w \in Clients, TestedFor(w), ram' = ram, pc'[w] = pc[w], want'[w] = want[w],
           guard'[w] = guard[w], snap'[w] = snap[w], recording' => recording,
           w \in late => w \in late' \/ ~recording'
    PROVE  TestedFor(w)'
BY DEF TestedFor, SameFields, Recorded

\* The steps of the request itself
LEMMA TestedOwn ==
    ASSUME TypeOK, Locking, Guarded, NEW w \in {"usb", "web"}, TestedFor(w),
           Check(w) \/ Test(w) \/ Replace(w) \/ Install(w) \/ PersistFails(w) \/ Refused(w)
             \/ Refresh(w) \/ Assign(w)
    PROVE  TestedFor(w)'
<1> USE DEF Clients, Writer
<1>1. CASE Check(w)
  <2>1. /\ pc'[w] = "test" /\ snap'[w] = ram.config /\ ram' = ram
        /\ guard'[w] = IF guard[w] = AnyRevision THEN ram.revision ELSE guard[w]
        /\ pc[w] = "check"
    BY <1>1 DEF Check, Goto, Update, TypeOK
  <2>2. guard'[w] \in Nat /\ guard'[w] <= ram.revision
    <3>1. CASE w = "usb"
      BY <2>1, <3>1, SettingsAssumption DEF Guarded
    <3>2. CASE w = "web"
      BY <2>1, <3>2 DEF TestedFor, TypeOK
    <3>3. QED
      BY <3>1, <3>2
  <2>3. QED
    BY <2>1, <2>2 DEF TestedFor
<1>2. CASE Test(w) /\ ~Refused(w)
  <2>1. /\ pc[w] = "test" /\ pc'[w] = "replace"
        /\ UNCHANGED <<ram, want, guard, recording, late>>
        /\ recording => RecordingFields(snap[w]) = RecordingFields(want[w])
    BY <1>2 DEF Test, Update, volatile, history, TypeOK
  <2>2. QED
    BY <2>1 DEF TestedFor, SameFields, Recorded
<1>3. CASE Refused(w) \/ PersistFails(w)
  BY <1>3, TestedIdle DEF Refused, PersistFails, Done, Update, TypeOK
<1>4. CASE Replace(w) /\ ~Refused(w)
  <2>1. CASE pc'[w] = "refresh"
    BY <2>1, TestedIdle
  <2>2. CASE pc'[w] # "refresh"
    <3>1. /\ pc[w] = "replace" /\ pc'[w] = "persist" /\ ~Conflict(w)
          /\ UNCHANGED <<ram, want, guard, recording, late>>
      BY <1>4, <2>2 DEF Replace, Update, volatile, history, TypeOK
    <3>2. guard[w] = ram.revision
      BY <3>1, SettingsAssumption DEF TestedFor, Conflict
    <3>3. QED
      BY <3>1, <3>2 DEF TestedFor, SameFields, Recorded
  <2>3. QED
    BY <2>1, <2>2
<1>5. CASE Install(w) \/ Refresh(w) \/ Assign(w)
  <2>1. pc'[w] \in {"idle", "refresh", "store"}
    BY <1>5 DEF Install, Refresh, Goto, Assign, Storing, Update, TypeOK
  <2>2. QED
    BY <2>1, TestedIdle
<1>6. QED
  BY <1>1, <1>2, <1>3, <1>4, <1>5

LEMMA TestedStep ==
    TypeOK /\ Locking /\ Writing /\ Guarded /\ Tested /\ [Next]_vars => Tested'
<1> SUFFICES ASSUME TypeOK, Locking, Writing, Guarded, [Next]_vars, NEW w \in {"usb", "web"},
                    TestedFor(w)
             PROVE  TestedFor(w)'
  BY DEF Tested
<1>0. w \in Clients /\ w \in Writer /\ w # "main"
  BY DEF Clients, Writer
<1>1. CASE Load \/ Crash
  <2>1. pc'[w] = "idle"
    BY <1>0, <1>1 DEF Load, Crash, Locking, Update, TypeOK
  <2>2. QED
    BY <1>0, <2>1, TestedIdle
<1>2. ASSUME NEW v \in Clients, NEW stage \in {"check", "replace"}, NEW config, NEW revision,
             NEW fields, Begin(v, stage, config, revision, fields),
             v = w => stage = "check" /\ (w = "web" => revision = AnyRevision)
      PROVE  TestedFor(w)'
  <2>1. CASE v = w
    <3>1. pc'[w] = "check" /\ guard'[w] = revision
      BY <1>0, <1>2, <2>1 DEF Begin, Goto, Update, TypeOK
    <3>2. QED
      BY <1>2, <2>1, <3>1 DEF TestedFor
  <2>2. CASE v # w
    BY <1>0, <1>2, <2>2, TestedFrame DEF Begin, Goto, Update, TypeOK
  <2>3. QED
    BY <2>1, <2>2
<1>3. ASSUME NEW p \in UsbPatches, NEW r, SetConfig(p, r) PROVE TestedFor(w)'
  <2>1. PICK config, revision : Begin("usb", "check", config, revision, DOMAIN p)
    BY <1>3 DEF SetConfig, Begin
  <2>2. QED
    BY <1>2, <2>1, WriterFacts
<1>4. ASSUME NEW p \in WebPatches, PostConfig(p) PROVE TestedFor(w)'
  <2>1. PICK config : Begin("web", "check", config, AnyRevision, DOMAIN p)
    BY <1>4 DEF PostConfig
  <2>2. QED
    BY <1>2, <2>1, WriterFacts
<1>5. ASSUME NEW s \in Ssid, SaveCredentials(s) PROVE TestedFor(w)'
  <2>1. PICK config : Begin("wifi", "replace", config, AnyRevision, {"ssid"})
    BY <1>5 DEF SaveCredentials
  <2>2. QED
    BY <1>2, <2>1, WriterFacts
<1>6. ASSUME NEW v \in Writer, v # w, Step(v) PROVE TestedFor(w)'
  <2>1. CASE Install(v)
    <3>1. CASE v = "main"
      <4>1. pc'[w] = "idle"
        BY <1>0, <2>1, <3>1 DEF Install, Locking, Update, TypeOK
      <4>2. QED
        BY <1>0, <4>1, TestedIdle
    <3>2. CASE v # "main"
      <4>1. /\ pc'[w] = pc[w] /\ pc[w] # "persist" /\ guard'[w] = guard[w]
            /\ ram'.revision = ram.revision + 1
        BY <1>0, <1>6, <2>1, <3>2 DEF Install, Forget, Update, Locking, TypeOK
      <4>2. pc[w] \in {"test", "replace"} =>
               guard[w] \in Nat /\ guard[w] <= ram'.revision /\ guard[w] # ram'.revision
        BY <4>1 DEF TestedFor, TypeOK
      <4>3. pc'[w] = "check" /\ w = "web" => guard'[w] = AnyRevision
        BY <4>1 DEF TestedFor
      <4>4. QED
        BY <4>1, <4>2, <4>3 DEF TestedFor
    <3>3. QED
      BY <3>1, <3>2
  <2>2. CASE Assign(v)
    <3>1. CASE pc[w] \in {"store", "crossed"}
      <4>1. pc'[w] = "crossed"
        BY <1>0, <1>6, <2>2, <3>1 DEF Assign, Storing
      <4>2. QED
        BY <1>0, <4>1, TestedIdle
    <3>2. CASE pc[w] \notin {"store", "crossed"}
      BY <1>0, <1>6, <2>2, <3>2, TestedFrame DEF Assign, Storing, Update, TypeOK
    <3>3. QED
      BY <3>1, <3>2
  <2>3. CASE Refused(v) \/ PersistFails(v)
    BY <1>0, <1>6, <2>3, TestedFrame
    DEF Refused, PersistFails, Done, Forget, Update, volatile, TypeOK
  <2>4. CASE (Check(v) \/ Test(v) \/ Refresh(v)) /\ ~Refused(v)
    BY <1>0, <1>6, <2>4, TestedFrame
    DEF Check, Test, Refresh, Goto, Update, volatile, history, TypeOK
  <2>5. CASE Replace(v) /\ ~Refused(v)
    BY <1>0, <1>6, <2>5, TestedFrame DEF Replace, Forget, Update, volatile, history, TypeOK
  <2>6. CASE WriteEntry(v)
    BY <1>0, <2>6, TestedFrame DEF WriteEntry, volatile, locals, history
  <2>7. QED
    BY <1>6, <2>1, <2>2, <2>3, <2>4, <2>5, <2>6 DEF Step, Persist, GiveUp
<1>7. CASE Step(w)
  <2>1. CASE WriteEntry(w)
    BY <1>0, <2>1, TestedFrame DEF WriteEntry, volatile, locals, history
  <2>2. QED
    BY <1>7, <2>1, TestedOwn DEF Step, Persist, GiveUp
<1>8. CASE BeginRecording
  <2>1. /\ UNCHANGED <<ram, pc, want, guard, snap>>
        /\ pc[w] \in {"replace", "persist"} => w \in late'
    BY <1>8 DEF BeginRecording, locals
  <2>2. QED
    BY <2>1 DEF TestedFor
<1>9. CASE EndRecording \/ UNCHANGED vars
  <2>1. /\ UNCHANGED <<ram, pc, want, guard, snap>>
        /\ recording' => recording /\ late' = late
    BY <1>9 DEF EndRecording, vars, locals, history
  <2>2. QED
    BY <1>0, <2>1, TestedFrame
<1>10. CASE StopUsb
  <2>1. CASE w = "usb"
    BY <1>0, <1>10, <2>1, StopFacts, TestedIdle
  <2>2. CASE w # "usb"
    <3>1. CASE pc'[w] = "crossed"
      BY <1>0, <3>1, TestedIdle
    <3>2. CASE pc'[w] # "crossed"
      <4>1. pc'[w] = pc[w] /\ UNCHANGED <<ram, recording>>
        BY <1>0, <1>10, <2>2, <3>2, StopFacts
      <4>2. want'[w] = want[w] /\ guard'[w] = guard[w] /\ snap'[w] = snap[w] /\ (w \in late => w \in late')
        BY <1>0, <1>10, <2>2 DEF StopUsb, Forget, Update, TypeOK
      <4>3. QED
        BY <1>0, <4>1, <4>2, TestedFrame
    <3>3. QED
      BY <3>1, <3>2
  <2>3. QED
    BY <2>1, <2>2
<1>11. QED
  BY <1>1, <1>3, <1>4, <1>5, <1>6, <1>7, <1>8, <1>9, <1>10 DEF Next

------------------------------------------------------------------------------
(***************************************************************************)
(* Nothing overlaps                                                        *)
(***************************************************************************)
LEMMA AloneOnly ==
    ASSUME NEW w \in Clients,
           up' /\ overlap' # "now" =>
             /\ \A v \in Clients \ {w} : pc'[v] = "idle"
             /\ AloneFor(w)'
             /\ overlap' = "none" /\ pc'[w] \notin {"refresh", "store"} => copy' = ram'.config
    PROVE  Alone'
<1> SUFFICES ASSUME up', overlap' # "now"
             PROVE  OneBusy' /\ CopyAgrees' /\ \A v \in Clients : AloneFor(v)'
  BY DEF Alone
<1>1. \A v \in Clients \ {w} : AloneFor(v)'
  BY DEF AloneFor
<1>2. OneBusy' /\ CopyAgrees'
  BY DEF OneBusy, CopyAgrees
<1>3. QED
  BY <1>1, <1>2

LEMMA AloneIdle ==
    ASSUME up' /\ overlap' # "now" =>
             /\ \A v \in Clients : pc'[v] = "idle"
             /\ overlap' = "none" => copy' = ram'.config
    PROVE  Alone'
<1>1. up' /\ overlap' # "now" => AloneFor("usb")'
  BY WriterFacts DEF AloneFor
<1>2. QED
  BY <1>1, AloneOnly, WriterFacts

\* The step of the one request that is served
LEMMA AloneMove ==
    ASSUME Alone, NEW w \in Clients, pc[w] # "idle",
           \A v \in Clients \ {w} : pc'[v] = pc[v],
           UNCHANGED <<up, overlap>>,
           up /\ overlap # "now" =>
             /\ AloneFor(w)'
             /\ overlap = "none" /\ pc'[w] \notin {"refresh", "store"} => copy' = ram'.config
    PROVE  Alone'
<1>1. up /\ overlap # "now" => \A v \in Clients \ {w} : pc[v] = "idle"
  BY DEF Alone, OneBusy
<1>2. QED
  BY <1>1, AloneOnly

\* What holds when w is the request served
LEMMA AloneHere ==
    ASSUME Alone, up, overlap # "now", NEW w \in Clients, pc[w] # "idle"
    PROVE  /\ AloneFor(w)
           /\ \A v \in Clients \ {w} : pc[v] = "idle"
           /\ overlap = "none" /\ pc[w] \notin {"refresh", "store"} => copy = ram.config
<1>1. AloneFor(w) /\ \A v \in Clients \ {w} : pc[v] = "idle"
  BY DEF Alone, OneBusy
<1>2. overlap = "none" /\ pc[w] \notin {"refresh", "store"} => copy = ram.config
  BY <1>1 DEF Alone, CopyAgrees
<1>3. QED
  BY <1>1, <1>2

LEMMA AloneBegin ==
    ASSUME TypeOK, Alone, NEW w \in Clients, NEW stage \in {"check", "replace"}, NEW config,
           NEW revision, NEW fields, Begin(w, stage, config, revision, fields),
           up /\ overlap = "none" /\ (\A v \in Clients : pc[v] = "idle") /\ copy = ram.config =>
             /\ w # "usb" => \A f \in Field \ fields : config[f] = ram.config[f]
             /\ w = "wifi" => RecordingFields(config) = Recorded
    PROVE  Alone'
<1> USE WriterFacts
<1>1. /\ pc'[w] = stage /\ want'[w] = config /\ named'[w] = fields
      /\ \A v \in Clients \ {w} : pc'[v] = pc[v]
      /\ up' = up /\ copy' = copy /\ ram' = ram /\ recording' = recording
  BY DEF Begin, Goto, Update, TypeOK
<1>2. /\ overlap' # "now" => \A v \in Clients : pc[v] = "idle"
      /\ overlap' = "none" => overlap = "none"
  BY DEF Begin
<1> SUFFICES ASSUME up, overlap' # "now"
             PROVE  AloneFor(w)' /\ (overlap' = "none" => copy = ram.config)
  BY <1>1, <1>2, AloneOnly
<1>3. overlap' = "none" => copy = ram.config
  BY <1>2 DEF Alone, CopyAgrees
<1>4. AloneFor(w)'
  BY <1>1, <1>2, <1>3 DEF AloneFor, Agrees, SameFields, Recorded
<1>5. QED
  BY <1>3, <1>4

\* Nobody stores a snapshot: the copy reads as what it is.
LEMMA CopyReadsQuiet ==
    ASSUME TypeOK, \A v \in Clients : pc[v] = "idle", NEW base \in CopyReads
    PROVE  base = copy
<1>1. Storing = {}
  BY DEF Storing
<1>2. {copy} \cup {snap[w] : w \in Storing} = {copy}
  BY <1>1
<1>3. base \in Mixtures({copy})
  BY <1>2 DEF CopyReads
<1>4. PICK c \in Config : c = copy
  BY DEF TypeOK
<1>5. base \in Mixtures({c}) /\ {c} \in SUBSET Config
  BY <1>3, <1>4
<1>6. base = c
  BY <1>5, MixtureType
<1>7. QED
  BY <1>4, <1>6

LEMMA AloneStep ==
    TypeOK /\ Locking /\ Writing /\ Sound /\ Tested /\ Deleted /\ Alone /\ [Next]_vars => Alone'
<1> SUFFICES ASSUME TypeOK, Locking, Writing, Sound, Tested, Deleted, Alone, [Next]_vars
             PROVE  Alone'
  OBVIOUS
<1> USE WriterFacts
<1>1. CASE Load
  <2>1. \A v \in Clients : pc'[v] = "idle"
    BY <1>1 DEF Load, Locking, Update, TypeOK
  <2>2. up' => copy' = ram'.config
    <3>1. \A revision, config : Initialized(revision, config) => copy' = ram'.config
      BY DEF Initialized
    <3>2. QED
      BY <1>1, <3>1 DEF Load
  <2>3. QED
    BY <2>1, <2>2, AloneIdle
<1>2. ASSUME NEW p \in UsbPatches, NEW r \in Told, SetConfig(p, r)
      PROVE  Alone'
  <2> DEFINE meant == IF r = AnyRevision THEN ram.revision ELSE r
             patched == Patch(ram.config, p)
  <2>1. Begin("usb", "check", patched, meant, DOMAIN p)
    BY <1>2 DEF SetConfig
  <2> HIDE DEF meant, patched
  <2>2. PICK config, revision : Begin("usb", "check", config, revision, DOMAIN p)
    BY <2>1 DEF Begin
  <2>3. QED
    BY <2>2, AloneBegin
<1>3. ASSUME NEW p \in WebPatches, PostConfig(p) PROVE Alone'
  <2>1. PICK base \in CopyReads : Begin("web", "check", Patch(base, p), AnyRevision, DOMAIN p)
    BY <1>3 DEF PostConfig
  <2>2. (\A v \in Clients : pc[v] = "idle") /\ copy = ram.config =>
           \A f \in Field \ DOMAIN p : Patch(base, p)[f] = ram.config[f]
    BY CopyReadsQuiet DEF Patch
  <2>3. PICK config, revision, fields :
           /\ Begin("web", "check", config, revision, fields)
           /\ (\A v \in Clients : pc[v] = "idle") /\ copy = ram.config =>
                 \A f \in Field \ fields : config[f] = ram.config[f]
    BY <2>1, <2>2
  <2>4. QED
    BY <2>3, AloneBegin
<1>4. ASSUME NEW s \in Ssid, SaveCredentials(s) PROVE Alone'
  <2>1. PICK base \in CopyReads :
           Begin("wifi", "replace", [base EXCEPT !["ssid"] = s], AnyRevision, {"ssid"})
    BY <1>4 DEF SaveCredentials
  <2>2. \A f \in Field \ {"ssid"} : [base EXCEPT !["ssid"] = s][f] = base[f]
    BY CopyReadsType, NamedSsid
  <2>3. (\A v \in Clients : pc[v] = "idle") /\ copy = ram.config =>
           /\ \A f \in Field \ {"ssid"} : [base EXCEPT !["ssid"] = s][f] = ram.config[f]
           /\ RecordingFields([base EXCEPT !["ssid"] = s]) = Recorded
    BY <2>2, CopyReadsQuiet DEF RecordingFields, Recorded, Field
  <2>4. PICK config, revision, fields :
           /\ Begin("wifi", "replace", config, revision, fields)
           /\ (\A v \in Clients : pc[v] = "idle") /\ copy = ram.config =>
                 /\ \A f \in Field \ fields : config[f] = ram.config[f]
                 /\ RecordingFields(config) = Recorded
    BY <2>1, <2>3
  <2>5. QED
    BY <2>4, AloneBegin
<1>5. ASSUME NEW w \in Clients, Refused(w) \/ PersistFails(w), pc[w] \notin {"idle", "refresh", "store"}
      PROVE  Alone'
  <2>1. /\ pc'[w] = "idle" /\ \A v \in Clients \ {w} : pc'[v] = pc[v]
        /\ UNCHANGED <<up, overlap, copy, ram>>
    BY <1>5 DEF Refused, PersistFails, Done, Update, TypeOK, volatile
  <2>2. up /\ overlap # "now" => AloneFor(w)' /\ (overlap = "none" => copy' = ram'.config)
    BY <1>5, <2>1, AloneHere DEF AloneFor
  <2>3. QED
    BY <1>5, <2>1, <2>2, AloneMove
<1>6. ASSUME NEW w \in Clients, Check(w) \/ Test(w) PROVE Alone'
  <2>1. CASE Refused(w) /\ Test(w)
    BY <1>5, <2>1 DEF Test
  <2>2. CASE Check(w) \/ (Test(w) /\ ~Refused(w))
    <3>1. /\ pc[w] \in {"check", "test"} /\ pc'[w] \in {"test", "replace"}
          /\ \A v \in Clients \ {w} : pc'[v] = pc[v]
          /\ UNCHANGED <<up, overlap, copy, ram, want, named>>
      BY <2>2 DEF Check, Test, Goto, Update, TypeOK, volatile, history
    <3>2. up /\ overlap # "now" => AloneFor(w)' /\ (overlap = "none" => copy' = ram'.config)
      BY <3>1, AloneHere DEF AloneFor, Agrees, SameFields, Recorded
    <3>3. QED
      BY <3>1, <3>2, AloneMove
  <2>3. QED
    BY <1>6, <2>1, <2>2
<1>7. ASSUME NEW w \in Clients, GiveUp(w) PROVE Alone'
  <2>1. pc[w] \in {"check", "replace", "refresh"} /\ lock # Nobody /\ pc'[w] = "idle"
        /\ (\A v \in Clients \ {w} : pc'[v] = pc[v]) /\ UNCHANGED <<up, overlap>>
    BY <1>7 DEF GiveUp, Refused, Done, Update, TypeOK, volatile
  <2>2. lock # "gone" => pc[lock] = "persist" /\ lock \in Writer
    BY <2>1 DEF Locking, TypeOK
  <2>3. up /\ lock # "gone" => lock \in Clients
    BY <2>2 DEF Locking, Writer, Clients
  <2>4. ~(up /\ overlap = "none")
    BY <2>1, <2>2, <2>3, AloneHere DEF Deleted
  <2>5. AloneFor(w)' \/ overlap' = "none"
    BY <2>1 DEF AloneFor
  <2>6. QED
    BY <2>1, <2>4, <2>5, AloneMove
<1>8. ASSUME NEW w \in Clients, Replace(w) PROVE Alone'
  <2>1. CASE Refused(w)
    BY <1>5, <1>8, <2>1 DEF Replace
  <2>2. CASE ~Refused(w)
    <3>1. /\ pc[w] = "replace" /\ pc'[w] \in {"refresh", "persist"}
          /\ \A v \in Clients \ {w} : pc'[v] = pc[v]
          /\ UNCHANGED <<up, overlap, copy, ram>>
          /\ pc'[w] = "persist" => UNCHANGED <<want, named>>
      BY <1>8, <2>2 DEF Replace, Update, TypeOK, volatile, history
    <3>2. up /\ overlap # "now" => AloneFor(w)' /\ (overlap = "none" => copy' = ram'.config)
      BY <3>1, AloneHere DEF AloneFor, Agrees, SameFields, Recorded, FromCopy
    <3>3. QED
      BY <3>1, <3>2, AloneMove
  <2>3. QED
    BY <2>1, <2>2
<1>9. ASSUME NEW w \in Clients, Install(w) PROVE Alone'
  <2>1. /\ pc[w] = "persist" /\ pc'[w] = "refresh" /\ \A v \in Clients \ {w} : pc'[v] = pc[v]
        /\ UNCHANGED <<up, overlap, copy, recording, late>> /\ ram'.config = want[w]
    BY <1>9 DEF Install, Update, TypeOK, history
  <2>2. up /\ overlap = "none" /\ (w = "wifi" \/ (recording /\ w \notin late)) => SameFields(w)
    <3>1. CASE w = "wifi"
      BY <2>1, <3>1, AloneHere DEF AloneFor
    <3>2. CASE w # "wifi"
      BY <2>1, <3>2 DEF Tested, TestedFor, Clients, Writer
    <3>3. QED
      BY <3>1, <3>2
  <2>3. up /\ overlap = "none" => FromCopy = Recorded
    BY <2>1, AloneHere DEF FromCopy, Recorded
  <2>4. up /\ overlap # "now" => AloneFor(w)'
    BY <2>1, <2>2, <2>3 DEF AloneFor, SameFields, FromCopy, Recorded
  <2>5. QED
    BY <2>1, <2>4, AloneMove
<1>10. ASSUME NEW w \in Clients, Refresh(w) PROVE Alone'
  <2>1. /\ pc[w] = "refresh" /\ pc'[w] = "store" /\ \A v \in Clients \ {w} : pc'[v] = pc[v]
        /\ UNCHANGED <<up, overlap, ram, copy, recording, late>> /\ snap'[w] = ram.config
    BY <1>10 DEF Refresh, Goto, Update, TypeOK, volatile, history
  <2>2. up /\ overlap # "now" => AloneFor(w)'
    BY <2>1, AloneHere DEF AloneFor, FromCopy, Recorded
  <2>3. QED
    BY <2>1, <2>2, AloneMove
<1>11. ASSUME NEW w \in Clients, Assign(w) PROVE Alone'
  <2>1. /\ pc[w] \in {"store", "crossed"} /\ w \in Storing /\ pc'[w] = "idle"
        /\ UNCHANGED <<up, ram>> /\ (overlap' # "now" => overlap # "now")
        /\ copy' \in Mixtures({snap[x] : x \in Storing} \cup (IF pc[w] = "crossed" THEN {copy} ELSE {}))
    BY <1>11 DEF Assign, Storing
  <2> SUFFICES ASSUME up, overlap # "now" PROVE copy' = ram'.config /\ \A v \in Clients \ {w} : pc'[v] = "idle"
    <3>1. pc'[w] = "idle" => AloneFor(w)'
      BY DEF AloneFor
    <3>2. QED
      BY <2>1, <3>1, AloneOnly
  <2>2. \A v \in Clients \ {w} : pc[v] = "idle"
    BY <2>1, AloneHere
  <2>3. Storing = {w} /\ pc[w] = "store" /\ snap[w] = ram.config
    BY <2>1, <2>2, AloneHere DEF AloneFor, Storing
  <2>4. \A v \in Clients \ {w} : pc'[v] = "idle"
    BY <1>11, <2>2, <2>3 DEF Assign
  <2>5. copy' \in Mixtures({ram.config})
    <3>1. {snap[x] : x \in Storing} \cup (IF pc[w] = "crossed" THEN {copy} ELSE {}) = {ram.config}
      BY <2>3
    <3>2. QED
      BY <2>1, <3>1
  <2>6. copy' = ram.config
    <3>1. PICK c \in Config : c = ram.config
      BY DEF TypeOK
    <3>2. PICK m \in Mixtures({c}) : m = copy'
      BY <2>5, <3>1
    <3>3. {c} \in SUBSET Config
      OBVIOUS
    <3>4. m = c
      BY <3>3, MixtureType
    <3>5. QED
      BY <3>1, <3>2, <3>4
  <2>7. QED
    BY <2>1, <2>4, <2>6
<1>12. ASSUME NEW w \in Writer, WriteEntry(w) PROVE Alone'
  BY <1>12
  DEF WriteEntry, volatile, locals, history, Alone, OneBusy, CopyAgrees, AloneFor, Agrees,
      SameFields, Recorded, FromCopy
<1>13. ASSUME Step("main") PROVE Alone'
  <2>1. pc["main"] = "persist" /\ ~up /\ \A v \in Clients : pc[v] = "idle"
    BY <1>13 DEF Step, Check, Test, GiveUp, Replace, Persist, WriteEntry, PersistFails, Install, Refresh,
                 Goto, Assign, Storing, Locking
  <2>2. CASE WriteEntry("main") \/ PersistFails("main")
    <3>1. up' = up
      BY <2>2 DEF WriteEntry, PersistFails, volatile
    <3>2. QED
      BY <2>1, <3>1 DEF Alone
  <2>3. CASE Install("main")
    <3>1. copy' = ram'.config /\ \A v \in Clients : pc'[v] = "idle"
      BY <2>1, <2>3 DEF Install, Initialized, Update, TypeOK
    <3>2. QED
      BY <3>1, AloneIdle
  <2>4. QED
    BY <1>13, <2>1, <2>2, <2>3 DEF Step, Persist, Check, Test, GiveUp, Replace, Refresh, Goto, Assign, Storing
<1>14. CASE BeginRecording
  <2>1. /\ UNCHANGED <<up, ram, copy, pc, want, snap, named, overlap>>
        /\ \A w \in {"usb", "web"} : pc[w] \in {"refresh", "store"} => w \in late'
    BY <1>14 DEF BeginRecording, locals
  <2>2. OneBusy' = OneBusy /\ CopyAgrees' = CopyAgrees
    BY <2>1 DEF OneBusy, CopyAgrees
  <2>3. \A w \in Clients : w = "wifi" \/ w \in {"usb", "web"}
    BY DEF Clients, Writer
  <2>4. \A w \in Clients : AloneFor(w) => AloneFor(w)'
    BY <2>1, <2>3 DEF AloneFor, Agrees, SameFields, Recorded, FromCopy
  <2>5. QED
    BY <2>1, <2>2, <2>4 DEF Alone
<1>15. CASE EndRecording \/ UNCHANGED vars
  <2>1. /\ UNCHANGED <<up, ram, copy, pc, want, snap, named, overlap>>
        /\ recording' => recording /\ late' = late
    BY <1>15 DEF EndRecording, vars, locals, history
  <2>2. OneBusy' = OneBusy /\ CopyAgrees' = CopyAgrees
    BY <2>1 DEF OneBusy, CopyAgrees
  <2>3. \A w \in Clients : AloneFor(w) => AloneFor(w)'
    BY <2>1 DEF AloneFor, Agrees, SameFields, Recorded, FromCopy
  <2>4. QED
    BY <2>1, <2>2, <2>3 DEF Alone
<1>16. CASE Crash
  BY <1>16 DEF Crash, Alone
<1>17. ASSUME NEW w \in Clients, Step(w) PROVE Alone'
  <2>1. CASE PersistFails(w)
    BY <1>5, <2>1 DEF PersistFails
  <2>2. QED
    BY <1>6, <1>7, <1>8, <1>9, <1>10, <1>11, <1>12, <1>17, <2>1 DEF Step, Persist
<1>18. CASE StopUsb
  BY <1>18, StopFacts DEF Alone
<1>19. QED
  <2>1. \A w \in Writer : w = "main" \/ w \in Clients
    BY DEF Clients
  <2>2. QED
    BY <1>1, <1>2, <1>3, <1>4, <1>13, <1>14, <1>15, <1>16, <1>17, <1>18, <2>1
    DEF Next

------------------------------------------------------------------------------
(***************************************************************************)
(* The invariant                                                           *)
(***************************************************************************)
LEMMA InitIInv == Init => IInv
<1> SUFFICES ASSUME Init PROVE IInv
  OBVIOUS
<1>1. TypeOK
  BY TypeInit
<1>2. Locking
  BY NobodyAssumption, WriterFacts DEF Init, Locking
<1>3. Writing /\ Guarded /\ Tested
  BY WriterFacts DEF Init, Writing, Guarded, Tested, TestedFor, Clients
<1>4. Sound
  BY DefaultsFine DEF Init, Sound
<1>5. Stored /\ Texts /\ Alone
  BY DEF Init, Stored, Texts, Alone
<1>6. Deleted
  BY NobodyAssumption DEF Init, Deleted
<1>7. QED
  BY <1>1, <1>2, <1>3, <1>4, <1>5, <1>6 DEF IInv

LEMMA DeletedStep == TypeOK /\ Locking /\ Deleted /\ [Next]_vars => Deleted'
<1> SUFFICES ASSUME TypeOK, Locking, Deleted, [Next]_vars, lock' = "gone" PROVE Deleted'
  BY DEF Deleted
<1> USE WriterFacts, NobodyAssumption
<1>1. CASE StopUsb
  BY <1>1, StopFacts DEF Deleted
<1>2. ASSUME lock' = lock, NEW w \in Clients, pc[w] = "idle", pc'[w] \in {"check", "replace"},
             \A v \in Clients \ {w} : pc'[v] = pc[v],
             overlap # "none" => overlap' # "none",
             overlap' # "now" => \A v \in Clients : pc[v] = "idle"
      PROVE  Deleted'
  BY <1>2 DEF Deleted
<1>3. ASSUME NEW w \in Writer, Step(w) PROVE Deleted'
  <2>1. lock = "gone" /\ lock' = lock
    BY <1>3 DEF Step, Check, Test, GiveUp, Replace, Persist, WriteEntry, PersistFails, Install,
                Refresh, Assign, Refused
  <2>2. CASE Persist(w)
    <3>1. pc[w] = "persist"
      BY <2>2 DEF Persist, WriteEntry, PersistFails, Install
    <3>2. QED
      BY <2>1, <3>1 DEF Locking
  <2>3. CASE Assign(w)
    <3>1. pc[w] \in {"store", "crossed"} /\ w \in Clients
      BY <2>3 DEF Assign, Storing
    <3>2. overlap = "now"
      BY <2>1, <3>1 DEF Deleted
    <3>3. overlap' = "now"
      BY <2>3, <3>2 DEF Assign
    <3>4. QED
      BY <3>3 DEF Deleted
  <2>4. CASE Test(w) \/ GiveUp(w)
    <3>1. overlap' = overlap /\ \A v \in Writer : pc'[v] = pc[v] \/ pc'[v] \in {"idle", "replace"}
      BY <2>4 DEF Test, GiveUp, Refused, Done, Update, history, TypeOK
    <3>2. QED
      BY <2>1, <3>1 DEF Deleted
  <2>5. QED
    BY <1>3, <2>1, <2>2, <2>3, <2>4 DEF Step, Check, Replace, Refresh
<1>4. ASSUME NEW p \in UsbPatches, NEW r, SetConfig(p, r) PROVE Deleted'
  BY <1>4 DEF SetConfig, Begin
<1>5. ASSUME NEW p \in WebPatches, PostConfig(p) PROVE Deleted'
  BY <1>2, <1>5 DEF PostConfig, Begin, Goto, Update, TypeOK
<1>6. ASSUME NEW s \in Ssid, SaveCredentials(s) PROVE Deleted'
  BY <1>2, <1>6 DEF SaveCredentials, Begin, Goto, Update, TypeOK
<1>7. CASE BeginRecording \/ EndRecording \/ UNCHANGED vars
  <2>1. UNCHANGED <<lock, overlap, pc>>
    BY <1>7 DEF BeginRecording, EndRecording, vars, locals, history
  <2>2. QED
    BY <2>1 DEF Deleted
<1>8. CASE Load
  <2>1. lock' = lock /\ UNCHANGED <<overlap, pc>>
    BY <1>8 DEF Load, history
  <2>2. QED
    BY <2>1 DEF Deleted
<1>9. CASE Crash
  BY <1>9 DEF Crash
<1>10. QED
  BY <1>1, <1>3, <1>4, <1>5, <1>6, <1>7, <1>8, <1>9 DEF Next

LEMMA StepIInv == IInv /\ [Next]_vars => IInv'
BY TypeStep, LockStep, WritingStep, SoundStep, StoredStep, TextsStep, GuardedStep, TestedStep,
   DeletedStep, AloneStep
DEF IInv

\* The conjunction that is inductive: types, the lock, what is being written, NVS
\* against memory, the revision guard, the recorder's test, and requests that do
\* not overlap.
THEOREM Invariance == Spec => []IInv
<1>1. QED
  BY InitIInv, StepIInv, PTL DEF Spec

\* Types, and the revision's last value: day_settings_replace never passes it.
THEOREM Types == Spec => []TypeOK
<1>1. IInv => TypeOK
  BY DEF IInv
<1>2. QED
  BY <1>1, Invariance, PTL

------------------------------------------------------------------------------
(***************************************************************************)
(* Steps                                                                   *)
(***************************************************************************)
\* Memory is written in two places: at boot and when a writer has stored all
\* entries.
LEMMA RamChanges ==
    ASSUME [Next]_vars, ram' # ram
    PROVE  Load \/ \E w \in Writer : Install(w)
BY DEF Next, Step, Persist, SetConfig, PostConfig, SaveCredentials, Begin, Check, Test, GiveUp,
       Replace, Refused, WriteEntry, PersistFails, Refresh, Assign, BeginRecording, EndRecording, StopUsb,
       Crash, vars

LEMMA InstallFacts ==
    ASSUME IInv, NEW w \in Writer, Install(w)
    PROVE  /\ pc[w] = "persist" /\ ram'.config = want[w]
           /\ ram'.revision = ram.revision + 1
           /\ w = "main" <=> ~up
<1>1. pc[w] = "persist" /\ (w = "main" <=> ~up)
  BY WriterFacts DEF Install, IInv, Locking, Clients
<1>2. CASE w = "main"
  <2>1. ram'.config = want[w] /\ ram'.revision = 1
    BY <1>2 DEF Install, Initialized
  <2>2. ram.revision = 0
    BY <1>1, <1>2 DEF IInv, Writing
  <2>3. QED
    BY <1>1, <2>1, <2>2
<1>3. CASE w # "main"
  BY <1>1, <1>3 DEF Install
<1>4. QED
  BY <1>2, <1>3

LEMMA ConfigValidStep ==
    IInv /\ [Next]_vars =>
      (ram' # ram => /\ InRange(ram'.config)
                     /\ ram'.config["ssid"] \in Wellformed
                        \/ ram.revision = 0 \/ ram'.config["ssid"] = ram.config["ssid"])
<1> SUFFICES ASSUME IInv, [Next]_vars, ram' # ram
             PROVE  /\ InRange(ram'.config)
                    /\ ram'.config["ssid"] \in Wellformed
                       \/ ram.revision = 0 \/ ram'.config["ssid"] = ram.config["ssid"]
  OBVIOUS
<1>1. CASE Load
  <2>1. ram'.config = Loaded
    BY <1>1 DEF Load, Initialized
  <2>2. InRange(Loaded) /\ Loaded["ssid"] = IF nvs["ssid"] = Missing THEN DefaultSsid ELSE nvs["ssid"]
    BY LoadedFine DEF IInv, TypeOK
  <2>3. QED
    BY <2>1, <2>2, SsidAssumption DEF IInv, Texts
<1>2. ASSUME NEW w \in Writer, Install(w)
      PROVE  InRange(ram'.config) /\ (ram'.config["ssid"] \in Wellformed \/ ram.revision = 0)
  <2>1. pc[w] = "persist" /\ ram'.config = want[w]
    BY <1>2, InstallFacts
  <2>2. QED
    BY <2>1 DEF IInv, Writing, Valid, Clients
<1>3. QED
  BY <1>1, <1>2, RamChanges

\* Whatever a power loss left in NVS and whatever a client sent: what comes into
\* memory is in range, and a malformed text only if an older firmware stored it
\* and no request has replaced it.
THEOREM Validity == Spec => ConfigValid
<1>1. QED
  BY Invariance, ConfigValidStep, PTL DEF Spec, ConfigValid

\* What is loaded from NVS is what was told under that revision, or newer.
LEMMA RevisionStep == IInv /\ [Next]_vars => (ram' # ram => ram'.revision > ram.revision)
<1> SUFFICES ASSUME IInv, [Next]_vars, ram' # ram PROVE ram'.revision > ram.revision
  OBVIOUS
<1>1. ram \in [revision : 0..MaxRevision, config : Config]
  BY DEF IInv, TypeOK
<1>2. CASE Load
  <2>1. Current /\ ram' = [revision |-> Revision, config |-> Loaded]
    BY <1>2 DEF Load, Initialized
  <2>2. Revision \in Nat /\ Revision # 0
    BY <2>1, LoadedFine DEF Current, IInv, TypeOK
  <2>3. ram.revision # 0 => Revision >= ram.revision /\ (Revision = ram.revision => Loaded = ram.config)
    BY DEF IInv, Stored
  <2>4. ram = [revision |-> ram.revision, config |-> ram.config]
    BY <1>1
  <2>5. QED
    BY <1>1, <2>1, <2>2, <2>3, <2>4
<1>3. ASSUME NEW w \in Writer, Install(w) PROVE ram'.revision > ram.revision
  BY <1>1, <1>3, InstallFacts
<1>4. QED
  BY <1>2, <1>3, RamChanges

\* No two configurations are ever told under one revision, across crashes and
\* failed writes: the next number is stored before the first field.
THEOREM RevisionTheorem == Spec => RevisionIdentifies
<1>1. QED
  BY Invariance, RevisionStep, PTL DEF Spec, RevisionIdentifies

\* An install by a client is its own.
LEMMA WhoInstalls ==
    ASSUME IInv, [Next]_vars, NEW w \in Clients, Installs(w)
    PROVE  Install(w) /\ up
<1>1. pc[w] = "persist" /\ ram' # ram
  BY DEF Installs
<1>2. lock = w /\ up
  BY <1>1, WriterFacts DEF IInv, Locking
<1>3. PICK x \in Writer : Install(x)
  BY <1>1, <1>2, RamChanges DEF Load
<1>4. x = w
  BY <1>2, <1>3 DEF Install, IInv, Locking
<1>5. QED
  BY <1>2, <1>3, <1>4

\* A SET_CONFIG whose revision counts was made from what it replaces.
LEMMA GuardedKeepsStep == IInv /\ [Next]_vars => (Installs("usb") => KeepsOthers("usb"))
<1> SUFFICES ASSUME IInv, [Next]_vars, Installs("usb") PROVE KeepsOthers("usb")
  OBVIOUS
<1>1. Install("usb") /\ pc["usb"] = "persist" /\ ram'.config = want["usb"]
  BY WhoInstalls, InstallFacts, WriterFacts
<1>2. Agrees("usb")
  BY <1>1 DEF IInv, Guarded
<1>3. QED
  BY <1>1, <1>2 DEF Agrees, KeepsOthers

\* The optimistic lock of SET_CONFIG, whatever the other two writers do meanwhile.
THEOREM GuardedTheorem == Spec => GuardedKeepsOthers
<1>1. QED
  BY Invariance, GuardedKeepsStep, PTL DEF Spec, GuardedKeepsOthers

LEMMA AloneKeepsStep ==
    IInv /\ [Next]_vars =>
      \A w \in {"web", "wifi"} : Installs(w) /\ overlap = "none" => KeepsOthers(w)
<1> SUFFICES ASSUME IInv, [Next]_vars, NEW w \in {"web", "wifi"}, Installs(w), overlap = "none"
             PROVE  KeepsOthers(w)
  OBVIOUS
<1>1. w \in Clients /\ w \in Writer /\ w # "usb"
  BY DEF Clients, Writer
<1>2. up /\ pc[w] = "persist" /\ ram'.config = want[w]
  BY <1>1, WhoInstalls, InstallFacts
<1>3. Agrees(w)
  BY <1>1, <1>2 DEF IInv, Alone, AloneFor
<1>4. QED
  BY <1>2, <1>3 DEF Agrees, KeepsOthers

\* The two paths that start from the unlocked copy lose nothing while requests do
\* not overlap, and again once one that was served alone has refreshed the copy.
THEOREM AloneTheorem == Spec => AloneKeepsOthers
<1>1. QED
  BY Invariance, AloneKeepsStep, PTL DEF Spec, AloneKeepsOthers

\* Only a running device records.
Records == recording => up

LEMMA RecordsStep == Records /\ [Next]_vars => Records'
<1> SUFFICES ASSUME Records, [Next]_vars PROVE Records'
  OBVIOUS
<1>1. CASE BeginRecording \/ Crash
  BY <1>1 DEF BeginRecording, Crash, Records
<1>2. ASSUME recording' => recording, up => up' PROVE Records'
  BY <1>2 DEF Records
<1>3. ASSUME NEW w \in Writer, Step(w) PROVE (recording' => recording) /\ (up => up')
  BY <1>3 DEF Step, Persist, Check, Test, GiveUp, Replace, Refused, WriteEntry, PersistFails,
              Install, Initialized, Refresh, Assign, volatile
<1>4. CASE Load
  BY <1>2, <1>4 DEF Load, Initialized
<1>5. CASE EndRecording \/ UNCHANGED vars
  BY <1>2, <1>5 DEF EndRecording, vars
<1>6. ASSUME NEW p \in UsbPatches, NEW r, SetConfig(p, r) PROVE Records'
  BY <1>2, <1>6 DEF SetConfig, Begin
<1>7. ASSUME NEW p \in WebPatches, PostConfig(p) PROVE Records'
  BY <1>2, <1>7 DEF PostConfig, Begin
<1>8. ASSUME NEW s \in Ssid, SaveCredentials(s) PROVE Records'
  BY <1>2, <1>8 DEF SaveCredentials, Begin
<1>9. ASSUME NEW w \in Writer, Step(w) PROVE Records'
  BY <1>2, <1>3, <1>9
<1>10. CASE StopUsb
  BY <1>2, <1>10 DEF StopUsb
<1>11. QED
  BY <1>1, <1>4, <1>5, <1>6, <1>7, <1>8, <1>9, <1>10 DEF Next

\* A request that passed the recorder's test during the recording
LEMMA RecordedByTest ==
    ASSUME IInv, NEW w \in {"usb", "web"}, Install(w), recording, w \notin late
    PROVE  Recorded' = Recorded
<1>1. pc[w] = "persist" /\ ram'.config = want[w]
  BY InstallFacts DEF Writer
<1>2. SameFields(w)
  BY <1>1 DEF IInv, Tested, TestedFor
<1>3. QED
  BY <1>1, <1>2 DEF SameFields, Recorded

\* Requests that do not overlap
LEMMA RecordedAlone ==
    ASSUME IInv, [Next]_vars, up, recording, recording', overlap = "none", late = {}
    PROVE  Recorded' = Recorded
<1>1. CASE ram' = ram
  BY <1>1 DEF Recorded
<1>2. CASE ram' # ram
  <2>1. PICK w \in Writer : Install(w)
    BY <1>2, RamChanges DEF Load
  <2>2. w \in Clients /\ pc[w] = "persist" /\ ram'.config = want[w]
    BY <2>1, InstallFacts DEF Clients
  <2>3. CASE w = "wifi"
    <3>1. SameFields(w)
      BY <2>2, <2>3 DEF IInv, Alone, AloneFor
    <3>2. QED
      BY <2>2, <3>1 DEF SameFields, Recorded
  <2>4. CASE w # "wifi"
    BY <2>1, <2>2, <2>4, RecordedByTest DEF Clients, Writer
  <2>5. QED
    BY <2>3, <2>4
<1>3. QED
  BY <1>1, <1>2

LEMMA CopyAlone ==
    ASSUME IInv, [Next]_vars, up, recording, recording', overlap = "none", late = {}
    PROVE  FromCopy' = FromCopy
<1> USE WriterFacts
\* Whoever stores a snapshot is alone, and brings what is there.
<1>1. ASSUME NEW w \in Clients, w \in Storing
      PROVE  Storing = {w} /\ pc[w] = "store" /\ snap[w] = ram.config /\ FromCopy = Recorded
  <2>1. pc[w] \in {"store", "crossed"}
    BY <1>1 DEF Storing
  <2>2. AloneFor(w) /\ \A v \in Clients \ {w} : pc[v] = "idle"
    BY <2>1, AloneHere DEF IInv
  <2>3. pc[w] = "store" /\ snap[w] = ram.config /\ FromCopy = Recorded
    BY <2>1, <2>2 DEF AloneFor
  <2>4. Storing = {w}
    BY <1>1, <2>2 DEF Storing
  <2>5. QED
    BY <2>3, <2>4
<1>2. ASSUME NEW w \in Clients, w \in Storing, NEW S \in SUBSET {copy, ram.config}, copy' \in Mixtures(S)
      PROVE  FromCopy' = FromCopy
  <2>1. S \in SUBSET Config /\ \A c \in S : RecordingFields(c) = FromCopy
    BY <1>1, <1>2 DEF IInv, TypeOK, FromCopy, Recorded
  <2>2. PICK m \in Mixtures(S) : m = copy'
    BY <1>2
  <2>3. RecordingFields(m) = FromCopy
    BY <2>1, <2>2, MixtureType
  <2>4. QED
    BY <2>2, <2>3 DEF FromCopy
<1>3. CASE copy' = copy
  BY <1>3 DEF FromCopy
<1>4. ASSUME NEW w \in Writer, Assign(w) PROVE FromCopy' = FromCopy
  <2>1. w \in Clients /\ w \in Storing
    BY <1>4 DEF Assign, Storing
  <2>2. {snap[x] : x \in Storing} \cup (IF pc[w] = "crossed" THEN {copy} ELSE {}) = {ram.config}
    BY <1>1, <2>1
  <2>3. copy' \in Mixtures({ram.config})
    BY <1>4, <2>2 DEF Assign
  <2>4. QED
    BY <1>2, <2>1, <2>3
<1>5. CASE StopUsb
  <2>1. CASE "usb" \notin Storing
    BY <1>3, <1>5, <2>1 DEF StopUsb
  <2>2. CASE "usb" \in Storing
    <3>1. {copy} \cup {snap[w] : w \in Storing} = {copy, ram.config}
      BY <1>1, <2>2
    <3>2. copy' \in Mixtures({copy, ram.config})
      BY <1>5, <2>2, <3>1 DEF StopUsb, CopyReads
    <3>3. QED
      BY <1>2, <2>2, <3>2
  <2>3. QED
    BY <2>1, <2>2
<1>6. ASSUME NEW w \in Writer, Step(w), ~Assign(w) PROVE copy' = copy
  <2>1. CASE Install(w)
    BY <2>1, InstallFacts DEF Install
  <2>2. CASE ~Install(w)
    BY <1>6, <2>2 DEF Step, Persist, Check, Test, GiveUp, Replace, Refused, WriteEntry, PersistFails,
                      Refresh, volatile
  <2>3. QED
    BY <2>1, <2>2
<1>7. QED
  BY <1>3, <1>4, <1>5, <1>6
  DEF Next, Load, SetConfig, PostConfig, SaveCredentials, Begin, BeginRecording, EndRecording, Crash,
      vars

\* What the recorder uses is what the recorder's test compares.
LEMMA UsesTested ==
    /\ Recorded' = Recorded => InMemory' = InMemory
    /\ FromCopy' = FromCopy => InCopy' = InCopy
BY DEF Recorded, FromCopy, InMemory, InCopy, InUse, RecordingFields

LEMMA RecordingFieldsStep ==
    IInv /\ Records /\ [Next]_vars =>
      (recording /\ recording' =>
         /\ \A w \in {"usb", "web"} : Installs(w) /\ w \notin late => InMemory' = InMemory
         /\ overlap = "none" /\ late = {} => InMemory' = InMemory /\ InCopy' = InCopy)
<1> SUFFICES ASSUME IInv, Records, [Next]_vars, recording, recording'
             PROVE  /\ \A w \in {"usb", "web"} : Installs(w) /\ w \notin late => InMemory' = InMemory
                    /\ overlap = "none" /\ late = {} => InMemory' = InMemory /\ InCopy' = InCopy
  OBVIOUS
<1>1. up
  BY DEF Records
<1>2. ASSUME NEW w \in {"usb", "web"}, Installs(w), w \notin late PROVE Recorded' = Recorded
  BY <1>2, WhoInstalls, RecordedByTest, WriterFacts
<1>3. overlap = "none" /\ late = {} => Recorded' = Recorded /\ FromCopy' = FromCopy
  BY <1>1, RecordedAlone, CopyAlone
<1>4. QED
  BY <1>2, <1>3, UsesTested

\* A recording keeps the frame size and rate it was started with: USB and the page
\* do not change them however requests overlap, unless the request had passed the
\* recorder's test before; without such a request nothing does, in memory and in
\* the copy that the recorder reads, but a Wi-Fi save after requests overlapped.
THEOREM RecordingFieldsTheorem == Spec => RecordingFieldsFixed
<1>1. Init => Records
  BY DEF Init, Records
<1>2. Spec => []Records
  BY <1>1, RecordsStep, PTL DEF Spec
<1>3. QED
  BY <1>2, Invariance, RecordingFieldsStep, PTL DEF Spec, RecordingFieldsFixed
==============================================================================
