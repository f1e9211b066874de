------------------------------ MODULE DayConfig ------------------------------
(***************************************************************************)
(* The configuration (app_config.c) and what makes it valid                *)
(* (device_settings.c).  The camera's fields depend on one another and are *)
(* kept as they are.  ssid stands for the texts (name and password of the  *)
(* network, time zone, NTP server), whose syntax is tested but not         *)
(* repaired, except that an empty time zone or NTP server is replaced;     *)
(* every other number has a range of its own and is repaired as the        *)
(* preview's frame size is.                                                *)
(***************************************************************************)
EXTENDS Integers

CONSTANTS
    Ssid,           \* network names
    Wellformed,     \* those that utf8_valid accepts
    DefaultSsid     \* the empty one, in day_config_defaults

ASSUME SsidAssumption == Wellformed \subseteq Ssid /\ DefaultSsid \in Wellformed

Field == {"cam_fs", "prev_fs", "rec_fs", "prev_fps", "rec_fps", "ssid"}

Value(f) == IF f = "ssid" THEN Ssid ELSE Int

\* day_config_t
Config == {c \in [Field -> Int \cup Ssid] : \A f \in Field : c[f] \in Value(f)}

\* day_config_camera_max_fps
MaxFps(framesize) ==
    CASE framesize <= 10 -> 30
      [] framesize = 11 -> 20
      [] framesize \in 12..13 -> 15
      [] framesize \in 14..15 -> 10
      [] framesize = 16 -> 15
      [] framesize > 16 -> 5

PreviewSizes == {6, 10, 11, 13}
RecordSizes == {10, 11, 13, 15, 16}
RecordRates == {5, 10, 12, 15, 20, 24, 30}

\* day_config_defaults
Defaults ==
    [f \in Field |-> CASE f \in {"cam_fs", "rec_fs"} -> 16
                      [] f = "prev_fs" -> 10
                      [] f = "prev_fps" -> 30
                      [] f = "rec_fps" -> 15
                      [] f = "ssid" -> DefaultSsid]

\* The numbers of day_settings_validate; it does not look at cam_fs.
InRange(c) ==
    /\ c["rec_fs"] \in RecordSizes
    /\ c["rec_fps"] \in RecordRates /\ c["rec_fps"] <= MaxFps(c["rec_fs"])
    /\ c["prev_fs"] \in PreviewSizes
    /\ c["prev_fps"] \in 1..MaxFps(c["prev_fs"])

\* day_settings_validate
Valid(c) == InRange(c) /\ c["ssid"] \in Wellformed

\* Mutant: the recording rate is checked by itself, not against the frame size.
NormalizeRateAlone(c) ==
    LET prev == IF c["prev_fs"] \in PreviewSizes THEN c["prev_fs"] ELSE 10
        rec == IF c["rec_fs"] \in RecordSizes THEN c["rec_fs"] ELSE 16
    IN  [c EXCEPT !["prev_fs"] = prev, !["rec_fs"] = rec,
                  !["prev_fps"] = IF @ \in 1..MaxFps(prev) THEN @ ELSE MaxFps(prev),
                  !["rec_fps"] = IF @ \in RecordRates THEN @ ELSE 10]

\* day_config_normalize: cam_fs first, which stands in for a missing rec_fs.  A
\* text stays as it is, whatever it says.
Normalize(c) ==
    LET cam == IF c["cam_fs"] \in 0..23 THEN c["cam_fs"] ELSE 16
        prev == IF c["prev_fs"] \in PreviewSizes THEN c["prev_fs"] ELSE 10
        wanted == IF c["rec_fs"] <= 0 THEN cam ELSE c["rec_fs"]
        rec == IF wanted \in RecordSizes THEN wanted ELSE 16
    IN  [f \in Field |->
            CASE f = "cam_fs" -> cam
              [] f = "prev_fs" -> prev
              [] f = "rec_fs" -> rec
              [] f = "prev_fps" -> IF c[f] \in 1..MaxFps(prev) THEN c[f] ELSE MaxFps(prev)
              [] f = "rec_fps" -> IF c[f] \in RecordRates /\ c[f] <= MaxFps(rec) THEN c[f]
                                  ELSE IF MaxFps(rec) >= 15 THEN 15 ELSE 10
              [] OTHER -> c[f]]

\* Mutant: the recording rate may change while a recording runs.
SizeOnly(c) == c["rec_fs"]

\* day_settings_recording_fields_changed compares these.
RecordingFields(c) == <<c["rec_fs"], c["rec_fps"]>>

\* A request names some fields and leaves the others as they were.
Patch(c, p) == [f \in Field |-> IF f \in DOMAIN p THEN p[f] ELSE c[f]]

\* What an unlocked read or write of a configuration may give, field by field,
\* while those of a set are being written.
Mixtures(S) == {[f \in Field |-> from[f][f]] : from \in [Field -> S]}
==============================================================================
