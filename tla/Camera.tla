-------------------------------- MODULE Camera -------------------------------
(***************************************************************************)
(* The camera (camera_service.c) and those who share it without a lock:    *)
(* the two callers of record_once (recorder.c), the preview of the web     *)
(* page, which has a server of its own (web_server.c), and a change of the *)
(* settings, by USB or from the page (apply_config_cb, app_core.c).        *)
(* Boot says when each of them can be there.                               *)
(*                                                                         *)
(* day_camera_deinit is two steps, the driver and then the statics, and so *)
(* is an initialisation with a release before it.  What a user obtains     *)
(* from a camera that another one has released is left open: a capture may *)
(* fail at any time.                                                       *)
(***************************************************************************)
EXTENDS Boot

VARIABLES
    driver,     \* esp_camera runs: XCLK and frame buffers
    ready,      \* s_initialized
    capturing,  \* s_status.recording
    use,        \* control point of each user
    stopping,   \* the server that day_web_stop waits for
    crossed     \* history: since the reset an initialisation has ended in the
                \* middle of a release, or found the driver running

camera == <<driver, ready, capturing, use, stopping, crossed>>
allVars == <<vars, camera>>

Recorder == {"main", "web"}
Changer == {"usb", "page"}
User == Recorder \cup Changer \cup {"preview"}

Becomes(u, p) == use' = [use EXCEPT ![u] = p] /\ UNCHANGED stopping

\* Between the two steps of a release
Releasing(u) == use[u] \in {"clear", "last"}

------------------------------------------------------------------------------
(***************************************************************************)
(* init_with_framesize; whether a camera that is ready has the wanted size *)
(* and quality is left open.                                               *)
(***************************************************************************)
Enter(u) ==
    /\ use[u] = "enter"
    /\ \/ ready /\ Becomes(u, "holds")
       \/ ready /\ Becomes(u, "renew")
       \/ ~ready /\ Becomes(u, "power")
    /\ UNCHANGED <<driver, ready, capturing, crossed>>

\* The statics, in an initialisation or at the end of the use
Clear(u) ==
    /\ \/ use[u] = "clear" /\ Becomes(u, "power")
       \/ use[u] = "last" /\ Becomes(u, IF u \in Recorder THEN "done" ELSE "none")
    /\ ready' = FALSE /\ capturing' = FALSE
    /\ UNCHANGED <<driver, crossed>>

\* esp_camera_init, which may fail, and leaves open what it does to a driver
\* that runs already
Power(u) ==
    /\ use[u] = "power"
    /\ \/ /\ Becomes(u, "holds")
          /\ driver' = TRUE /\ ready' = TRUE
       \/ /\ Becomes(u, IF u \in Recorder THEN "leave" ELSE "none")
          /\ driver' \in {driver, FALSE} /\ ready' = FALSE
    /\ crossed' = (crossed \/ driver \/ \E x \in User \ {u} : Releasing(x))
    /\ UNCHANGED capturing

\* day_camera_deinit, as far as the driver, at the end of the use or before an
\* initialisation
Leave(u) ==
    /\ \/ use[u] = "leave" /\ Becomes(u, "last")
       \/ use[u] = "renew" /\ Becomes(u, "clear")
    /\ driver' = (driver /\ ~ready)
    /\ UNCHANGED <<ready, capturing, crossed>>

------------------------------------------------------------------------------
(***************************************************************************)
(* The recorder's part: camera_task and the end of record_once             *)
(***************************************************************************)
\* An error before the camera's turn; the first ones return at once.
Skip(r) ==
    /\ use[r] = "enter"
    /\ Becomes(r, "leave") \/ Becomes(r, "done")
    /\ UNCHANGED <<driver, ready, capturing, crossed>>

\* START, or no file, no task or a CANCEL
StartCapture(r) ==
    /\ use[r] = "holds"
    /\ \/ Becomes(r, "active") /\ capturing' = TRUE
       \/ Becomes(r, "leave") /\ UNCHANGED capturing
    /\ UNCHANGED <<driver, ready, crossed>>

\* Mutant: the flag is left after a failure.
StopKeepsFlag(r) ==
    /\ use[r] = "active"
    /\ Becomes(r, "leave")
    /\ capturing' \in {capturing, FALSE}
    /\ UNCHANGED <<driver, ready, crossed>>

\* STOP or a failure
StopCapture(r) ==
    /\ use[r] = "active"
    /\ Becomes(r, "leave")
    /\ capturing' = FALSE
    /\ UNCHANGED <<driver, ready, crossed>>

Record(r) == Skip(r) \/ StartCapture(r) \/ StopCapture(r)

------------------------------------------------------------------------------
(***************************************************************************)
(* day_camera_stream_mjpeg                                                 *)
(***************************************************************************)
PreviewRequest ==
    /\ web /\ stopping = "none" /\ use["preview"] = "none"
    /\ Becomes("preview", "enter")
    /\ UNCHANGED <<driver, ready, capturing, crossed>>

\* The test of the loop, and a capture
PreviewTest ==
    /\ use["preview"] = "holds"
    /\ \/ ~capturing /\ ready /\ Becomes("preview", "active")
       \/ Becomes("preview", "end")
    /\ UNCHANGED <<driver, ready, capturing, crossed>>

PreviewSent ==
    /\ use["preview"] = "active"
    /\ Becomes("preview", "holds")
    /\ UNCHANGED <<driver, ready, capturing, crossed>>

\* The client is gone, or it does not read for a second.
PreviewLost ==
    /\ use["preview"] = "active"
    /\ Becomes("preview", "end")
    /\ UNCHANGED <<driver, ready, capturing, crossed>>

\* Mutant: the recorder is taken to release the camera in any case.
PreviewLeavesCamera ==
    /\ use["preview"] = "end"
    /\ Becomes("preview", "none")
    /\ UNCHANGED <<driver, ready, capturing, crossed>>

\* The second test of the flag.  (httpd_resp_set_type, before the loop, fails only
\* for a request the server does not know.)
PreviewEnd ==
    /\ use["preview"] = "end"
    /\ Becomes("preview", IF capturing THEN "none" ELSE "leave")
    /\ UNCHANGED <<driver, ready, capturing, crossed>>

Preview == PreviewTest \/ PreviewSent \/ PreviewLost \/ PreviewEnd

UserStep(u) ==
    \/ Clear(u) \/ Leave(u)
    \/ u \notin Changer /\ (Enter(u) \/ Power(u))
    \/ u \in Recorder /\ Record(u)
    \/ u = "preview" /\ Preview

\* Bound: one change of the settings at a time
NoChange == \A u \in Changer : use[u] = "none"

\* A change of the camera's settings by the page, while nothing is recorded
PageChange ==
    /\ web /\ stopping # "page" /\ NoChange /\ ~recording
    /\ Becomes("page", "leave")
    /\ UNCHANGED <<driver, ready, capturing, crossed>>

CameraStep == (\E u \in User : UserStep(u)) \/ PreviewRequest \/ PageChange

------------------------------------------------------------------------------
(***************************************************************************)
(* The steps of Boot and what they do to the users                         *)
(***************************************************************************)
CameraOff ==
    /\ driver' = FALSE /\ ready' = FALSE /\ capturing' = FALSE
    /\ use' = [u \in User |-> "none"] /\ stopping' = "none"
    /\ crossed' = FALSE

Moves(u, from, to) ==
    /\ use[u] = from /\ Becomes(u, to)
    /\ UNCHANGED <<driver, ready, capturing, crossed>>

\* day_web_stop: a server that is told to stop ends the handler that runs and
\* takes no other request; the preview's server comes first.
StopPreviews ==
    /\ pc = "window" /\ stopping = "none"
    /\ stopping' = "preview"
    /\ UNCHANGED <<vars, driver, ready, capturing, use, crossed>>

StopPages ==
    /\ stopping = "preview" /\ use["preview"] = "none"
    /\ stopping' = "page"
    /\ UNCHANGED <<vars, driver, ready, capturing, use, crossed>>

Close ==
    /\ stopping = "page" /\ use["page"] = "none"
    /\ ClosePortal
    /\ stopping' = "none"
    /\ UNCHANGED <<driver, ready, capturing, use, crossed>>

\* day_usb_link_stop deletes the protocol task wherever it is.
Stop ==
    /\ StopUsb
    /\ Becomes("usb", "none")
    /\ UNCHANGED <<driver, ready, capturing, crossed>>

Main ==
    \/ /\ \/ Choose \/ MscStart \/ MscUndo \/ StartSerial \/ LowWait \/ MountCard
          \/ FirstWait \/ SyncTime \/ OpenPortal \/ LastWait \/ UninstallUsb \/ Recheck \/ TestFlag \/ AfterRecord
       /\ UNCHANGED camera
    \/ StopPages \/ Close \/ Stop
    \/ SetFlag /\ Moves("main", "none", "enter")
    \/ EndRecording /\ Moves("main", "done", "none")
    \/ Sleep /\ CameraOff

Web ==
    \/ (WebRequest \/ WebTest) /\ UNCHANGED camera
    \/ WebSet /\ Moves("web", "none", "enter")
    \/ WebEnd /\ Moves("web", "done", "none")

\* SET_CONFIG, from the test of the recorder at its end
UsbChange == LinkStep(Other) /\ ~recording /\ NoChange /\ Moves("usb", "none", "leave")

Link ==
    \/ LinkStep(Attach \/ Detach \/ Eject) /\ UNCHANGED camera
    \/ /\ use["usb"] = "none"
       /\ LinkStep(Other \/ EnterMsc \/ ExitMsc \/ EndSession \/ ProtocolStep)
       /\ UNCHANGED camera
    \/ UsbChange

\* Whatever ran is gone.
Reset == (Restart \/ PowerOn \/ Panic \/ Wake) /\ CameraOff

CameraInit ==
    /\ Init
    /\ driver = FALSE /\ ready = FALSE /\ capturing = FALSE
    /\ use = [u \in User |-> "none"] /\ stopping = "none"
    /\ crossed = FALSE

CameraNext ==
    \/ CameraStep /\ UNCHANGED vars
    \/ Main \/ StopPreviews \/ Web \/ Link \/ Reset

CameraSpec == CameraInit /\ [][CameraNext]_allVars

------------------------------------------------------------------------------
\* The camera's statics and the control points of its users have their types
\* (camera_service.c).
CameraTypeOK ==
    /\ driver \in BOOLEAN /\ ready \in BOOLEAN /\ capturing \in BOOLEAN /\ crossed \in BOOLEAN
    /\ stopping \in {"none", "preview", "page"}
    /\ use \in [User -> {"none", "enter", "renew", "clear", "power", "holds", "active",
                         "end", "leave", "last", "done"}]

\* s_status.recording is set only while a camera task captures, through every
\* failure and release: a preview trusts it to mean that somebody else will release
\* the camera (camera_service.c:230, 253; recorder.c:116, 172).
FlagTruthful == capturing => \E r \in Recorder : use[r] = "active"

\* "A completed or failed recording must never leave XCLK/camera buffers active"
\* (recorder.c:649-651): whoever ends last releases the camera, in every order of
\* previews, recordings and changes of the settings, although a preview reads
\* s_status.recording to learn whether somebody else will.  The exception: an
\* initialisation that ends between the two steps of a release loses its statics to it.
CameraReleased ==
    ~crossed /\ driver => \E u \in User : use[u] # "none"
==============================================================================
