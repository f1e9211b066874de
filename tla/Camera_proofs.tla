---------------------------- MODULE Camera_proofs ----------------------------
(***************************************************************************)
(* Proofs about Camera: it implements Boot, and the camera is released.    *)
(***************************************************************************)
EXTENDS Camera, TLAPS

\* Who answers for a running driver
Holder(u) == use[u] \in {"holds", "active", "end", "leave"}

\* Unless an initialisation has crossed a release, the statics know a running
\* driver, no release is half done under it, and somebody will release it.
Held ==
    ~crossed =>
        /\ driver => ready /\ \E u \in User \ Changer : Holder(u)
        /\ \A u \in User : Releasing(u) => ~driver

CameraInv == CameraTypeOK /\ FlagTruthful /\ Held

USE DEF Recorder, Changer, User

------------------------------------------------------------------------------
LEMMA InitHolds == CameraInit => CameraInv
  BY DEF CameraInit, CameraInv, CameraTypeOK, FlagTruthful, Held, Releasing

\* What a step that concerns the camera of one user does
LEMMA EnterKeeps ==
  ASSUME CameraInv, NEW u \in User, Enter(u)
  PROVE  CameraInv'
<1>1. CameraTypeOK'
  BY DEF CameraInv, CameraTypeOK, Enter, Becomes
<1>2. FlagTruthful'
  BY DEF CameraInv, CameraTypeOK, FlagTruthful, Enter, Becomes
<1>3. \A x \in User : Holder(x) => Holder(x)'
  BY DEF CameraInv, CameraTypeOK, Holder, Enter, Becomes
<1>4. \A x \in User : Releasing(x)' => Releasing(x) \/ driver' = FALSE
  BY DEF CameraInv, CameraTypeOK, Releasing, Enter, Becomes
<1>5. driver' => driver
  BY DEF CameraInv, CameraTypeOK, Enter
<1>6. Held'
  BY <1>1, <1>3, <1>4, <1>5 DEF CameraInv, CameraTypeOK, Held, Enter
<1> QED  BY <1>1, <1>2, <1>6 DEF CameraInv

LEMMA ClearKeeps ==
  ASSUME CameraInv, NEW u \in User, Clear(u)
  PROVE  CameraInv'
  BY DEF CameraInv, CameraTypeOK, FlagTruthful, Held, Releasing, Holder, Clear, Becomes

LEMMA PowerKeeps ==
  ASSUME CameraInv, NEW u \in User \ Changer, Power(u)
  PROVE  CameraInv'
<1>1. CameraTypeOK'
  BY DEF CameraInv, CameraTypeOK, Power, Becomes
<1>2. FlagTruthful'
  BY DEF CameraInv, CameraTypeOK, FlagTruthful, Power, Becomes
<1>3. \A x \in User : Releasing(x)' => Releasing(x) /\ x # u
  BY DEF CameraInv, CameraTypeOK, Releasing, Power, Becomes
<1>4. ~crossed' => ~driver /\ \A x \in User : ~Releasing(x)'
  BY <1>3 DEF Power
<1>5. driver' /\ ~crossed' => ready' /\ Holder(u)'
  BY <1>4 DEF CameraInv, CameraTypeOK, Holder, Power, Becomes
<1>6. Held'
  BY <1>1, <1>4, <1>5 DEF CameraTypeOK, Held
<1> QED  BY <1>1, <1>2, <1>6 DEF CameraInv

LEMMA LeaveKeeps ==
  ASSUME CameraInv, NEW u \in User, Leave(u)
  PROVE  CameraInv'
  BY DEF CameraInv, CameraTypeOK, FlagTruthful, Held, Releasing, Holder, Leave, Becomes

LEMMA RecordKeeps ==
  ASSUME CameraInv, NEW r \in Recorder, Record(r)
  PROVE  CameraInv'
<1> USE DEF Record, Skip, StartCapture, StopCapture, Becomes
<1>1. CameraTypeOK'
  BY DEF CameraInv, CameraTypeOK
<1>2. FlagTruthful'
  BY DEF CameraInv, CameraTypeOK, FlagTruthful
<1>3. \A x \in User : Holder(x) => Holder(x)'
  BY DEF CameraInv, CameraTypeOK, Holder
<1>4. \A x \in User : Releasing(x)' => Releasing(x)
  BY DEF CameraInv, CameraTypeOK, Releasing
<1>5. UNCHANGED <<driver, ready, crossed>>
  OBVIOUS
<1>6. Held'
  BY <1>3, <1>4, <1>5 DEF CameraInv, Held
<1> QED  BY <1>1, <1>2, <1>6 DEF CameraInv

\* A preview that reads the flag leaves the camera to the recorder that set it.
LEMMA PreviewKeeps ==
  ASSUME CameraInv, Preview
  PROVE  CameraInv'
  BY DEF CameraInv, CameraTypeOK, FlagTruthful, Held, Releasing, Holder, Preview, PreviewTest,
         PreviewSent, PreviewLost, PreviewEnd, Becomes

LEMMA RequestKeeps ==
  ASSUME CameraInv, PreviewRequest \/ PageChange
  PROVE  CameraInv'
  BY DEF CameraInv, CameraTypeOK, FlagTruthful, Held, Releasing, Holder, PreviewRequest,
         PageChange, NoChange, Becomes

LEMMA UserStepKeeps ==
  ASSUME CameraInv, CameraStep
  PROVE  CameraInv'
  BY EnterKeeps, ClearKeeps, PowerKeeps, LeaveKeeps, RecordKeeps, PreviewKeeps, RequestKeeps
  DEF CameraStep, UserStep

\* What Boot's steps do to the users
LEMMA OffKeeps ==
  ASSUME CameraOff
  PROVE  CameraInv'
  BY DEF CameraOff, CameraInv, CameraTypeOK, FlagTruthful, Held, Releasing

LEMMA MovesKeeps ==
  ASSUME CameraInv,
         \/ Moves("main", "none", "enter") \/ Moves("main", "done", "none")
         \/ Moves("web", "none", "enter") \/ Moves("web", "done", "none")
         \/ Moves("usb", "none", "leave") \/ UNCHANGED camera
         \/ Becomes("usb", "none") /\ UNCHANGED <<driver, ready, capturing, crossed>>
         \/ stopping' \in {"none", "preview", "page"} /\ UNCHANGED <<driver, ready, capturing, use, crossed>>
  PROVE  CameraInv'
<1> USE DEF Moves, Becomes, camera
<1>1. CameraTypeOK'
  BY DEF CameraInv, CameraTypeOK
<1>2. FlagTruthful'
  BY DEF CameraInv, CameraTypeOK, FlagTruthful
<1>3. \A x \in User \ Changer : Holder(x) => Holder(x)'
  BY DEF CameraInv, CameraTypeOK, Holder
<1>4. \A x \in User : Releasing(x)' => Releasing(x)
  BY DEF CameraInv, CameraTypeOK, Releasing
<1>5. UNCHANGED <<driver, ready, crossed>>
  OBVIOUS
<1>6. Held'
  BY <1>3, <1>4, <1>5 DEF CameraInv, Held
<1> QED  BY <1>1, <1>2, <1>6 DEF CameraInv

LEMMA StepKeeps == CameraInv /\ [CameraNext]_allVars => CameraInv'
<1> SUFFICES ASSUME CameraInv, [CameraNext]_allVars PROVE CameraInv'
  OBVIOUS
<1>1. CASE CameraStep
  BY <1>1, UserStepKeeps
<1>2. CASE Main
  BY <1>2, OffKeeps, MovesKeeps DEF Main, StopPages, Close, Stop
<1>3. CASE StopPreviews
  BY <1>3, MovesKeeps DEF StopPreviews
<1>4. CASE Web
  BY <1>4, MovesKeeps DEF Web
<1>5. CASE Link
  BY <1>5, MovesKeeps DEF Link, UsbChange
<1>6. CASE Reset
  BY <1>6, OffKeeps DEF Reset
<1>7. CASE UNCHANGED allVars
  BY <1>7, MovesKeeps DEF allVars
<1> QED  BY <1>1, <1>2, <1>3, <1>4, <1>5, <1>6, <1>7 DEF CameraNext

THEOREM CameraInvariant == CameraSpec => []CameraInv
  BY InitHolds, StepKeeps, PTL DEF CameraSpec

------------------------------------------------------------------------------
\* The camera's statics and control points keep their types (camera_service.c).
THEOREM CameraTypeCorrect == CameraSpec => []CameraTypeOK
<1>1. CameraInv => CameraTypeOK
  BY DEF CameraInv
<1> QED  BY <1>1, CameraInvariant, PTL

\* s_status.recording means that a camera task captures, also when releases and
\* initialisations cross (camera_service.c, recorder.c).
THEOREM FlagTruthfulCorrect == CameraSpec => []FlagTruthful
<1>1. CameraInv => FlagTruthful
  BY DEF CameraInv
<1> QED  BY <1>1, CameraInvariant, PTL

\* Whoever uses the camera last releases it, with no bound on who comes and how
\* often (recorder.c:649-651, camera_service.c:253).
THEOREM CameraReleasedCorrect == CameraSpec => []CameraReleased
<1>1. CameraInv => CameraReleased
  BY DEF CameraInv, CameraTypeOK, Held, Holder, CameraReleased
<1> QED  BY <1>1, CameraInvariant, PTL

------------------------------------------------------------------------------
(***************************************************************************)
(* The composition only restricts when Boot's steps happen, so that every  *)
(* theorem about Boot holds of a device with a camera, too.                *)
(***************************************************************************)
LEMMA StepOfBoot == [CameraNext]_allVars => [Next]_vars
<1> SUFFICES ASSUME [CameraNext]_allVars PROVE [Next]_vars
  OBVIOUS
<1>1. CASE Main
  BY <1>1 DEF Main, StopPages, Close, Stop, Next, MainStep
<1>2. CASE Web
  BY <1>2 DEF Web, Next, WebStep
<1>3. CASE Link
  BY <1>3 DEF Link, UsbChange, LinkStep, Next, HostStep
<1>4. CASE Reset
  BY <1>4 DEF Reset, Next
<1>5. CASE (CameraStep /\ UNCHANGED vars) \/ StopPreviews \/ UNCHANGED allVars
  BY <1>5 DEF StopPreviews, allVars
<1> QED  BY <1>1, <1>2, <1>3, <1>4, <1>5 DEF CameraNext

\* day_app_run behaves as Boot says, whoever uses the camera.
THEOREM BootImplemented == CameraSpec => Spec
<1>1. CameraInit => Init
  BY DEF CameraInit
<1> QED  BY <1>1, StepOfBoot, PTL DEF CameraSpec, Spec
==============================================================================
