----------------------------- MODULE MCSettings ------------------------------
(***************************************************************************)
(* An instance of Settings, and of the line that brings SET_CONFIG, for    *)
(* TLC.  The two have no variable in common, so it is enough to explore    *)
(* one order: the line comes to rest before the settings begin.            *)
(***************************************************************************)
EXTENDS Settings, UsbLine

CONSTANTS Home, Unset, Garbled  \* network names

\* The settings of a firmware that knew one frame size for all uses and did not
\* test its texts; the other entries are missing, as all are in a new device.
MCLegacy ==
    {[[k \in Key |-> Missing] EXCEPT !["cam_fs"] = 11, !["rec_fps"] = 20, !["ssid"] = s] :
        s \in {Missing, Garbled}}

\* The page of the device posts everything but the network name.
MCUsbPatches == {[cam_fs |-> 16, rec_fs |-> 16, rec_fps |-> 15]}
MCWebPatches ==
    {[cam_fs |-> 11, prev_fs |-> 10, rec_fs |-> 11, prev_fps |-> 30, rec_fps |-> 15]}

\* Two requests: every first one that fits, or one that does not, and a plain one
MCRequests ==
    LET fits == UNION {[1..n -> Byte] : n \in 1..FrameMax}
    IN  (fits \cup {[i \in 1..FrameMax + 1 |-> Esc]}) \X {<<1>>}

AtRest ==
    /\ requests = <<>> /\ stream = <<>> /\ seen = 0 /\ chunk = [from |-> 1, to |-> 0]
    /\ data = <<>> /\ escape = FALSE /\ frames = {} /\ lost = {} /\ queue = <<>>

\* Bound: the requests are looked at, and then no more.
Rest ==
    /\ requests # <<>>
    /\ Following.req > Len(requests)
    /\ seen = Len(stream) /\ queue = <<>> /\ chunk.from > chunk.to
    /\ requests' = <<>> /\ stream' = <<>> /\ seen' = 0 /\ chunk' = [from |-> 1, to |-> 0]
    /\ data' = <<>> /\ escape' = FALSE /\ frames' = {} /\ lost' = {}
    /\ UNCHANGED queue

\* The line is looked at with one of the stores.
MCInit ==
    /\ Init
    /\ \/ LineInit /\ nvs["ssid"] = Missing
       \/ AtRest /\ nvs["ssid"] # Missing

MCNext ==
    \/ (LineNext \/ Rest) /\ UNCHANGED vars
    \/ requests = <<>> /\ Next /\ UNCHANGED lineVars

MCSpec ==
    /\ MCInit /\ [][MCNext]_<<vars, lineVars>>
    /\ \A w \in Writer : WF_vars(Persist(w))
==============================================================================
