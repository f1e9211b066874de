------------------------------ MODULE MCCamera -------------------------------
(***************************************************************************)
(* An instance of Camera, and with it of Boot, for TLC.                    *)
(***************************************************************************)
EXTENDS Camera

CONSTANT Parties    \* bound: the sets of visitors that may come in one behaviour

VARIABLE party      \* those who come

mcVars == <<allVars, party>>

MCParties ==
    {{"host", "preview"}, {"host", "record"}, {"host", "change"}, {"record", "preview", "change"}}

MCInit == CameraInit /\ party \in Parties

MCNext ==
    /\ CameraNext
    /\ attached = "no" /\ attached' # "no" => "host" \in party
    /\ webTask = "none" /\ webTask' # "none" => "record" \in party
    /\ use["preview"] = "none" /\ use'["preview"] # "none" => "preview" \in party
    /\ \A u \in Changer : use[u] = "none" /\ use'[u] # "none" => "change" \in party
    /\ UNCHANGED party

\* Main, the restart and the handlers of the web servers run; only the end of the
\* portal's window may wait for ever, until there is maintenance.  The client of a
\* preview goes away at last.
MCSpec ==
    /\ MCInit /\ [][MCNext]_mcVars
    /\ WF_allVars(Main)
    /\ WF_allVars(StopPreviews /\ MaintenanceActive)
    /\ WF_allVars(Restart /\ CameraOff)
    /\ \A u \in {"preview", "page"} : WF_allVars(UserStep(u) /\ UNCHANGED vars)
    /\ SF_allVars(PreviewLost /\ UNCHANGED vars)
==============================================================================
