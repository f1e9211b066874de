-------------------------- MODULE ExportTransactions -------------------------
(***************************************************************************)
(* What the export service promises about recordings: an export freezes a  *)
(* set of whole recordings; recordings disappear one at a time and only    *)
(* on behalf of an export whose deletion was started; an export whose      *)
(* deletion was started is never abandoned and is finished only when every *)
(* recording it lists is gone; an aborted export never takes anything.     *)
(***************************************************************************)
EXTENDS FiniteSets

CONSTANTS Export, Record

VARIABLES
    phase,      \* phase[e]: "none" | "prepared" | "aborted" | "committing" | "committed"
    listed,     \* listed[e]: the recordings frozen by export e
    fate        \* fate[r]: "unborn" | "whole" | "torn" | "gone"

tvars == <<phase, listed, fate>>

Active(e) == phase[e] \in {"prepared", "committing"}

Init ==
    /\ phase = [e \in Export |-> "none"]
    /\ listed = [e \in Export |-> {}]
    /\ fate \in [Record -> {"unborn", "whole"}]

NewRecording(r) ==
    /\ fate[r] = "unborn"
    /\ fate' = [fate EXCEPT ![r] = "whole"]
    /\ UNCHANGED <<phase, listed>>

Prepare(e, S) ==
    /\ phase[e] = "none"
    /\ S # {} /\ \A r \in S : fate[r] = "whole"
    /\ \A o \in Export : Active(o) => listed[o] \cap S = {}
    /\ phase' = [phase EXCEPT ![e] = "prepared"]
    /\ listed' = [listed EXCEPT ![e] = S]
    /\ UNCHANGED fate

Abort(e) ==
    /\ phase[e] = "prepared"
    /\ phase' = [phase EXCEPT ![e] = "aborted"]
    /\ UNCHANGED <<listed, fate>>

StartCommit(e) ==
    /\ phase[e] = "prepared"
    /\ \A r \in listed[e] : fate[r] = "whole"
    /\ phase' = [phase EXCEPT ![e] = "committing"]
    /\ UNCHANGED <<listed, fate>>

\* The first file of a recording goes; no other recording of the export is torn.
Tear(e, r) ==
    /\ phase[e] = "committing"
    /\ r \in listed[e] /\ fate[r] = "whole"
    /\ \A o \in listed[e] : fate[o] # "torn"
    /\ fate' = [fate EXCEPT ![r] = "torn"]
    /\ UNCHANGED <<phase, listed>>

Remove(e, r) ==
    /\ phase[e] = "committing"
    /\ r \in listed[e] /\ fate[r] = "torn"
    /\ fate' = [fate EXCEPT ![r] = "gone"]
    /\ UNCHANGED <<phase, listed>>

Finish(e) ==
    /\ phase[e] = "committing"
    /\ \A r \in listed[e] : fate[r] = "gone"
    /\ phase' = [phase EXCEPT ![e] = "committed"]
    /\ UNCHANGED <<listed, fate>>

Next ==
    \/ \E r \in Record : NewRecording(r)
    \/ \E e \in Export :
          \/ \E S \in SUBSET Record : Prepare(e, S)
          \/ Abort(e) \/ StartCommit(e) \/ Finish(e)
          \/ \E r \in Record : Tear(e, r) \/ Remove(e, r)

Spec == Init /\ [][Next]_tvars
==============================================================================
