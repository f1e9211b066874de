---------------------------- MODULE RecordArchive ----------------------------
(***************************************************************************)
(* What the recorder promises about the recordings in the root of the      *)
(* card: each appears at once, whole, under a name and with a counter that *)
(* no other has; from then on the device does not touch it until it is     *)
(* removed as a whole.                                                     *)
(***************************************************************************)
CONSTANTS Name, Counter, Stream

VARIABLES
    shelf,      \* the recordings by name: counter and the streams captured in full
    issued      \* the counters of all recordings that ever appeared

avars == <<shelf, issued>>

Recording == [counter : Counter, full : SUBSET Stream]

Init == shelf = [n \in {} |-> {}] /\ issued = {}

Appear(n, r) ==
    /\ n \notin DOMAIN shelf
    /\ r.counter \notin issued
    /\ shelf' = [m \in DOMAIN shelf \cup {n} |-> IF m = n THEN r ELSE shelf[m]]
    /\ issued' = issued \cup {r.counter}

Remove(n) ==
    /\ n \in DOMAIN shelf
    /\ shelf' = [m \in DOMAIN shelf \ {n} |-> shelf[m]]
    /\ UNCHANGED issued

Next == \E n \in Name : Remove(n) \/ \E r \in Recording : Appear(n, r)

Spec == Init /\ [][Next]_avars
==============================================================================
