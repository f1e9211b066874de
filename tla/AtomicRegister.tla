--------------------------- MODULE AtomicRegister ----------------------------
(***************************************************************************)
(* What atomic_write promises, as a register whose content changes in one  *)
(* step: while a write is pending the content is the old or the new value  *)
(* and nothing else; ESP_OK is returned only after the new value is        *)
(* readable, an error only when it is not and the old one still is; a      *)
(* crash leaves either.                                                    *)
(***************************************************************************)
CONSTANTS Values, Nothing

VARIABLES
    content,        \* what a reader obtains
    pending,        \* the value being written, Nothing between calls
    installed,      \* whether the pending value has taken effect
    reply           \* how the last call ended: "none" | "ok" | "fail"

rvars == <<content, pending, installed, reply>>

Init ==
    /\ content \in Values \cup {Nothing}
    /\ pending = Nothing
    /\ installed = FALSE
    /\ reply = "none"

Start(v) ==
    /\ pending = Nothing
    /\ pending' = v
    /\ installed' = FALSE
    /\ reply' = "none"
    /\ UNCHANGED content

Install ==
    /\ pending # Nothing
    /\ ~installed
    /\ content' = pending
    /\ installed' = TRUE
    /\ UNCHANGED <<pending, reply>>

Return ==
    /\ pending # Nothing
    /\ reply' = IF installed THEN "ok" ELSE "fail"
    /\ pending' = Nothing
    /\ installed' = FALSE
    /\ UNCHANGED content

Crash ==
    /\ pending # Nothing
    /\ pending' = Nothing
    /\ installed' = FALSE
    /\ reply' = "none"
    /\ UNCHANGED content

Next == (\E v \in Values : Start(v)) \/ Install \/ Return \/ Crash

Spec == Init /\ [][Next]_rvars
==============================================================================
