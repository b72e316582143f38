------------------------------ MODULE OneReply ------------------------------
(***************************************************************************)
(* What a chat turn promises: the client is shown what the model says as   *)
(* it says it and is then told once how it ended; the turn is kept only    *)
(* when the model finished and all it said was shown, and its message ids  *)
(* are given only for a turn that was kept.                                *)
(***************************************************************************)
EXTENDS Naturals

VARIABLES
    upstream,   \* the model: "talking", "ended" or "failed"
    said,       \* pieces of text it produced
    shown,      \* pieces handed to the connection
    kept,       \* whether the turn is in the history
    outcome     \* what the client was told: "none", "error", "done", "done_ids"

rvars == <<upstream, said, shown, kept, outcome>>

Init ==
    /\ upstream = "talking" /\ said = 0 /\ shown = 0
    /\ kept = FALSE /\ outcome = "none"

Say ==
    /\ upstream = "talking"
    /\ said' = said + 1
    /\ UNCHANGED <<upstream, shown, kept, outcome>>

Stop ==
    /\ upstream = "talking"
    /\ upstream' \in {"ended", "failed"}
    /\ UNCHANGED <<said, shown, kept, outcome>>

Show ==
    /\ outcome = "none" /\ ~kept
    /\ shown < said
    /\ shown' = shown + 1
    /\ UNCHANGED <<upstream, said, kept, outcome>>

Complete == upstream = "ended" /\ shown = said /\ outcome = "none"

Keep ==
    /\ Complete /\ said > 0 /\ ~kept
    /\ kept' = TRUE
    /\ UNCHANGED <<upstream, said, shown, outcome>>

Tell ==
    /\ \/ upstream = "failed" /\ outcome = "none" /\ outcome' = "error"
       \/ Complete /\ outcome' = "done"
       \/ Complete /\ kept /\ outcome' = "done_ids"
    /\ UNCHANGED <<upstream, said, shown, kept>>

Next == Say \/ Stop \/ Show \/ Keep \/ Tell

Spec == Init /\ [][Next]_rvars
=============================================================================
