-------------------------------- MODULE Boot --------------------------------
(***************************************************************************)
(* What a load of the firmware promises, whatever the chip, the wire and   *)
(* the other processes of the Mac do: the chip's memory is filled piece by *)
(* piece, an image is run only when the whole of it is there, and a load   *)
(* reports once, and success only while an image runs.                     *)
(***************************************************************************)
VARIABLES
    mem,      \* what the memory holds of the image: "blank", "partial" or "whole"
    app,      \* an image runs
    report    \* what the load has reported, "none" before it does

vars == <<mem, app, report>>

Init == mem = "blank" /\ app \in BOOLEAN /\ report = "none"

\* The ROM executes a request, even one whose sender has given it up.
Fill ==
    /\ ~app /\ mem' \in {"partial", "whole"} /\ mem # "whole"
    /\ UNCHANGED <<app, report>>

Run == mem = "whole" /\ app' = TRUE /\ UNCHANGED <<mem, report>>

Report ==
    /\ report = "none"
    /\ report' \in {"operational", "bootrom", "error", "died"}
    /\ report' = "operational" => app
    /\ UNCHANGED <<mem, app>>

Next == Fill \/ Run \/ Report

Spec == Init /\ [][Next]_vars
=============================================================================
