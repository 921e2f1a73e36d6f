------------------------------ MODULE Observer ------------------------------
(***************************************************************************)
(* What the daemon promises about the presence of the dongle: a list that  *)
(* shows the bus as it was at one moment, never an earlier moment than the *)
(* one shown before, and empty only then or when the bus could not be      *)
(* read.                                                                   *)
(***************************************************************************)
EXTENDS Naturals, Sequences

CONSTANT Classified(_)   \* the dongles on a bus

VARIABLES
    hist,     \* the moments of the bus
    now,      \* the present one
    shown,    \* the last one whose bus was shown, zero before
    list      \* the dongles shown

vars == <<hist, now, shown, list>>

Init == now = 1 /\ shown = 0 /\ list = {}

Pass == now < Len(hist) /\ now' = now + 1 /\ UNCHANGED <<hist, shown, list>>

Show ==
    /\ \E m \in 1 .. now : shown <= m /\ shown' = m /\ list' = Classified(hist[m].bus)
    /\ UNCHANGED <<hist, now>>

Fail == list' = {} /\ UNCHANGED <<hist, now, shown>>

Next == Pass \/ Show \/ Fail

Spec == Init /\ [][Next]_vars
=============================================================================
