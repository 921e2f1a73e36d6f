----------------------------- MODULE MCLinkRun -----------------------------
(* Instances of LinkRun for TLC: one client that starts and stops links     *)
(* over one dongle, so that a second attempt meets the firmware, the record *)
(* and the replugs the first one left behind.                               *)
EXTENDS LinkRun

CONSTANT c1

MCClients == {c1}

(* exactly what the bring-up reports *)
MCProgress == {"flashing", "needs_replug", "associating", "handshaking",
               "configuring", "up", "down"}
=============================================================================
