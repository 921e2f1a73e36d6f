--------------------------- MODULE MCLinkService ---------------------------
(* Instances of LinkService for TLC.  Two attempts let a Stop of the first   *)
(* be late for the second; two clients race.                                *)
EXTENDS LinkService

CONSTANTS c1, c2

MCClients == {c1, c2}

(* the reports that the properties tell apart: an unfinished one, and up    *)
MCProgress == {"needs_replug", "up"}
=============================================================================
