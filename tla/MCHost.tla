------------------------------- MODULE MCHost -------------------------------
(* Host for TLC: two processes, three utuns, so that a link may find the     *)
(* route at a utun of its own past and one at another's.                     *)
EXTENDS Host
=============================================================================
