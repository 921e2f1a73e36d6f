------------------------------- MODULE MCJoin -------------------------------
(* Join for TLC: three BSSIDs of ours beside a foreign one, two DHCP        *)
(* servers with two addresses between them.                                 *)
EXTENDS Join
=============================================================================
