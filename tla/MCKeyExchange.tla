--------------------------- MODULE MCKeyExchange ---------------------------
(* KeyExchange for TLC: every message up to three times, up to three rekeys, and   *)
(* as many faults as a message has repetitions.                             *)
EXTENDS KeyExchange
=============================================================================
