-------------------------- MODULE MCCommandChannel --------------------------
(* Instances of CommandChannel for TLC: one endpoint (the theorems cover    *)
(* any number), two tasks, channels of one entry so that bursts overflow,   *)
(* and two commands, so that one can take the frame of the other.           *)
EXTENDS CommandChannel

CONSTANT bulk

MCEndpoints == {bulk}
=============================================================================
