--------------------------- MODULE MCControllerJob ---------------------------
(***************************************************************************)
(* ControllerJob with two agents, two signatures and two checkpoints, for  *)
(* TLC.  Two agents are enough for a readiness mismatch and for one agent  *)
(* ending while the other goes on.                                         *)
(***************************************************************************)
EXTENDS ControllerJob
=============================================================================
