-------------------------- MODULE MCDistributedRun --------------------------
(***************************************************************************)
(* DistributedRun with two agents, for TLC.  Agents and signatures are     *)
(* interchangeable in every definition, so the safety run uses Symmetry;   *)
(* the runs for liveness and for counterexamples do not.                   *)
(***************************************************************************)
EXTENDS DistributedRun, TLC

Symmetry == Permutations(Agent) \cup Permutations(Signature)
=============================================================================
