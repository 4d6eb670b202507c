---------------------------- MODULE MCPooledRun ----------------------------
(* Two workers that make up to two calls each. *)
EXTENDS PooledRun

CONSTANTS w1, w2
=============================================================================
