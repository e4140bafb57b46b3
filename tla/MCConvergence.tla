----------------------------- MODULE MCConvergence -----------------------------
(* One Application and its host, for TLC. *)
EXTENDS Convergence

FiveContainers == 1..5

===============================================================================
