----------------------------- MODULE MCRetention -----------------------------
(* A small instance of retention for TLC.                                   *)
EXTENDS Retention, TLC

Symmetry == Permutations(Runs)
=============================================================================
