----------------------------- MODULE MCSupervise -----------------------------
(* Small instances of supervision for TLC.                                  *)
EXTENDS Supervise, TLC

Symmetry == Permutations(Runs)
=============================================================================
