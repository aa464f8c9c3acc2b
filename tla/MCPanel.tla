------------------------------- MODULE MCPanel -------------------------------
(* A small instance of the popup for TLC: one routine with two runs, one    *)
(* with one.                                                                *)
EXTENDS Panel

CONSTANTS a, b, r1, r2, r3

MCRoutines == {a, b}
MCRuns     == {r1, r2, r3}
MCHistory  == [id \in MCRoutines |-> IF id = a THEN <<r2, r1>> ELSE <<r3>>]
=============================================================================
