------------------------------ MODULE RunQueue ------------------------------
(***************************************************************************)
(* What Omakron promises of its runs, without saying when: a run is        *)
(* recorded once, waits, is started at most once and alone, ends once, and *)
(* is never replayed.  Any number of runs may be recorded, be refused or   *)
(* end in one step; only one may start, and only when none is in progress. *)
(***************************************************************************)
EXTENDS Naturals

CONSTANT Ids

VARIABLE phase

Phases == {"unborn", "waiting", "started", "ended"}

(* What may happen to a run in a step in which it does not start.           *)
Passage == {<<p, p>> : p \in Phases}
    \cup {<<"unborn", "waiting">>, <<"unborn", "ended">>,
          <<"waiting", "ended">>, <<"started", "ended">>}

Init == phase = [i \in Ids |-> "unborn"]

Settle(S) ==
    /\ phase' \in [Ids -> Phases]
    /\ \A i \in S : <<phase[i], phase'[i]>> \in Passage

Start(i) ==
    /\ phase[i] = "waiting"
    /\ \A k \in Ids : phase[k] # "started"
    /\ Settle(Ids \ {i})
    /\ phase'[i] = "started"

Next == Settle(Ids) \/ \E i \in Ids : Start(i)

Spec == Init /\ [][Next]_phase
=============================================================================
