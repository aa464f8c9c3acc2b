------------------------------ MODULE Schedule ------------------------------
(***************************************************************************)
(* schedule.py: one evaluator for previews and dispatch.                   *)
(*                                                                         *)
(* A cron expression is the set of wall-clock minutes it names; what it    *)
(* names as an instant depends on the zone.  A zone is its offset before   *)
(* and after one change of the clocks, and the instant of the change: what *)
(* lies around one change is all that an answer here depends on.  After a  *)
(* change forward some minutes never were; after one backward some come    *)
(* twice.  An optional value of the code (None or a value) is a set with   *)
(* at most one element.                                                    *)
(***************************************************************************)
EXTENDS Integers

CONSTANT Grace   \* STARTUP_GRACE_S: how late an occurrence may still start

ASSUME GraceAssumption == Grace \in Nat

Zone == [before : Int, after : Int, at : Int]

Greater(m, n) == IF m < n THEN n ELSE m

(* The wall clock of the zone, and whether it shows this for the second     *)
(* time (fold).                                                             *)
Local(z, t) == t + IF t < z.at THEN z.before ELSE z.after
Fold(z, t)  == z.at <= t /\ t < z.at + z.before - z.after

(* The instant that zoneinfo gives a wall-clock time with fold=0.           *)
Instant(z, local) ==
    local - IF local < z.at + Greater(z.before, z.after) THEN z.before ELSE z.after

(* Only if the way back leads to the same wall-clock time.                  *)
FirstInstant(z, local) == {t \in {Instant(z, local)} : Local(z, t) = local}

Matches(cron, z, t) == ~Fold(z, t) /\ Local(z, t) \in cron

(* What the form and the popup show: the candidates from the wall clock on. *)
(* The code gives the first `count` of these.                               *)
Preview(cron, z, after) ==
    {t \in UNION {FirstInstant(z, l) : l \in {l \in cron : Local(z, after) < l}} : after < t}

(* Mutant: the candidate counts as an instant without the way back.         *)
MutantLatestUnchecked(cron, z, at) ==
    {Instant(z, l) : l \in {l \in cron : /\ l <= Local(z, at)
                                         /\ \A m \in cron : m <= Local(z, at) => m <= l}}

(* The candidate before now on the wall clock, when it has a first instant  *)
(* of its own.                                                              *)
Latest(cron, z, at) ==
    UNION {FirstInstant(z, l) : l \in {l \in cron : /\ l <= Local(z, at)
                                                    /\ \A m \in cron : m <= Local(z, at) => m <= l}}

(* Mutant: the gap is left out when it reaches up to the last look.         *)
MutantGapMisses(checkpoint, now) ==
    {g \in {<<checkpoint, now - Grace>>} : checkpoint + Grace < now - Grace}

(* The interval nobody watched: from the checkpoint to the oldest moment    *)
(* that is still within the grace.                                          *)
UnobservedGap(checkpoint, now) ==
    {g \in {<<checkpoint, now - Grace>>} : checkpoint < now - Grace}

(* Mutant: no limit on how late an occurrence starts.                       *)
MutantDueHoweverLate(cron, z, checkpoint, now) ==
    {t \in Latest(cron, z, now) : checkpoint < t /\ t <= now}

(* The occurrence to start now: after the checkpoint, at most Grace late.   *)
DueAt(cron, z, checkpoint, now) ==
    {t \in Latest(cron, z, now) : checkpoint < t /\ now - Grace <= t /\ t <= now}

(* What `tick` takes as the checkpoint of a routine it has never looked at: *)
(* just before the oldest occurrence it may still start.                    *)
FirstCheckpoint(now) == now - Grace - 1

(* What a change of the clocks must keep from a schedule for dispatch to    *)
(* lose nothing: minutes, those of the expression and that of the change,   *)
(* are at least the grace apart.  (Both are 60 seconds in the code.)        *)
MinutesApart(cron, z) ==
    /\ \A l, m \in cron : l < m => l + Grace <= m
    /\ \A l \in cron : l < z.at + z.before => l + Grace <= z.at + z.before
=============================================================================
