------------------------------ MODULE Scheduler ------------------------------
(***************************************************************************)
(* scheduler.py: the look at the clock that turns occurrences into queued  *)
(* runs, and the global dispatch switch.  `tick` is one transaction over   *)
(* all routines; it reads the clock, decides, inserts and moves every      *)
(* checkpoint, or a crash leaves nothing of it.                            *)
(***************************************************************************)
EXTENDS Store

SlotOf(c, t) == <<ZoneOf[c], Local(ZoneOf[c], t)>>

(* schedule_slots has a row for this slot of the routine.                   *)
SlotTaken(r, slot) ==
    \E i \in 1..nruns : job[i].routine = r /\ job[i].slot = slot

(* The checkpoint `tick` works from.                                        *)
LookedUntil(r) == IF checkpoint[r] = NoTime THEN FirstCheckpoint(clock) ELSE checkpoint[r]

OnCron  == {r \in Routines : Listed(r) /\ routine[r].cron # Manual}
Watched == {r \in OnCron : dispatch /\ routine[r].enabled}

(* The occurrence of r that this tick starts, if any.                       *)
DueOf(r) ==
    {t \in DueAt(MinutesOf[routine[r].cron], ZoneOf[routine[r].cron], LookedUntil(r), clock) :
        ~SlotTaken(r, SlotOf(routine[r].cron, t))}

Fired == {r \in Watched : DueOf(r) # {}}

(* New rows follow the existing ones in list_routines order.                *)
NewRun(r)      == nruns + Cardinality({q \in Fired : q <= r})
NewRuns        == {NewRun(r) : r \in Fired}
FiredAs(i)     == CHOOSE r \in Fired : i = NewRun(r)
OccurrenceOf(r) == CHOOSE t \in DueOf(r) : TRUE

ScheduledJob(r) ==
    [routine |-> r, revision |-> routine[r].revision, trigger |-> "scheduled", key |-> NoKey,
     retryOf |-> NoRun, enqueuedAt |-> clock, scheduledAt |-> OccurrenceOf(r),
     slot |-> SlotOf(routine[r].cron, OccurrenceOf(r))]

(* Mutant: a run that still waits does not count as overlap. *)
MutantOverlapsActive(r) ==
    \E i \in RunIds \ Overdue(clock) : Active(i) /\ job[i].routine = r

(* An earlier run of the routine is still waiting or running, after the     *)
(* queue has been cleared of what waited too long.                          *)
Overlaps(r) == \E i \in RunIds \ Overdue(clock) : Open(i) /\ job[i].routine = r

Tick ==
    /\ nruns + Cardinality(Fired) <= MaxRuns
    /\ nruns' = nruns + Cardinality(Fired)
    /\ job' = [i \in RunIds |-> IF i \in NewRuns THEN ScheduledJob(FiredAs(i)) ELSE job[i]]
    /\ LET expired == StatusWhere(Overdue(clock), "skipped")
           first(i) == IF Overlaps(FiredAs(i)) THEN "skipped" ELSE "queued"
       IN  status' = [i \in RunIds |-> IF i \in NewRuns THEN first(i) ELSE expired[i]]
    /\ gaps' = gaps \cup
          UNION {{<<r, g[1], g[2]>> : g \in UnobservedGap(LookedUntil(r), clock)} : r \in Watched}
    /\ checkpoint' = [r \in Routines |-> IF r \in OnCron THEN Later(checkpoint[r], clock)
                                                         ELSE checkpoint[r]]
    /\ UNCHANGED <<clock, routine, dispatch, cancelRequested>>

(* Mutant: the switch alone. *)
MutantSwitchOnly(on) ==
    /\ dispatch' = on
    /\ UNCHANGED <<clock, routineVars, runVars>>

(* set_dispatch: on or off, the scheduled queue is dropped and every        *)
(* routine's schedule continues from now.                                   *)
SetDispatch(on) ==
    /\ dispatch' = on
    /\ status' = SkipScheduledQueue({r \in Routines : Listed(r)})
    /\ checkpoint' = [r \in Routines |-> IF Listed(r) THEN Later(checkpoint[r], clock)
                                                      ELSE checkpoint[r]]
    /\ UNCHANGED <<clock, routine, gaps, nruns, job, cancelRequested>>
=============================================================================
