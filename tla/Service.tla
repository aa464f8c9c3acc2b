------------------------------- MODULE Service -------------------------------
(***************************************************************************)
(* The Omakron service: one process at a time (the flock on service.lock), *)
(* with an API thread that ticks the scheduler and serves one request      *)
(* after another, and a worker thread that claims and executes runs, over  *)
(* the store they share (service.py, worker.py).  The process may die at   *)
(* any point and is started again; nothing but the store survives.         *)
(***************************************************************************)
EXTENDS Scheduler

CONSTANTS
    MaxStarts,       \* bound: starts of the service
    ClockMayStepBack,\* the wall clock may be set back
    LoopErrors,      \* `execute` may raise, caught only by run_forever
    Installer        \* the installer may stop the service and switch dispatch off

ASSUME ServiceAssumption ==
    /\ MaxStarts \in Nat
    /\ {ClockMayStepBack, LoopErrors, Installer} \subseteq BOOLEAN

VARIABLES
    service,   \* "down", "booting" (lock held, before _reconcile), "up", "stopping"
    starts,    \* starts so far
    phase,     \* the worker thread: "none", "idle", "polling", "executing"
    polledAt,  \* claim_next's `now`, read before its transaction begins
    hand       \* the run `execute` works on

processVars == <<service, starts, phase, polledAt, hand>>
vars == <<storeVars, processVars>>

TypeOK ==
    /\ StoreTypeOK
    /\ service \in {"down", "booting", "up", "stopping"}
    /\ starts \in 0..MaxStarts
    /\ phase \in {"none", "idle", "polling", "executing"}
    /\ polledAt \in Time
    /\ hand \in RunIds \cup {NoRun}
    /\ phase = "executing" <=> hand # NoRun
    /\ phase = "none" <=> service \in {"down", "booting"}

Init ==
    /\ StoreInit
    /\ service = "down" /\ starts = 0
    /\ phase = "none" /\ polledAt = 0 /\ hand = NoRun
-----------------------------------------------------------------------------
(* The API thread.  A signal sets `stopping` while the loop is anywhere, so *)
(* a tick and a request may still complete after it.                        *)
Serving == service \in {"up", "stopping"}

ApiTick == Serving /\ Tick /\ UNCHANGED processVars

(* op_create_routine: a routine saved with a time starts on. *)
ApiCreate ==
    /\ Serving
    /\ \E r \in Routines, c \in Crons \cup {Manual} : CreateRoutine(r, c, c # Manual)
    /\ UNCHANGED processVars

ApiUpdate ==
    /\ Serving
    /\ \E r \in Routines, c \in Crons \cup {Manual} : UpdateRoutine(r, c)
    /\ UNCHANGED processVars

ApiDelete == Serving /\ (\E r \in Routines : DeleteRoutine(r)) /\ UNCHANGED processVars

ApiSetEnabled ==
    /\ Serving
    /\ \E r \in Routines, on \in BOOLEAN : SetEnabled(r, on)
    /\ UNCHANGED processVars

ApiSetDispatch == Serving /\ (\E on \in BOOLEAN : SetDispatch(on)) /\ UNCHANGED processVars

ApiRunNow ==
    /\ Serving
    /\ \E r \in Routines, k \in RunNowKeys : EnqueueRun(r, k, NoRun)
    /\ UNCHANGED processVars

(* op_retry_run: only an ended run, and never without a key. *)
ApiRetry ==
    /\ Serving
    /\ \E i \in RunIds, k \in Keys : Terminal(i) /\ EnqueueRun(job[i].routine, k, i)
    /\ UNCHANGED processVars

ApiCancel == Serving /\ (\E i \in RunIds : RequestCancel(i)) /\ UNCHANGED processVars
-----------------------------------------------------------------------------
(* The worker thread.  run_forever looks at `stopping`, then claim_next     *)
(* reads the clock, then its transaction begins.                            *)
WorkerPoll ==
    /\ phase = "idle" /\ service = "up"
    /\ phase' = "polling" /\ polledAt' = clock
    /\ UNCHANGED <<storeVars, service, starts, hand>>

WorkerClaim ==
    /\ phase = "polling"
    /\ \E i \in RunIds \cup {NoRun} :
          /\ ClaimNext(polledAt, i)
          /\ hand' = i
          /\ phase' = IF i = NoRun THEN "idle" ELSE "executing"
    /\ polledAt' = 0
    /\ UNCHANGED <<service, starts>>

(* The child has started: on_started records it. *)
WorkerLaunch ==
    /\ phase = "executing" /\ MarkRunning(hand)
    /\ UNCHANGED processVars

(* How a run may end: a folder, skill or launch that fails leaves it        *)
(* claimed; a started child ends by itself, at its deadline, or because     *)
(* stop_check saw the cancel flag or the stopping service.                  *)
Outcomes(i) ==
    IF status[i] = "claimed" THEN {"failed"}
    ELSE {"succeeded", "failed", "timed_out"}
         \cup {o \in {"canceled"} : cancelRequested[i]}
         \cup {o \in {"interrupted"} : service = "stopping"}

(* Mutant: the worker forgets to put the run down. *)
MutantFinishKeepsHand ==
    /\ phase = "executing"
    /\ \E outcome \in Outcomes(hand) : FinishRun(hand, outcome)
    /\ phase' = "idle"
    /\ UNCHANGED <<service, starts, polledAt, hand>>

WorkerFinish ==
    /\ phase = "executing"
    /\ \E outcome \in Outcomes(hand) : FinishRun(hand, outcome)
    /\ phase' = "idle" /\ hand' = NoRun
    /\ UNCHANGED <<service, starts, polledAt>>

(* An exception `execute` does not handle: run_forever logs it and goes on. *)
WorkerLoopError ==
    /\ LoopErrors
    /\ phase = "executing"
    /\ phase' = "idle" /\ hand' = NoRun
    /\ UNCHANGED <<storeVars, service, starts, polledAt>>
-----------------------------------------------------------------------------
(* The process.  Boot takes the lock, opens the store and seeds an empty    *)
(* one; reconcile is a transaction of its own; the worker starts after it.  *)
Boot ==
    /\ service = "down" /\ starts < MaxStarts
    /\ service' = "booting" /\ starts' = starts + 1
    /\ IF Exists(1) THEN UNCHANGED storeVars ELSE CreateRoutine(1, Manual, FALSE)
    /\ UNCHANGED <<phase, polledAt, hand>>

BootReconcile ==
    /\ service = "booting" /\ Reconcile
    /\ service' = "up" /\ phase' = "idle"
    /\ UNCHANGED <<starts, polledAt, hand>>

(* SIGTERM or SIGINT: both threads see the flag at their next look.         *)
StopSignal ==
    /\ service = "up" /\ starts < MaxStarts
    /\ service' = "stopping"
    /\ UNCHANGED <<storeVars, starts, phase, polledAt, hand>>

ProcessGone ==
    /\ service' = "down" /\ phase' = "none" /\ polledAt' = 0 /\ hand' = NoRun
    /\ UNCHANGED <<storeVars, starts>>

(* stop() joins the worker for ten seconds, then leaves it in any case.     *)
StopCompletes == service = "stopping" /\ ProcessGone

(* The process dies: killed, power lost, or an exception leaves the loop.   *)
(* The bound keeps one start in reserve, so the model always comes back.    *)
Crash == service # "down" /\ starts < MaxStarts /\ ProcessGone

(* Manager.disable_dispatch, under the lock of the stopped service: it      *)
(* writes the switch and nothing else.                                      *)
InstallerDisablesDispatch ==
    /\ Installer
    /\ service = "down"
    /\ dispatch' = FALSE
    /\ UNCHANGED <<clock, routineVars, runVars, processVars>>

ClockStep ==
    /\ ClockAdvances \/ (ClockMayStepBack /\ ClockSetBack)
    /\ UNCHANGED processVars
-----------------------------------------------------------------------------
ApiStep ==
    \/ ApiTick \/ ApiCreate \/ ApiUpdate \/ ApiDelete \/ ApiSetEnabled
    \/ ApiSetDispatch \/ ApiRunNow \/ ApiRetry \/ ApiCancel

WorkerStep ==
    \/ WorkerPoll \/ WorkerClaim \/ WorkerLaunch \/ WorkerFinish \/ WorkerLoopError

ProcessStep ==
    \/ Boot \/ BootReconcile \/ StopSignal \/ StopCompletes \/ Crash
    \/ InstallerDisablesDispatch

Next == ApiStep \/ WorkerStep \/ ProcessStep \/ ClockStep

Spec == Init /\ [][Next]_vars
-----------------------------------------------------------------------------
(* Global concurrency is one (claim_next): two runs are never claimed or    *)
(* running together, not even when an exception left one of them active and *)
(* the worker polls again, or when the next process has reconciled.         *)
AtMostOneActive == \A i, j \in RunIds : Active(i) /\ Active(j) => i = j

(* Every edit, pause, deletion and switch to manual reaches the waiting     *)
(* scheduled work of its routine (skip_scheduled_queue, delete_routine): a  *)
(* scheduled run that waits is for the routine as it now is, and that       *)
(* routine's schedule is on.                                                *)
QueuedScheduledIsCurrent ==
    \A i \in RunIds : Queued(i) /\ Scheduled(i) =>
        LET row == routine[job[i].routine]
        IN  /\ job[i].revision = row.revision
            /\ row.enabled /\ ~row.deleted /\ row.cron # Manual

(* A deleted routine has nothing waiting, and neither run_now, retry_run    *)
(* nor a tick can queue more for it.                                        *)
DeletedNeverWaits ==
    \A i \in RunIds : Queued(i) => ~routine[job[i].routine].deleted

(* Same-routine overlap is prevented (scheduler.py _enqueue): when an open  *)
(* run is a scheduled one, every earlier run of its routine has ended.      *)
NoScheduledOverlap ==
    \A i, j \in RunIds :
        Open(i) /\ Scheduled(i) /\ j < i /\ job[j].routine = job[i].routine => Terminal(j)

(* A repeated idempotency key never makes a second run: not after the run   *)
(* it made has ended, not as a retry, and not from another process.         *)
OneRunPerKey ==
    \A i, j \in 1..nruns : job[i].key = job[j].key /\ job[i].key # NoKey => i = j

(* The checkpoint alone already rules out starting a slot again, whatever   *)
(* the clock did: no occurrence ever fired lies after it.                   *)
FiredBehindCheckpoint ==
    \A i \in RunIds : Scheduled(i) => job[i].scheduledAt <= checkpoint[job[i].routine]

(* An occurrence of a routine becomes at most one run, although the clock   *)
(* jumps and an edit gives the same occurrence another slot name.           *)
OccurrenceRunsOnce ==
    \A i, j \in RunIds :
        /\ Scheduled(i) /\ Scheduled(j)
        /\ job[i].routine = job[j].routine /\ job[i].scheduledAt = job[j].scheduledAt
        => i = j

(* schedule_gaps tells the truth: nothing was started for an occurrence     *)
(* inside an interval that is recorded as not observed or skipped.          *)
NoRunInsideGap ==
    \A i \in RunIds, g \in gaps :
        Scheduled(i) /\ job[i].routine = g[1] =>
            ~(g[2] < job[i].scheduledAt /\ job[i].scheduledAt < g[3])

(* Resume schedules the next future occurrence without catch-up: what an    *)
(* edited, paused or resumed routine starts on its own lies after the edit. *)
NoCatchUp ==
    \A i \in RunIds : Scheduled(i) =>
        LET row == routine[job[i].routine]
        IN  job[i].revision > 1 /\ job[i].revision = row.revision
                => job[i].scheduledAt > row.updatedAt

(* While the API serves, the one active run is the one in the worker's      *)
(* hands: no run is open that nobody executes.                              *)
ActiveIsInHand ==
    Serving => \A i \in RunIds : Active(i) <=> (phase = "executing" /\ hand = i)

(* Scheduled runs start only while dispatch is on: set_dispatch leaves      *)
(* nothing scheduled in the queue for the worker to find.                   *)
ScheduledNeedsDispatch ==
    [][\A i \in RunIds :
          Queued(i) /\ Scheduled(i) /\ status'[i] = "claimed" => dispatch]_vars

(* What the preview of the form and of the popup showed when a routine was  *)
(* last looked at.                                                          *)
Shown(r) == Preview(MinutesOf[routine[r].cron], ZoneOf[routine[r].cron], LookedUntil(r))

(* One evaluator for previews and dispatch: a look at the clock starts a    *)
(* routine only for an occurrence that was shown, at a minute the cron      *)
(* expression names and for the first time, through changes of the clocks   *)
(* in either direction.                                                     *)
RunsWereShown ==
    [][ApiTick => \A i \in (nruns + 1)..nruns' :
          LET r == job'[i].routine
              c == routine[r].cron
          IN  /\ job'[i].scheduledAt \in Shown(r)
              /\ Matches(MinutesOf[c], ZoneOf[c], job'[i].scheduledAt)]_vars

(* And it loses none of them silently: each one up to now has its run, or   *)
(* lies in a recorded gap.                                                  *)
OccurrencesAccounted ==
    [][ApiTick => \A r \in Watched : \A t \in Shown(r) :
          t <= clock =>
              \/ \E i \in 1..nruns' : job'[i].routine = r /\ job'[i].scheduledAt = t
              \/ \E g \in gaps' : g[1] = r /\ g[2] < t /\ t <= g[3]]_vars

(* Runs of priority routines first, in their listed order, then oldest      *)
(* first: a run is claimed only ahead of later or less important ones.      *)
ClaimInOrder ==
    [][\A i, j \in RunIds :
          /\ Queued(i) /\ status'[i] = "claimed"
          /\ Queued(j) /\ status'[j] = "queued"
          => Precedes(i, j)]_vars

(* The detailed service implements the abstract queue of runs.              *)
Phase(i) ==
    CASE status[i] = "none" -> "unborn"
      [] Queued(i)          -> "waiting"
      [] Active(i)          -> "started"
      [] OTHER              -> "ended"

Queue == INSTANCE RunQueue WITH Ids <- RunIds, phase <- [i \in RunIds |-> Phase(i)]

KeepsQueuePromise == Queue!Spec
-----------------------------------------------------------------------------
(* The worker thread is scheduled and its loop has no exit but `stopping`;  *)
(* a child ends by its deadline at the latest, so execute goes on; the      *)
(* clock and the API are owed nothing.                                      *)
Fairness ==
    /\ WF_vars(WorkerPoll)
    /\ WF_vars(WorkerClaim)
    /\ WF_vars(WorkerLaunch)
    /\ WF_vars(WorkerFinish)
    /\ WF_vars(BootReconcile)

FairSpec == Spec /\ Fairness

(* Every run has a deadline and the queue moves: once the service stays up, *)
(* every run that is open, also one an earlier process left, comes to an    *)
(* end.                                                                     *)
EveryRunEnds ==
    <>[](service = "up") => \A i \in RunIds : Open(i) ~> Terminal(i)
=============================================================================
