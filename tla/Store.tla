-------------------------------- MODULE Store --------------------------------
(***************************************************************************)
(* The durable state of Omakron (store.py): routines, runs and schedule    *)
(* state in one SQLite database.  Every operation below is one BEGIN       *)
(* IMMEDIATE transaction of the code, so each is one atomic step; a crash  *)
(* falls between them.  An operation the code refuses (an unknown id, a    *)
(* stale revision, an ended run) changes nothing and is no step.           *)
(***************************************************************************)
EXTENDS Schedule, FiniteSets

CONSTANTS
    NRoutines,     \* routines that are ever created; ids are in creation order
    Crons,         \* the (cron, timezone) pairs a routine may be given
    Manual,        \* the schedule kind with neither
    MinutesOf,     \* [Crons -> SUBSET Int]: the wall-clock minutes of each expression
    ZoneOf,        \* [Crons -> Zone]: its timezone
    RankOf,        \* [1..NRoutines -> Nat]: place in priority_routines, the rest last
    Keys, NoKey,   \* idempotency keys, and the request without one
    RunNowKeys,    \* bound: the keys, NoKey among them or not, that run_now is called with
    MaxWait,       \* queue_max_wait_s
    MaxRuns,       \* bound: rows of the runs table
    MaxTime,       \* bound: the wall clock
    MaxRevision    \* bound: revisions of a routine

Routines == 1..NRoutines
RunIds   == 1..MaxRuns      \* rowid order
Time     == 0..MaxTime

NoTime == -1
NoSlot == <<>>
NoRun  == 0

ASSUME StoreAssumption ==
    /\ NRoutines \in Nat \ {0}
    /\ MaxRuns \in Nat /\ MaxTime \in Nat /\ MaxWait \in Nat
    /\ MaxRevision \in Nat \ {0}
    /\ Manual \notin Crons
    /\ MinutesOf \in [Crons -> SUBSET Int] /\ ZoneOf \in [Crons -> Zone]
    /\ \A c \in Crons : /\ MinutesApart(MinutesOf[c], ZoneOf[c])
                        /\ \A l \in MinutesOf[c] : FirstInstant(ZoneOf[c], l) \subseteq Time
    /\ RankOf \in [Routines -> Nat]
    /\ NoKey \notin Keys /\ RunNowKeys \subseteq Keys \cup {NoKey}

VARIABLES
    clock,            \* the wall clock all timestamps come from
    routine,          \* table routines; revision 0: the row does not exist yet
    checkpoint,       \* table schedule_state; NoTime: no row
    gaps,             \* table schedule_gaps
    dispatch,         \* schema_meta dispatch_enabled
    nruns,            \* rows of table runs so far
    job,              \* what a run's row says from its insertion on
    status,           \* runs.status; "none": the row does not exist yet
    cancelRequested   \* runs.cancel_requested

routineVars == <<routine, checkpoint, gaps>>
runVars     == <<nruns, job, status, cancelRequested>>
storeVars   == <<clock, routineVars, dispatch, runVars>>

ActiveStatuses   == {"claimed", "running"}
OpenStatuses     == {"queued"} \cup ActiveStatuses
TerminalStatuses == {"succeeded", "failed", "timed_out", "canceled", "interrupted", "skipped"}

RoutineRow == [revision  : 0..MaxRevision,
               cron      : Crons \cup {Manual},
               enabled   : BOOLEAN,
               deleted   : BOOLEAN,
               updatedAt : Time]

(* schedule_slots holds exactly the slots of the scheduled rows: the slot   *)
(* row and the run row are written by one transaction and never removed.    *)
JobRow == [routine     : Routines,
           revision    : 1..MaxRevision,
           trigger     : {"manual", "scheduled"},
           key         : Keys \cup {NoKey},
           retryOf     : RunIds \cup {NoRun},
           enqueuedAt  : Time,
           scheduledAt : Time \cup {NoTime},
           slot        : (Zone \X Int) \cup {NoSlot}]

NoJob == [routine |-> 0]

StoreTypeOK ==
    /\ clock \in Time
    /\ routine \in [Routines -> RoutineRow]
    /\ checkpoint \in [Routines -> Time \cup {NoTime}]
    /\ gaps \subseteq Routines \X Int \X Int
    /\ dispatch \in BOOLEAN
    /\ nruns \in 0..MaxRuns
    /\ job \in [RunIds -> JobRow \cup {NoJob}]
    /\ \A i \in 1..nruns : job[i] \in JobRow
    /\ status \in [RunIds -> {"none"} \cup OpenStatuses \cup TerminalStatuses]
    /\ \A i \in RunIds : status[i] = "none" <=> i > nruns
    /\ cancelRequested \in [RunIds -> BOOLEAN]

StoreInit ==
    /\ clock = 0
    /\ routine = [r \in Routines |-> [revision |-> 0, cron |-> Manual, enabled |-> FALSE,
                                      deleted |-> FALSE, updatedAt |-> 0]]
    /\ checkpoint = [r \in Routines |-> NoTime]
    /\ gaps = {}
    /\ dispatch = TRUE
    /\ nruns = 0
    /\ job = [i \in RunIds |-> NoJob]
    /\ status = [i \in RunIds |-> "none"]
    /\ cancelRequested = [i \in RunIds |-> FALSE]
-----------------------------------------------------------------------------
Exists(r) == routine[r].revision > 0
Listed(r) == Exists(r) /\ ~routine[r].deleted     \* list_routines

Queued(i)    == status[i] = "queued"
Active(i)    == status[i] \in ActiveStatuses
Open(i)      == status[i] \in OpenStatuses
Terminal(i)  == status[i] \in TerminalStatuses
Scheduled(i) == i <= nruns /\ job[i].trigger = "scheduled"

QueuedRuns          == {i \in RunIds : Queued(i)}
QueuedOf(r)         == {i \in QueuedRuns : job[i].routine = r}
QueuedScheduledOf(r) == {i \in QueuedOf(r) : job[i].trigger = "scheduled"}

(* UPDATE runs SET status = s WHERE id IN S *)
StatusWhere(S, s) == [i \in RunIds |-> IF i \in S THEN s ELSE status[i]]

(* Mutant: the checkpoint follows the clock back. *)
MutantFollowsClock(a, b) == b

(* max: checkpoints only move forward. *)
Later(a, b) == IF a < b THEN b ELSE a

(* expire_queue: the queued runs that have waited longer than the limit.    *)
Overdue(now) == {i \in QueuedRuns : now - job[i].enqueuedAt > MaxWait}

(* skip_scheduled_queue *)
SkipScheduledQueue(R) == StatusWhere(UNION {QueuedScheduledOf(r) : r \in R}, "skipped")

(* _advance_checkpoint *)
AdvanceCheckpoint(r, resumed) ==
    /\ checkpoint' = [checkpoint EXCEPT ![r] = Later(@, clock)]
    /\ gaps' = gaps \cup
          {g \in {<<r, checkpoint[r], clock>>} :
               resumed /\ checkpoint[r] # NoTime /\ checkpoint[r] < clock}
-----------------------------------------------------------------------------
(* create_routine: rows are created in the order of their ids.              *)
CreateRoutine(r, c, on) ==
    /\ ~Exists(r) /\ (\A q \in Routines : q < r => Exists(q))
    /\ routine' = [routine EXCEPT ![r] =
          [revision |-> 1, cron |-> c, enabled |-> on, deleted |-> FALSE, updatedAt |-> clock]]
    /\ UNCHANGED <<clock, checkpoint, gaps, dispatch, runVars>>

(* Mutant: an edit leaves the scheduled queue alone. *)
MutantEditKeepsQueue(r, c) ==
    LET row == routine[r]
        on  == c # Manual /\ (row.enabled \/ row.cron # c)
    IN  /\ Listed(r) /\ row.revision < MaxRevision
        /\ routine' = [routine EXCEPT ![r] =
              [revision |-> row.revision + 1, cron |-> c, enabled |-> on,
               deleted |-> FALSE, updatedAt |-> clock]]
        /\ AdvanceCheckpoint(r, on /\ ~row.enabled)
        /\ UNCHANGED <<clock, dispatch, runVars>>

(* update_routine: a whole new draft.  A new time turns the schedule on.    *)
UpdateRoutine(r, c) ==
    LET row == routine[r]
        on  == c # Manual /\ (row.enabled \/ row.cron # c)
    IN  /\ Listed(r) /\ row.revision < MaxRevision
        /\ status' = SkipScheduledQueue({r})
        /\ routine' = [routine EXCEPT ![r] =
              [revision |-> row.revision + 1, cron |-> c, enabled |-> on,
               deleted |-> FALSE, updatedAt |-> clock]]
        /\ AdvanceCheckpoint(r, on /\ ~row.enabled)
        /\ UNCHANGED <<clock, dispatch, nruns, job, cancelRequested>>

(* Mutant: a deletion clears only the scheduled queue. *)
MutantDeleteKeepsManual(r) ==
    /\ Listed(r) /\ routine[r].revision < MaxRevision
    /\ routine' = [routine EXCEPT ![r] =
          [revision |-> routine[r].revision + 1, cron |-> routine[r].cron, enabled |-> FALSE,
           deleted |-> TRUE, updatedAt |-> clock]]
    /\ status' = SkipScheduledQueue({r})
    /\ UNCHANGED <<clock, checkpoint, gaps, dispatch, nruns, job, cancelRequested>>

(* delete_routine: hides the routine and cancels everything it has waiting. *)
DeleteRoutine(r) ==
    /\ Listed(r) /\ routine[r].revision < MaxRevision
    /\ routine' = [routine EXCEPT ![r] =
          [revision |-> routine[r].revision + 1, cron |-> routine[r].cron, enabled |-> FALSE,
           deleted |-> TRUE, updatedAt |-> clock]]
    /\ status' = StatusWhere(QueuedOf(r), "canceled")
    /\ UNCHANGED <<clock, checkpoint, gaps, dispatch, nruns, job, cancelRequested>>

(* Mutant: resuming does not move the checkpoint. *)
MutantResumeCatchesUp(r, on) ==
    /\ Listed(r) /\ routine[r].revision < MaxRevision
    /\ on => routine[r].cron # Manual
    /\ status' = SkipScheduledQueue({r})
    /\ routine' = [routine EXCEPT ![r] =
          [revision |-> routine[r].revision + 1, cron |-> routine[r].cron, enabled |-> on,
           deleted |-> FALSE, updatedAt |-> clock]]
    /\ UNCHANGED <<clock, checkpoint, gaps, dispatch, nruns, job, cancelRequested>>

(* set_enabled: pause and resume. *)
SetEnabled(r, on) ==
    /\ Listed(r) /\ routine[r].revision < MaxRevision
    /\ on => routine[r].cron # Manual
    /\ status' = SkipScheduledQueue({r})
    /\ routine' = [routine EXCEPT ![r] =
          [revision |-> routine[r].revision + 1, cron |-> routine[r].cron, enabled |-> on,
           deleted |-> FALSE, updatedAt |-> clock]]
    /\ AdvanceCheckpoint(r, on)
    /\ UNCHANGED <<clock, dispatch, nruns, job, cancelRequested>>

(* Mutant: the key of a run that has ended is free again. *)
MutantEnqueueForgetsKey(r, key, retryOf) ==
    /\ Listed(r)
    /\ key # NoKey => \A i \in 1..nruns : Open(i) => job[i].key # key
    /\ nruns < MaxRuns
    /\ nruns' = nruns + 1
    /\ job' = [job EXCEPT ![nruns + 1] =
          [routine |-> r, revision |-> routine[r].revision, trigger |-> "manual", key |-> key,
           retryOf |-> retryOf, enqueuedAt |-> clock, scheduledAt |-> NoTime, slot |-> NoSlot]]
    /\ status' = [status EXCEPT ![nruns + 1] = "queued"]
    /\ UNCHANGED <<clock, routineVars, dispatch, cancelRequested>>

(* enqueue_run as run_now and retry_run call it.  A repeated key answers    *)
(* with the run it already made, or is refused: no step.                    *)
EnqueueRun(r, key, retryOf) ==
    /\ Listed(r)
    /\ key # NoKey => \A i \in 1..nruns : job[i].key # key
    /\ nruns < MaxRuns
    /\ nruns' = nruns + 1
    /\ job' = [job EXCEPT ![nruns + 1] =
          [routine |-> r, revision |-> routine[r].revision, trigger |-> "manual", key |-> key,
           retryOf |-> retryOf, enqueuedAt |-> clock, scheduledAt |-> NoTime, slot |-> NoSlot]]
    /\ status' = [status EXCEPT ![nruns + 1] = "queued"]
    /\ UNCHANGED <<clock, routineVars, dispatch, cancelRequested>>

(* request_cancel: a waiting run ends now, an active one is only flagged.   *)
RequestCancel(i) ==
    /\ Open(i)
    /\ status' = IF Queued(i) THEN [status EXCEPT ![i] = "canceled"] ELSE status
    /\ cancelRequested' = [cancelRequested EXCEPT ![i] = TRUE]
    /\ UNCHANGED <<clock, routineVars, dispatch, nruns, job>>
-----------------------------------------------------------------------------
(* claim_next, with the time the caller read before the transaction began.  *)
(* The result is the claimed run, or NoRun.                                 *)
Precedes(i, j) ==
    \/ RankOf[job[i].routine] < RankOf[job[j].routine]
    \/ RankOf[job[i].routine] = RankOf[job[j].routine] /\ i < j

(* Mutant: nobody looks for an active run. *)
MutantClaimBesideActive(now) ==
    LET waiting == QueuedRuns \ Overdue(now)
    IN  {i \in waiting : \A j \in waiting : j # i => Precedes(i, j)}

(* Mutant: of the same rank, the one that came last. *)
MutantClaimNewest(now) ==
    LET waiting == QueuedRuns \ Overdue(now)
        rank(i) == RankOf[job[i].routine]
    IN  {i \in waiting : /\ \A k \in RunIds : ~Active(k)
                         /\ \A j \in waiting : rank(i) < rank(j) \/ (rank(i) = rank(j) /\ i >= j)}

Claimable(now) ==
    LET waiting == QueuedRuns \ Overdue(now)
    IN  {i \in waiting : /\ \A k \in RunIds : ~Active(k)
                         /\ \A j \in waiting : j # i => Precedes(i, j)}

ClaimNext(now, i) ==
    /\ i \in Claimable(now) \/ (i = NoRun /\ Claimable(now) = {})
    /\ LET expired == StatusWhere(Overdue(now), "skipped")
       IN  status' = [k \in RunIds |-> IF k = i THEN "claimed" ELSE expired[k]]
    /\ UNCHANGED <<clock, routineVars, dispatch, nruns, job, cancelRequested>>

MarkRunning(i) ==
    /\ status[i] = "claimed"
    /\ status' = [status EXCEPT ![i] = "running"]
    /\ UNCHANGED <<clock, routineVars, dispatch, nruns, job, cancelRequested>>

FinishRun(i, outcome) ==
    /\ Open(i) /\ outcome \in TerminalStatuses
    /\ status' = [status EXCEPT ![i] = outcome]
    /\ UNCHANGED <<clock, routineVars, dispatch, nruns, job, cancelRequested>>

(* Mutant: only runs with a process are reconciled. *)
MutantReconcileRunningOnly ==
    /\ status' = StatusWhere({i \in RunIds : status[i] = "running"}, "interrupted")
    /\ UNCHANGED <<clock, routineVars, dispatch, nruns, job, cancelRequested>>

(* Mutant: what was left claimed goes back to the queue. *)
MutantReconcileRequeues ==
    /\ status' = StatusWhere({i \in RunIds : Active(i)}, "queued")
    /\ UNCHANGED <<clock, routineVars, dispatch, nruns, job, cancelRequested>>

(* reconcile: a worker id is new at every start, so every active run was    *)
(* left by another worker.                                                  *)
Reconcile ==
    /\ status' = StatusWhere({i \in RunIds : Active(i)}, "interrupted")
    /\ UNCHANGED <<clock, routineVars, dispatch, nruns, job, cancelRequested>>

(* The wall clock: it advances, and it may be set back.                     *)
ClockAdvances ==
    /\ clock < MaxTime /\ clock' = clock + 1
    /\ UNCHANGED <<routineVars, dispatch, runVars>>

ClockSetBack ==
    /\ \E t \in Time : t < clock /\ clock' = t
    /\ UNCHANGED <<routineVars, dispatch, runVars>>
=============================================================================
