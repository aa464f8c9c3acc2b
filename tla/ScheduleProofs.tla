--------------------------- MODULE ScheduleProofs ---------------------------
(***************************************************************************)
(* Theorems about scheduled work: what waits is for the routine as it now  *)
(* is, checkpoints only move forward, no occurrence runs twice, and the    *)
(* recorded gaps tell the truth - for any number of routines, any          *)
(* schedules and a clock that may jump back.                               *)
(***************************************************************************)
EXTENDS ServiceProofs

(* How one step may change a routine: not at all, by creating it, or by an  *)
(* edit that raises its revision and empties its scheduled queue.           *)
Created(r) ==
    /\ ~Exists(r)
    /\ routine'[r].revision = 1 /\ ~routine'[r].deleted

Edited(r) ==
    /\ Listed(r)
    /\ routine'[r].revision = routine[r].revision + 1
    /\ routine'[r].updatedAt = clock
    /\ \A i \in RunIds :
          status[i] = "queued" /\ job[i].routine = r
          /\ (job[i].trigger = "scheduled" \/ routine'[r].deleted) => status'[i] # "queued"
    /\ ~routine'[r].deleted => clock <= checkpoint'[r]

RoutineStep ==
    \A r \in Routines : routine'[r] = routine[r] \/ Created(r) \/ Edited(r)

LEMMA SkippedLeaveQueue ==
    ASSUME NEW R \in SUBSET Routines, status' = SkipScheduledQueue(R),
           NEW r \in R, NEW i \in RunIds,
           status[i] = "queued", job[i].routine = r, job[i].trigger = "scheduled"
    PROVE  status'[i] # "queued"
BY DEF SkipScheduledQueue, StatusWhere, QueuedScheduledOf, QueuedOf, QueuedRuns, Queued

LEMMA AdvancedCheckpoint ==
    ASSUME StoreTypeOK, NEW r \in Routines, NEW resumed, AdvanceCheckpoint(r, resumed)
    PROVE  clock <= checkpoint'[r]
<1>1. clock \in Int /\ checkpoint[r] \in Int
  BY StoreAssumption DEF StoreAssumption, StoreTypeOK, Time, NoTime
<1>2. checkpoint'[r] = Later(checkpoint[r], clock)
  BY DEF AdvanceCheckpoint, StoreTypeOK
<1>3. QED
  BY <1>1, <1>2 DEF Later

LEMMA NextRoutines ==
    ASSUME TypeOK, [Next]_vars
    PROVE  RoutineStep
<1>1. StoreTypeOK
  BY DEF TypeOK
<1>2. CASE ApiCreate \/ (Boot /\ ~UNCHANGED storeVars)
  <2>1. PICK q \in Routines, c \in Crons \cup {Manual}, on \in BOOLEAN : CreateRoutine(q, c, on)
    <3>1. CASE ApiCreate
      BY <3>1 DEF ApiCreate
    <3>2. CASE Boot /\ ~UNCHANGED storeVars
      <4>1. CreateRoutine(1, Manual, FALSE)
        BY <3>2 DEF Boot
      <4>2. 1 \in Routines
        BY StoreAssumption DEF StoreAssumption, Routines
      <4>3. QED
        BY <4>1, <4>2
    <3>3. QED
      BY <1>2, <3>1, <3>2
  <2>2. \A r \in Routines : r # q => routine'[r] = routine[r]
    BY <1>1, <2>1 DEF CreateRoutine, StoreTypeOK
  <2>3. Created(q)
    BY <1>1, <2>1 DEF CreateRoutine, StoreTypeOK, Created
  <2>4. QED
    BY <2>2, <2>3 DEF RoutineStep
<1>3. CASE ApiUpdate
  <2>1. PICK q \in Routines, c \in Crons \cup {Manual} : UpdateRoutine(q, c)
    BY <1>3 DEF ApiUpdate
  <2>2. \A r \in Routines : r # q => routine'[r] = routine[r]
    BY <1>1, <2>1 DEF UpdateRoutine, StoreTypeOK
  <2>3. /\ Listed(q) /\ routine'[q].revision = routine[q].revision + 1
        /\ routine'[q].updatedAt = clock /\ ~routine'[q].deleted
    BY <1>1, <2>1 DEF UpdateRoutine, StoreTypeOK
  <2>4. clock <= checkpoint'[q]
    BY <1>1, <2>1, AdvancedCheckpoint DEF UpdateRoutine
  <2>5. \A i \in RunIds : status[i] = "queued" /\ job[i].routine = q
                          /\ job[i].trigger = "scheduled" => status'[i] # "queued"
    BY <2>1, SkippedLeaveQueue, {q} \in SUBSET Routines DEF UpdateRoutine
  <2>6. Edited(q)
    BY <2>3, <2>4, <2>5 DEF Edited
  <2>7. QED
    BY <2>2, <2>6 DEF RoutineStep
<1>4. CASE ApiSetEnabled
  <2>1. PICK q \in Routines, on \in BOOLEAN : SetEnabled(q, on)
    BY <1>4 DEF ApiSetEnabled
  <2>2. \A r \in Routines : r # q => routine'[r] = routine[r]
    BY <1>1, <2>1 DEF SetEnabled, StoreTypeOK
  <2>3. /\ Listed(q) /\ routine'[q].revision = routine[q].revision + 1
        /\ routine'[q].updatedAt = clock /\ ~routine'[q].deleted
    BY <1>1, <2>1 DEF SetEnabled, StoreTypeOK
  <2>4. clock <= checkpoint'[q]
    BY <1>1, <2>1, AdvancedCheckpoint DEF SetEnabled
  <2>5. \A i \in RunIds : status[i] = "queued" /\ job[i].routine = q
                          /\ job[i].trigger = "scheduled" => status'[i] # "queued"
    BY <2>1, SkippedLeaveQueue, {q} \in SUBSET Routines DEF SetEnabled
  <2>6. Edited(q)
    BY <2>3, <2>4, <2>5 DEF Edited
  <2>7. QED
    BY <2>2, <2>6 DEF RoutineStep
<1>5. CASE ApiDelete
  <2>1. PICK q \in Routines : DeleteRoutine(q)
    BY <1>5 DEF ApiDelete
  <2>2. \A r \in Routines : r # q => routine'[r] = routine[r]
    BY <1>1, <2>1 DEF DeleteRoutine, StoreTypeOK
  <2>3. /\ Listed(q) /\ routine'[q].revision = routine[q].revision + 1
        /\ routine'[q].updatedAt = clock /\ routine'[q].deleted
    BY <1>1, <2>1 DEF DeleteRoutine, StoreTypeOK
  <2>4. \A i \in RunIds : status[i] = "queued" /\ job[i].routine = q => status'[i] # "queued"
    BY <2>1 DEF DeleteRoutine, StatusWhere, QueuedOf, QueuedRuns, Queued
  <2>5. Edited(q)
    BY <2>3, <2>4 DEF Edited
  <2>6. QED
    BY <2>2, <2>5 DEF RoutineStep
<1>6. CASE UNCHANGED routine
  BY <1>6 DEF RoutineStep
<1>7. CASE ApiStep
  BY <1>2, <1>3, <1>4, <1>5, <1>6, <1>7
     DEF ApiStep, ApiTick, Tick, ApiSetDispatch, SetDispatch, ApiRunNow, ApiRetry, EnqueueRun,
         ApiCancel, RequestCancel, routineVars
<1>8. CASE WorkerStep
  BY <1>6, <1>8
     DEF WorkerStep, WorkerPoll, WorkerClaim, ClaimNext, WorkerLaunch, MarkRunning, WorkerFinish,
         FinishRun, WorkerLoopError, storeVars, routineVars
<1>9. CASE ProcessStep
  BY <1>2, <1>6, <1>9
     DEF ProcessStep, Boot, BootReconcile, Reconcile, StopSignal, StopCompletes, Crash,
         ProcessGone, InstallerDisablesDispatch, storeVars, routineVars
<1>10. CASE ClockStep \/ UNCHANGED vars
  BY <1>6, <1>10 DEF ClockStep, ClockAdvances, ClockSetBack, vars, storeVars, routineVars
<1>11. QED
  BY <1>7, <1>8, <1>9, <1>10 DEF Next
-----------------------------------------------------------------------------
(* Where a run comes from: a request, or a tick.                            *)
Requested(i) ==
    /\ job'[i].trigger = "manual" /\ job'[i].slot = NoSlot
    /\ job'[i].routine \in Routines
    /\ Listed(job'[i].routine)
    /\ job'[i].revision = routine[job'[i].routine].revision
    /\ UNCHANGED <<routine, checkpoint, gaps, dispatch>>

Ticked(i) ==
    /\ Tick
    /\ i \in NewRuns

LEMMA NewRunOrigin ==
    ASSUME TypeOK, [Next]_vars, NEW i \in RunIds, status[i] = "none", status'[i] # "none"
    PROVE  Requested(i) \/ Ticked(i)
<1>1. StoreTypeOK
  BY DEF TypeOK
<1>2. i > nruns /\ nruns \in Nat
  BY <1>1, StoreAssumption DEF StoreTypeOK, StoreAssumption
<1>3. status' # status /\ ~UNCHANGED runVars
  BY DEF runVars
<1>4. CASE ApiTick
  <2>1. Tick
    BY <1>4 DEF ApiTick
  <2>2. i \notin NewRuns => status'[i] = "none"
    BY <1>1, <2>1, TickRuns, QueuedSetsType
  <2>3. QED
    BY <2>1, <2>2 DEF Ticked
<1>5. CASE ApiRunNow \/ ApiRetry
  <2>1. PICK r, k, o : EnqueueRun(r, k, o) /\ r \in Routines
    <3>1. CASE ApiRunNow
      BY <3>1 DEF ApiRunNow
    <3>2. CASE ApiRetry
      <4>1. PICK j \in RunIds, k \in Keys : Terminal(j) /\ EnqueueRun(job[j].routine, k, j)
        BY <3>2 DEF ApiRetry
      <4>2. j \in 1..nruns
        BY <1>1, <4>1, StoreAssumption
           DEF Terminal, TerminalStatuses, StoreTypeOK, RunIds, StoreAssumption
      <4>3. job[j].routine \in Routines
        BY <1>1, <4>2 DEF StoreTypeOK, JobRow
      <4>4. QED
        BY <4>1, <4>3
    <3>3. QED
      BY <1>5, <3>1, <3>2
  <2>2. i = nruns + 1
    BY <1>1, <1>2, <2>1 DEF EnqueueRun, StoreTypeOK
  <2>3. job'[i] = [routine |-> r, revision |-> routine[r].revision, trigger |-> "manual",
                   key |-> k, retryOf |-> o, enqueuedAt |-> clock,
                   scheduledAt |-> NoTime, slot |-> NoSlot]
    BY <1>1, <2>1, <2>2 DEF EnqueueRun, StoreTypeOK
  <2>4. QED
    BY <2>1, <2>3 DEF Requested, EnqueueRun, routineVars
<1>6. ~(ApiCreate \/ ApiUpdate \/ ApiDelete \/ ApiSetEnabled \/ ApiSetDispatch \/ ApiCancel)
  <2>1. \A R \in SUBSET Routines : SkipScheduledQueue(R)[i] = "none"
    BY <1>1, SkipScheduledQueueType
  <2>2. \A r \in Routines : {r} \in SUBSET Routines
    OBVIOUS
  <2>3. {r \in Routines : Listed(r)} \in SUBSET Routines
    OBVIOUS
  <2>4. ~ApiCreate
    BY <1>3 DEF ApiCreate, CreateRoutine
  <2>5. ~ApiUpdate
    BY <2>1, <2>2 DEF ApiUpdate, UpdateRoutine
  <2>6. ~ApiSetEnabled
    BY <2>1, <2>2 DEF ApiSetEnabled, SetEnabled
  <2>7. ~ApiSetDispatch
    BY <2>1, <2>3 DEF ApiSetDispatch, SetDispatch
  <2>8. ~ApiDelete
    BY DEF ApiDelete, DeleteRoutine, StatusWhere, QueuedOf, QueuedRuns, Queued
  <2>9. ~ApiCancel
    BY <1>1 DEF ApiCancel, RequestCancel, Open, Queued, OpenStatuses, ActiveStatuses, StoreTypeOK
  <2>10. QED
    BY <2>4, <2>5, <2>6, <2>7, <2>8, <2>9
<1>7. ~WorkerStep
  <2>1. ~(WorkerPoll \/ WorkerLoopError)
    BY <1>3 DEF WorkerPoll, WorkerLoopError, storeVars
  <2>2. ~WorkerClaim
    <3>1. SUFFICES ASSUME WorkerClaim PROVE FALSE
      OBVIOUS
    <3>2. PICK k \in RunIds \cup {NoRun} : ClaimNext(polledAt, k)
      BY <3>1 DEF WorkerClaim
    <3>3. status'[i] = IF i = k THEN "claimed" ELSE StatusWhere(Overdue(polledAt), "skipped")[i]
      BY <3>2 DEF ClaimNext
    <3>4. i \notin Overdue(polledAt) /\ StatusWhere(Overdue(polledAt), "skipped")[i] = "none"
      BY DEF StatusWhere, Overdue, QueuedRuns, Queued
    <3>5. i = k
      BY <3>3, <3>4
    <3>6. i \in Claimable(polledAt)
      BY <3>2, <3>5 DEF ClaimNext, NoRun, RunIds
    <3>7. QED
      BY <3>6 DEF Claimable, QueuedRuns, Queued
  <2>3. ~WorkerLaunch
    BY <1>1 DEF WorkerLaunch, MarkRunning, StoreTypeOK
  <2>4. ~WorkerFinish
    BY <1>1 DEF WorkerFinish, FinishRun, Open, OpenStatuses, ActiveStatuses, StoreTypeOK
  <2>5. QED
    BY <2>1, <2>2, <2>3, <2>4 DEF WorkerStep
<1>8. ~ProcessStep
  <2>1. ~BootReconcile
    BY DEF BootReconcile, Reconcile, StatusWhere, Active, ActiveStatuses
  <2>2. QED
    BY <1>3, <2>1 DEF ProcessStep, Boot, CreateRoutine, StopSignal, StopCompletes, Crash,
                      ProcessGone, InstallerDisablesDispatch, storeVars
<1>9. ~ClockStep /\ ~UNCHANGED vars
  BY <1>3 DEF ClockStep, ClockAdvances, ClockSetBack, vars, storeVars
<1>10. QED
  BY <1>4, <1>5, <1>6, <1>7, <1>8, <1>9 DEF Next, ApiStep
-----------------------------------------------------------------------------
(* What a tick knows of a run it records.                                   *)
LEMMA TickedRun ==
    ASSUME StoreTypeOK, NEW i \in RunIds, Ticked(i)
    PROVE  /\ FiredAs(i) \in Watched /\ i = NewRun(FiredAs(i))
           /\ job'[i] = ScheduledJob(FiredAs(i))
           /\ job'[i].trigger = "scheduled" /\ job'[i].routine = FiredAs(i)
           /\ job'[i].revision = routine[FiredAs(i)].revision
           /\ job'[i].scheduledAt \in DueOf(FiredAs(i))
<1>1. Tick /\ i \in NewRuns
  BY DEF Ticked
<1>2. FiredAs(i) \in Fired /\ i = NewRun(FiredAs(i)) /\ job'[i] = ScheduledJob(FiredAs(i))
  BY <1>1, TickRuns
<1>3. FiredAs(i) \in Watched
  BY <1>2 DEF Fired
<1>4. OccurrenceOf(FiredAs(i)) \in DueOf(FiredAs(i))
  BY <1>2, OccurrenceDue
<1>5. QED
  BY <1>2, <1>3, <1>4 DEF ScheduledJob

(* A run that waits after a step waited before it, with the same row, or is *)
(* new.                                                                     *)
LEMMA StillQueued ==
    ASSUME TypeOK, [Next]_vars, NEW i \in RunIds, status'[i] = "queued"
    PROVE  \/ status[i] = "queued" /\ job'[i] = job[i] /\ i \in 1..nruns
           \/ status[i] = "none" /\ (Requested(i) \/ Ticked(i))
<1>1. Moves(i) /\ (status[i] # "none" => job'[i] = job[i])
  BY NextRuns DEF RunsStep
<1>2. status[i] \in {"none", "queued"}
  BY <1>1 DEF Moves, TerminalStatuses
<1>3. status[i] # "none" => i \in 1..nruns
  BY StoreAssumption DEF TypeOK, StoreTypeOK, RunIds, StoreAssumption
<1>4. QED
  BY <1>1, <1>2, <1>3, NewRunOrigin

LEMMA RowsTyped ==
    ASSUME TypeOK
    PROVE  /\ \A i \in 1..nruns : /\ job[i].routine \in Routines
                                  /\ job[i].revision \in Nat \ {0}
                                  /\ job[i].scheduledAt \in Time \cup {NoTime}
           /\ \A r \in Routines : routine[r].revision \in Nat /\ routine[r].updatedAt \in Time
           /\ \A r \in Routines : checkpoint[r] \in Int /\ (checkpoint[r] < 0 => checkpoint[r] = NoTime)
           /\ clock \in Nat
BY StoreAssumption DEF TypeOK, StoreTypeOK, JobRow, RoutineRow, StoreAssumption, Time, NoTime

(* Whatever is edited, paused, deleted or ticked meanwhile, a scheduled run *)
(* that waits is for the routine as it now is (skip_scheduled_queue).       *)
THEOREM QueueIsCurrent == Spec => []QueuedScheduledIsCurrent
<1>1. Init => QueuedScheduledIsCurrent
  BY DEF Init, StoreInit, QueuedScheduledIsCurrent, Queued
<1>2. TypeOK /\ QueuedScheduledIsCurrent /\ [Next]_vars => QueuedScheduledIsCurrent'
  <2> SUFFICES ASSUME TypeOK, QueuedScheduledIsCurrent, [Next]_vars,
                      NEW i \in RunIds, status'[i] = "queued", Scheduled(i)'
               PROVE  LET row == routine'[job'[i].routine]
                      IN  /\ job'[i].revision = row.revision
                          /\ row.enabled /\ ~row.deleted /\ row.cron # Manual
    BY DEF QueuedScheduledIsCurrent, Queued
  <2>1. CASE status[i] = "queued" /\ job'[i] = job[i] /\ i \in 1..nruns
    <3> DEFINE r == job[i].routine
    <3>1. job[i].trigger = "scheduled" /\ Scheduled(i) /\ Queued(i)
      BY <2>1 DEF Scheduled, Queued
    <3>2. r \in Routines /\ job[i].revision = routine[r].revision /\ Exists(r)
      BY <2>1, <3>1, RowsTyped DEF QueuedScheduledIsCurrent, Exists
    <3>3. routine'[r] = routine[r] \/ Created(r) \/ Edited(r)
      BY <3>2, NextRoutines DEF RoutineStep
    <3>4. ~Edited(r)
      BY <2>1, <3>1 DEF Edited
    <3>5. routine'[r] = routine[r]
      BY <3>2, <3>3, <3>4 DEF Created
    <3>6. QED
      BY <2>1, <3>1, <3>5 DEF QueuedScheduledIsCurrent
  <2>2. CASE Requested(i)
    BY <2>2 DEF Requested, Scheduled
  <2>3. CASE Ticked(i)
    <3>1. FiredAs(i) \in Watched /\ job'[i].routine = FiredAs(i)
          /\ job'[i].revision = routine[FiredAs(i)].revision
      BY <2>3, TickedRun DEF TypeOK
    <3>2. routine' = routine
      BY <2>3 DEF Ticked, Tick
    <3>3. QED
      BY <3>1, <3>2 DEF Watched, OnCron, Listed
  <2>4. QED
    BY <2>1, <2>2, <2>3, StillQueued
<1>3. QED
  BY <1>1, <1>2, TypeCorrect, PTL DEF Spec

(* A deletion clears what waits (delete_routine), and neither a request nor *)
(* a tick adds to it afterwards.                                            *)
THEOREM DeletedIdle == Spec => []DeletedNeverWaits
<1>1. Init => DeletedNeverWaits
  BY DEF Init, StoreInit, DeletedNeverWaits, Queued
<1>2. TypeOK /\ DeletedNeverWaits /\ [Next]_vars => DeletedNeverWaits'
  <2> SUFFICES ASSUME TypeOK, DeletedNeverWaits, [Next]_vars,
                      NEW i \in RunIds, status'[i] = "queued"
               PROVE  ~routine'[job'[i].routine].deleted
    BY DEF DeletedNeverWaits, Queued
  <2>1. CASE status[i] = "queued" /\ job'[i] = job[i] /\ i \in 1..nruns
    <3> DEFINE r == job[i].routine
    <3>1. r \in Routines /\ ~routine[r].deleted
      BY <2>1, RowsTyped DEF DeletedNeverWaits, Queued
    <3>2. routine'[r] = routine[r] \/ Created(r) \/ Edited(r)
      BY <3>1, NextRoutines DEF RoutineStep
    <3>3. Edited(r) => ~routine'[r].deleted
      BY <2>1 DEF Edited
    <3>4. QED
      BY <2>1, <3>1, <3>2, <3>3 DEF Created
  <2>2. CASE Requested(i)
    BY <2>2 DEF Requested, Listed
  <2>3. CASE Ticked(i)
    <3>1. FiredAs(i) \in Watched /\ job'[i].routine = FiredAs(i) /\ routine' = routine
      BY <2>3, TickedRun DEF TypeOK, Ticked, Tick
    <3>2. QED
      BY <3>1 DEF Watched, OnCron, Listed
  <2>4. QED
    BY <2>1, <2>2, <2>3, StillQueued
<1>3. QED
  BY <1>1, <1>2, TypeCorrect, PTL DEF Spec
-----------------------------------------------------------------------------
(* Checkpoints only move forward, whatever the clock does, and a new gap    *)
(* lies between the checkpoint before the step and the one after it.        *)
GapStep(g) ==
    /\ g[1] \in Routines
    /\ g[2] \in Int /\ g[3] \in Int
    /\ g[3] <= checkpoint'[g[1]]
    /\ checkpoint[g[1]] = NoTime \/ checkpoint[g[1]] <= g[2]

CheckpointStep ==
    /\ \A r \in Routines : checkpoint[r] <= checkpoint'[r]
    /\ \A g \in gaps' : g \in gaps \/ GapStep(g)

LEMMA AdvanceStep ==
    ASSUME TypeOK, NEW q \in Routines, NEW resumed, AdvanceCheckpoint(q, resumed)
    PROVE  CheckpointStep
<1>1. \A r \in Routines : checkpoint[r] \in Int /\ clock \in Int
  BY RowsTyped
<1>2. \A r \in Routines :
         checkpoint'[r] = IF r = q THEN Later(checkpoint[r], clock) ELSE checkpoint[r]
  BY DEF AdvanceCheckpoint, TypeOK, StoreTypeOK
<1>3. \A g \in gaps' : g \in gaps \/ g = <<q, checkpoint[q], clock>>
  BY DEF AdvanceCheckpoint
<1>4. GapStep(<<q, checkpoint[q], clock>>)
  BY <1>1, <1>2 DEF GapStep, Later
<1>5. \A r \in Routines : checkpoint[r] <= checkpoint'[r]
  BY <1>1, <1>2 DEF Later
<1>6. QED
  BY <1>3, <1>4, <1>5 DEF CheckpointStep

LEMMA TickCheckpoint ==
    ASSUME TypeOK, Tick, NEW r \in Routines
    PROVE  /\ checkpoint[r] <= checkpoint'[r]
           /\ r \in OnCron => clock <= checkpoint'[r]
<1>1. checkpoint[r] \in Int /\ clock \in Int
  BY RowsTyped
<1>2. checkpoint'[r] = IF r \in OnCron THEN Later(checkpoint[r], clock) ELSE checkpoint[r]
  BY DEF Tick
<1>3. QED
  BY <1>1, <1>2 DEF Later

(* A gap that a tick records ends before everything the tick starts.        *)
LEMMA TickGap ==
    ASSUME TypeOK, Tick, NEW g \in gaps', g \notin gaps
    PROVE  GapStep(g) /\ g[3] = clock - Grace
           /\ (checkpoint[g[1]] = NoTime => g[2] = g[3] - 1)
<1>1. PICK r \in Watched : \E u \in UnobservedGap(LookedUntil(r), clock) : g = <<r, u[1], u[2]>>
  BY DEF Tick
<1>2. PICK u \in UnobservedGap(LookedUntil(r), clock) : g = <<r, u[1], u[2]>>
  BY <1>1
<1>3. g = <<r, LookedUntil(r), clock - Grace>>
  BY <1>2 DEF UnobservedGap
<1>4. r \in Routines /\ r \in OnCron
  BY DEF Watched, OnCron
<1>5. checkpoint[r] \in Int /\ clock \in Int /\ Grace \in Nat /\ checkpoint'[r] \in Int
  BY <1>4, RowsTyped, TickType, GraceAssumption, StoreAssumption
     DEF TypeOK, StoreTypeOK, Time, NoTime, StoreAssumption
<1>6. QED
  BY <1>3, <1>4, <1>5, TickCheckpoint DEF GapStep, LookedUntil, FirstCheckpoint

LEMMA NextCheckpoints ==
    ASSUME TypeOK, [Next]_vars
    PROVE  CheckpointStep
<1>1. \A r \in Routines : checkpoint[r] \in Int /\ clock \in Int
  BY RowsTyped
<1>2. CASE UNCHANGED <<checkpoint, gaps>>
  BY <1>1, <1>2 DEF CheckpointStep
<1>3. CASE ApiTick
  <2>1. Tick
    BY <1>3 DEF ApiTick
  <2>2. QED
    BY <2>1, TickCheckpoint, TickGap DEF CheckpointStep
<1>4. CASE ApiUpdate
  <2>1. PICK q \in Routines, c \in Crons \cup {Manual} : UpdateRoutine(q, c)
    BY <1>4 DEF ApiUpdate
  <2>2. QED
    BY <2>1, AdvanceStep DEF UpdateRoutine
<1>5. CASE ApiSetEnabled
  <2>1. PICK q \in Routines, on \in BOOLEAN : SetEnabled(q, on)
    BY <1>5 DEF ApiSetEnabled
  <2>2. QED
    BY <2>1, AdvanceStep DEF SetEnabled
<1>6. CASE ApiSetDispatch
  <2>1. gaps' = gaps /\ \A r \in Routines :
           checkpoint'[r] = IF Listed(r) THEN Later(checkpoint[r], clock) ELSE checkpoint[r]
    BY <1>6 DEF ApiSetDispatch, SetDispatch
  <2>2. QED
    BY <1>1, <2>1 DEF CheckpointStep, Later
<1>7. CASE ApiStep
  BY <1>2, <1>3, <1>4, <1>5, <1>6, <1>7
     DEF ApiStep, ApiCreate, CreateRoutine, ApiDelete, DeleteRoutine, ApiRunNow, ApiRetry,
         EnqueueRun, ApiCancel, RequestCancel, routineVars
<1>8. CASE WorkerStep
  BY <1>2, <1>8
     DEF WorkerStep, WorkerPoll, WorkerClaim, ClaimNext, WorkerLaunch, MarkRunning, WorkerFinish,
         FinishRun, WorkerLoopError, storeVars, routineVars
<1>9. CASE ProcessStep
  BY <1>2, <1>9
     DEF ProcessStep, Boot, CreateRoutine, BootReconcile, Reconcile, StopSignal, StopCompletes,
         Crash, ProcessGone, InstallerDisablesDispatch, storeVars, routineVars
<1>10. CASE ClockStep \/ UNCHANGED vars
  BY <1>2, <1>10 DEF ClockStep, ClockAdvances, ClockSetBack, vars, storeVars, routineVars
<1>11. QED
  BY <1>7, <1>8, <1>9, <1>10 DEF Next

(* A scheduled run after a step: an earlier one with its row, or one that   *)
(* the step's tick recorded.                                                *)
LEMMA ScheduledStep ==
    ASSUME TypeOK, [Next]_vars, NEW i \in RunIds, Scheduled(i)'
    PROVE  \/ Scheduled(i) /\ job'[i] = job[i] /\ i \in 1..nruns
           \/ status[i] = "none" /\ Ticked(i)
<1>1. StoreTypeOK /\ StoreTypeOK'
  BY NextType DEF TypeOK
<1>2. job'[i].trigger = "scheduled" /\ status'[i] # "none"
  BY <1>1, StoreAssumption DEF Scheduled, StoreTypeOK, RunIds, StoreAssumption
<1>3. status[i] # "none" => job'[i] = job[i] /\ i \in 1..nruns
  BY <1>1, NextRuns, StoreAssumption DEF RunsStep, StoreTypeOK, RunIds, StoreAssumption
<1>4. status[i] = "none" => Ticked(i)
  BY <1>2, NewRunOrigin DEF Requested
<1>5. QED
  BY <1>2, <1>3, <1>4, StoreAssumption DEF Scheduled, RunIds, StoreAssumption
-----------------------------------------------------------------------------
(* The invariant that carries the checkpoint theorems: a fired occurrence   *)
(* and the end of a recorded gap lie at or before the routine's checkpoint. *)
FiredInv ==
    \A i \in RunIds : Scheduled(i) =>
        job[i].scheduledAt \in Time /\ job[i].scheduledAt <= checkpoint[job[i].routine]

GapInv ==
    \A g \in gaps : g[1] \in Routines /\ g[2] \in Int /\ g[3] \in Int
                   /\ g[3] <= checkpoint[g[1]]

(* What a tick starts lies after the checkpoint it worked from and within   *)
(* the grace.                                                               *)
LEMMA TickedTime ==
    ASSUME TypeOK, NEW i \in RunIds, Ticked(i)
    PROVE  /\ job'[i].routine = FiredAs(i) /\ FiredAs(i) \in OnCron /\ FiredAs(i) \in Routines
           /\ job'[i].scheduledAt \in Time
           /\ clock - Grace <= job'[i].scheduledAt /\ job'[i].scheduledAt <= clock
           /\ checkpoint[FiredAs(i)] < job'[i].scheduledAt
<1> DEFINE r == FiredAs(i)
           t == job'[i].scheduledAt
<1>1. r \in Watched /\ job'[i].routine = r /\ t \in DueOf(r)
  BY TickedRun DEF TypeOK
<1>2. r \in OnCron /\ r \in Routines
  BY <1>1 DEF Watched, OnCron
<1>3. t \in Time /\ LookedUntil(r) < t /\ t <= clock /\ clock - Grace <= t
  BY <1>1, DueOfFacts DEF TypeOK
<1>4. checkpoint[r] < t
  <2>1. checkpoint[r] = NoTime \/ LookedUntil(r) = checkpoint[r]
    BY DEF LookedUntil
  <2>2. QED
    BY <1>3, <2>1 DEF NoTime, Time
<1>5. QED
  BY <1>1, <1>2, <1>3, <1>4

LEMMA FiredStays ==
    ASSUME TypeOK, FiredInv, [Next]_vars
    PROVE  FiredInv'
<1> SUFFICES ASSUME NEW i \in RunIds, Scheduled(i)'
             PROVE  /\ job'[i].scheduledAt \in Time
                    /\ job'[i].scheduledAt <= checkpoint'[job'[i].routine]
  BY DEF FiredInv
<1>1. CASE Scheduled(i) /\ job'[i] = job[i] /\ i \in 1..nruns
  <2>1. job[i].scheduledAt \in Time /\ job[i].scheduledAt <= checkpoint[job[i].routine]
    BY <1>1 DEF FiredInv
  <2>2. job[i].routine \in Routines
    BY <1>1, RowsTyped
  <2>3. checkpoint[job[i].routine] <= checkpoint'[job[i].routine]
    BY <2>2, NextCheckpoints DEF CheckpointStep
  <2>4. checkpoint[job[i].routine] \in Int /\ checkpoint'[job[i].routine] \in Int
    BY <2>2, NextType, RowsTyped DEF TypeOK, StoreTypeOK, Time, NoTime
  <2>5. QED
    BY <1>1, <2>1, <2>3, <2>4 DEF Time
<1>2. CASE Ticked(i)
  <2>1. /\ job'[i].routine = FiredAs(i) /\ FiredAs(i) \in OnCron /\ FiredAs(i) \in Routines
        /\ job'[i].scheduledAt \in Time /\ job'[i].scheduledAt <= clock
    BY <1>2, TickedTime
  <2>2. clock <= checkpoint'[FiredAs(i)]
    BY <1>2, <2>1, TickCheckpoint DEF Ticked
  <2>3. clock \in Int /\ checkpoint'[FiredAs(i)] \in Int
    BY <2>1, NextType, RowsTyped DEF TypeOK, StoreTypeOK, Time, NoTime
  <2>4. QED
    BY <2>1, <2>2, <2>3 DEF Time
<1>3. QED
  BY <1>1, <1>2, ScheduledStep

LEMMA FiredAlways == Spec => []FiredInv
<1>1. Init => FiredInv
  BY DEF Init, StoreInit, FiredInv, Scheduled, RunIds
<1>2. TypeOK /\ FiredInv /\ [Next]_vars => FiredInv'
  BY FiredStays
<1>3. QED
  BY <1>1, <1>2, TypeCorrect, PTL DEF Spec

(* The checkpoint alone rules out starting a slot again: no occurrence that *)
(* was ever fired lies after it, although the clock may have gone back.     *)
THEOREM CheckpointCovers == Spec => []FiredBehindCheckpoint
<1>1. FiredInv => FiredBehindCheckpoint
  BY DEF FiredInv, FiredBehindCheckpoint
<1>2. QED
  BY <1>1, FiredAlways, PTL

(* An occurrence of a routine becomes at most one run.                      *)
THEOREM RunsOnce == Spec => []OccurrenceRunsOnce
<1>1. Init => OccurrenceRunsOnce
  BY DEF Init, StoreInit, OccurrenceRunsOnce, Scheduled, RunIds
<1>2. TypeOK /\ FiredInv /\ OccurrenceRunsOnce /\ [Next]_vars => OccurrenceRunsOnce'
  <2> SUFFICES ASSUME TypeOK, FiredInv, OccurrenceRunsOnce, [Next]_vars,
                      NEW i \in RunIds, NEW j \in RunIds, Scheduled(i)', Scheduled(j)',
                      job'[i].routine = job'[j].routine,
                      job'[i].scheduledAt = job'[j].scheduledAt
               PROVE  i = j
    BY DEF OccurrenceRunsOnce
  <2> DEFINE Old(k) == Scheduled(k) /\ job'[k] = job[k] /\ k \in 1..nruns
  <2>1. (Old(i) \/ Ticked(i)) /\ (Old(j) \/ Ticked(j))
    BY ScheduledStep
  <2>2. ASSUME NEW k \in RunIds, NEW l \in RunIds, Old(k), Ticked(l),
               job'[k].routine = job'[l].routine
        PROVE  job'[k].scheduledAt # job'[l].scheduledAt
    <3>1. job[k].scheduledAt \in Time /\ job[k].scheduledAt <= checkpoint[job[k].routine]
      BY <2>2 DEF FiredInv
    <3>2. job'[l].scheduledAt \in Time /\ checkpoint[job'[l].routine] < job'[l].scheduledAt
      BY <2>2, TickedTime
    <3>3. checkpoint[job[k].routine] \in Int
      BY <2>2, RowsTyped
    <3>4. QED
      BY <2>2, <3>1, <3>2, <3>3 DEF Time
  <2>3. CASE Old(i) /\ Old(j)
    BY <2>3 DEF OccurrenceRunsOnce
  <2>4. CASE Ticked(i) /\ Ticked(j)
    <3>1. i = NewRun(FiredAs(i)) /\ j = NewRun(FiredAs(j)) /\ FiredAs(i) = FiredAs(j)
      BY <2>4, TickedRun DEF TypeOK
    <3>2. QED
      BY <3>1
  <2>5. QED
    BY <2>1, <2>2, <2>3, <2>4
<1>3. QED
  BY <1>1, <1>2, FiredAlways, TypeCorrect, PTL DEF Spec

(* schedule_gaps tells the truth: nothing is ever started for an occurrence *)
(* strictly inside a recorded interval.  A gap begins at or after the       *)
(* checkpoint, so what was fired before lies behind it, and ends at or      *)
(* before the next checkpoint, so what is fired later lies ahead of it.     *)
LEMMA GapsStay ==
    ASSUME TypeOK, GapInv, [Next]_vars
    PROVE  GapInv'
<1> SUFFICES ASSUME NEW g \in gaps'
             PROVE  /\ g[1] \in Routines /\ g[2] \in Int /\ g[3] \in Int
                    /\ g[3] <= checkpoint'[g[1]]
  BY DEF GapInv
<1>1. CASE g \in gaps
  <2>1. g[1] \in Routines /\ g[2] \in Int /\ g[3] \in Int /\ g[3] <= checkpoint[g[1]]
    BY <1>1 DEF GapInv
  <2>2. checkpoint[g[1]] <= checkpoint'[g[1]]
    BY <2>1, NextCheckpoints DEF CheckpointStep
  <2>3. checkpoint[g[1]] \in Int /\ checkpoint'[g[1]] \in Int
    BY <2>1, NextType, RowsTyped DEF TypeOK, StoreTypeOK, Time, NoTime
  <2>4. QED
    BY <2>1, <2>2, <2>3
<1>2. CASE g \notin gaps
  BY <1>2, NextCheckpoints DEF CheckpointStep, GapStep
<1>3. QED
  BY <1>1, <1>2

LEMMA GapsAlways == Spec => []GapInv
<1>1. Init => GapInv
  BY DEF Init, StoreInit, GapInv
<1>2. TypeOK /\ GapInv /\ [Next]_vars => GapInv'
  BY GapsStay
<1>3. QED
  BY <1>1, <1>2, TypeCorrect, PTL DEF Spec

THEOREM GapsTrue == Spec => []NoRunInsideGap
<1>1. Init => NoRunInsideGap
  BY DEF Init, StoreInit, NoRunInsideGap
<1>2. TypeOK /\ FiredInv /\ GapInv /\ NoRunInsideGap /\ [Next]_vars => NoRunInsideGap'
  <2> SUFFICES ASSUME TypeOK, FiredInv, GapInv, NoRunInsideGap, [Next]_vars,
                      NEW i \in RunIds, NEW g \in gaps', Scheduled(i)',
                      job'[i].routine = g[1],
                      g[2] < job'[i].scheduledAt, job'[i].scheduledAt < g[3]
               PROVE  FALSE
    BY DEF NoRunInsideGap
  <2>1. CASE Scheduled(i) /\ job'[i] = job[i] /\ i \in 1..nruns
    <3>1. job[i].scheduledAt \in Time /\ job[i].scheduledAt <= checkpoint[g[1]]
      BY <2>1 DEF FiredInv
    <3>2. g \notin gaps
      BY <2>1 DEF NoRunInsideGap
    <3>3. g[1] \in Routines /\ g[2] \in Int /\ (checkpoint[g[1]] = NoTime \/ checkpoint[g[1]] <= g[2])
      BY <3>2, NextCheckpoints DEF CheckpointStep, GapStep
    <3>4. checkpoint[g[1]] \in Int
      BY <3>3, RowsTyped
    <3>5. QED
      BY <2>1, <3>1, <3>3, <3>4 DEF Time, NoTime
  <2>2. CASE Ticked(i)
    <3>1. /\ job'[i].scheduledAt \in Time /\ clock - Grace <= job'[i].scheduledAt
          /\ checkpoint[g[1]] < job'[i].scheduledAt /\ g[1] \in Routines
      BY <2>2, TickedTime
    <3>2. checkpoint[g[1]] \in Int /\ clock \in Int /\ Grace \in Int
      BY <3>1, RowsTyped, GraceAssumption
    <3>3. CASE g \in gaps
      BY <3>1, <3>2, <3>3 DEF GapInv, Time
    <3>4. CASE g \notin gaps
      <4>1. g[3] = clock - Grace
        BY <2>2, <3>4, TickGap DEF Ticked
      <4>2. QED
        BY <3>1, <3>2, <4>1 DEF Time
    <3>5. QED
      BY <3>3, <3>4
  <2>3. QED
    BY <2>1, <2>2, ScheduledStep
<1>3. QED
  BY <1>1, <1>2, FiredAlways, GapsAlways, TypeCorrect, PTL DEF Spec
-----------------------------------------------------------------------------
(* No catch-up: an edit moves the checkpoint to the clock, so a routine     *)
(* that was edited, paused or resumed starts nothing from before the edit.  *)
EditCovered ==
    \A r \in Routines :
        routine[r].revision > 1 /\ ~routine[r].deleted => routine[r].updatedAt <= checkpoint[r]

JobsOld ==
    \A i \in 1..nruns : job[i].revision <= routine[job[i].routine].revision

LEMMA RevisionsGrow ==
    ASSUME TypeOK, [Next]_vars, NEW r \in Routines
    PROVE  routine[r].revision <= routine'[r].revision
<1>1. routine[r].revision \in Nat
  BY RowsTyped
<1>2. QED
  BY <1>1, NextRoutines DEF RoutineStep, Created, Edited, Exists

LEMMA EditCoveredStays ==
    ASSUME TypeOK, EditCovered, [Next]_vars
    PROVE  EditCovered'
<1> SUFFICES ASSUME NEW r \in Routines, routine'[r].revision > 1, ~routine'[r].deleted
             PROVE  routine'[r].updatedAt <= checkpoint'[r]
  BY DEF EditCovered
<1>1. CASE routine'[r] = routine[r]
  <2>1. routine[r].updatedAt <= checkpoint[r] /\ checkpoint[r] <= checkpoint'[r]
    BY <1>1, NextCheckpoints DEF EditCovered, CheckpointStep
  <2>2. routine[r].updatedAt \in Int /\ checkpoint[r] \in Int /\ checkpoint'[r] \in Int
    BY NextType, RowsTyped DEF TypeOK, StoreTypeOK, Time, NoTime
  <2>3. QED
    BY <1>1, <2>1, <2>2
<1>2. CASE Created(r)
  BY <1>2 DEF Created
<1>3. CASE Edited(r)
  BY <1>3 DEF Edited
<1>4. QED
  BY <1>1, <1>2, <1>3, NextRoutines DEF RoutineStep

LEMMA JobsOldStays ==
    ASSUME TypeOK, JobsOld, [Next]_vars
    PROVE  JobsOld'
<1> SUFFICES ASSUME NEW i \in 1..nruns'
             PROVE  job'[i].revision <= routine'[job'[i].routine].revision
  BY DEF JobsOld
<1>1. i \in RunIds /\ status'[i] # "none"
  BY NextType, StoreAssumption DEF TypeOK, StoreTypeOK, RunIds, StoreAssumption
<1>2. CASE status[i] # "none"
  <2>1. i \in 1..nruns /\ job'[i] = job[i]
    BY <1>1, <1>2, NextRuns, StoreAssumption
       DEF RunsStep, TypeOK, StoreTypeOK, RunIds, StoreAssumption
  <2>2. job[i].routine \in Routines /\ job[i].revision \in Nat
    BY <2>1, RowsTyped
  <2>3. job[i].revision <= routine[job[i].routine].revision
    BY <2>1 DEF JobsOld
  <2>4. routine[job[i].routine].revision \in Nat /\ routine'[job[i].routine].revision \in Int
    BY <2>2, NextType, RowsTyped DEF TypeOK, StoreTypeOK, RoutineRow
  <2>5. routine[job[i].routine].revision <= routine'[job[i].routine].revision
    BY <2>2, RevisionsGrow
  <2>6. QED
    BY <2>1, <2>2, <2>3, <2>4, <2>5
<1>3. CASE Requested(i)
  <2>1. /\ job'[i].routine \in Routines /\ routine' = routine
        /\ job'[i].revision = routine[job'[i].routine].revision
    BY <1>3 DEF Requested
  <2>2. routine[job'[i].routine].revision \in Nat
    BY <2>1, RowsTyped
  <2>3. QED
    BY <2>1, <2>2
<1>4. CASE Ticked(i)
  <2>1. /\ job'[i].routine = FiredAs(i) /\ FiredAs(i) \in Routines /\ routine' = routine
        /\ job'[i].revision = routine[FiredAs(i)].revision
    BY <1>1, <1>4, TickedRun, TickedTime DEF TypeOK, Ticked, Tick
  <2>2. routine[FiredAs(i)].revision \in Nat
    BY <2>1, RowsTyped
  <2>3. QED
    BY <2>1, <2>2
<1>5. QED
  BY <1>1, <1>2, <1>3, <1>4, NewRunOrigin

LEMMA EditsAlways == Spec => [](EditCovered /\ JobsOld)
<1>1. Init => EditCovered /\ JobsOld
  BY DEF Init, StoreInit, EditCovered, JobsOld
<1>2. TypeOK /\ EditCovered /\ JobsOld /\ [Next]_vars => EditCovered' /\ JobsOld'
  BY EditCoveredStays, JobsOldStays
<1>3. QED
  BY <1>1, <1>2, TypeCorrect, PTL DEF Spec

THEOREM ResumesForward == Spec => []NoCatchUp
<1>1. Init => NoCatchUp
  BY DEF Init, StoreInit, NoCatchUp, Scheduled, RunIds
<1>2. TypeOK /\ EditCovered /\ JobsOld /\ NoCatchUp /\ [Next]_vars => NoCatchUp'
  <2> SUFFICES ASSUME TypeOK, EditCovered, JobsOld, NoCatchUp, [Next]_vars,
                      NEW i \in RunIds, Scheduled(i)', job'[i].revision > 1,
                      job'[i].revision = routine'[job'[i].routine].revision
               PROVE  job'[i].scheduledAt > routine'[job'[i].routine].updatedAt
    BY DEF NoCatchUp
  <2>1. CASE Scheduled(i) /\ job'[i] = job[i] /\ i \in 1..nruns
    <3> DEFINE r == job[i].routine
    <3>1. r \in Routines /\ job[i].revision <= routine[r].revision /\ job[i].revision \in Nat
          /\ routine[r].revision \in Nat
      BY <2>1, RowsTyped DEF JobsOld
    <3>2. ~Created(r) /\ ~Edited(r)
      BY <2>1, <3>1 DEF Created, Edited
    <3>3. routine'[r] = routine[r]
      BY <3>1, <3>2, NextRoutines DEF RoutineStep
    <3>4. QED
      BY <2>1, <3>3 DEF NoCatchUp
  <2>2. CASE Ticked(i)
    <3> DEFINE r == FiredAs(i)
    <3>1. /\ job'[i].routine = r /\ r \in Routines /\ r \in OnCron /\ routine' = routine
          /\ checkpoint[r] < job'[i].scheduledAt /\ job'[i].scheduledAt \in Time
      BY <2>2, TickedTime DEF Ticked, Tick
    <3>2. ~routine[r].deleted
      BY <3>1 DEF OnCron, Listed
    <3>3. routine[r].updatedAt <= checkpoint[r]
      BY <3>1, <3>2 DEF EditCovered
    <3>4. routine[r].updatedAt \in Int /\ checkpoint[r] \in Int
      BY <3>1, RowsTyped DEF Time
    <3>5. QED
      BY <3>1, <3>3, <3>4 DEF Time
  <2>3. QED
    BY <2>1, <2>2, ScheduledStep
<1>3. QED
  BY <1>1, <1>2, EditsAlways, TypeCorrect, PTL DEF Spec
=============================================================================
