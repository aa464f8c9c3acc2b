---------------------------- MODULE QueueProofs ----------------------------
(***************************************************************************)
(* Theorems about what the worker takes from the queue: no scheduled run   *)
(* overlaps an earlier run of its routine, scheduled runs start only while *)
(* dispatch is on (unless the installer touches the database), claims      *)
(* follow the priority, a key makes one run, and what is active is what    *)
(* the worker works on (unless `execute` raises).                          *)
(***************************************************************************)
EXTENDS ScheduleProofs

(* A scheduled run that is open has no earlier run of its routine beside    *)
(* it: the tick looks at the routine's open runs in the transaction that    *)
(* records the new one.                                                     *)
THEOREM NoOverlap == Spec => []NoScheduledOverlap
<1>1. Init => NoScheduledOverlap
  BY DEF Init, StoreInit, NoScheduledOverlap, Scheduled, RunIds
<1>2. TypeOK /\ NoScheduledOverlap /\ [Next]_vars => NoScheduledOverlap'
  <2> SUFFICES ASSUME TypeOK, NoScheduledOverlap, [Next]_vars,
                      NEW i \in RunIds, NEW j \in RunIds,
                      status'[i] \in OpenStatuses, Scheduled(i)', j < i,
                      job'[j].routine = job'[i].routine
               PROVE  status'[j] \in TerminalStatuses
    BY DEF NoScheduledOverlap, Open, Terminal
  <2>1. StoreTypeOK /\ nruns \in Nat
    BY StoreAssumption DEF TypeOK, StoreTypeOK, StoreAssumption
  <2>2. CASE Scheduled(i) /\ job'[i] = job[i] /\ i \in 1..nruns
    <3>1. j \in 1..nruns /\ status[j] # "none" /\ status[i] # "none"
      BY <2>1, <2>2 DEF StoreTypeOK, RunIds
    <3>2. job'[j] = job[j] /\ Moves(i) /\ Moves(j)
      BY <3>1, NextRuns DEF RunsStep
    <3>3. status[i] \in OpenStatuses
      BY <2>1, <3>1, <3>2
         DEF Moves, OpenStatuses, ActiveStatuses, TerminalStatuses, StoreTypeOK
    <3>4. status[j] \in TerminalStatuses
      BY <2>2, <3>2, <3>3 DEF NoScheduledOverlap, Open, Terminal
    <3>5. QED
      BY <3>2, <3>4 DEF Moves, TerminalStatuses, ActiveStatuses
  <2>3. CASE Ticked(i)
    <3>1. Tick /\ i \in NewRuns
      BY <2>3 DEF Ticked
    <3>2. ~Overlaps(FiredAs(i))
      BY <2>1, <3>1, TickRuns DEF OpenStatuses, ActiveStatuses
    <3>3. j \notin NewRuns
      <4>1. SUFFICES ASSUME j \in NewRuns PROVE FALSE
        OBVIOUS
      <4>2. Ticked(j) /\ Ticked(i)
        BY <3>1, <4>1 DEF Ticked
      <4>3. FiredAs(j) = FiredAs(i) /\ j = NewRun(FiredAs(j)) /\ i = NewRun(FiredAs(i))
        BY <2>1, <4>2, TickedRun
      <4>4. QED
        BY <4>3 DEF RunIds
    <3>4. job'[j] = job[j]
          /\ status'[j] = IF j \in Overdue(clock) THEN "skipped" ELSE status[j]
      BY <2>1, <3>1, <3>3, TickRuns
    <3>5. j <= nruns
      BY <2>1, <3>1, <3>3, TickRuns DEF RunIds
    <3>6. status[j] # "none"
      BY <2>1, <3>5 DEF StoreTypeOK, RunIds
    <3>7. job'[i].routine = FiredAs(i)
      BY <2>1, <2>3, TickedRun
    <3>8. j \in Overdue(clock) \/ status[j] \notin OpenStatuses
      BY <3>2, <3>4, <3>7 DEF Overlaps, Open
    <3>9. QED
      BY <2>1, <3>4, <3>6, <3>8 DEF StoreTypeOK, TerminalStatuses
  <2>4. QED
    BY <2>2, <2>3, ScheduledStep
<1>3. QED
  BY <1>1, <1>2, TypeCorrect, PTL DEF Spec
-----------------------------------------------------------------------------
(* set_dispatch leaves nothing scheduled in the queue, a tick adds to it    *)
(* only while dispatch is on, and nobody else changes the switch: without   *)
(* the installer's hand in the database a scheduled run that waits implies  *)
(* that dispatch is on.                                                     *)
DispatchedQueue == \A i \in RunIds : Queued(i) /\ Scheduled(i) => dispatch

LEMMA DispatchSteps ==
    ASSUME TypeOK, [Next]_vars, Installer = FALSE
    PROVE  dispatch' = dispatch \/ ApiSetDispatch
<1>1. CASE ApiStep
  BY <1>1
     DEF ApiStep, ApiTick, Tick, ApiCreate, CreateRoutine, ApiUpdate, UpdateRoutine, ApiDelete,
         DeleteRoutine, ApiSetEnabled, SetEnabled, ApiRunNow, ApiRetry, EnqueueRun, ApiCancel,
         RequestCancel
<1>2. CASE WorkerStep
  BY <1>2
     DEF WorkerStep, WorkerPoll, WorkerClaim, ClaimNext, WorkerLaunch, MarkRunning, WorkerFinish,
         FinishRun, WorkerLoopError, storeVars
<1>3. CASE ProcessStep
  BY <1>3
     DEF ProcessStep, Boot, CreateRoutine, BootReconcile, Reconcile, StopSignal, StopCompletes,
         Crash, ProcessGone, InstallerDisablesDispatch, storeVars
<1>4. CASE ClockStep \/ UNCHANGED vars
  BY <1>4 DEF ClockStep, ClockAdvances, ClockSetBack, vars, storeVars
<1>5. QED
  BY <1>1, <1>2, <1>3, <1>4 DEF Next

LEMMA DispatchedQueueAlways ==
    ASSUME Installer = FALSE
    PROVE  Spec => []DispatchedQueue
<1>1. Init => DispatchedQueue
  BY DEF Init, StoreInit, DispatchedQueue, Queued
<1>2. TypeOK /\ QueuedScheduledIsCurrent /\ DispatchedQueue /\ [Next]_vars => DispatchedQueue'
  <2> SUFFICES ASSUME TypeOK, QueuedScheduledIsCurrent, DispatchedQueue, [Next]_vars,
                      NEW i \in RunIds, status'[i] = "queued", Scheduled(i)'
               PROVE  dispatch'
    BY DEF DispatchedQueue, Queued
  <2>1. CASE Ticked(i)
    <3>1. FiredAs(i) \in Watched /\ dispatch' = dispatch
      BY <2>1, TickedRun DEF TypeOK, Ticked, Tick
    <3>2. QED
      BY <3>1 DEF Watched
  <2>2. CASE Scheduled(i) /\ job'[i] = job[i] /\ i \in 1..nruns
    <3> DEFINE r == job[i].routine
    <3>1. Queued(i)
      BY <2>2, StillQueued, StoreAssumption
         DEF Queued, TypeOK, StoreTypeOK, RunIds, StoreAssumption
    <3>2. r \in Routines /\ job[i].revision \in Nat \ {0}
      BY <2>2, RowsTyped
    <3>3. Listed(r) /\ job[i].trigger = "scheduled" /\ dispatch
      BY <2>2, <3>1, <3>2
         DEF QueuedScheduledIsCurrent, DispatchedQueue, Listed, Exists, Scheduled
    <3>4. ~ApiSetDispatch
      <4>1. SUFFICES ASSUME ApiSetDispatch PROVE FALSE
        OBVIOUS
      <4>2. status' = SkipScheduledQueue({q \in Routines : Listed(q)})
        BY <4>1 DEF ApiSetDispatch, SetDispatch
      <4>3. r \in {q \in Routines : Listed(q)}
        BY <3>2, <3>3
      <4>4. {q \in Routines : Listed(q)} \in SUBSET Routines
        OBVIOUS
      <4>5. QED
        BY <3>1, <3>3, <4>2, <4>3, <4>4, SkippedLeaveQueue DEF Queued
    <3>5. QED
      BY <3>3, <3>4, DispatchSteps
  <2>3. QED
    BY <2>1, <2>2, ScheduledStep
<1>3. QED
  BY <1>1, <1>2, QueueIsCurrent, TypeCorrect, PTL DEF Spec

(* Scheduled runs start only while dispatch is on, as long as the installer *)
(* does not write the switch of a stopped service.                          *)
THEOREM StartsNeedDispatch ==
    ASSUME Installer = FALSE
    PROVE  Spec => ScheduledNeedsDispatch
<1> DEFINE Started == \A i \in RunIds :
               Queued(i) /\ Scheduled(i) /\ status'[i] = "claimed" => dispatch
<1>1. DispatchedQueue => Started
  BY DEF DispatchedQueue
<1>2. Spec => []DispatchedQueue
  BY DispatchedQueueAlways
<1>3. QED
  BY <1>1, <1>2, PTL DEF Spec, ScheduledNeedsDispatch
-----------------------------------------------------------------------------
LEMMA OnlyClaimStarts ==
    ASSUME TypeOK, [Next]_vars, NEW i \in RunIds, status[i] # "claimed", status'[i] = "claimed"
    PROVE  WorkerClaim
<1>1. StoreTypeOK
  BY DEF TypeOK
<1>2. status[i] = "queued"
  BY NextRuns DEF RunsStep, Moves, TerminalStatuses
<1>3. ~ApiStep
  BY <1>2, ApiStepRuns DEF ActiveKept, ActiveStatuses
<1>4. ~(WorkerPoll \/ WorkerLoopError)
  BY DEF WorkerPoll, WorkerLoopError, storeVars, runVars
<1>5. ~WorkerLaunch
  BY <1>1 DEF WorkerLaunch, MarkRunning, StoreTypeOK
<1>6. ~WorkerFinish
  BY <1>1 DEF WorkerFinish, FinishRun, StoreTypeOK, TerminalStatuses
<1>7. ~ProcessStep
  <2>1. ~BootReconcile
    BY <1>2 DEF BootReconcile, Reconcile, StatusWhere
  <2>2. QED
    BY <2>1 DEF ProcessStep, Boot, CreateRoutine, StopSignal, StopCompletes, Crash, ProcessGone,
                InstallerDisablesDispatch, storeVars, runVars
<1>8. ~ClockStep /\ ~UNCHANGED vars
  BY DEF ClockStep, ClockAdvances, ClockSetBack, vars, storeVars, runVars
<1>9. QED
  BY <1>3, <1>4, <1>5, <1>6, <1>7, <1>8 DEF Next, WorkerStep

(* Only claim_next starts a run, and it takes the first in priority order   *)
(* of what has not waited too long.                                         *)
THEOREM ClaimsInOrder == Spec => ClaimInOrder
<1> DEFINE InOrder == \A i, j \in RunIds :
               /\ Queued(i) /\ status'[i] = "claimed"
               /\ Queued(j) /\ status'[j] = "queued"
               => Precedes(i, j)
<1>1. TypeOK /\ [Next]_vars => InOrder
  <2> SUFFICES ASSUME TypeOK, [Next]_vars, NEW i \in RunIds, NEW j \in RunIds,
                      status[i] = "queued", status'[i] = "claimed",
                      status[j] = "queued", status'[j] = "queued"
               PROVE  Precedes(i, j)
    BY DEF Queued
  <2>1. WorkerClaim
    BY OnlyClaimStarts
  <2>2. PICK k \in RunIds \cup {NoRun} : ClaimNext(polledAt, k)
    BY <2>1 DEF WorkerClaim
  <2>3. \A l \in RunIds : status'[l] = IF l = k THEN "claimed"
                          ELSE IF l \in Overdue(polledAt) THEN "skipped" ELSE status[l]
    BY <2>2 DEF ClaimNext, StatusWhere
  <2>4. i = k /\ j # k /\ j \notin Overdue(polledAt)
    BY <2>3
  <2>5. i \in Claimable(polledAt)
    BY <2>2, <2>4 DEF ClaimNext, NoRun, RunIds
  <2>6. j \in QueuedRuns \ Overdue(polledAt)
    BY <2>4 DEF QueuedRuns, Queued
  <2>7. QED
    BY <2>4, <2>5, <2>6 DEF Claimable
<1>2. QED
  BY <1>1, TypeCorrect, PTL DEF Spec, ClaimInOrder
-----------------------------------------------------------------------------
(* A repeated key never makes a second run: the row that has it stays, and  *)
(* is looked up in the transaction that would add another.                  *)
THEOREM KeyMakesOneRun == Spec => []OneRunPerKey
<1>1. Init => OneRunPerKey
  BY DEF Init, StoreInit, OneRunPerKey
<1>2. TypeOK /\ OneRunPerKey /\ [Next]_vars => OneRunPerKey'
  <2> SUFFICES ASSUME TypeOK, OneRunPerKey, [Next]_vars PROVE OneRunPerKey'
    OBVIOUS
  <2>1. /\ StoreTypeOK /\ nruns \in Nat
        /\ \A i \in 1..nruns : i \in RunIds
    BY StoreAssumption DEF TypeOK, StoreTypeOK, StoreAssumption, RunIds
  <2>2. CASE UNCHANGED <<nruns, job>>
    BY <2>2 DEF OneRunPerKey
  <2>3. CASE Tick
    <3>1. \A i \in 1..nruns' : i \in NewRuns \/ (i \in 1..nruns /\ i \in RunIds \ NewRuns)
      BY <2>1, <2>3, TickRuns
    <3>2. \A i \in 1..nruns' : job'[i].key = NoKey \/ (i \in 1..nruns /\ job'[i] = job[i])
      <4>1. \A i \in NewRuns : job'[i] = ScheduledJob(FiredAs(i))
        BY <2>1, <2>3, TickRuns
      <4>2. \A i \in RunIds \ NewRuns : job'[i] = job[i]
        BY <2>1, <2>3, TickRuns
      <4>3. \A r : ScheduledJob(r).key = NoKey
        BY DEF ScheduledJob
      <4>4. QED
        BY <3>1, <4>1, <4>2, <4>3
    <3>3. SUFFICES ASSUME NEW i \in 1..nruns', NEW j \in 1..nruns',
                          job'[i].key = job'[j].key, job'[i].key # NoKey
                   PROVE  i = j
      BY DEF OneRunPerKey
    <3>4. /\ i \in 1..nruns /\ job'[i] = job[i]
          /\ j \in 1..nruns /\ job'[j] = job[j]
      BY <3>2, <3>3
    <3>5. QED
      BY <3>3, <3>4 DEF OneRunPerKey
  <2>4. ASSUME NEW r, NEW k, NEW old, EnqueueRun(r, k, old)
        PROVE  OneRunPerKey'
    <3>1. nruns' = nruns + 1 /\ nruns + 1 \in RunIds
      BY <2>1, <2>4, StoreAssumption DEF EnqueueRun, StoreAssumption, RunIds, StoreTypeOK
    <3>2. /\ job'[nruns + 1].key = k
          /\ \A i \in 1..nruns : job'[i] = job[i]
      BY <2>1, <2>4, <3>1 DEF EnqueueRun, StoreTypeOK
    <3>3. k # NoKey => \A i \in 1..nruns : job[i].key # k
      BY <2>4 DEF EnqueueRun
    <3>4. \A i \in 1..nruns' : i \in 1..nruns \/ i = nruns + 1
      BY <2>1, <3>1
    <3>5. QED
      BY <3>2, <3>3, <3>4 DEF OneRunPerKey
  <2>5. CASE ApiStep
    BY <2>2, <2>3, <2>4, <2>5
       DEF ApiStep, ApiTick, ApiCreate, CreateRoutine, ApiUpdate, UpdateRoutine, ApiDelete,
           DeleteRoutine, ApiSetEnabled, SetEnabled, ApiSetDispatch, SetDispatch, ApiRunNow,
           ApiRetry, ApiCancel, RequestCancel, runVars
  <2>6. CASE WorkerStep
    BY <2>2, <2>6
       DEF WorkerStep, WorkerPoll, WorkerClaim, ClaimNext, WorkerLaunch, MarkRunning,
           WorkerFinish, FinishRun, WorkerLoopError, storeVars, runVars
  <2>7. CASE ProcessStep
    BY <2>2, <2>7
       DEF ProcessStep, Boot, CreateRoutine, BootReconcile, Reconcile, StopSignal, StopCompletes,
           Crash, ProcessGone, InstallerDisablesDispatch, storeVars, runVars
  <2>8. CASE ClockStep \/ UNCHANGED vars
    BY <2>2, <2>8 DEF ClockStep, ClockAdvances, ClockSetBack, vars, storeVars, runVars
  <2>9. QED
    BY <2>5, <2>6, <2>7, <2>8 DEF Next
<1>3. QED
  BY <1>1, <1>2, TypeCorrect, PTL DEF Spec
-----------------------------------------------------------------------------
(* The run in the worker's hands is the active one, and while the API       *)
(* serves there is no other: an exception that escapes `execute` is the     *)
(* only way to lose hold of a run (LoopErrors), a dead process is followed  *)
(* by reconcile.                                                            *)
HandInv ==
    /\ phase = "executing" => Active(hand)
    /\ Serving => \A i \in RunIds : Active(i) => phase = "executing" /\ hand = i

LEMMA HandStays ==
    ASSUME TypeOK, HandInv, [Next]_vars, LoopErrors = FALSE
    PROVE  HandInv'
<1>1. StoreTypeOK /\ StoreTypeOK'
  BY NextType DEF TypeOK
<1>2. \A i \in RunIds : Moves(i)
  BY NextRuns DEF RunsStep
<1>3. phase = "executing" => hand \in RunIds
  BY DEF TypeOK
<1>4. CASE /\ ActiveKept /\ UNCHANGED <<phase, hand>>
           /\ (Serving' => Serving)
  BY <1>3, <1>4 DEF ActiveKept, HandInv, Active
<1>5. CASE ApiStep
  BY <1>4, <1>5, ApiStepRuns, ApiStepType DEF processVars, Serving
<1>6. CASE UNCHANGED runVars /\ UNCHANGED <<phase, hand>> /\ (Serving' => Serving)
  BY <1>1, <1>4, <1>6, RunsUnchanged
<1>7. CASE WorkerPoll
  BY <1>7 DEF WorkerPoll, HandInv, Active, Serving, storeVars, runVars
<1>8. CASE WorkerClaim
  <2>1. PICK k \in RunIds \cup {NoRun} :
           /\ ClaimNext(polledAt, k) /\ hand' = k
           /\ phase' = IF k = NoRun THEN "idle" ELSE "executing"
    BY <1>8 DEF WorkerClaim
  <2>2. \A l \in RunIds : status'[l] = IF l = k THEN "claimed"
                          ELSE IF l \in Overdue(polledAt) THEN "skipped" ELSE status[l]
    BY <2>1 DEF ClaimNext, StatusWhere
  <2>3. Serving /\ \A l \in RunIds : ~Active(l)
    BY <1>8 DEF WorkerClaim, TypeOK, Serving, HandInv
  <2>4. \A l \in RunIds : status'[l] \in ActiveStatuses => l = k
    BY <2>2, <2>3 DEF Active, ActiveStatuses
  <2>5. k \in RunIds => status'[k] = "claimed"
    BY <2>2
  <2>6. QED
    BY <2>1, <2>4, <2>5 DEF HandInv, Active, ActiveStatuses, NoRun, RunIds
<1>9. CASE WorkerLaunch
  <2>1. \A l \in RunIds : status'[l] = IF l = hand THEN "running" ELSE status[l]
    BY <1>1, <1>9 DEF WorkerLaunch, MarkRunning, StoreTypeOK
  <2>2. UNCHANGED processVars /\ phase = "executing"
    BY <1>9 DEF WorkerLaunch
  <2>3. QED
    BY <1>3, <2>1, <2>2 DEF HandInv, Active, ActiveStatuses, Serving, processVars
<1>10. CASE WorkerFinish
  <2>1. PICK o \in TerminalStatuses : FinishRun(hand, o)
    BY <1>10 DEF WorkerFinish, FinishRun
  <2>2. \A l \in RunIds : status'[l] = IF l = hand THEN o ELSE status[l]
    BY <1>1, <2>1 DEF FinishRun, StoreTypeOK
  <2>3. phase' = "idle" /\ service' = service /\ o \notin ActiveStatuses
    BY <1>10 DEF WorkerFinish, TerminalStatuses, ActiveStatuses
  <2>4. QED
    BY <2>2, <2>3 DEF HandInv, Active, Serving
<1>11. CASE BootReconcile
  <2>1. \A l \in RunIds : status'[l] = IF Active(l) THEN "interrupted" ELSE status[l]
    BY <1>11 DEF BootReconcile, Reconcile, StatusWhere
  <2>2. phase' = "idle" /\ "interrupted" \notin ActiveStatuses
    BY <1>11 DEF BootReconcile, ActiveStatuses
  <2>3. QED
    BY <2>1, <2>2 DEF HandInv, Active
<1>12. CASE StopCompletes \/ Crash
  BY <1>12 DEF StopCompletes, Crash, ProcessGone, HandInv, Serving
<1>13. CASE Boot
  <2>1. UNCHANGED runVars
    BY <1>13 DEF Boot, CreateRoutine, storeVars
  <2>2. QED
    BY <1>6, <1>13, <2>1 DEF Boot, Serving
<1>14. CASE StopSignal \/ InstallerDisablesDispatch \/ ClockStep \/ UNCHANGED vars
  BY <1>6, <1>14
     DEF StopSignal, InstallerDisablesDispatch, ClockStep, ClockAdvances, ClockSetBack, vars,
         storeVars, processVars, Serving
<1>15. ~WorkerLoopError
  BY DEF WorkerLoopError
<1>16. QED
  BY <1>5, <1>7, <1>8, <1>9, <1>10, <1>11, <1>12, <1>13, <1>14, <1>15
     DEF Next, WorkerStep, ProcessStep

(* While the API serves, no run is open that nobody executes, as long as    *)
(* `execute` handles its own exceptions.                                    *)
THEOREM ActiveInHand ==
    ASSUME LoopErrors = FALSE
    PROVE  Spec => []ActiveIsInHand
<1>1. Init => HandInv
  BY DEF Init, StoreInit, HandInv, Active, ActiveStatuses
<1>2. TypeOK /\ HandInv /\ [Next]_vars => HandInv'
  BY HandStays
<1>3. HandInv => ActiveIsInHand
  BY DEF HandInv, ActiveIsInHand
<1>4. QED
  BY <1>1, <1>2, <1>3, TypeCorrect, PTL DEF Spec
=============================================================================
