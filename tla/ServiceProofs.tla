---------------------------- MODULE ServiceProofs ----------------------------
(***************************************************************************)
(* Theorems about the service for every value of its constants: any number *)
(* of routines and runs, any schedules, any waits and bounds.              *)
(***************************************************************************)
EXTENDS Service, FiniteSetTheorems, TLAPS

Statuses == {"none"} \cup OpenStatuses \cup TerminalStatuses

(* An UPDATE of existing rows to a status other than "none" keeps the       *)
(* column well typed and the set of rows unchanged.                         *)
LEMMA StatusWhereType ==
    ASSUME StoreTypeOK, NEW S \in SUBSET RunIds, NEW s \in Statuses \ {"none"},
           \A i \in S : status[i] # "none"
    PROVE  /\ StatusWhere(S, s) \in [RunIds -> Statuses]
           /\ \A i \in RunIds : StatusWhere(S, s)[i] = "none" <=> status[i] = "none"
BY DEF StatusWhere, StoreTypeOK, Statuses

LEMMA QueuedSetsType ==
    /\ QueuedRuns \in SUBSET RunIds
    /\ \A i \in QueuedRuns : status[i] = "queued"
    /\ \A r : QueuedOf(r) \subseteq QueuedRuns
    /\ \A r : QueuedScheduledOf(r) \subseteq QueuedRuns
    /\ \A now : Overdue(now) \subseteq QueuedRuns
BY DEF QueuedRuns, Queued, QueuedOf, QueuedScheduledOf, Overdue

LEMMA AdvanceCheckpointType ==
    ASSUME StoreTypeOK, NEW r \in Routines, NEW resumed, AdvanceCheckpoint(r, resumed)
    PROVE  /\ checkpoint' \in [Routines -> Time \cup {NoTime}]
           /\ gaps' \subseteq Routines \X Int \X Int
<1>1. checkpoint' \in [Routines -> Time \cup {NoTime}]
  BY DEF AdvanceCheckpoint, StoreTypeOK, Later
<1>2. clock \in Int /\ checkpoint[r] \in Int
  BY StoreAssumption DEF StoreAssumption, StoreTypeOK, Time, NoTime
<1>3. QED
  BY <1>1, <1>2 DEF AdvanceCheckpoint, StoreTypeOK
-----------------------------------------------------------------------------
(* Each operation of the store keeps the tables well typed.                 *)
LEMMA CreateRoutineType ==
    ASSUME StoreTypeOK, NEW r \in Routines, NEW c \in Crons \cup {Manual}, NEW on \in BOOLEAN,
           CreateRoutine(r, c, on)
    PROVE  StoreTypeOK'
<1>1. [revision |-> 1, cron |-> c, enabled |-> on, deleted |-> FALSE, updatedAt |-> clock]
        \in RoutineRow
  BY StoreAssumption DEF StoreAssumption, StoreTypeOK, RoutineRow
<1>2. routine' \in [Routines -> RoutineRow]
  BY <1>1 DEF CreateRoutine, StoreTypeOK
<1>3. QED
  BY <1>2 DEF CreateRoutine, StoreTypeOK, runVars

LEMMA EditType ==
    ASSUME StoreTypeOK, NEW r \in Routines,
           Listed(r), routine[r].revision < MaxRevision,
           NEW c \in Crons \cup {Manual}, NEW on \in BOOLEAN, NEW gone \in BOOLEAN
    PROVE  [revision |-> routine[r].revision + 1, cron |-> c, enabled |-> on,
            deleted |-> gone, updatedAt |-> clock] \in RoutineRow
<1>1. routine[r].revision \in 0..MaxRevision
  BY DEF StoreTypeOK, RoutineRow
<1>2. routine[r].revision + 1 \in 0..MaxRevision
  BY <1>1, StoreAssumption DEF StoreAssumption
<1>3. clock \in Time
  BY DEF StoreTypeOK
<1>4. QED
  BY <1>2, <1>3 DEF RoutineRow

LEMMA SkipScheduledQueueType ==
    ASSUME StoreTypeOK, NEW R \in SUBSET Routines
    PROVE  /\ SkipScheduledQueue(R) \in [RunIds -> Statuses]
           /\ \A i \in RunIds : SkipScheduledQueue(R)[i] = "none" <=> status[i] = "none"
<1> DEFINE S == UNION {QueuedScheduledOf(r) : r \in R}
<1>1. S \in SUBSET RunIds /\ \A i \in S : status[i] # "none"
  BY QueuedSetsType
<1>2. "skipped" \in Statuses \ {"none"}
  BY DEF Statuses, TerminalStatuses
<1>3. SkipScheduledQueue(R) = StatusWhere(S, "skipped")
  BY DEF SkipScheduledQueue
<1> HIDE DEF S
<1>4. /\ StatusWhere(S, "skipped") \in [RunIds -> Statuses]
      /\ \A i \in RunIds : StatusWhere(S, "skipped")[i] = "none" <=> status[i] = "none"
  BY <1>1, <1>2, StatusWhereType
<1>5. QED
  BY <1>3, <1>4

LEMMA UpdateRoutineType ==
    ASSUME StoreTypeOK, NEW r \in Routines, NEW c \in Crons \cup {Manual}, UpdateRoutine(r, c)
    PROVE  StoreTypeOK'
<1> DEFINE on == c # Manual /\ (routine[r].enabled \/ routine[r].cron # c)
<1>1. on \in BOOLEAN
  OBVIOUS
<1>2. AdvanceCheckpoint(r, on /\ ~routine[r].enabled)
  BY DEF UpdateRoutine
<1>3. /\ status' \in [RunIds -> Statuses]
      /\ \A i \in RunIds : status'[i] = "none" <=> status[i] = "none"
  BY SkipScheduledQueueType, {r} \in SUBSET Routines DEF UpdateRoutine
<1>4. routine' = [routine EXCEPT ![r] =
        [revision |-> routine[r].revision + 1, cron |-> c, enabled |-> on,
         deleted |-> FALSE, updatedAt |-> clock]]
  BY DEF UpdateRoutine
<1>5. Listed(r) /\ routine[r].revision < MaxRevision
  BY DEF UpdateRoutine
<1> HIDE DEF on
<1>6. routine' \in [Routines -> RoutineRow]
  BY <1>1, <1>4, <1>5, EditType DEF StoreTypeOK
<1>7. QED
  BY <1>2, <1>3, <1>6, AdvanceCheckpointType DEF UpdateRoutine, StoreTypeOK, Statuses

LEMMA SetEnabledType ==
    ASSUME StoreTypeOK, NEW r \in Routines, NEW on \in BOOLEAN, SetEnabled(r, on)
    PROVE  StoreTypeOK'
<1>1. AdvanceCheckpoint(r, on)
  BY DEF SetEnabled
<1>2. /\ status' \in [RunIds -> Statuses]
      /\ \A i \in RunIds : status'[i] = "none" <=> status[i] = "none"
  BY SkipScheduledQueueType, {r} \in SUBSET Routines DEF SetEnabled
<1>3. routine[r].cron \in Crons \cup {Manual}
  BY DEF StoreTypeOK, RoutineRow
<1>4. routine' \in [Routines -> RoutineRow]
  BY <1>3, EditType DEF SetEnabled, StoreTypeOK
<1>5. QED
  BY <1>1, <1>2, <1>4, AdvanceCheckpointType DEF SetEnabled, StoreTypeOK, Statuses

LEMMA DeleteRoutineType ==
    ASSUME StoreTypeOK, NEW r \in Routines, DeleteRoutine(r)
    PROVE  StoreTypeOK'
<1>1. /\ status' \in [RunIds -> Statuses]
      /\ \A i \in RunIds : status'[i] = "none" <=> status[i] = "none"
  <2>1. QueuedOf(r) \in SUBSET RunIds /\ \A i \in QueuedOf(r) : status[i] # "none"
    BY QueuedSetsType
  <2>2. "canceled" \in Statuses \ {"none"}
    BY DEF Statuses, TerminalStatuses
  <2>3. QED
    BY <2>1, <2>2, StatusWhereType DEF DeleteRoutine
<1>2. routine[r].cron \in Crons \cup {Manual}
  BY DEF StoreTypeOK, RoutineRow
<1>3. routine' \in [Routines -> RoutineRow]
  BY <1>2, EditType DEF DeleteRoutine, StoreTypeOK
<1>4. QED
  BY <1>1, <1>3 DEF DeleteRoutine, StoreTypeOK, Statuses

LEMMA EnqueueRunType ==
    ASSUME StoreTypeOK, NEW r \in Routines, NEW key \in Keys \cup {NoKey},
           NEW retryOf \in RunIds \cup {NoRun}, EnqueueRun(r, key, retryOf)
    PROVE  StoreTypeOK'
<1> DEFINE new == [routine |-> r, revision |-> routine[r].revision, trigger |-> "manual",
                   key |-> key, retryOf |-> retryOf, enqueuedAt |-> clock,
                   scheduledAt |-> NoTime, slot |-> NoSlot]
<1>1. routine[r].revision \in 1..MaxRevision
  BY StoreAssumption
     DEF EnqueueRun, Listed, Exists, StoreTypeOK, RoutineRow, StoreAssumption
<1>2. new \in JobRow
  BY <1>1 DEF JobRow, StoreTypeOK
<1>3. nruns \in Nat /\ nruns + 1 \in RunIds /\ nruns' = nruns + 1 /\ nruns' \in 0..MaxRuns
  BY StoreAssumption DEF StoreAssumption, EnqueueRun, StoreTypeOK, RunIds
<1>4. job' = [job EXCEPT ![nruns + 1] = new]
  BY DEF EnqueueRun
<1> HIDE DEF new
<1>5. job' \in [RunIds -> JobRow \cup {NoJob}] /\ \A i \in 1..nruns' : job'[i] \in JobRow
  BY <1>2, <1>3, <1>4 DEF StoreTypeOK, RunIds
<1>6. /\ status' \in [RunIds -> Statuses]
      /\ \A i \in RunIds : status'[i] = "none" <=> i > nruns'
  BY <1>3 DEF EnqueueRun, StoreTypeOK, Statuses, OpenStatuses, RunIds
<1>7. QED
  BY <1>3, <1>5, <1>6 DEF EnqueueRun, StoreTypeOK, Statuses, routineVars

LEMMA RequestCancelType ==
    ASSUME StoreTypeOK, NEW i \in RunIds, RequestCancel(i)
    PROVE  StoreTypeOK'
<1>1. /\ status' \in [RunIds -> Statuses]
      /\ \A k \in RunIds : status'[k] = "none" <=> status[k] = "none"
  BY DEF RequestCancel, Queued, StoreTypeOK, Statuses, TerminalStatuses
<1>2. QED
  BY <1>1 DEF RequestCancel, StoreTypeOK, Statuses, routineVars

LEMMA ClaimNextType ==
    ASSUME StoreTypeOK, NEW now, NEW i \in RunIds \cup {NoRun}, ClaimNext(now, i)
    PROVE  StoreTypeOK'
<1> DEFINE expired == StatusWhere(Overdue(now), "skipped")
<1>1. "skipped" \in Statuses \ {"none"} /\ "claimed" \in Statuses \ {"none"}
  BY DEF Statuses, TerminalStatuses, OpenStatuses, ActiveStatuses
<1>2. /\ expired \in [RunIds -> Statuses]
      /\ \A k \in RunIds : expired[k] = "none" <=> status[k] = "none"
  BY <1>1, QueuedSetsType, StatusWhereType
<1>3. status' = [k \in RunIds |-> IF k = i THEN "claimed" ELSE expired[k]]
  BY DEF ClaimNext
<1>4. i \in RunIds => status[i] = "queued"
  BY QueuedSetsType, StoreAssumption DEF ClaimNext, Claimable, NoRun, RunIds, StoreAssumption
<1> HIDE DEF expired
<1>5. /\ status' \in [RunIds -> Statuses]
      /\ \A k \in RunIds : status'[k] = "none" <=> status[k] = "none"
  BY <1>1, <1>2, <1>3, <1>4
<1>6. QED
  BY <1>5 DEF ClaimNext, StoreTypeOK, Statuses, routineVars

LEMMA MarkRunningType ==
    ASSUME StoreTypeOK, NEW i \in RunIds, MarkRunning(i)
    PROVE  StoreTypeOK'
<1>1. /\ status' \in [RunIds -> Statuses]
      /\ \A k \in RunIds : status'[k] = "none" <=> status[k] = "none"
  BY DEF MarkRunning, StoreTypeOK, Statuses, OpenStatuses, ActiveStatuses
<1>2. QED
  BY <1>1 DEF MarkRunning, StoreTypeOK, Statuses, routineVars

LEMMA FinishRunType ==
    ASSUME StoreTypeOK, NEW i \in RunIds, NEW outcome, FinishRun(i, outcome)
    PROVE  StoreTypeOK'
<1>1. /\ status' \in [RunIds -> Statuses]
      /\ \A k \in RunIds : status'[k] = "none" <=> status[k] = "none"
  BY DEF FinishRun, Open, StoreTypeOK, Statuses, OpenStatuses, ActiveStatuses, TerminalStatuses
<1>2. QED
  BY <1>1 DEF FinishRun, StoreTypeOK, Statuses, routineVars

LEMMA ReconcileType ==
    ASSUME StoreTypeOK, Reconcile
    PROVE  StoreTypeOK'
<1> DEFINE S == {i \in RunIds : Active(i)}
<1>1. S \in SUBSET RunIds /\ \A i \in S : status[i] # "none"
  BY DEF Active, ActiveStatuses
<1>2. "interrupted" \in Statuses \ {"none"}
  BY DEF Statuses, TerminalStatuses
<1>3. status' = StatusWhere(S, "interrupted")
  BY DEF Reconcile
<1> HIDE DEF S
<1>4. /\ status' \in [RunIds -> Statuses]
      /\ \A k \in RunIds : status'[k] = "none" <=> status[k] = "none"
  BY <1>1, <1>2, <1>3, StatusWhereType
<1>5. QED
  BY <1>4 DEF Reconcile, StoreTypeOK, Statuses, routineVars
-----------------------------------------------------------------------------
(* The rows a tick inserts: one for each routine it fires, at consecutive   *)
(* ids after the existing ones.                                             *)
LEMMA FiredFinite ==
    /\ Fired \in SUBSET Routines
    /\ IsFiniteSet(Fired)
    /\ Cardinality(Fired) \in Nat
<1>1. Fired \in SUBSET Routines
  BY DEF Fired, Watched, OnCron
<1>2. IsFiniteSet(Routines)
  BY FS_Interval, StoreAssumption, 1 \in Int DEF StoreAssumption, Routines
<1>3. QED
  BY <1>1, <1>2, FS_Subset, FS_CardinalityType

LEMMA NewRunRange ==
    ASSUME NEW r \in Fired, nruns \in Nat
    PROVE  NewRun(r) \in (nruns + 1)..(nruns + Cardinality(Fired))
<1> DEFINE upto == {q \in Fired : q <= r}
<1>1. r \in Int /\ r \in upto /\ upto \in SUBSET Fired
  BY FiredFinite DEF Routines
<1>2. IsFiniteSet(upto) /\ Cardinality(upto) <= Cardinality(Fired)
  BY <1>1, FiredFinite, FS_Subset
<1>3. Cardinality(upto) \in Nat /\ Cardinality(upto) # 0
  BY <1>1, <1>2, FS_CardinalityType, FS_EmptySet
<1>4. NewRun(r) = nruns + Cardinality(upto)
  BY DEF NewRun
<1> HIDE DEF upto
<1>5. QED
  BY <1>2, <1>3, <1>4, FiredFinite

LEMMA NewRunGrows ==
    ASSUME NEW q \in Fired, NEW r \in Fired, q < r, nruns \in Nat
    PROVE  NewRun(q) < NewRun(r)
<1> DEFINE upto(x) == {y \in Fired : y <= x}
<1>1. upto(q) \in SUBSET upto(r) /\ r \in upto(r) /\ r \notin upto(q) /\ upto(r) \in SUBSET Fired
  <2>1. \A y \in Fired : y \in Int
    BY FiredFinite DEF Routines
  <2>2. \A y \in Fired : y <= q => y <= r
    BY <2>1
  <2>3. r <= r /\ ~(r <= q)
    BY <2>1
  <2>4. QED
    BY <2>2, <2>3
<1>2. IsFiniteSet(upto(r))
  BY <1>1, FiredFinite, FS_Subset
<1>3. /\ IsFiniteSet(upto(q))
      /\ Cardinality(upto(q)) <= Cardinality(upto(r))
      /\ Cardinality(upto(q)) # Cardinality(upto(r))
  BY <1>1, <1>2, FS_Subset
<1>4. Cardinality(upto(q)) \in Nat /\ Cardinality(upto(r)) \in Nat
  BY <1>2, <1>3, FS_CardinalityType
<1>5. NewRun(q) = nruns + Cardinality(upto(q)) /\ NewRun(r) = nruns + Cardinality(upto(r))
  BY DEF NewRun
<1> HIDE DEF upto
<1>6. QED
  BY <1>3, <1>4, <1>5

LEMMA NewRunInjective ==
    ASSUME NEW q \in Fired, NEW r \in Fired, NewRun(q) = NewRun(r), nruns \in Nat
    PROVE  q = r
<1>1. q \in Int /\ r \in Int
  BY FiredFinite DEF Routines
<1>2. NewRun(q) \in Int /\ NewRun(r) \in Int
  BY NewRunRange
<1>3. ~(q < r) /\ ~(r < q)
  BY <1>2, NewRunGrows
<1>4. QED
  BY <1>1, <1>3

LEMMA NewRunsInterval ==
    ASSUME nruns \in Nat
    PROVE  NewRuns = (nruns + 1)..(nruns + Cardinality(Fired))
<1> DEFINE T == (nruns + 1)..(nruns + Cardinality(Fired))
           f == [r \in Fired |-> NewRun(r)]
<1>1. f \in [Fired -> T]
  BY NewRunRange
<1>2. \A q, r \in DOMAIN f : f[q] = f[r] => q = r
  BY NewRunInjective
<1>3. f \in Injection(Fired, T)
  BY <1>1, <1>2 DEF Injection, IsInjective
<1>4. IsFiniteSet(T) /\ Cardinality(T) = Cardinality(Fired)
  <2>1. Cardinality(Fired) \in Nat
    BY FiredFinite
  <2>2. nruns + 1 \in Int /\ nruns + Cardinality(Fired) \in Int
    BY <2>1
  <2> DEFINE lo == nruns + 1
             hi == nruns + Cardinality(Fired)
  <2>3. lo \in Int /\ hi \in Int
    BY <2>2
  <2> HIDE DEF lo, hi
  <2>4. IsFiniteSet(lo..hi) /\ Cardinality(lo..hi) = IF lo > hi THEN 0 ELSE hi - lo + 1
    BY ONLY <2>3, FS_Interval
  <2>5. QED
    BY <2>1, <2>4 DEF lo, hi
<1>5. f \in Surjection(Fired, T)
  <2> HIDE DEF f, T
  <2>1. QED
    BY <1>3, <1>4, FS_Injection, FiredFinite
<1>6. \A t \in T : \E r \in Fired : f[r] = t
  BY <1>5 DEF Surjection
<1>7. T \subseteq NewRuns
  BY <1>6 DEF NewRuns
<1>8. NewRuns \subseteq T
  BY NewRunRange DEF NewRuns
<1>9. QED
  BY <1>7, <1>8

LEMMA FiredAsNewRun ==
    ASSUME NEW i \in NewRuns
    PROVE  FiredAs(i) \in Fired /\ i = NewRun(FiredAs(i))
BY DEF NewRuns, FiredAs

LEMMA OccurrenceDue ==
    ASSUME NEW r \in Fired
    PROVE  OccurrenceOf(r) \in DueOf(r)
BY DEF Fired, OccurrenceOf

LEMMA DueOfFacts ==
    ASSUME NEW r \in Watched, StoreTypeOK, NEW t \in DueOf(r)
    PROVE  /\ routine[r].cron \in Crons
           /\ t \in Time
           /\ LookedUntil(r) < t /\ t <= clock /\ clock - Grace <= t
           /\ ~SlotTaken(r, SlotOf(routine[r].cron, t))
<1>1. r \in Routines /\ routine[r].cron \in Crons
  BY DEF Watched, OnCron, StoreTypeOK, RoutineRow
<1> DEFINE c == routine[r].cron
<1>2. \A l \in MinutesOf[c] : FirstInstant(ZoneOf[c], l) \subseteq Time
  BY <1>1, StoreAssumption DEF StoreAssumption
<1>3. \E l \in MinutesOf[c] : t \in FirstInstant(ZoneOf[c], l)
  BY DEF DueOf, DueAt, Latest
<1>4. t \in Time
  BY <1>2, <1>3
<1>5. /\ LookedUntil(r) < t /\ t <= clock /\ clock - Grace <= t
      /\ ~SlotTaken(r, SlotOf(routine[r].cron, t))
  BY DEF DueOf, DueAt
<1>6. QED
  BY <1>1, <1>4, <1>5

LEMMA ScheduledJobType ==
    ASSUME StoreTypeOK, NEW r \in Fired
    PROVE  ScheduledJob(r) \in JobRow
<1>1. r \in Watched
  BY DEF Fired
<1>2. OccurrenceOf(r) \in Time /\ routine[r].cron \in Crons
  BY <1>1, OccurrenceDue, DueOfFacts
<1>3. routine[r].revision \in 1..MaxRevision /\ r \in Routines
  BY <1>1, StoreAssumption
     DEF Watched, OnCron, Listed, Exists, StoreTypeOK, RoutineRow, StoreAssumption
<1>4. SlotOf(routine[r].cron, OccurrenceOf(r)) \in Zone \X Int
  BY <1>2, StoreAssumption DEF StoreAssumption, SlotOf, Local, Zone, Time
<1>5. clock \in Time
  BY DEF StoreTypeOK
<1>6. QED
  BY <1>2, <1>3, <1>4, <1>5 DEF ScheduledJob, JobRow

LEMMA TickRuns ==
    ASSUME StoreTypeOK, Tick
    PROVE  /\ nruns \in Nat /\ nruns' = nruns + Cardinality(Fired) /\ nruns' \in 0..MaxRuns
           /\ NewRuns = (nruns + 1)..nruns'
           /\ NewRuns \in SUBSET RunIds
           /\ \A i \in RunIds \ NewRuns : job'[i] = job[i]
           /\ \A i \in NewRuns : /\ FiredAs(i) \in Fired
                                 /\ i = NewRun(FiredAs(i))
                                 /\ job'[i] = ScheduledJob(FiredAs(i))
                                 /\ status'[i] \in {"queued", "skipped"}
                                 /\ status'[i] = "queued" => ~Overlaps(FiredAs(i))
           /\ \A i \in RunIds \ NewRuns :
                 status'[i] = IF i \in Overdue(clock) THEN "skipped" ELSE status[i]
<1>1. nruns \in Nat /\ nruns' = nruns + Cardinality(Fired) /\ nruns' \in 0..MaxRuns
  BY FiredFinite, StoreAssumption DEF Tick, StoreTypeOK, StoreAssumption
<1>2. NewRuns = (nruns + 1)..nruns'
  BY <1>1, NewRunsInterval
<1>3. NewRuns \in SUBSET RunIds
  BY <1>1, <1>2, StoreAssumption DEF RunIds, StoreAssumption
<1>4. \A i \in RunIds : job'[i] = IF i \in NewRuns THEN ScheduledJob(FiredAs(i)) ELSE job[i]
  BY DEF Tick
<1>5. \A i \in RunIds : status'[i] =
        IF i \in NewRuns THEN IF Overlaps(FiredAs(i)) THEN "skipped" ELSE "queued"
        ELSE StatusWhere(Overdue(clock), "skipped")[i]
  BY DEF Tick
<1>6. \A i \in NewRuns : FiredAs(i) \in Fired /\ i = NewRun(FiredAs(i))
  BY FiredAsNewRun
<1>7. QED
  BY <1>1, <1>2, <1>3, <1>4, <1>5, <1>6 DEF StatusWhere

LEMMA TickType ==
    ASSUME StoreTypeOK, Tick
    PROVE  StoreTypeOK'
<1>1. nruns' \in 0..MaxRuns /\ nruns' \in Nat /\ nruns \in Nat /\ nruns <= nruns'
  BY TickRuns, FiredFinite, StoreAssumption DEF StoreAssumption
<1>2. \A i \in RunIds : i > nruns' <=> (i > nruns /\ i \notin NewRuns)
  BY <1>1, TickRuns DEF RunIds
<1>3. \A i \in RunIds : job'[i] \in JobRow \cup {NoJob}
  BY TickRuns, ScheduledJobType DEF StoreTypeOK
<1>4. job' \in [RunIds -> JobRow \cup {NoJob}]
  BY <1>3 DEF Tick
<1>5. \A i \in 1..nruns' : job'[i] \in JobRow
  <2> SUFFICES ASSUME NEW i \in 1..nruns' PROVE job'[i] \in JobRow
    OBVIOUS
  <2>1. i \in RunIds
    BY <1>1, StoreAssumption DEF RunIds, StoreAssumption
  <2>2. CASE i \in NewRuns
    BY <2>2, TickRuns, ScheduledJobType
  <2>3. CASE i \notin NewRuns
    <3>1. i \in 1..nruns
      BY <1>1, <1>2, <2>1, <2>3
    <3>2. QED
      BY <2>1, <2>3, <3>1, TickRuns DEF StoreTypeOK
  <2>4. QED
    BY <2>2, <2>3
<1>6. /\ \A i \in RunIds : status'[i] \in Statuses
      /\ \A i \in RunIds : status'[i] = "none" <=> i > nruns'
  <2> SUFFICES ASSUME NEW i \in RunIds
               PROVE  status'[i] \in Statuses /\ (status'[i] = "none" <=> i > nruns')
    OBVIOUS
  <2>1. CASE i \in NewRuns
    BY <1>2, <2>1, TickRuns DEF Statuses, OpenStatuses, TerminalStatuses
  <2>2. CASE i \notin NewRuns
    BY <1>2, <2>2, TickRuns, QueuedSetsType DEF StoreTypeOK, Statuses, TerminalStatuses
  <2>3. QED
    BY <2>1, <2>2
<1>7. status' \in [RunIds -> Statuses]
  BY <1>6 DEF Tick
<1>8. checkpoint' \in [Routines -> Time \cup {NoTime}]
  BY DEF Tick, Later, StoreTypeOK
<1>9. gaps' \subseteq Routines \X Int \X Int
  <2>1. \A r \in Watched : r \in Routines /\ LookedUntil(r) \in Int /\ clock - Grace \in Int
    BY StoreAssumption, GraceAssumption
       DEF Watched, OnCron, LookedUntil, FirstCheckpoint, StoreTypeOK, Time, NoTime,
           StoreAssumption, GraceAssumption
  <2>2. \A r \in Watched : \A g \in UnobservedGap(LookedUntil(r), clock) :
           <<r, g[1], g[2]>> \in Routines \X Int \X Int
    BY <2>1 DEF UnobservedGap
  <2>3. QED
    BY <2>2 DEF Tick, StoreTypeOK
<1>10. QED
  BY <1>1, <1>4, <1>5, <1>6, <1>7, <1>8, <1>9 DEF Tick, StoreTypeOK, Statuses

LEMMA SetDispatchType ==
    ASSUME StoreTypeOK, NEW on \in BOOLEAN, SetDispatch(on)
    PROVE  StoreTypeOK'
<1>1. {r \in Routines : Listed(r)} \in SUBSET Routines
  OBVIOUS
<1>2. /\ status' \in [RunIds -> Statuses]
      /\ \A i \in RunIds : status'[i] = "none" <=> status[i] = "none"
  BY <1>1, SkipScheduledQueueType DEF SetDispatch
<1>3. checkpoint' \in [Routines -> Time \cup {NoTime}]
  BY DEF SetDispatch, Later, StoreTypeOK
<1>4. QED
  BY <1>2, <1>3 DEF SetDispatch, StoreTypeOK, Statuses
-----------------------------------------------------------------------------
LEMMA ClockType ==
    ASSUME StoreTypeOK, ClockAdvances \/ ClockSetBack
    PROVE  StoreTypeOK'
<1>1. clock' \in Time
  BY StoreAssumption DEF ClockAdvances, ClockSetBack, StoreTypeOK, Time, StoreAssumption
<1>2. QED
  BY <1>1 DEF ClockAdvances, ClockSetBack, StoreTypeOK, routineVars, runVars

LEMMA StoreUnchanged ==
    ASSUME StoreTypeOK, UNCHANGED storeVars
    PROVE  StoreTypeOK'
BY DEF StoreTypeOK, storeVars, routineVars, runVars

LEMMA InitType == Init => TypeOK
<1> SUFFICES ASSUME Init PROVE TypeOK
  OBVIOUS
<1>1. 0 \in Time /\ 0 \in 0..MaxRuns /\ 0 \in 0..MaxRevision /\ 0 \in 0..MaxStarts
  BY StoreAssumption, ServiceAssumption DEF Time, StoreAssumption, ServiceAssumption
<1>2. \A i \in RunIds : i > 0
  BY DEF RunIds
<1>3. StoreTypeOK
  BY <1>1, <1>2 DEF Init, StoreInit, StoreTypeOK, RoutineRow
<1>4. QED
  BY <1>1, <1>3 DEF Init, TypeOK

(* The store under each step of the API thread. *)
LEMMA ApiStepType ==
    ASSUME TypeOK, ApiStep
    PROVE  StoreTypeOK' /\ UNCHANGED processVars
<1>1. StoreTypeOK
  BY DEF TypeOK
<1>2. CASE ApiTick
  BY <1>1, <1>2, TickType DEF ApiTick
<1>3. CASE ApiCreate
  <2>1. \A c \in Crons \cup {Manual} : (c # Manual) \in BOOLEAN
    OBVIOUS
  <2>2. QED
    BY <1>1, <1>3, <2>1, CreateRoutineType DEF ApiCreate
<1>4. CASE ApiUpdate
  BY <1>1, <1>4, UpdateRoutineType DEF ApiUpdate
<1>5. CASE ApiDelete
  BY <1>1, <1>5, DeleteRoutineType DEF ApiDelete
<1>6. CASE ApiSetEnabled
  BY <1>1, <1>6, SetEnabledType DEF ApiSetEnabled
<1>7. CASE ApiSetDispatch
  BY <1>1, <1>7, SetDispatchType DEF ApiSetDispatch
<1>8. CASE ApiRunNow
  BY <1>1, <1>8, EnqueueRunType, StoreAssumption DEF ApiRunNow, StoreAssumption, NoRun
<1>9. CASE ApiRetry
  <2>1. PICK i \in RunIds, k \in Keys : Terminal(i) /\ EnqueueRun(job[i].routine, k, i)
    BY <1>9 DEF ApiRetry
  <2>2. i \in 1..nruns
    BY <1>1, <2>1, StoreAssumption
       DEF Terminal, TerminalStatuses, StoreTypeOK, RunIds, StoreAssumption
  <2>3. job[i].routine \in Routines
    BY <1>1, <2>2 DEF StoreTypeOK, JobRow
  <2>4. QED
    BY <1>1, <1>9, <2>1, <2>3, EnqueueRunType DEF ApiRetry
<1>10. CASE ApiCancel
  BY <1>1, <1>10, RequestCancelType DEF ApiCancel
<1>11. QED
  BY <1>2, <1>3, <1>4, <1>5, <1>6, <1>7, <1>8, <1>9, <1>10 DEF ApiStep

LEMMA WorkerStepType ==
    ASSUME TypeOK, WorkerStep
    PROVE  TypeOK'
<1>1. StoreTypeOK /\ phase # "none" => service \notin {"down", "booting"}
  BY DEF TypeOK
<1>2. clock \in Time /\ 0 \in Time
  BY StoreAssumption DEF TypeOK, StoreTypeOK, Time, StoreAssumption
<1>3. NoRun \notin RunIds
  BY DEF NoRun, RunIds
<1>4. CASE WorkerPoll
  BY <1>2, <1>4, StoreUnchanged DEF WorkerPoll, TypeOK
<1>5. CASE WorkerClaim
  <2>1. PICK i \in RunIds \cup {NoRun} :
           /\ ClaimNext(polledAt, i)
           /\ hand' = i
           /\ phase' = IF i = NoRun THEN "idle" ELSE "executing"
    BY <1>5 DEF WorkerClaim
  <2>2. StoreTypeOK'
    BY <2>1, ClaimNextType DEF TypeOK
  <2>3. QED
    BY <1>2, <1>5, <2>1, <2>2 DEF WorkerClaim, TypeOK
<1>6. CASE WorkerLaunch
  <2>1. hand \in RunIds
    BY <1>6 DEF WorkerLaunch, TypeOK
  <2>2. StoreTypeOK'
    BY <1>6, <2>1, MarkRunningType DEF WorkerLaunch, TypeOK
  <2>3. QED
    BY <1>6, <2>2 DEF WorkerLaunch, TypeOK, processVars
<1>7. CASE WorkerFinish
  <2>1. hand \in RunIds
    BY <1>7 DEF WorkerFinish, TypeOK
  <2>2. StoreTypeOK'
    BY <1>7, <2>1, FinishRunType DEF WorkerFinish, TypeOK
  <2>3. QED
    BY <1>7, <2>2 DEF WorkerFinish, TypeOK
<1>8. CASE WorkerLoopError
  BY <1>8, StoreUnchanged DEF WorkerLoopError, TypeOK
<1>9. QED
  BY <1>4, <1>5, <1>6, <1>7, <1>8 DEF WorkerStep

LEMMA ProcessStepType ==
    ASSUME TypeOK, ProcessStep
    PROVE  TypeOK'
<1>1. 0 \in Time
  BY StoreAssumption DEF Time, StoreAssumption
<1>2. starts \in Nat /\ starts \in 0..MaxStarts /\ MaxStarts \in Nat
  BY ServiceAssumption DEF TypeOK, ServiceAssumption
<1>3. CASE Boot
  <2>1. StoreTypeOK'
    <3>1. 1 \in Routines /\ Manual \in Crons \cup {Manual} /\ FALSE \in BOOLEAN
      BY StoreAssumption DEF Routines, StoreAssumption
    <3>2. CreateRoutine(1, Manual, FALSE) \/ UNCHANGED storeVars
      BY <1>3 DEF Boot
    <3>3. StoreTypeOK
      BY DEF TypeOK
    <3>4. CASE CreateRoutine(1, Manual, FALSE)
      BY <3>1, <3>3, <3>4, CreateRoutineType
    <3>5. QED
      BY <3>2, <3>3, <3>4, StoreUnchanged
  <2>2. starts' \in 0..MaxStarts
    BY <1>2, <1>3 DEF Boot
  <2>3. QED
    BY <1>3, <2>1, <2>2 DEF Boot, TypeOK
<1>4. CASE BootReconcile
  <2>1. StoreTypeOK'
    BY <1>4, ReconcileType DEF BootReconcile, TypeOK
  <2>2. QED
    BY <1>4, <2>1 DEF BootReconcile, TypeOK
<1>5. CASE StopSignal
  BY <1>5, StoreUnchanged DEF StopSignal, TypeOK
<1>6. CASE StopCompletes \/ Crash
  BY <1>1, <1>6, StoreUnchanged DEF StopCompletes, Crash, ProcessGone, TypeOK
<1>7. CASE InstallerDisablesDispatch
  <2>1. StoreTypeOK'
    BY <1>7 DEF InstallerDisablesDispatch, TypeOK, StoreTypeOK, routineVars, runVars
  <2>2. QED
    BY <1>7, <2>1 DEF InstallerDisablesDispatch, TypeOK, processVars
<1>8. QED
  BY <1>3, <1>4, <1>5, <1>6, <1>7 DEF ProcessStep

LEMMA NextType == TypeOK /\ [Next]_vars => TypeOK'
<1> SUFFICES ASSUME TypeOK, [Next]_vars PROVE TypeOK'
  OBVIOUS
<1>1. CASE ApiStep
  BY <1>1, ApiStepType DEF TypeOK, processVars
<1>2. CASE WorkerStep
  BY <1>2, WorkerStepType
<1>3. CASE ProcessStep
  BY <1>3, ProcessStepType
<1>4. CASE ClockStep
  BY <1>4, ClockType DEF ClockStep, TypeOK, processVars
<1>5. CASE UNCHANGED vars
  BY <1>5, StoreUnchanged DEF vars, TypeOK, processVars
<1>6. QED
  BY <1>1, <1>2, <1>3, <1>4, <1>5 DEF Next

(* Every table, the clock and the two threads keep to their types.          *)
THEOREM TypeCorrect == Spec => []TypeOK
BY InitType, NextType, PTL DEF Spec
-----------------------------------------------------------------------------
(* How one step may move a run's status, and what it may not touch.         *)
Moves(i) ==
    \/ status'[i] = status[i]
    \/ status[i] = "none" /\ status'[i] \in {"queued", "skipped"}
    \/ status[i] = "queued" /\ status'[i] \in {"claimed"} \cup TerminalStatuses
    \/ status[i] \in ActiveStatuses /\ status'[i] \in TerminalStatuses
    \/ status[i] = "claimed" /\ status'[i] = "running"

ClaimsAlone(i) ==
    status[i] = "queued" /\ status'[i] = "claimed" =>
        \A k \in RunIds : ~Active(k) /\ (status'[k] = "claimed" => k = i)

RunsStep ==
    /\ \A i \in RunIds : Moves(i)
    /\ \A i \in RunIds : ClaimsAlone(i)
    /\ \A i \in RunIds : status[i] # "none" => job'[i] = job[i]
    /\ nruns <= nruns'

ActiveKept ==
    \A i \in RunIds : Active(i) \/ status'[i] \in ActiveStatuses => status'[i] = status[i]

LEMMA StatusWhereSteps ==
    ASSUME StoreTypeOK, NEW S \in SUBSET RunIds, \A i \in S : status[i] = "queued",
           NEW s \in TerminalStatuses, status' = StatusWhere(S, s),
           UNCHANGED <<nruns, job>>
    PROVE  RunsStep /\ ActiveKept
<1>1. \A i \in RunIds : status'[i] = IF i \in S THEN s ELSE status[i]
  BY DEF StatusWhere
<1>2. s # "claimed" /\ s # "running"
  BY DEF TerminalStatuses
<1>3. nruns \in Nat
  BY StoreAssumption DEF StoreTypeOK, StoreAssumption
<1>4. QED
  BY <1>1, <1>2, <1>3 DEF RunsStep, ActiveKept, Active, ActiveStatuses, Moves, ClaimsAlone

LEMMA SkipScheduledQueueSteps ==
    ASSUME StoreTypeOK, NEW R \in SUBSET Routines, status' = SkipScheduledQueue(R),
           UNCHANGED <<nruns, job>>
    PROVE  RunsStep /\ ActiveKept
<1> DEFINE S == UNION {QueuedScheduledOf(r) : r \in R}
<1>1. S \in SUBSET RunIds /\ \A i \in S : status[i] = "queued"
  BY QueuedSetsType
<1>2. status' = StatusWhere(S, "skipped")
  BY DEF SkipScheduledQueue
<1>3. "skipped" \in TerminalStatuses
  BY DEF TerminalStatuses
<1> HIDE DEF S
<1>4. QED
  BY <1>1, <1>2, <1>3, StatusWhereSteps

LEMMA RunsUnchanged ==
    ASSUME StoreTypeOK, UNCHANGED runVars
    PROVE  RunsStep /\ ActiveKept
BY StoreAssumption DEF RunsStep, ActiveKept, Active, ActiveStatuses, Moves, ClaimsAlone, runVars, StoreTypeOK, StoreAssumption

LEMMA ApiStepRuns ==
    ASSUME TypeOK, ApiStep
    PROVE  RunsStep /\ ActiveKept
<1>1. StoreTypeOK
  BY DEF TypeOK
<1>2. nruns \in Nat /\ \A i \in RunIds : status[i] = "none" <=> i > nruns
  BY <1>1, StoreAssumption DEF StoreTypeOK, StoreAssumption
<1>3. CASE ApiTick
  <2>1. Tick
    BY <1>3 DEF ApiTick
  <2>2. nruns <= nruns'
    BY <1>1, <2>1, TickRuns, FiredFinite
  <2>3. \A i \in NewRuns : status[i] = "none" /\ status'[i] \in {"queued", "skipped"}
    BY <1>1, <1>2, <2>1, TickRuns DEF RunIds
  <2>4. \A i \in RunIds \ NewRuns :
           /\ job'[i] = job[i]
           /\ \/ status'[i] = status[i]
              \/ status[i] = "queued" /\ status'[i] = "skipped"
    BY <1>1, <2>1, TickRuns, QueuedSetsType
  <2>5. QED
    BY <2>2, <2>3, <2>4 DEF RunsStep, ActiveKept, Active, ActiveStatuses, Moves, ClaimsAlone, TerminalStatuses
<1>4. CASE ApiCreate
  BY <1>1, <1>4, RunsUnchanged DEF ApiCreate, CreateRoutine
<1>5. CASE ApiUpdate
  <2>1. PICK r \in Routines : status' = SkipScheduledQueue({r}) /\ UNCHANGED <<nruns, job>>
    BY <1>5 DEF ApiUpdate, UpdateRoutine
  <2>2. QED
    BY <1>1, <2>1, {r} \in SUBSET Routines, SkipScheduledQueueSteps
<1>6. CASE ApiDelete
  <2>1. PICK r \in Routines :
           status' = StatusWhere(QueuedOf(r), "canceled") /\ UNCHANGED <<nruns, job>>
    BY <1>6 DEF ApiDelete, DeleteRoutine
  <2>2. QueuedOf(r) \in SUBSET RunIds /\ \A i \in QueuedOf(r) : status[i] = "queued"
    BY QueuedSetsType
  <2>3. "canceled" \in TerminalStatuses
    BY DEF TerminalStatuses
  <2>4. QED
    BY <1>1, <2>1, <2>2, <2>3, StatusWhereSteps
<1>7. CASE ApiSetEnabled
  <2>1. PICK r \in Routines : status' = SkipScheduledQueue({r}) /\ UNCHANGED <<nruns, job>>
    BY <1>7 DEF ApiSetEnabled, SetEnabled
  <2>2. QED
    BY <1>1, <2>1, {r} \in SUBSET Routines, SkipScheduledQueueSteps
<1>8. CASE ApiSetDispatch
  <2>1. status' = SkipScheduledQueue({r \in Routines : Listed(r)}) /\ UNCHANGED <<nruns, job>>
    BY <1>8 DEF ApiSetDispatch, SetDispatch
  <2>2. {r \in Routines : Listed(r)} \in SUBSET Routines
    OBVIOUS
  <2>3. QED
    BY <1>1, <2>1, <2>2, SkipScheduledQueueSteps
<1>9. CASE ApiRunNow \/ ApiRetry
  <2>1. PICK r, k, o : EnqueueRun(r, k, o)
    BY <1>9 DEF ApiRunNow, ApiRetry
  <2>2. /\ nruns' = nruns + 1 /\ nruns + 1 \in RunIds
        /\ status[nruns + 1] = "none" /\ status' = [status EXCEPT ![nruns + 1] = "queued"]
        /\ \A i \in RunIds : i # nruns + 1 => job'[i] = job[i]
    BY <1>1, <1>2, <2>1, StoreAssumption DEF EnqueueRun, RunIds, StoreAssumption, StoreTypeOK
  <2>3. \A i \in RunIds : status'[i] = IF i = nruns + 1 THEN "queued" ELSE status[i]
    BY <1>1, <2>2 DEF StoreTypeOK
  <2>4. QED
    BY <1>2, <2>2, <2>3 DEF RunsStep, ActiveKept, Active, ActiveStatuses, Moves, ClaimsAlone
<1>10. CASE ApiCancel
  <2>1. PICK i \in RunIds : RequestCancel(i)
    BY <1>10 DEF ApiCancel
  <2>2. /\ \A k \in RunIds : status'[k] = IF k = i /\ Queued(i) THEN "canceled" ELSE status[k]
        /\ UNCHANGED <<nruns, job>>
    BY <1>1, <2>1 DEF RequestCancel, StoreTypeOK
  <2>3. QED
    BY <1>2, <2>2 DEF RunsStep, ActiveKept, Active, ActiveStatuses, Moves, ClaimsAlone, Queued, TerminalStatuses
<1>11. QED
  BY <1>3, <1>4, <1>5, <1>6, <1>7, <1>8, <1>9, <1>10 DEF ApiStep

LEMMA WorkerStepRuns ==
    ASSUME TypeOK, WorkerStep
    PROVE  RunsStep
<1>1. StoreTypeOK
  BY DEF TypeOK
<1>2. nruns \in Nat
  BY <1>1, StoreAssumption DEF StoreTypeOK, StoreAssumption
<1>3. CASE WorkerPoll \/ WorkerLoopError
  BY <1>1, <1>3, RunsUnchanged DEF WorkerPoll, WorkerLoopError, storeVars
<1>4. CASE WorkerClaim
  <2>1. PICK i \in RunIds \cup {NoRun} : ClaimNext(polledAt, i)
    BY <1>4 DEF WorkerClaim
  <2>2. \A k \in RunIds : status'[k] = IF k = i THEN "claimed"
                                       ELSE IF k \in Overdue(polledAt) THEN "skipped" ELSE status[k]
    BY <2>1 DEF ClaimNext, StatusWhere
  <2>3. UNCHANGED <<nruns, job>>
    BY <2>1 DEF ClaimNext
  <2>4. i \in RunIds => status[i] = "queued" /\ \A k \in RunIds : ~Active(k)
    BY <2>1, QueuedSetsType DEF ClaimNext, Claimable, NoRun, RunIds
  <2>5. \A k \in Overdue(polledAt) : status[k] = "queued"
    BY QueuedSetsType
  <2>6. QED
    BY <1>2, <2>2, <2>3, <2>4, <2>5
       DEF RunsStep, Moves, ClaimsAlone, TerminalStatuses, Active, ActiveStatuses
<1>5. CASE WorkerLaunch
  <2>1. /\ status[hand] = "claimed" /\ UNCHANGED <<nruns, job>>
        /\ \A k \in RunIds : status'[k] = IF k = hand THEN "running" ELSE status[k]
    BY <1>1, <1>5 DEF WorkerLaunch, MarkRunning, StoreTypeOK
  <2>2. QED
    BY <1>2, <2>1 DEF RunsStep, Moves, ClaimsAlone
<1>6. CASE WorkerFinish
  <2>1. PICK o \in TerminalStatuses : FinishRun(hand, o) /\ o \in Outcomes(hand)
    BY <1>6 DEF WorkerFinish, FinishRun
  <2>2. /\ status[hand] \in OpenStatuses /\ UNCHANGED <<nruns, job>>
        /\ \A k \in RunIds : status'[k] = IF k = hand THEN o ELSE status[k]
    BY <1>1, <2>1 DEF FinishRun, Open, StoreTypeOK
  <2>3. o # "claimed"
    BY DEF TerminalStatuses
  <2>4. QED
    BY <1>2, <2>2, <2>3 DEF RunsStep, Moves, ClaimsAlone, OpenStatuses
<1>7. QED
  BY <1>3, <1>4, <1>5, <1>6 DEF WorkerStep

LEMMA NextRuns ==
    ASSUME TypeOK, [Next]_vars
    PROVE  RunsStep
<1>1. StoreTypeOK
  BY DEF TypeOK
<1>2. nruns \in Nat
  BY <1>1, StoreAssumption DEF StoreTypeOK, StoreAssumption
<1>3. CASE ProcessStep
  <2>1. CASE Boot
    BY <1>1, <1>3, <2>1, RunsUnchanged DEF Boot, CreateRoutine, storeVars
  <2>2. CASE BootReconcile
    <3>1. \A k \in RunIds : status'[k] = IF Active(k) THEN "interrupted" ELSE status[k]
      BY <2>2 DEF BootReconcile, Reconcile, StatusWhere
    <3>2. QED
      BY <1>2, <2>2, <3>1 DEF RunsStep, Moves, ClaimsAlone, BootReconcile, Reconcile,
                               Active, TerminalStatuses
  <2>3. CASE StopSignal \/ StopCompletes \/ Crash \/ InstallerDisablesDispatch
    BY <1>1, <2>3, RunsUnchanged
       DEF StopSignal, StopCompletes, Crash, ProcessGone, InstallerDisablesDispatch, storeVars
  <2>4. QED
    BY <1>3, <2>1, <2>2, <2>3 DEF ProcessStep
<1>4. CASE ClockStep
  BY <1>1, <1>4, RunsUnchanged DEF ClockStep, ClockAdvances, ClockSetBack
<1>5. CASE UNCHANGED vars
  BY <1>1, <1>5, RunsUnchanged DEF vars, storeVars
<1>6. QED
  BY <1>3, <1>4, <1>5, ApiStepRuns, WorkerStepRuns DEF Next
-----------------------------------------------------------------------------
(* Global concurrency is one: claim_next looks for an active run in the     *)
(* transaction that claims, and nothing else makes a run active.            *)
THEOREM OneActive == Spec => []AtMostOneActive
<1>1. Init => AtMostOneActive
  BY DEF Init, StoreInit, AtMostOneActive, Active, ActiveStatuses
<1>2. TypeOK /\ AtMostOneActive /\ [Next]_vars => AtMostOneActive'
  <2> SUFFICES ASSUME TypeOK, AtMostOneActive, [Next]_vars,
                      NEW i \in RunIds, NEW j \in RunIds, Active(i)', Active(j)'
               PROVE  i = j
    BY DEF AtMostOneActive
  <2>1. RunsStep
    BY NextRuns
  <2>2. \A k \in RunIds :
           Active(k)' /\ ~Active(k) => status[k] = "queued" /\ status'[k] = "claimed"
    BY <2>1 DEF RunsStep, Moves, Active, ActiveStatuses, TerminalStatuses
  <2>3. CASE Active(i) /\ Active(j)
    BY <2>3 DEF AtMostOneActive
  <2>4. CASE ~Active(i)
    BY <2>1, <2>2, <2>4 DEF RunsStep, ClaimsAlone
  <2>5. CASE ~Active(j)
    BY <2>1, <2>2, <2>5 DEF RunsStep, ClaimsAlone
  <2>6. QED
    BY <2>3, <2>4, <2>5
<1>3. QED
  BY <1>1, <1>2, TypeCorrect, PTL DEF Spec
-----------------------------------------------------------------------------
(* The service implements the abstract queue of runs: a run is recorded     *)
(* once, starts at most once and alone, ends once and is not replayed.      *)
PhaseBar == [i \in RunIds |-> Phase(i)]

LEMMA PhaseValues ==
    /\ \A i : status[i] = "none" => Phase(i) = "unborn"
    /\ \A i : status[i] = "queued" => Phase(i) = "waiting"
    /\ \A i : status[i] \in ActiveStatuses => Phase(i) = "started"
    /\ \A i : status[i] \in TerminalStatuses => Phase(i) = "ended"
    /\ \A i : Phase(i) \in {"unborn", "waiting", "started", "ended"}
BY DEF Phase, Queued, Active, ActiveStatuses, TerminalStatuses

LEMMA PhaseValuesNext ==
    /\ \A i : status'[i] = "none" => Phase(i)' = "unborn"
    /\ \A i : status'[i] = "queued" => Phase(i)' = "waiting"
    /\ \A i : status'[i] \in ActiveStatuses => Phase(i)' = "started"
    /\ \A i : status'[i] \in TerminalStatuses => Phase(i)' = "ended"
    /\ \A i : Phase(i)' \in {"unborn", "waiting", "started", "ended"}
BY DEF Phase, Queued, Active, ActiveStatuses, TerminalStatuses

THEOREM KeepsPromise == Spec => KeepsQueuePromise
<1>1. Init => Queue!Init
  BY PhaseValues DEF Init, StoreInit, Queue!Init
<1>2. TypeOK /\ [Next]_vars => [Queue!Next]_PhaseBar
  <2> SUFFICES ASSUME TypeOK, [Next]_vars PROVE Queue!Next
    BY DEF PhaseBar
  <2>1. RunsStep
    BY NextRuns
  <2>2. \A i \in RunIds : status[i] \in Statuses
    BY DEF TypeOK, StoreTypeOK, Statuses
  <2>3. PhaseBar' \in [RunIds -> Queue!Phases]
    BY PhaseValuesNext DEF PhaseBar, Queue!Phases
  <2>4. \A i \in RunIds : PhaseBar[i] = Phase(i) /\ PhaseBar'[i] = Phase(i)'
    BY DEF PhaseBar
  <2>5. \A i \in RunIds : ~(status[i] = "queued" /\ status'[i] = "claimed")
           => <<PhaseBar[i], PhaseBar'[i]>> \in Queue!Passage
    <3> SUFFICES ASSUME NEW i \in RunIds, ~(status[i] = "queued" /\ status'[i] = "claimed")
                 PROVE  <<Phase(i), Phase(i)'>> \in Queue!Passage
      BY <2>4
    <3>1. Moves(i)
      BY <2>1 DEF RunsStep
    <3>2. CASE status'[i] = status[i]
      <4>1. Phase(i)' = Phase(i)
        BY <3>2 DEF Phase, Queued, Active
      <4>2. QED
        BY <4>1, PhaseValues DEF Queue!Passage, Queue!Phases
    <3>3. CASE status[i] = "none" /\ status'[i] \in {"queued", "skipped"}
      BY <3>3, PhaseValues, PhaseValuesNext DEF Queue!Passage, TerminalStatuses
    <3>4. CASE status[i] = "queued" /\ status'[i] \in TerminalStatuses
      BY <3>4, PhaseValues, PhaseValuesNext DEF Queue!Passage
    <3>5. CASE status[i] \in ActiveStatuses /\ status'[i] \in TerminalStatuses
      BY <3>5, PhaseValues, PhaseValuesNext DEF Queue!Passage
    <3>6. CASE status[i] = "claimed" /\ status'[i] = "running"
      BY <3>6, PhaseValues, PhaseValuesNext DEF Queue!Passage, Queue!Phases, ActiveStatuses
    <3>7. QED
      BY <3>1, <3>2, <3>3, <3>4, <3>5, <3>6 DEF Moves
  <2>6. CASE \E i \in RunIds : status[i] = "queued" /\ status'[i] = "claimed"
    <3>1. PICK i \in RunIds : status[i] = "queued" /\ status'[i] = "claimed"
      BY <2>6
    <3>2. \A k \in RunIds : ~Active(k) /\ (status'[k] = "claimed" => k = i)
      BY <2>1, <3>1 DEF RunsStep, ClaimsAlone
    <3>3. \A k \in RunIds : Phase(k) # "started"
      BY <3>2, PhaseValues DEF Phase, Queued, Active
    <3>4. Phase(i) = "waiting" /\ Phase(i)' = "started"
      BY <3>1, PhaseValues, PhaseValuesNext DEF ActiveStatuses
    <3>5. \A k \in RunIds \ {i} : <<PhaseBar[k], PhaseBar'[k]>> \in Queue!Passage
      BY <2>5, <3>2
    <3>6. Queue!Start(i)
      BY <2>3, <2>4, <3>3, <3>4, <3>5 DEF Queue!Start, Queue!Settle, PhaseBar
    <3>7. QED
      BY <3>6 DEF Queue!Next
  <2>7. CASE ~\E i \in RunIds : status[i] = "queued" /\ status'[i] = "claimed"
    BY <2>3, <2>5, <2>7 DEF Queue!Next, Queue!Settle, PhaseBar
  <2>8. QED
    BY <2>6, <2>7
<1>3. QED
  BY <1>1, <1>2, TypeCorrect, PTL DEF Spec, KeepsQueuePromise, Queue!Spec, PhaseBar
=============================================================================
