----------------------------- MODULE ClockProofs -----------------------------
(***************************************************************************)
(* Theorems about the evaluator, for every expression and every change of  *)
(* the clocks: previews list exactly the minutes that match and come for   *)
(* the first time, dispatch starts only what previews list, and of what    *)
(* they list a tick loses nothing that it does not record as a gap.        *)
(***************************************************************************)
EXTENDS ScheduleProofs

(* The way back of _first_instant decides what `matches` asks directly: the *)
(* minute, and not its second fold.                                         *)
LEMMA FirstInstantIs ==
    ASSUME NEW z \in Zone, NEW l \in Int, NEW t \in Int
    PROVE  t \in FirstInstant(z, l) <=> Local(z, t) = l /\ ~Fold(z, t)
<1>1. z.before \in Int /\ z.after \in Int /\ z.at \in Int
  BY DEF Zone
<1>2. CASE z.before < z.after
  BY <1>1, <1>2 DEF FirstInstant, Instant, Local, Fold, Greater
<1>3. CASE ~(z.before < z.after)
  BY <1>1, <1>3 DEF FirstInstant, Instant, Local, Fold, Greater
<1>4. QED
  BY <1>2, <1>3

LEMMA InstantsAreIntegers ==
    ASSUME NEW z \in Zone, NEW l \in Int
    PROVE  FirstInstant(z, l) \subseteq Int
BY DEF FirstInstant, Instant, Zone

(* Seen from any instant, what matches later is later on the wall clock.    *)
LEMMA LaterOnTheWall ==
    ASSUME NEW z \in Zone, NEW s \in Int, NEW t \in Int, s < t, ~Fold(z, t)
    PROVE  Local(z, s) < Local(z, t)
<1>1. z.before \in Int /\ z.after \in Int /\ z.at \in Int
  BY DEF Zone
<1>2. QED
  BY <1>1 DEF Local, Fold

LEMMA LocalInteger ==
    ASSUME NEW z \in Zone, NEW t \in Int
    PROVE  Local(z, t) \in Int
BY DEF Local, Zone

(* A preview lists exactly the later instants that match.                   *)
THEOREM PreviewIsMatches ==
    ASSUME NEW cron \in SUBSET Int, NEW z \in Zone, NEW after \in Int
    PROVE  Preview(cron, z, after) = {t \in Int : after < t /\ Matches(cron, z, t)}
<1>1. ASSUME NEW t \in Preview(cron, z, after)
      PROVE  t \in Int /\ after < t /\ Matches(cron, z, t)
  <2>1. PICK l \in cron : t \in FirstInstant(z, l)
    BY <1>1 DEF Preview
  <2>2. l \in Int /\ t \in Int
    BY <2>1, InstantsAreIntegers
  <2>3. Local(z, t) = l /\ ~Fold(z, t)
    BY <2>1, <2>2, FirstInstantIs
  <2>4. QED
    BY <1>1, <2>1, <2>2, <2>3 DEF Preview, Matches
<1>2. ASSUME NEW t \in Int, after < t, Matches(cron, z, t)
      PROVE  t \in Preview(cron, z, after)
  <2>1. Local(z, t) \in cron /\ ~Fold(z, t)
    BY <1>2 DEF Matches
  <2>2. t \in FirstInstant(z, Local(z, t))
    BY <2>1, FirstInstantIs
  <2>3. Local(z, after) < Local(z, t)
    BY <1>2, <2>1, LaterOnTheWall
  <2>4. QED
    BY <1>2, <2>1, <2>2, <2>3 DEF Preview
<1>3. QED
  BY <1>1, <1>2

(* Dispatch starts an occurrence only if a preview from the checkpoint      *)
(* lists it.                                                                *)
THEOREM DueWasShown ==
    ASSUME NEW cron \in SUBSET Int, NEW z \in Zone, NEW c0 \in Int, NEW now \in Int,
           NEW t \in DueAt(cron, z, c0, now)
    PROVE  t \in Preview(cron, z, c0) /\ Matches(cron, z, t)
<1>1. PICK l \in cron : t \in FirstInstant(z, l)
  BY DEF DueAt, Latest
<1>2. l \in Int /\ t \in Int
  BY <1>1, InstantsAreIntegers
<1>3. Local(z, t) = l /\ ~Fold(z, t)
  BY <1>1, <1>2, FirstInstantIs
<1>4. Matches(cron, z, t) /\ c0 < t
  BY <1>1, <1>3 DEF Matches, DueAt
<1>5. QED
  BY <1>2, <1>4, PreviewIsMatches

LEMMA DueUnique ==
    ASSUME NEW cron \in SUBSET Int, NEW z, NEW c0, NEW now \in Int,
           NEW s \in DueAt(cron, z, c0, now), NEW t \in DueAt(cron, z, c0, now)
    PROVE  s = t
<1> DEFINE Last(l) == l <= Local(z, now) /\ \A m \in cron : m <= Local(z, now) => m <= l
<1>1. PICK k \in cron : Last(k) /\ s \in FirstInstant(z, k)
  BY DEF DueAt, Latest
<1>2. PICK l \in cron : Last(l) /\ t \in FirstInstant(z, l)
  BY DEF DueAt, Latest
<1>3. k <= l /\ l <= k
  BY <1>1, <1>2
<1>4. k = l
  BY <1>3
<1>5. QED
  BY <1>1, <1>2, <1>4 DEF FirstInstant

(* With minutes no closer than the grace, an occurrence that a preview from *)
(* the checkpoint lists and that has come is due now, or so old that the    *)
(* tick records the gap it lies in.                                         *)
THEOREM ShownIsDueOrInGap ==
    ASSUME NEW cron \in SUBSET Int, NEW z \in Zone, MinutesApart(cron, z),
           NEW c0 \in Int, NEW now \in Int, NEW t \in Preview(cron, z, c0), t <= now
    PROVE  \/ t \in DueAt(cron, z, c0, now)
           \/ t <= now - Grace /\ UnobservedGap(c0, now) = {<<c0, now - Grace>>}
<1>1. t \in Int /\ c0 < t /\ Local(z, t) \in cron /\ ~Fold(z, t)
  BY PreviewIsMatches DEF Matches
<1>2. Grace \in Nat /\ z.before \in Int /\ z.after \in Int /\ z.at \in Int
  BY GraceAssumption DEF Zone
<1>3. CASE t <= now - Grace
  <2>1. c0 < now - Grace
    BY <1>1, <1>2, <1>3
  <2>2. QED
    BY <1>3, <2>1 DEF UnobservedGap
<1>4. CASE now - Grace < t
  <2>1. ~(t < z.at /\ z.at <= now)
    <3>1. SUFFICES ASSUME t < z.at, z.at <= now PROVE FALSE
      OBVIOUS
    <3>2. Local(z, t) = t + z.before
      BY <3>1 DEF Local
    <3>3. t + z.before + Grace <= z.at + z.before
      BY <1>1, <1>2, <3>1, <3>2 DEF MinutesApart
    <3>4. QED
      BY <1>1, <1>2, <1>4, <3>1, <3>3
  <2>2. Local(z, t) <= Local(z, now) /\ Local(z, now) < Local(z, t) + Grace
    BY <1>1, <1>2, <1>4, <2>1 DEF Local
  <2>3. \A m \in cron : m <= Local(z, now) => m <= Local(z, t)
    <3>1. SUFFICES ASSUME NEW m \in cron, m <= Local(z, now), Local(z, t) < m PROVE FALSE
      BY <1>1, LocalInteger
    <3>2. Local(z, t) + Grace <= m
      BY <1>1, <3>1 DEF MinutesApart
    <3>3. m \in Int /\ Local(z, t) \in Int /\ Local(z, now) \in Int
      BY <1>1, <3>1, LocalInteger
    <3>4. QED
      BY <1>2, <2>2, <3>1, <3>2, <3>3
  <2>4. t \in FirstInstant(z, Local(z, t))
    BY <1>1, LocalInteger, FirstInstantIs
  <2>5. t \in Latest(cron, z, now)
    BY <1>1, <2>2, <2>3, <2>4 DEF Latest
  <2>6. QED
    BY <1>1, <1>2, <1>4, <2>5 DEF DueAt
<1>5. QED
  BY <1>1, <1>2, <1>3, <1>4
-----------------------------------------------------------------------------
(* A slot names its minute of the wall clock the first time it comes, so    *)
(* two occurrences of one zone never share one.                             *)
SlotsTell ==
    \A i \in 1..nruns :
        IF job[i].trigger = "scheduled"
        THEN \E c \in Crons : /\ job[i].slot = SlotOf(c, job[i].scheduledAt)
                              /\ job[i].scheduledAt \in Time
                              /\ ~Fold(ZoneOf[c], job[i].scheduledAt)
        ELSE job[i].slot = NoSlot

LEMMA CronType ==
    ASSUME NEW c \in Crons
    PROVE  /\ MinutesOf[c] \in SUBSET Int /\ ZoneOf[c] \in Zone
           /\ MinutesApart(MinutesOf[c], ZoneOf[c])
BY StoreAssumption DEF StoreAssumption

LEMMA LookedUntilType ==
    ASSUME TypeOK, NEW r \in Routines
    PROVE  LookedUntil(r) \in Int /\ clock \in Int
<1>1. checkpoint[r] \in Int /\ clock \in Int
  BY RowsTyped
<1>2. QED
  BY <1>1, GraceAssumption DEF LookedUntil, FirstCheckpoint

LEMMA DueIsDueAt ==
    ASSUME NEW r, NEW t \in DueOf(r)
    PROVE  t \in DueAt(MinutesOf[routine[r].cron], ZoneOf[routine[r].cron], LookedUntil(r), clock)
BY DEF DueOf

LEMMA SlotsTellStays ==
    ASSUME TypeOK, SlotsTell, [Next]_vars
    PROVE  SlotsTell'
<1> SUFFICES ASSUME NEW i \in 1..nruns'
             PROVE  IF job'[i].trigger = "scheduled"
                    THEN \E c \in Crons : /\ job'[i].slot = SlotOf(c, job'[i].scheduledAt)
                                          /\ job'[i].scheduledAt \in Time
                                          /\ ~Fold(ZoneOf[c], job'[i].scheduledAt)
                    ELSE job'[i].slot = NoSlot
  BY DEF SlotsTell, SlotOf
<1>1. i \in RunIds /\ status'[i] # "none"
  BY NextType, StoreAssumption DEF TypeOK, StoreTypeOK, RunIds, StoreAssumption
<1>2. CASE status[i] # "none"
  <2>1. i \in 1..nruns /\ job'[i] = job[i]
    BY <1>1, <1>2, NextRuns, StoreAssumption
       DEF RunsStep, TypeOK, StoreTypeOK, RunIds, StoreAssumption
  <2>2. QED
    BY <2>1 DEF SlotsTell
<1>3. CASE Requested(i)
  BY <1>3 DEF Requested
<1>4. CASE Ticked(i)
  <2> DEFINE r == FiredAs(i)
             c == routine[r].cron
             t == job'[i].scheduledAt
  <2>1. /\ r \in Watched /\ job'[i] = ScheduledJob(r) /\ t \in DueOf(r)
        /\ job'[i].trigger = "scheduled"
    BY <1>1, <1>4, TickedRun DEF TypeOK
  <2>2. c \in Crons /\ t \in Time /\ r \in Routines
    BY <2>1, DueOfFacts DEF TypeOK, Watched, OnCron
  <2>3. job'[i].slot = SlotOf(c, t)
    BY <2>1 DEF ScheduledJob
  <2>4. t \in DueAt(MinutesOf[c], ZoneOf[c], LookedUntil(r), clock)
    BY <2>1, DueIsDueAt
  <2>5. Matches(MinutesOf[c], ZoneOf[c], t)
    BY <2>2, <2>4, CronType, LookedUntilType, DueWasShown
  <2>6. QED
    BY <2>1, <2>2, <2>3, <2>5 DEF Matches
<1>5. QED
  BY <1>1, <1>2, <1>3, <1>4, NewRunOrigin

LEMMA SlotsAlways == Spec => []SlotsTell
<1>1. Init => SlotsTell
  BY DEF Init, StoreInit, SlotsTell
<1>2. TypeOK /\ SlotsTell /\ [Next]_vars => SlotsTell'
  BY SlotsTellStays
<1>3. QED
  BY <1>1, <1>2, TypeCorrect, PTL DEF Spec

(* Between two instants that come for the first time, the wall clock tells. *)
LEMMA SlotTellsInstant ==
    ASSUME NEW z \in Zone, NEW s \in Int, NEW t \in Int,
           ~Fold(z, s), ~Fold(z, t), Local(z, s) = Local(z, t)
    PROVE  s = t
<1>1. ~(s < t) /\ ~(t < s)
  BY LaterOnTheWall, LocalInteger
<1>2. QED
  BY <1>1
-----------------------------------------------------------------------------
(* A tick starts a routine only for an occurrence that a preview showed.    *)
LEMMA TickShown ==
    ASSUME TypeOK, ApiTick, [Next]_vars, NEW i \in (nruns + 1)..nruns'
    PROVE  LET r == job'[i].routine
               c == routine[r].cron
           IN  /\ job'[i].scheduledAt \in Shown(r)
               /\ Matches(MinutesOf[c], ZoneOf[c], job'[i].scheduledAt)
<1> DEFINE r == FiredAs(i)
           c == routine[r].cron
           t == job'[i].scheduledAt
<1>1. StoreTypeOK /\ Tick
  BY DEF TypeOK, ApiTick
<1>2. i \in NewRuns /\ i \in RunIds
  BY <1>1, TickRuns
<1>3. r \in Watched /\ job'[i].routine = r /\ t \in DueOf(r)
  BY <1>1, <1>2, TickedRun DEF Ticked
<1>4. c \in Crons /\ r \in Routines
  BY <1>1, <1>3, DueOfFacts DEF Watched, OnCron
<1>5. t \in DueAt(MinutesOf[c], ZoneOf[c], LookedUntil(r), clock)
  BY <1>3, DueIsDueAt
<1>6. t \in Shown(r) /\ Matches(MinutesOf[c], ZoneOf[c], t)
  BY <1>4, <1>5, CronType, LookedUntilType, DueWasShown DEF Shown
<1>7. QED
  BY <1>3, <1>6

THEOREM DispatchKeepsToPreview == Spec => RunsWereShown
<1>1. TypeOK /\ [Next]_vars =>
        (ApiTick => \A i \in (nruns + 1)..nruns' :
            LET r == job'[i].routine
                c == routine[r].cron
            IN  /\ job'[i].scheduledAt \in Shown(r)
                /\ Matches(MinutesOf[c], ZoneOf[c], job'[i].scheduledAt))
  BY TickShown
<1>2. QED
  BY <1>1, TypeCorrect, PTL DEF Spec, RunsWereShown

(* What a preview showed and has come by now has its run after the tick, or *)
(* lies in a gap that the tick records.                                     *)
LEMMA TickAccounts ==
    ASSUME TypeOK, SlotsTell, ApiTick, [Next]_vars,
           NEW r \in Watched, NEW t \in Shown(r), t <= clock
    PROVE  \/ \E i \in 1..nruns' : job'[i].routine = r /\ job'[i].scheduledAt = t
           \/ \E g \in gaps' : g[1] = r /\ g[2] < t /\ t <= g[3]
<1> DEFINE c == routine[r].cron
           z == ZoneOf[c]
           C0 == LookedUntil(r)
<1>1. StoreTypeOK /\ Tick
  BY DEF TypeOK, ApiTick
<1>2. c \in Crons /\ r \in Routines
  BY <1>1 DEF Watched, OnCron, StoreTypeOK, RoutineRow
<1>3. /\ MinutesOf[c] \in SUBSET Int /\ z \in Zone /\ MinutesApart(MinutesOf[c], z)
      /\ C0 \in Int /\ clock \in Int
  BY <1>2, CronType, LookedUntilType
<1>4. t \in Int /\ C0 < t /\ ~Fold(z, t)
  BY <1>3, PreviewIsMatches DEF Shown, Matches
<1>5. \/ t \in DueAt(MinutesOf[c], z, C0, clock)
      \/ t <= clock - Grace /\ UnobservedGap(C0, clock) = {<<C0, clock - Grace>>}
  <2> DEFINE minutes == MinutesOf[c]
  <2>1. t \in Preview(minutes, z, C0)
    BY DEF Shown
  <2>2. minutes \in SUBSET Int /\ z \in Zone /\ MinutesApart(minutes, z)
    BY <1>3
  <2> HIDE DEF z, C0, c, minutes
  <2>3. \A c0, now \in Int : \A s \in Preview(minutes, z, c0) : s <= now =>
            \/ s \in DueAt(minutes, z, c0, now)
            \/ s <= now - Grace /\ UnobservedGap(c0, now) = {<<c0, now - Grace>>}
    BY ONLY <2>2, ShownIsDueOrInGap
  <2>4. \/ t \in DueAt(minutes, z, C0, clock)
        \/ t <= clock - Grace /\ UnobservedGap(C0, clock) = {<<C0, clock - Grace>>}
    BY ONLY <1>3, <2>1, <2>3, t <= clock
  <2>5. QED
    BY <2>4 DEF minutes
<1>6. CASE t <= clock - Grace /\ UnobservedGap(C0, clock) = {<<C0, clock - Grace>>}
  <2>1. <<r, C0, clock - Grace>> \in gaps'
    <3>1. \A g \in UnobservedGap(LookedUntil(r), clock) : <<r, g[1], g[2]>> \in gaps'
      BY <1>1 DEF Tick
    <3>2. <<C0, clock - Grace>> \in UnobservedGap(LookedUntil(r), clock)
      BY <1>6
    <3>3. QED
      BY <3>1, <3>2
  <2>2. QED
    BY <1>4, <1>6, <2>1
<1>7. CASE t \in DueAt(MinutesOf[c], z, C0, clock) /\ SlotTaken(r, SlotOf(c, t))
  <2>1. PICK i \in 1..nruns : job[i].routine = r /\ job[i].slot = SlotOf(c, t)
    BY <1>7 DEF SlotTaken
  <2>2. job[i].slot # NoSlot
    BY <2>1 DEF SlotOf, NoSlot
  <2>3. PICK d \in Crons : /\ job[i].slot = SlotOf(d, job[i].scheduledAt)
                           /\ job[i].scheduledAt \in Time
                           /\ ~Fold(ZoneOf[d], job[i].scheduledAt)
    BY <2>2 DEF SlotsTell
  <2>4. ZoneOf[d] = z /\ Local(z, job[i].scheduledAt) = Local(z, t)
    BY <2>1, <2>3 DEF SlotOf
  <2>5. job[i].scheduledAt = t
    BY <1>3, <1>4, <2>3, <2>4, SlotTellsInstant DEF Time
  <2>6. i \in 1..nruns' /\ job'[i] = job[i]
    <3>1. /\ nruns \in Nat /\ nruns \in 0..MaxRuns /\ MaxRuns \in Nat
          /\ nruns' = nruns + Cardinality(Fired) /\ Cardinality(Fired) \in Nat
      BY <1>1, TickRuns, FiredFinite, StoreAssumption DEF StoreTypeOK, StoreAssumption
    <3>2. NewRuns = (nruns + 1)..nruns'
      BY <1>1, TickRuns
    <3>3. i \in RunIds /\ i \notin NewRuns /\ i \in 1..nruns'
      BY <2>1, <3>1, <3>2 DEF RunIds
    <3>4. QED
      BY <1>1, <3>3, TickRuns
  <2>7. QED
    BY <2>1, <2>5, <2>6
<1>8. CASE t \in DueAt(MinutesOf[c], z, C0, clock) /\ ~SlotTaken(r, SlotOf(c, t))
  <2>1. t \in DueOf(r) /\ r \in Fired
    BY <1>8 DEF DueOf, Fired
  <2>2. OccurrenceOf(r) = t
    <3>1. OccurrenceOf(r) \in DueAt(MinutesOf[c], z, C0, clock)
      BY <2>1, OccurrenceDue, DueIsDueAt
    <3>2. QED
      BY <1>3, <1>8, <3>1, DueUnique
  <2> DEFINE i == NewRun(r)
  <2>3. i \in NewRuns
    BY <2>1 DEF NewRuns
  <2>4. i \in 1..nruns' /\ FiredAs(i) \in Fired /\ NewRun(FiredAs(i)) = NewRun(r)
        /\ job'[i] = ScheduledJob(FiredAs(i))
    BY <1>1, <2>3, TickRuns
  <2>5. FiredAs(i) = r
    <3>1. nruns \in Nat
      BY <1>1, TickRuns
    <3>2. QED
      BY <2>1, <2>4, <3>1, NewRunInjective
  <2>6. QED
    BY <2>2, <2>4, <2>5 DEF ScheduledJob
<1>9. QED
  BY <1>5, <1>6, <1>7, <1>8

THEOREM NothingSilent == Spec => OccurrencesAccounted
<1>1. TypeOK /\ SlotsTell /\ [Next]_vars =>
        (ApiTick => \A r \in Watched : \A t \in Shown(r) :
          t <= clock =>
              \/ \E i \in 1..nruns' : job'[i].routine = r /\ job'[i].scheduledAt = t
              \/ \E g \in gaps' : g[1] = r /\ g[2] < t /\ t <= g[3])
  BY TickAccounts
<1>2. QED
  BY <1>1, SlotsAlways, TypeCorrect, PTL DEF Spec, OccurrencesAccounted
=============================================================================
