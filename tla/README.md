# Omakron in TLA+

Omakron runs Claude Code routines on a schedule. A per-user service keeps
routines and runs in SQLite, turns cron occurrences into queued runs, executes
one run at a time as a supervised child process, and answers a desktop popup
over a Unix socket. This directory holds a TLA+ model of that service, the
configurations that check it with TLC on small instances, and proofs, checked
by TLAPS, of its main properties for every value of the constants.

## 1. The system

### 1.1 Components

| Component | Source | State it keeps | Operations that change state |
|---|---|---|---|
| Store | `store.py` | SQLite: `routines`, `schedule_state` (checkpoint), `schedule_gaps`, `schedule_slots`, `runs`, `schema_meta` (dispatch switch, output settings) | create, update, delete, enable a routine; enqueue, claim, mark running, finish, cancel, expire a run; reconcile; migrate |
| Schedule | `schedule.py` | none | pure: `latest`, `next`, `preview`, `due_window` |
| Scheduler | `scheduler.py` | through the store | `tick`, `set_dispatch` |
| Service | `service.py` | lock file, socket, stop flag, API thread | start, reconcile, serve, one operation per request, stop |
| Worker | `worker.py` | the run in hand, the files of a run | claim, execute, record |
| Runner | `runner.py` | the child and its process group, captures | supervise, stop the group, classify |
| History and retention | `history.py` | output settings, output folders | retry, prune output, settings |
| Installer | `manage.py`, `scripts/manage.py` | plugin, state and config folders, unit, backups, `shell.json` | install, set up, enable the widget, disable, back up, upgrade, roll back, uninstall |
| Popup | `ui/*.qml`, `ui/*.js` | view, open routine and run, page, form, the pending call | what the user does, one request at a time, and what each reply does |
| Client, protocol | `client.py`, `ipc.py`, `scripts/client.py` | none | one request per connection |
| Validation, skills, seed | `routines.py`, `skills.py`, `seed.py` | none | pure checks and texts |
| Checks, rehearsals | `checks.py`, `scripts/*` | none of the running system | drive it from outside |

### 1.2 How they interact

One process owns the state directory (an exclusive `flock` on
`service.lock`). It has two threads with one SQLite connection each:

* the **API thread** loops: a scheduler tick, then at most one request. Both
  write through `BEGIN IMMEDIATE` transactions;
* the **worker thread** loops: claim a run, execute it, record how it ended.

They share nothing but the database and two events (`stopping`, `wake`). The
worker reads the cancel flag from the database and the stop flag from memory
about ten times a second while a child runs. The installer writes the dispatch
switch of a *stopped* service, under the same lock. The popup and the command
line talk to the API thread only.

### 1.3 What is hard

* **Interleaving.** A tick, an edit, a pause, a cancel or the dispatch switch
  may fall between any two steps of the worker, and the other way round. The
  queue a claim sees is not the queue the worker's clock reading was taken for:
  `claim_next` reads the time and then waits for the write lock.
* **Time.** The scheduler looks at a wall clock that stops with the process,
  is set back, and has hours that do not exist or happen twice. An occurrence
  must be started at most once, never late by more than the grace, and must
  not be lost without a trace.
* **Crashes.** The process dies between any two transactions: after a claim
  and before the child, after the child and before its pid is recorded, after
  its end and before the status, after reconciliation and before the orphans
  are stopped.
* **Order of edits.** Pause, resume, edit (also to another timezone and back),
  delete and the dispatch switch, in any order and between ticks, each have to
  deal with work that is already queued and with time that has already passed.
* **Liveness.** One run at a time means that one run that never ends stops
  everything.

`PROJECT.json` lists these hazards at the line where each bites, with the
properties that would catch it going wrong.

### 1.4 What makes each component correct

* *Store*: at most one run active; a run is started at most once, ends once,
  is never replayed; an edit reaches the queued work it invalidates.
* *Scheduler*: each occurrence at most once; each look at the clock leaves
  every occurrence either started, skipped or inside a recorded gap; gaps are
  true; nothing is caught up after a pause; nothing scheduled starts while
  dispatch is off; no overlap of one routine's scheduled runs.
* *Worker and service*: an active run is always in somebody's hands; priority
  order is kept; every run ends.
* *Runner*: the recorded outcome is what happened; a success can be shown; no
  process outlives its run.
* *Installer*: a failed upgrade leaves the old installation; what a service has
  kept is in place or in a backup; folders move only while nobody owns them.
* *History*: a cleanup removes what was approved and nothing else; a row leads
  to its files.
* *Popup*: a late reply never changes what the user has open; what is deleted
  is what the question was about; no call hangs and no press is dropped.

## 2. The modules

| Module | Models | Extends / instantiates |
|---|---|---|
| `Schedule` | `schedule.py`: `preview`, `matches`, `latest`, `due_window` over a wall clock that changes | |
| `Store` | the rows of `store.py`, one action per transaction | `Schedule` |
| `Scheduler` | `tick`, `_enqueue`, `set_dispatch` of `scheduler.py` | `Store` |
| `Service` | the process, the API thread, the worker thread, the installer's write; the properties of the whole | `Scheduler`, instantiates `RunQueue` |
| `RunQueue` | the abstract promise: recorded once, started at most once and alone, ended once, never replayed | |
| `Supervise` | one run from the claim to its status: child, helper, process group, files, exceptions, systemd | instantiates `RunQueue` |
| `Retention` | `history.py`: settings and cleanup against the files that `worker.py` makes | |
| `Installer` | `manage.py`: its operations as lists of steps, and who else uses what they move | |
| `Panel` | the popup, its bridge and the operations of the service it calls | |
| `MCService`, `MCSupervise`, `MCRetention`, `MCInstaller`, `MCPanel` | the small instances TLC runs | the module of that name |
| `ServiceProofs`, `ScheduleProofs`, `QueueProofs` | theorems about `Service` | each extends the one before |
| `ClockProofs` | theorems about `Schedule`, and about ticks | `ScheduleProofs` |
| `SuperviseProofs` | theorems about `Supervise` | `Supervise` |
| `RetentionProofs` | theorems about `Retention` | `Retention` |
| `InstallerProofs` | theorems about `Installer` | `Installer` |
| `PanelProofs` | theorems about `Panel` | `Panel` |

`PROJECT.json` maps every definition to the lines it stands for.

### 2.1 State and actions against the code

**Schedule.** A cron expression is the set of wall-clock minutes it names, a
zone is its offset before and after one change of the clocks and the instant
of that change. `Local` and `Fold` are what `astimezone` gives, `Instant` is
`replace(tzinfo=zone, fold=0)`, and `FirstInstant` is `_first_instant`, which
goes there and back. `Preview`, `Matches`, `Latest`, `UnobservedGap` and
`DueAt` follow the code line by line. `latest` takes the most recent candidate
of the wall clock and gives up if it has no first instant, so a minute that
never was, or the second coming of one, hides the real occurrence before it;
that nothing is lost by this is a theorem, not an assumption.
`Grace` is `STARTUP_GRACE_S`.

**Store.** `routine`, `checkpoint`, `gaps`, `dispatch`, `nruns`, `job`,
`status` and `cancelRequested` are the tables; `clock` is the wall clock behind
every timestamp. Every action is one `BEGIN IMMEDIATE` transaction of the code
with all it changes: `UpdateRoutine` also skips the scheduled queue and
advances the checkpoint, `DeleteRoutine` also cancels the queue, `ClaimNext`
and `Tick` also expire overdue runs. What the code refuses (unknown id, stale
revision, a key used before, an ended run) leaves the database as it was and is
no step. `status` is separate from `job`, which never changes once a row
exists.

**Scheduler.** `Tick` is the whole transaction over all routines: it decides
what is due, inserts the rows (queued, or skipped on overlap) in
`list_routines` order, records the gaps and moves every checkpoint.
`schedule_slots` is derived: a slot row exists exactly when a run row has it,
because one transaction writes both and neither is removed.

**Service.** `service` is the process, `phase`, `polledAt` and `hand` are the
worker. `WorkerPoll` reads the clock and `WorkerClaim` is the transaction that
uses the reading, as late as the write lock allows. `WorkerLaunch` is
`mark_running`, `WorkerFinish` is `finish_run` with any outcome the evidence
allows, `WorkerLoopError` is an exception that leaves `execute` and is caught
by `run_forever`. `Boot`, `BootReconcile`, `StopSignal`, `StopCompletes` and
`Crash` are the process; `InstallerDisablesDispatch` is the installer's write
to the database of a stopped service.

**Supervise.** `step` is the worker's place in `execute` and `supervise`,
`leader` and `helper` are the processes of the run's group, `capture` and
`result` its files. `_watch` is three steps, because the child may end, the
stop flag may be set and the cancel flag may be written between `proc.poll`,
`stopping.is_set` and the database read. `StopSignal` under `unit = "systemd"`
reaches the child as well (`KillMode=control-group`), and the end of the
process ends what is left of the control group; under `"shell"` children
survive and only the sweep of `_reconcile` looks for them.

**Retention.** `settings` is `schema_meta.output_settings`, `status`,
`endedAt` and `outputDir` are columns of `runs`, `place` and `files` the disk.
The worker reads the settings once (`MakeFolder`) and records the folder much
later (`MarkRunning`, `_fail`, `finish_run`); the service's cleanup is a
preview, an approval that compares (`ApplyPrune`) and one `Unlink` per file, so
that an error or a crash falls between two files. A person with a file manager
removes diagnostics as well.

**Installer.** `todo` is the list of steps the running operation has left, and
`StepsOf` spells each operation out, with the calls it makes to others inlined
in their order (a step is what it does and the folder it does it to, `Step`). `Able` says what a step's own code checks. `Refused` is such a
check that fails, `Fault` everything else that may (a full disk, `pip`,
`systemctl`, a kill), with what it leaves half done (`Damage`). Inside the
`try` of `upgrade` both lead to `Recover`, elsewhere to the end of the
operation. `holder` is who has the lock on the file that is called
`service.lock`, `held` the file object of the `Manager`: removing the state
folder removes the one and not the other (`"orphan"`). From there on `rollback`
has the folder in pieces, and its `rmtree` and `copytree` are steps of their
own: `Unlink` removes files up to and with the lock, `Drop` the rest and the
folder, `Make` makes it again, `Copy` writes the database and what is beside it.
A service may start before each of them (`InPieces`); it makes folder, lock and
database where they are missing (`Serve`), is in the way of what follows
(`Able`, `Clash`), and if it goes on over the copy, it keeps what it keeps in a
file that is gone or overwritten (`visited`, `stray`, `Copied`). The service
started at login, by hand or by `systemctl enable --now`, what it keeps and the
person who edits `shell.json` run beside all this.

**Panel.** `call` is the bridge: asked, answered by the service, delivered.
`Serve...` is `_handle` with the operation, `Deliver...` one branch of
`onResult` with the request it sends next, and the rest are the functions of
`RoutinesPanel.qml` behind the buttons and timers. Other clients change
routines between any two steps and an answer may be lost.

### 2.2 Abstractions

* Ids are in creation order, which is also the order of `list_routines`, of
  rowids and of `created_at`.
* The worker id is dropped: it is random at each start, so at the time of
  `reconcile` every active run was left by another worker.
* Keys chosen by clients never look like the scheduler's own keys.
* Prompts, results, digests, pids, names and settings are left out, except for
  what a property tells apart (a recorded pid, a stored result).
* An API step may still happen while the service is stopping, and more than
  one: the code allows one tick and one request at most, so the model has more
  behaviours than the code.
* A signal during start-up is the same as one right after it.
* Time is in units of the grace: with `Grace = 1` the boundary `now - Grace`
  falls on occurrences, which is where an off-by-one would show. Minutes are
  at least the grace apart (`MinutesApart`; both are 60 seconds in the code).
* One change of the clocks per zone: two changes lie months apart, and every
  answer of `schedule.py` depends on at most one.
* `preview` gives the first five; the model gives all, so a property of the
  list holds for its beginning.
* `Retention`: the clock is not set back; the name of a file while it is
  written (`.part`) and its final name are one.
* `Installer`: a release is its schema number; the three folders hold what a
  property tells apart (whole or not, release, virtual environment, what was
  kept, dispatch); `shell.json` is the widget and a set of edits; a foreground
  service runs the installed release. To remove or to copy the plugin is one
  step, because the lock is held, and so is the configuration, because nobody
  else writes to it. Of the state folder, what can be told apart is the lock,
  the database and the rest, and a failure leaves any part of them (`Torn`).
* `Panel`: `editor_defaults` is part of the refresh that follows it; a page
  holds one run; a call whose answer is lost was done before or never; the
  panel stays open; the fields of the form are the routine they came from.
* Pids are not reused in `Supervise`; the code compares the start time of the
  process for that reason.

## 3. The runs

| Run | Question | Result |
|---|---|---|
| `MCSchedules` | one routine edited, paused or resumed, deleted across two schedules, timezones whose clocks change, a clock set back, the switch | holds |
| `MCRestart` | crashes, stops, restarts around ticks, run now, retry, cancel; does a key make one run, and does every run end once the service stays up? | holds, the last under fairness; refines `RunQueue` |
| `MCPriority` | pairs of runs of three routines, by tick, request and retry, of unequal and of equal rank; a stale clock reading, exceptions, two starts, the installer | holds |
| `MCSupervise` | two runs, their processes and files, crashes and exceptions, systemd and shell | holds; refines `RunQueue` |
| `MCWatch` | do a cancel and a deadline free the worker of a child that hangs? | holds under fairness |
| `MCInstaller` | two operations that fail, are refused or killed anywhere, beside services, logins and shell edits | holds, with the exceptions of section 3.3 |
| `MCPanel` | late and lost replies, other clients, deletion, saving; does a panel left alone become current? | holds, the last under fairness |
| `MCRetention` | a cleanup against runs, settings, crashes and a file manager | holds |
| `MCDispatchOff` | do scheduled runs start only while dispatch is on, also after the installer? | violated |
| `MCStopRace` | is a run that the service's stop ended recorded interrupted? | violated |
| `MCHelper` | is the group of a stopped run gone? | violated |
| `MCLateReply` | does a late reply leave what the user has open? | violated |

### 3.1 Bounds

* **Runs (2).** Overlap, order, repeated keys and replay are about pairs of
  runs. What a run leaves behind once it has ended does not depend on how many
  there were. `MCPriority` has three routines, so that both a pair of unequal
  rank and a pair of equal rank wait together: the routine in
  `priority_routines` with another, and two others, one of them run by hand.
* **Time (1 to 3 units, grace 1).** Three units hold an occurrence that is on
  time, one that is exactly at the grace, one that is too old, and the two
  ends of a gap. The clock may be set back to any earlier value.
* **Revisions (1 to 3).** A routine has revision 1 when it is created, so three
  allow two changes: an edit and another, or an edit and a pause, and so on.
  Routines 2 and up are created on a schedule; routine 1 is the seed, which is
  manual and whose first change must give it one. What takes three changes from
  there, to pause and then resume, or to leave a schedule and come back to it,
  does not fit. It was checked once with four revisions (1.2 million states)
  and is left out of the configuration for its run time; the theorems
  `ResumesForward`, `GapsTrue` and `RunsOnce` have no such bound.
* **Starts (1 or 2).** Two hold one crash with everything before and after it.
  The last start is never taken away, so the bound does not end the system.
  `MCSchedules` has one start: in it no process dies, and downtime is only the
  clock that goes on without a tick. What a crash does to slots, checkpoints
  and gaps is covered by the theorems about the same properties, which count no
  starts.
* **Schedules.** The clocks of `early` go back by two units over its minutes,
  those of `late` go forward over one of its minutes: one comes twice, one
  never, and the two share an instant under different slot names.
* **Installer (2 operations, 3 faults, 2 releases, 1 item, 1 edit).** The
  system begins without anything installed or with a service that runs. Two
  operations then hold an upgrade that fails, a recovery that fails as well or
  is disturbed by a service, and a rollback by hand that fails again; or a
  backup and a rollback to it, while `backup` and `upgrade` leave one each. A
  fault is one that the code does not cause itself; refusals that follow from
  it are not counted. Three operations with one fault (4.6 million states) and
  two items with two operations and two faults (3.9 million) were checked once.
  Deadlock checking is off here: after the last operation nobody need act.
* **Panel (2 routines, 3 runs, 2 revisions, 1 lost answer).** Late replies are
  about two routines or two runs; one routine has two pages, so paging
  matters; with two revisions every change can be overtaken once.
* **Retention (2 runs, 2 folders, days 1 or 2, 3 units).** One run may expire
  while the other is under way, before and after a change of either setting.

The proofs of section 4 have none of these bounds.

### 3.2 Fairness

`MCRestart` assumes weak fairness of the worker's steps and of
`BootReconcile`: the thread is scheduled by the operating system, its loop has
no exit but `stopping`, and a transaction waits at most ten seconds for the
lock. Fairness of `WorkerFinish` stands for the deadline: a child is stopped
when it is over. `MCWatch` checks that in detail and without any fairness of
the child, the clock or the users: once a deadline has passed or a cancel is
requested, the worker's own steps free it, whether or not the child reacts.
Nothing is assumed of the API, the clock, or restarts.

`MCPanel` assumes that a call is answered or fails (the client has timeouts),
that replies are delivered and that the polling timer fires. `SaveFires` is
strongly fair: its timer looks every 50 ms and takes the bridge as soon as it
finds it free, while a preview waits 400 ms after a change and a poll does not
happen in the editor. Nothing is assumed of the user or of other clients.

### 3.3 What the violated runs show

* **Dispatch off is not dispatch off after an upgrade** (`MCDispatchOff`).
  `Scheduler.set_dispatch` clears the scheduled queue; the installer writes
  the switch alone. A scheduled run that waited through a backup, set-up or
  upgrade starts afterwards, with dispatch off.
* **A stop recorded as a failure** (`MCStopRace`). systemd signals the child
  together with the service; a child that goes at once is recorded as failed,
  with a notification.
* **A helper outlives its run** (`MCHelper`). SIGKILL is sent only if the
  leader survives SIGTERM.
* **A reply changes the form that is open** (`MCLateReply`). `get_routine` was
  asked for by Edit; the user goes back and starts a new routine; the reply
  turns that form into an edit of the old one, and Save would replace it.
  `get_run` likewise puts back the run that was opened before, although the
  README says that "an older completion cannot replace a selected run".

Weaknesses without a run of their own:

* an exception that leaves `execute` blocks the queue: `run_forever` logs it,
  the run stays active, and `claim_next` returns nothing until a restart. The
  constant `LoopErrors` admits it, and `EveryRunEnds` and `ActiveIsInHand` then
  fail;
* `run_now` and `retry_run` look at the key only, so a routine may have two
  runs waiting, where the README says at most one;
* an exception out of the cancel-flag read inside `_watch` leaves the child
  running and names its captures. The constant `Raising` admits it
  (`"checking"`), and `CompleteCaptureIsFinal` and `NoStrayChild` then fail;
* `rollback` removes the lock file together with the state folder, so a service
  may start while that folder is in pieces. What it keeps there is lost when
  `copytree` overwrites its database (the exception in `NothingLost`), its log
  may be played back over the copy (the exception in `RecoveryRestores`), and
  its files may make `rmtree` or `copytree` fail, so that a recovery writes no
  `recovery.json`. `OwnedAlone` excepts the stretch. The backup stays complete,
  and dispatch off;
* `rollback` gives up what was kept after its backup without a copy of it;
* a recovery that fails itself, because a service was started by hand between
  `unlock` and `start`, writes no `recovery.json`; the backup is still there
  (`NothingLost`);
* files in a folder that is no longer the log folder are never cleaned up, and
  captures of a run cut off before `mark_running` are in a folder no row names.

## 4. The proofs

TLAPS checks these for every number of routines, runs, schedules, starts,
every set of occurrences and any clock. The assumptions are those stated with
the constants (`GraceAssumption`, `StoreAssumption`, `ServiceAssumption`,
`InstallerAssumption` and so on) and, where noted, one more.

| Theorem | Property | Further assumption |
|---|---|---|
| `ServiceProofs!TypeCorrect` | `TypeOK` | |
| `ServiceProofs!OneActive` | `AtMostOneActive` | |
| `ServiceProofs!KeepsPromise` | `KeepsQueuePromise` | |
| `ScheduleProofs!QueueIsCurrent` | `QueuedScheduledIsCurrent` | |
| `ScheduleProofs!DeletedIdle` | `DeletedNeverWaits` | |
| `ScheduleProofs!CheckpointCovers` | `FiredBehindCheckpoint` | |
| `ScheduleProofs!RunsOnce` | `OccurrenceRunsOnce` | |
| `ScheduleProofs!GapsTrue` | `NoRunInsideGap` | |
| `ScheduleProofs!ResumesForward` | `NoCatchUp` | |
| `ClockProofs!DispatchKeepsToPreview` | `RunsWereShown` | |
| `ClockProofs!NothingSilent` | `OccurrencesAccounted` | |
| `QueueProofs!NoOverlap` | `NoScheduledOverlap` | |
| `QueueProofs!StartsNeedDispatch` | `ScheduledNeedsDispatch` | no installer |
| `QueueProofs!ClaimsInOrder` | `ClaimInOrder` | |
| `QueueProofs!ActiveInHand` | `ActiveIsInHand` | nothing leaves `execute` |
| `QueueProofs!KeyMakesOneRun` | `OneRunPerKey` | |
| `SuperviseProofs!SuperviseTypeCorrect` | `TypeOK` | |
| `SuperviseProofs!SuccessShown` | `SuccessIsShown` | |
| `SuperviseProofs!CaptureFinal` | `CompleteCaptureIsFinal` | the cancel flag can be read |
| `SuperviseProofs!NoStray` | `NoStrayChild` | the cancel flag can be read |
| `SuperviseProofs!RecordedSwept` | `RecordedChildIsSwept` | the cancel flag can be read |
| `SuperviseProofs!WorkerKeepsPromise` | `KeepsPromise` | |
| `RetentionProofs!RetentionTyped` | `TypeOK` | |
| `RetentionProofs!RemovalApproved` | `RemovesOnlyTheApproved` | |
| `RetentionProofs!Survival` | `ResultsAndFailuresSurvive` | |
| `RetentionProofs!RowsLeadToFiles` | `FilesAreFound` | |
| `InstallerProofs!InstallerTyped` | `TypeOK` | |
| `InstallerProofs!FoldersTouchedAlone` | `OwnedAlone` | |
| `InstallerProofs!KeptOrInBackup` | `NothingLost` | |
| `InstallerProofs!RecoveredAsBefore` | `RecoveryRestores` | |
| `InstallerProofs!DispatchAsked` | `DispatchOffUntilAsked` | |
| `InstallerProofs!EditsStay` | `ShellEditsKept` | |
| `PanelProofs!PanelTyped` | `TypeOK` | |
| `PanelProofs!DeletionConfirmed` | `DeletesWhatWasAsked` | |

`ClockProofs` also proves of the operators alone, for every expression, zone
and moment: `PreviewIsMatches` (the two evaluators of `schedule.py` agree),
`DueWasShown` and `ShownIsDueOrInGap`.

The argument:

* **Step summaries.** Next has twenty actions, but for one property most of
  them do one of a few things. `RunsStep` says how the rows of runs may move
  in any step (`Moves`, and `ClaimsAlone`: only a claim makes a run active,
  and only when none is); `RoutineStep` how a routine's row may change
  (`Created`, `Edited`); `NewRunOrigin` where a new run comes from
  (`Requested`, `Ticked`); `CheckpointStep` and `GapStep` how the schedule
  state moves. Each is proved once, by cases on the actions, and the theorems
  use the summaries.
* **`OneActive`** is inductive with `TypeOK`, by `ClaimsAlone`.
* **`KeepsPromise`** maps each `status` to a phase; `RunsStep` gives that each
  step is a `Settle` or a `Start` of `RunQueue`.
* **`FiredBehindCheckpoint`** is inductive once the times are known to be
  times (`FiredInv`): checkpoints only grow, and a tick moves the checkpoint to
  the clock, which is not before what it fires. `OccurrenceRunsOnce` follows,
  because `DueAt` starts strictly after the checkpoint.
* **`NoRunInsideGap`** needs `GapInv`: every gap ends at or before its
  routine's checkpoint, so later occurrences lie beyond it, and the gap a tick
  records begins where the last look ended.
* **`NoCatchUp`** needs `EditCovered`: the checkpoint of a routine that was
  edited is never before the edit.
* **`QueuedScheduledIsCurrent`** needs `JobsOld`: no run carries a revision
  its routine has not reached.
* **`NoScheduledOverlap`** follows from the overlap test of `_enqueue` and from
  no step making an ended run open again.
* **`ScheduledNeedsDispatch`** needs `DispatchedQueue`: while dispatch is off
  nothing scheduled waits. The installer's write breaks exactly this, which is
  what `MCDispatchOff` shows.
* **`ActiveIsInHand`** needs `HandInv`: the run in hand is active even while
  nothing is known of the others, which is what `finish_run` relies on.
* **`OneRunPerKey`** is inductive: a request with a key that a row has makes no
  row, and rows keep their keys.

For `Supervise` every property rests on its own `HandInv`: the run in hand is
active, a run nobody has claimed has no child, and the child in hand has not
started or has ended at the quiet steps (preparing, sealing, showing,
recording).

* **`SuccessIsShown`** needs `ShownInv`: what a success claims is true of the
  files and the child while it is shown, recorded and kept. The one surprise
  in it is that no signal can spoil it, because signals spare a child that has
  ended (`SignalsSpareEnded`).
* **`CompleteCaptureIsFinal`** is inductive with `HandInv`.
* **`NoStrayChild` and `RecordedChildIsSwept`** follow from `ChildrenInv`, which
  says where a live child can be in every state of the service: under systemd
  only in hand; without it also behind an active row of a service that is down
  or in the list of a sweep that goes on.
* **`KeepsPromise`** is as for `Service`: `RowSteps` gives that each step
  settles runs or takes one that waits while none is active.

"The cancel flag can be read" is `"checking" \notin Raising`: an exception of
`stop_check` leaves `_watch` with the child alive, and TLC refutes the three
properties there. The runs leave that step out for the same reason.

For the clock and the cleanup:

* **`RunsWereShown`** is `DueWasShown` at the place of a tick: the due
  occurrence has a first instant (`FirstInstantIs`: the way there and back
  decides what `matches` asks directly), so it is one that `preview` lists.
* **`OccurrencesAccounted`** is `ShownIsDueOrInGap` with the slots. What a
  preview listed and has come is the latest occurrence within the grace, or is
  older than the grace and then inside the gap the tick records. This needs
  `MinutesApart`: with minutes closer than the grace, `latest` would hide one
  that could still start. A due occurrence is not inserted when its slot is
  taken; `SlotsTell` says that a slot names its minute's *first* coming, so the
  run that has it is a run of this very occurrence (`SlotTellsInstant`).
* **`RemovesOnlyTheApproved`** needs `RemovingInv`: what the cleanup has still
  to remove was approved, belongs to a success and has expired. It stays true
  because ended runs keep their end, the clock moves forward and the settings
  change only between two requests.
* **`ResultsAndFailuresSurvive`** follows from the same with `DiskInv`, which
  ties the files on disk to what was ever written and removed by hand.
* **`FilesAreFound`** needs `PlaceInv`: a run that is active has its folder, and
  when it has ended and the log is still to be written the row names that
  folder, whatever `output_settings` did meanwhile.

For the installer the difficulty is that a step is right because of steps that
came before it, maybe many, and the state alone does not show which those were.
The proofs put this into *rules*. `Rule(by, until, steps)` says that a step of
`steps` relies on a step of `by` before it, with none of `until` between:
removing the plugin relies on `lock`, until `unlock` or the first file of the
state folder is unlinked (`LockRule`). `ProgramsKeep` proves of the lists of steps alone, for each
of the eight operations and for the recovery of an upgrade, that they keep to
all the rules and rely on nothing from before they begin. `RestRelies` and
`NextRelies` carry a rule over a step, for any list. An invariant then says, for
each rule, what holds while a step that is left relies on it (`Relies(todo,
LockRule) => held = "lock"`), and each is inductive, because a failure, a kill,
a recovery or a new operation puts a list in place that relies on nothing.

* **`TypeOK`** is inductive with `RuleInv`: the lock is there where steps rely
  on it, a lock without a file only within a rollback or a recovery, and a
  restore has its backup.
* **`OwnedAlone`** follows with `FolderInv`: a service that runs has a whole
  plugin and a state folder, so that no `place` or `copy` finds room beside it;
  the steps on the state folder's pieces have an orphaned lock (`HoldRule`,
  `OrphanRule`).
* **`NothingLost`** needs `LostInv`: while a copy waits to be sealed the lock
  keeps services away, so the copy has all there is; from the seal on an upgrade
  owes nothing that is not in a backup; the state folder is removed only for a
  backup that was found complete (`VerifyRule`). While the folder is in pieces,
  all that is owed is in a backup: the steps that empty, make and fill it follow
  right behind the unlink (`OrphanRule`), and what a service keeps meanwhile is
  not owed. That exception is needed: TLC loses such an item without it.
* **`RecoveryRestores`** has a rule for each of its parts: a folder that is
  copied back was empty (`EmptyRule`) and is what the backup has until the end
  (`CopiedRule`); the data may be opened by a service started by hand in
  between, but only by the release that is there (`NewRule`, `DataRule`);
  `UnitRule`, `DisableRule` (with: what is enabled has a unit), `QuietRule` and
  `HiddenRule` are the rest.
* **`DispatchOffUntilAsked`** needs that no backup has dispatch on
  (`QuietRule`), and **`ShellEditsKept`** that what is about to be written was
  compared last (`CompareRule`).

For the popup:

* **`TypeOK`** of `Panel` is inductive with what it needs of the bridge
  (`GoodCall`: a request that is about a routine or a run names one) and of the
  views (`ViewOK`, `FormOK`: what is open has a row).
* **`DeletesWhatWasAsked`** needs `QuestionInv`: while the question is on the
  screen it is about the routine on the screen, and so is a `set_enabled`
  under way, whose reply is the only one that replaces the row with one it
  names itself.

Only model-checked: every liveness property (`EveryRunEnds`,
`CancelFreesWorker`, `DeadlineFreesWorker`, `CallsEnd`, `SaveLands`,
`BecomesCurrent`): fairness and ENABLED are beyond the prover. Every invariant
and every action property of a passing run is a theorem.

## 5. What is not modelled, and the plan

Written, in this order: `Schedule`, `Store`, `Scheduler`, `RunQueue`,
`Service`, `Supervise`, `Installer`, `Panel`, `Retention`, with their runs, and
the theorems above. To come:

1. **The rest of the popup's calls**: `run_now` with its key per click, the
   settings page, the dispatch switch; a request that takes effect after the
   client has given up on it.
2. **Service with Retention**: the cleanup is a request of the API thread and
   `MarkRunning` a step of the worker in `Service`; one refinement would tie
   the two views of a run together.

Left out for good, as pure functions without state: the argument list and
environment of the child, cron parsing, draft validation, skill parsing, JSON
framing and size limits. Left out as constants and texts: the seed, the plugin
metadata, rendered summaries, notifications. Left out because they drive the
system from outside: `checks.py` and the rehearsal and smoke scripts. Of the
store, `set_snapshot_prompt` and the payload columns say nothing that a
property here tells apart.
