------------------------------ MODULE Installer ------------------------------
(***************************************************************************)
(* manage.py: the operations that install, back up, replace and remove     *)
(* Omakron's files.  An operation is a list of steps; each may raise, and  *)
(* the process may be killed at each.  Meanwhile a person logs in, starts  *)
(* a service by hand, turns dispatch on and edits the shell's settings.    *)
(***************************************************************************)
EXTENDS Integers, Sequences

CONSTANTS
    Releases,     \* revisions that can be installed, by their schema number
    Items,        \* things a service keeps: routines, runs, their output
    Edits,        \* changes a person makes to shell.json
    MaxOps,       \* bound on operations
    MaxFaults     \* bound on failures that the code does not cause itself

ASSUME InstallerAssumption ==
    /\ Releases \subseteq Nat \ {0} /\ Releases # {}
    /\ MaxOps \in Nat /\ MaxFaults \in Nat

Parts == {"plugin", "state", "config"}
Operations == {"install", "setup-service", "enable-widget", "disable",
               "backup", "upgrade", "rollback", "uninstall"}

VARIABLES
    disk,         \* the three folders
    unit,         \* the unit file exists
    enabled,      \* systemd starts it at login
    service,      \* the running service
    holder,       \* who has the lock on the service.lock that has that name
    held,         \* Manager.lock_file; "orphan": of a file that is gone
    visited,      \* a service opened the state folder while it was in pieces
    stray,        \* the running service's database was removed or overwritten
    backups,      \* the folders under backups/
    shell,        \* shell.json
    seen,         \* what set_widget read of it
    op, todo,     \* the operation and the steps it has left
    mine,         \* the backup it made or restores
    recovering,   \* it is past an except
    ops, faults,  \* counts, for the bounds
    owed,         \* history: what a service has kept, and nobody gave up
    asked,        \* history: dispatch was turned on since the last stop
    late          \* history: edits that set_widget can no longer see

serviceVars == <<unit, enabled, service>>
lockVars    == <<holder, held>>
visitVars   == <<visited, stray>>
shellVars   == <<shell, seen, late>>
opVars      == <<op, mine, recovering, ops, faults>>
vars == <<disk, serviceVars, lockVars, visitVars, backups, shellVars, opVars, todo,
          owed, asked>>

(* is: absent, partly removed or copied, or whole.  release: the plugin's   *)
(* revision, or the schema of the database (0: there is none).  ready: its  *)
(* virtual environment.  keeps and dispatch are those of the database.      *)
Contents == [is : {"none", "torn", "whole"}, release : Releases \cup {0},
             ready : BOOLEAN, keeps : SUBSET Items, dispatch : BOOLEAN]
Absent == [is |-> "none", release |-> 0, ready |-> FALSE, keeps |-> {}, dispatch |-> FALSE]
Bare   == [Absent EXCEPT !.is = "whole"]

(* A step of an operation: what it does, and to which folder if to one.     *)
PlainSteps ==
    {"disableUnit", "lock", "dispatchOff", "copyAll", "seal", "verify", "restoreUnit",
     "dropUnit", "requirePlugin", "place", "venv", "schema", "settings", "writeUnit",
     "unlink", "make", "unlock", "start", "readShell", "compareShell", "replaceShell",
     "record"}
AnyStep == [do : PlainSteps, on : {"all"}] \cup [do : {"drop", "copy"}, on : Parts]
Backup  == [parts : [Parts -> Contents], unit : BOOLEAN, complete : BOOLEAN]
Shell   == [widget : BOOLEAN, edits : SUBSET Edits]

Step(do, on) == [do |-> do, on |-> on]
This == IF todo = <<>> THEN Step("end", "all") ELSE Head(todo)
At(do) == op # "none" /\ This.do = do

TypeOK ==
    /\ disk \in [Parts -> Contents]
    /\ unit \in BOOLEAN /\ enabled \in BOOLEAN
    /\ service \in {"none", "unit", "foreground"}
    /\ holder \in {"none", "service", "installer"}
    /\ held \in {"no", "lock", "orphan"}
    /\ visited \in BOOLEAN /\ stray \in BOOLEAN /\ (stray => service # "none")
    /\ backups \in Seq(Backup)
    /\ shell \in Shell /\ seen \in Shell /\ late \subseteq Edits
    /\ op \in Operations \cup {"none"} /\ todo \in Seq(AnyStep) /\ mine \in 0..Len(backups)
    /\ recovering \in BOOLEAN /\ ops \in 0..MaxOps /\ faults \in 0..MaxFaults
    /\ owed \subseteq Items /\ asked \in BOOLEAN
    /\ (op = "none") => (todo = <<>> /\ held = "no")
    /\ (service # "none") <=> (holder = "service")
    /\ (held = "lock") <=> (holder = "installer")

Init ==
    /\ \E r \in Releases \cup {0} :
          /\ disk = [p \in Parts |->
                IF r = 0 THEN Absent
                ELSE [Bare EXCEPT !.release = IF p = "config" THEN 0 ELSE r,
                                  !.ready = (p = "plugin")]]
          /\ unit = (r # 0) /\ enabled = (r # 0)
          /\ service = IF r = 0 THEN "none" ELSE "unit"
          /\ holder = IF r = 0 THEN "none" ELSE "service"
          /\ shell = [widget |-> r # 0, edits |-> {}]
    /\ held = "no" /\ visited = FALSE /\ stray = FALSE
    /\ backups = <<>> /\ seen = shell
    /\ op = "none" /\ todo = <<>> /\ mine = 0 /\ recovering = FALSE
    /\ ops = 0 /\ faults = 0 /\ owed = {} /\ asked = FALSE /\ late = {}
-----------------------------------------------------------------------------
(* The operations, as the steps they take.                                  *)
All(do) == Step(do, "all")

StopSteps   == <<All("disableUnit"), All("lock"), All("dispatchOff")>>
(* Mutant: the copy is made before dispatch is turned off.                  *)
MutantBackupStepsDispatchOn ==
    <<All("disableUnit"), All("lock"), All("copyAll"), All("seal"), All("dispatchOff")>>

BackupSteps == StopSteps \o <<All("copyAll"), All("seal")>>
WidgetSteps == <<All("readShell"), All("compareShell"), All("replaceShell")>>
InstallSteps == <<All("place")>>
EnableSteps  == <<All("requirePlugin")>> \o WidgetSteps
DisableSteps == StopSteps \o WidgetSteps
SetupSteps   == <<All("requirePlugin")>> \o StopSteps
                \o <<All("venv"), All("schema"), All("dispatchOff"), All("settings"),
                     All("writeUnit"), All("unlock"), All("start")>>
UpgradeSteps == BackupSteps
                \o <<All("requirePlugin"), Step("drop", "plugin"), All("place")>> \o SetupSteps
(* The plugin is exchanged under the lock, and nobody else writes to the    *)
(* configuration: to remove or to copy one is a step.  The state folder has *)
(* the lock in it: to remove it is to remove files up to and with the lock, *)
(* then what is left and the folder; to copy it is to make the folder, then *)
(* to write the database and the rest.                                      *)
RollbackSteps ==
    <<All("verify")>> \o StopSteps
    \o <<Step("drop", "plugin"), Step("copy", "plugin"), All("unlink"),
         Step("drop", "state"), All("make"), Step("copy", "state"),
         Step("drop", "config"), Step("copy", "config"),
         All("restoreUnit"), All("unlock")>>
    \o StopSteps \o WidgetSteps
(* What upgrade does once it has failed.                                    *)
RecoverySteps == RollbackSteps \o <<All("record")>>
UninstallSteps == BackupSteps \o WidgetSteps \o <<Step("drop", "plugin"), All("dropUnit")>>

StepsOf(o) ==
    CASE o = "install"       -> InstallSteps
      [] o = "setup-service" -> SetupSteps
      [] o = "enable-widget" -> EnableSteps
      [] o = "disable"       -> DisableSteps
      [] o = "backup"        -> BackupSteps
      [] o = "upgrade"       -> UpgradeSteps
      [] o = "rollback"      -> RollbackSteps
      [] o = "uninstall"     -> UninstallSteps

Begin(o) ==
    /\ op = "none" /\ ops < MaxOps
    /\ op' = o /\ todo' = StepsOf(o) /\ ops' = ops + 1
    /\ recovering' = FALSE /\ visited' = FALSE
    /\ IF o = "rollback" THEN mine' \in DOMAIN backups ELSE mine' = 0
    /\ UNCHANGED <<disk, serviceVars, lockVars, stray, backups, shellVars, faults, owed,
                   asked>>
-----------------------------------------------------------------------------
(* What the code itself checks or trips over, step by step.                 *)
Saved == backups[mine].parts[This.on]
SavedState == backups[mine].parts["state"]

(* The lock is gone and the folder is not yet what it was: a service can    *)
(* start here, in what is left or in a folder of its own.  Its files keep   *)
(* the folder from being removed or made, and its runs folder the copy from *)
(* succeeding, unless that folder was copied by then.                       *)
InPieces == op # "none" /\ This \in {Step("drop", "state"), All("make"), Step("copy", "state")}
Clash == At("copy") /\ This.on = "state" /\ Saved.is # "none" /\ visited

(* The store migrates an older database and refuses a newer one.            *)
CanOpen == disk["state"].release <= disk["plugin"].release

Able ==
    /\ At("lock") => (held = "no" => holder = "none")
    /\ At("verify") => backups[mine].complete
    /\ (At("copy") /\ This.on # "state") => (Saved.is # "none" => disk[This.on].is = "none")
    /\ (At("drop") /\ This.on = "state") => ~visited
    /\ At("make") => (SavedState.is # "none" => disk["state"].is = "none")
    /\ At("requirePlugin") => disk["plugin"].is # "none"
    /\ At("place") => disk["plugin"].is = "none"
    /\ At("venv") => disk["plugin"].is = "whole"
    /\ At("schema") => CanOpen
    /\ At("compareShell") => shell = seen

(* The steps.                                                               *)
Done == Able /\ todo' = Tail(todo)

(* Mutant: the unit is stopped and stays enabled.                           *)
MutantDisableUnitOnlyStops ==
    /\ At("disableUnit") /\ Done
    /\ IF unit /\ service = "unit"
       THEN service' = "none" /\ holder' = "none" /\ stray' = FALSE
       ELSE UNCHANGED <<service, holder, stray>>
    /\ UNCHANGED <<disk, unit, enabled, held, visited, backups, shellVars, opVars, owed, asked>>

DisableUnit ==
    /\ At("disableUnit") /\ Done
    /\ IF unit
       THEN /\ enabled' = FALSE
            /\ service' = IF service = "unit" THEN "none" ELSE service
            /\ holder' = IF service = "unit" THEN "none" ELSE holder
            /\ stray' = (stray /\ service # "unit")
       ELSE UNCHANGED <<enabled, service, holder, stray>>
    /\ UNCHANGED <<disk, unit, held, visited, backups, shellVars, opVars, owed, asked>>

(* Mutant: a lock that is taken by another is not an error.                 *)
MutantLockIgnoresOwner ==
    /\ At("lock") /\ todo' = Tail(todo)
    /\ disk' = [disk EXCEPT !["state"] = IF @.is = "none" THEN Bare ELSE @]
    /\ IF held = "no" /\ holder = "none"
       THEN holder' = "installer" /\ held' = "lock"
       ELSE UNCHANGED lockVars
    /\ UNCHANGED <<serviceVars, visitVars, backups, shellVars, opVars, owed, asked>>

(* With a file of its own open, the lock is not taken again.                *)
Lock ==
    /\ At("lock") /\ Done
    /\ disk' = [disk EXCEPT !["state"] = IF @.is = "none" THEN Bare ELSE @]
    /\ IF held = "no"
       THEN holder' = "installer" /\ held' = "lock"
       ELSE UNCHANGED lockVars
    /\ UNCHANGED <<serviceVars, visitVars, backups, shellVars, opVars, owed, asked>>

DispatchOff ==
    /\ At("dispatchOff") /\ Done
    /\ disk' = [disk EXCEPT !["state"].dispatch = FALSE]
    /\ asked' = FALSE
    /\ UNCHANGED <<serviceVars, lockVars, visitVars, backups, shellVars, opVars, owed>>

(* Until backup.json is there, a backup is of no use.                       *)
CopyAll ==
    /\ At("copyAll") /\ Done
    /\ backups' = Append(backups, [parts |-> disk, unit |-> unit, complete |-> FALSE])
    /\ UNCHANGED <<disk, serviceVars, lockVars, visitVars, shellVars, opVars, owed, asked>>

Seal ==
    /\ At("seal") /\ Done
    /\ backups' = [backups EXCEPT ![Len(backups)].complete = TRUE]
    /\ mine' = Len(backups)
    /\ UNCHANGED <<disk, serviceVars, lockVars, visitVars, shellVars, op, recovering, ops, faults,
                   owed, asked>>

(* Mutant: a backup without backup.json is accepted.                        *)
MutantVerifyNothing ==
    /\ At("verify") /\ todo' = Tail(todo)
    /\ UNCHANGED <<disk, serviceVars, lockVars, visitVars, backups, shellVars, opVars, owed, asked>>

Verify ==
    /\ At("verify") /\ Done
    /\ UNCHANGED <<disk, serviceVars, lockVars, visitVars, backups, shellVars, opVars, owed, asked>>

(* A tree that is being removed or copied is left in part, with or without  *)
(* the database.                                                            *)
Torn(part) == {[part EXCEPT !.is = "torn"], [Absent EXCEPT !.is = "torn"]}

(* Whoever asks for a rollback gives up what was kept since that backup.    *)
GiveUpNewer == owed' = IF op = "rollback" THEN SavedState.keeps ELSE owed

(* With the files goes the one that is locked.                              *)
Unlink ==
    /\ At("unlink") /\ Done
    /\ \E t \in Torn(disk["state"]) : disk' = [disk EXCEPT !["state"] = t]
    /\ holder' = "none" /\ held' = "orphan"
    /\ GiveUpNewer
    /\ UNCHANGED <<serviceVars, visitVars, backups, shellVars, opVars, asked>>

Drop ==
    /\ At("drop") /\ Done
    /\ disk' = [disk EXCEPT ![This.on] = Absent]
    /\ UNCHANGED <<serviceVars, lockVars, visitVars, backups, shellVars, opVars, owed, asked>>

Make ==
    /\ At("make") /\ Done
    /\ disk' = [disk EXCEPT !["state"] =
                   IF SavedState.is = "none" THEN @ ELSE [Absent EXCEPT !.is = "torn"]]
    /\ UNCHANGED <<serviceVars, lockVars, visitVars, backups, shellVars, opVars, owed, asked>>

(* What the copy leaves: of a database that a service has opened meanwhile, *)
(* a mixture, for that service's log may be played back over the copy.  If  *)
(* the backup has no database, that service's stays.                        *)
Copied ==
    IF This.on # "state" \/ ~visited THEN {Saved}
    ELSE IF Saved.release = 0 THEN {[disk["state"] EXCEPT !.is = Saved.is]}
    ELSE {[Saved EXCEPT !.keeps = k, !.release = r, !.dispatch = d] :
             k \in SUBSET (Saved.keeps \cup disk["state"].keeps),
             r \in {Saved.release, disk["state"].release},
             d \in {Saved.dispatch, disk["state"].dispatch}}

(* A service that has the old file open goes on with it.                    *)
Overwrites ==
    stray' = (stray \/ (This.on = "state" /\ Saved.release # 0 /\ service # "none"))

Copy ==
    /\ At("copy") /\ Done
    /\ IF Saved.is = "none" THEN UNCHANGED <<disk, stray>>
       ELSE /\ \E c \in Copied : disk' = [disk EXCEPT ![This.on] = c]
            /\ Overwrites
    /\ UNCHANGED <<serviceVars, lockVars, visited, backups, shellVars, opVars, owed, asked>>

RestoreUnit ==
    /\ At("restoreUnit") /\ Done
    /\ unit' = backups[mine].unit
    /\ UNCHANGED <<disk, enabled, service, lockVars, visitVars, backups, shellVars, opVars,
                   owed, asked>>

DropUnit ==
    /\ At("dropUnit") /\ Done
    /\ unit' = FALSE
    /\ UNCHANGED <<disk, enabled, service, lockVars, visitVars, backups, shellVars, opVars,
                   owed, asked>>

RequirePlugin ==
    /\ At("requirePlugin") /\ Done
    /\ UNCHANGED <<disk, serviceVars, lockVars, visitVars, backups, shellVars, opVars, owed, asked>>

(* The clone is checked in a folder beside, and takes the name at once.     *)
Place ==
    /\ At("place") /\ Done
    /\ \E r \in Releases : disk' = [disk EXCEPT !["plugin"] = [Bare EXCEPT !.release = r]]
    /\ UNCHANGED <<serviceVars, lockVars, visitVars, backups, shellVars, opVars, owed, asked>>

Venv ==
    /\ At("venv") /\ Done
    /\ disk' = [disk EXCEPT !["plugin"].ready = TRUE]
    /\ UNCHANGED <<serviceVars, lockVars, visitVars, backups, shellVars, opVars, owed, asked>>

Opened(part) == [part EXCEPT !.is = IF @ = "none" THEN "whole" ELSE @,
                             !.release = disk["plugin"].release]

Schema ==
    /\ At("schema") /\ Done
    /\ disk' = [disk EXCEPT !["state"] = Opened(@)]
    /\ UNCHANGED <<serviceVars, lockVars, visitVars, backups, shellVars, opVars, owed, asked>>

Settings ==
    /\ At("settings") /\ Done
    /\ disk' = [disk EXCEPT !["config"] = IF @.is = "none" THEN Bare ELSE @]
    /\ UNCHANGED <<serviceVars, lockVars, visitVars, backups, shellVars, opVars, owed, asked>>

WriteUnit ==
    /\ At("writeUnit") /\ Done
    /\ unit' = TRUE
    /\ UNCHANGED <<disk, enabled, service, lockVars, visitVars, backups, shellVars, opVars,
                   owed, asked>>

Released == held' = "no" /\ holder' = IF held = "lock" THEN "none" ELSE holder

Unlock ==
    /\ At("unlock") /\ Done
    /\ Released
    /\ UNCHANGED <<disk, serviceVars, visitVars, backups, shellVars, opVars, owed, asked>>

(* systemd starts the service; without the lock it ends, and is retried.    *)
UnitRuns ==
    /\ holder = "none" /\ unit /\ CanOpen
    /\ disk["plugin"].is = "whole" /\ disk["plugin"].ready

Serve(how) ==
    /\ service' = how /\ holder' = "service"
    /\ disk' = [disk EXCEPT !["state"] = Opened(@)]
    /\ visited' = (visited \/ InPieces) /\ stray' = FALSE

Start ==
    /\ At("start") /\ Done
    /\ enabled' = TRUE
    /\ IF UnitRuns THEN Serve("unit") ELSE UNCHANGED <<service, holder, disk, visitVars>>
    /\ UNCHANGED <<unit, held, backups, shellVars, opVars, owed, asked>>

ReadShell ==
    /\ At("readShell") /\ Done
    /\ seen' = shell
    /\ UNCHANGED <<disk, serviceVars, lockVars, visitVars, backups, shell, late, opVars,
                   owed, asked>>

(* Mutant: the file is not read a second time.                              *)
MutantCompareNothing ==
    /\ At("compareShell") /\ todo' = Tail(todo)
    /\ late' = {}
    /\ UNCHANGED <<disk, serviceVars, lockVars, visitVars, backups, shell, seen, opVars,
                   owed, asked>>

CompareShell ==
    /\ At("compareShell") /\ Done
    /\ late' = {}
    /\ UNCHANGED <<disk, serviceVars, lockVars, visitVars, backups, shell, seen, opVars,
                   owed, asked>>

ReplaceShell ==
    /\ At("replaceShell") /\ Done
    /\ LET wanted == (op = "enable-widget") IN
          shell' = IF seen.widget = wanted THEN shell ELSE [seen EXCEPT !.widget = wanted]
    /\ UNCHANGED <<disk, serviceVars, lockVars, visitVars, backups, seen, late, opVars, owed,
                   asked>>

(* upgrade writes what it restored, and then raises all the same.          *)
Record ==
    /\ At("record") /\ Done
    /\ UNCHANGED <<disk, serviceVars, lockVars, visitVars, backups, shellVars, opVars, owed, asked>>

(* Mutant: the lock file is not closed.                                     *)
MutantLeaveLocked ==
    /\ op' = "none" /\ todo' = <<>> /\ mine' = 0 /\ recovering' = FALSE
    /\ UNCHANGED <<lockVars, ops>>

Leave ==
    /\ op' = "none" /\ todo' = <<>> /\ mine' = 0 /\ recovering' = FALSE
    /\ Released
    /\ UNCHANGED ops

(* close() in main's finally.                                               *)
Finish ==
    /\ op # "none" /\ todo = <<>>
    /\ Leave
    /\ UNCHANGED <<disk, serviceVars, visitVars, backups, shellVars, faults, owed, asked>>
-----------------------------------------------------------------------------
(* Failures.  A file may be removed, and a file or a part of it be written, *)
(* before an operation ends; systemctl may have enabled and not started.    *)
Remove(on) ==
    /\ \E t \in Torn(disk[on]) : disk' = [disk EXCEPT ![on] = t]
    /\ stray' = (stray \/ (on = "state" /\ service # "none"))

Damage ==
    /\ \/ UNCHANGED <<disk, stray, enabled, owed>>
       \/ At("unlink") /\ Remove("state") /\ GiveUpNewer /\ UNCHANGED enabled
       \/ /\ At("drop") /\ disk[This.on].is # "none"
          /\ Remove(This.on) /\ UNCHANGED <<enabled, owed>>
       \/ /\ At("copy") /\ Saved.is # "none"
          /\ disk[This.on].is = "none" \/ This.on = "state"
          /\ \E c \in Copied : \E t \in Torn(c) : disk' = [disk EXCEPT ![This.on] = t]
          /\ Overwrites /\ UNCHANGED <<enabled, owed>>
       \/ At("start") /\ enabled' = TRUE /\ UNCHANGED <<disk, stray, owed>>
    /\ UNCHANGED <<unit, service, backups, shellVars, visited, asked>>

Fault == /\ op # "none" /\ todo # <<>>
         /\ faults < MaxFaults /\ faults' = faults + 1 /\ Damage

(* What the code itself fails at.  By then it has removed, or copied, what  *)
(* it could.                                                                *)
Refused == /\ op # "none" /\ (~Able \/ Clash) /\ UNCHANGED faults
           /\ IF At("drop") \/ Clash THEN Damage
              ELSE UNCHANGED <<disk, serviceVars, visitVars, backups, shellVars, owed, asked>>

(* Inside upgrade's try.                                                    *)
Trying == op = "upgrade" /\ mine # 0 /\ ~recovering

Recover ==
    /\ Trying /\ (Fault \/ Refused)
    /\ todo' = RecoverySteps /\ recovering' = TRUE
    /\ UNCHANGED <<op, mine, ops, lockVars>>

(* Any other failure ends the operation where it is, and so does a kill.    *)
GiveUp ==
    /\ Fault \/ (Refused /\ ~Trying)
    /\ Leave
-----------------------------------------------------------------------------
(* Others.                                                                  *)
StartByHand ==
    /\ holder = "none" /\ disk["plugin"].is = "whole" /\ CanOpen
    /\ Serve("foreground")
    /\ UNCHANGED <<unit, enabled, held, backups, shellVars, opVars, todo, owed, asked>>

Login ==
    /\ enabled /\ UnitRuns /\ Serve("unit")
    /\ UNCHANGED <<unit, enabled, held, backups, shellVars, opVars, todo, owed, asked>>

ServiceStops ==
    /\ service # "none" /\ service' = "none" /\ holder' = "none" /\ stray' = FALSE
    /\ UNCHANGED <<disk, unit, enabled, held, visited, backups, shellVars, opVars, todo,
                   owed, asked>>

(* What is kept while an upgrade runs is nobody's yet: the new release may  *)
(* be up between unlock and start, and the upgrade still fail.  Nor is what *)
(* is kept in a state folder that is in pieces.  A stray service may reach  *)
(* the database that has the name, or not.                                  *)
Keep(i) ==
    /\ service # "none" /\ i \notin owed
    /\ \/ disk' = [disk EXCEPT !["state"].keeps = @ \cup {i}]
       \/ stray /\ UNCHANGED disk
    /\ owed' = IF op = "upgrade" \/ stray \/ InPieces THEN owed ELSE owed \cup {i}
    /\ UNCHANGED <<serviceVars, lockVars, visitVars, backups, shellVars, opVars, todo, asked>>

SetDispatch ==
    /\ service # "none"
    /\ \/ disk' = [disk EXCEPT !["state"].dispatch = TRUE]
       \/ stray /\ UNCHANGED disk
    /\ asked' = TRUE
    /\ UNCHANGED <<serviceVars, lockVars, visitVars, backups, shellVars, opVars, todo, owed>>

EditShell(e) ==
    /\ e \notin shell.edits
    /\ shell' = [shell EXCEPT !.edits = @ \cup {e}]
    /\ late' = IF At("replaceShell") THEN late \cup {e} ELSE late
    /\ UNCHANGED <<disk, serviceVars, lockVars, visitVars, backups, seen, opVars, todo, owed,
                   asked>>

Next ==
    \/ \E o \in Operations : Begin(o)
    \/ DisableUnit \/ Lock \/ DispatchOff \/ CopyAll \/ Seal \/ Verify
    \/ Unlink \/ Drop \/ Make \/ Copy \/ RestoreUnit \/ DropUnit
    \/ RequirePlugin \/ Place \/ Venv \/ Schema \/ Settings \/ WriteUnit
    \/ Unlock \/ Start \/ ReadShell \/ CompareShell \/ ReplaceShell \/ Record
    \/ Finish \/ Recover \/ GiveUp
    \/ StartByHand \/ Login \/ ServiceStops \/ SetDispatch
    \/ \E i \in Items : Keep(i)
    \/ \E e \in Edits : EditShell(e)

Spec == Init /\ [][Next]_vars
-----------------------------------------------------------------------------
(* What a service has kept is still in its database, or in a backup that    *)
(* rollback accepts, wherever an operation fails or is killed: even within  *)
(* a rollback, and within the recovery of an upgrade.  The exception is     *)
(* what is kept by a service that was started by hand while a rollback has  *)
(* the state folder in pieces and its lock belongs to nobody: until the     *)
(* copy is made, and after it for as long as that service goes on.          *)
NothingLost ==
    owed \subseteq disk["state"].keeps \cup
        UNION {backups[n].parts["state"].keeps : n \in {n \in DOMAIN backups : backups[n].complete}}

(* An operation touches the folders only while no service owns the state;   *)
(* the exception is what follows once the state folder, and the lock in it, *)
(* have been removed.                                                       *)
OwnedAlone ==
    [][(disk' # disk /\ op # "none" /\ todo' # todo) =>
          (service = "none" \/ held = "orphan")]_vars

(* When upgrade writes that it rolled back, the release, settings and unit  *)
(* are those of its backup and the data are there, with what a service that *)
(* was started by hand in between has added, unless one had the database    *)
(* open while the state folder was in pieces; dispatch is off, no service   *)
(* runs or will at login, and the widget is hidden.                         *)
RecoveryRestores ==
    At("record") =>
        LET saved == backups[mine] IN
          /\ \A p \in {"plugin", "config"} : disk[p] = saved.parts[p]
          /\ \/ visited
             \/ /\ saved.parts["state"].keeps \subseteq disk["state"].keeps
                /\ disk["state"].release \in
                       {saved.parts["state"].release, disk["plugin"].release}
          /\ unit = saved.unit
          /\ service = "none" /\ ~enabled
          /\ ~disk["state"].dispatch /\ ~shell.widget

(* No operation turns dispatch on: not with the database it restores, not   *)
(* with that it creates.  It is on only where someone has asked since.      *)
DispatchOffUntilAsked == disk["state"].dispatch => asked

(* Of the edits made to shell.json, an operation loses only those made      *)
(* after it compared the file for the last time.                            *)
ShellEditsKept == [][shell.edits \ shell'.edits \subseteq late]_vars
=============================================================================
