------------------------------ MODULE Retention ------------------------------
(***************************************************************************)
(* The files a run leaves, the settings that say where and for how long    *)
(* (history.py, worker.py execute), and the cleanup that a person previews *)
(* and then approves.  The API thread, the worker, the process and the     *)
(* person who also has a file manager each take steps of their own.        *)
(***************************************************************************)
EXTENDS Integers

CONSTANTS
    Runs, NoRun,
    Folders,       \* folders that runs can be kept under
    RunsDir,       \* the default one
    NoFolder,      \* runs.output_dir is NULL
    Days,          \* retention_days, in units of the clock
    MaxTime        \* bound on the clock

ASSUME RetentionAssumption ==
    /\ NoRun \notin Runs
    /\ RunsDir \in Folders /\ NoFolder \notin Folders
    /\ Days \subseteq Nat \ {0} /\ Days # {}
    /\ MaxTime \in Nat

VARIABLES
    clock,       \* the wall clock
    settings,    \* schema_meta.output_settings: days and log folder
    status,      \* runs.status
    endedAt,     \* runs.ended_at
    outputDir,   \* runs.output_dir
    place,       \* where the worker made the run's folder
    files,       \* what is in it
    hand,        \* the run the worker is on
    approved,    \* the files of the preview a person has seen
    removing,    \* op_prune_output: the files it has still to unlink
    written,     \* history: every file ever written
    byHand       \* history: files a person removed outside Omakron

rowVars  == <<status, endedAt, outputDir>>
diskVars == <<place, files, written, byHand>>
opVars   == <<approved, removing>>
vars == <<clock, settings, rowVars, diskVars, hand, opVars>>

LogNames == {"stdout", "stderr"}
Names    == LogNames \cup {"result", "log"}
Ended    == {"succeeded", "failed", "interrupted"}

TypeOK ==
    /\ clock \in 0..MaxTime
    /\ settings \in [days : Days, logDir : Folders \cup {NoFolder}]
    /\ status \in [Runs -> {"queued", "claimed", "running"} \cup Ended]
    /\ endedAt \in [Runs -> 0..MaxTime]
    /\ outputDir \in [Runs -> Folders \cup {NoFolder}]
    /\ place \in [Runs -> Folders \cup {NoFolder}]
    /\ files \in [Runs -> SUBSET Names] /\ written \in [Runs -> SUBSET Names]
    /\ byHand \in [Runs -> SUBSET LogNames]
    /\ hand \in Runs \cup {NoRun}
    /\ approved \subseteq Runs \X Names /\ removing \subseteq Runs \X Names
    /\ \A r \in Runs : status[r] \in {"claimed", "running"} => hand = r

Init ==
    /\ clock = 0
    /\ settings \in [days : Days, logDir : {NoFolder}]
    /\ status = [r \in Runs |-> "queued"] /\ endedAt = [r \in Runs |-> 0]
    /\ outputDir = [r \in Runs |-> NoFolder] /\ place = [r \in Runs |-> NoFolder]
    /\ files = [r \in Runs |-> {}] /\ written = [r \in Runs |-> {}]
    /\ byHand = [r \in Runs |-> {}]
    /\ hand = NoRun /\ approved = {} /\ removing = {}
-----------------------------------------------------------------------------
(* Where a run's files are looked for.                                      *)
RunFolder(r) == IF outputDir[r] = NoFolder THEN RunsDir ELSE outputDir[r]

Expired(r) == endedAt[r] < clock - settings.days

(* Mutant: the status is not asked for.                                     *)
MutantExpendableIfEnded(r, n) ==
    /\ status[r] \in Ended /\ Expired(r)
    /\ RunFolder(r) \in {RunsDir, settings.logDir}
    /\ place[r] = RunFolder(r) /\ n \in files[r]

(* Diagnostics of successes that have expired, in a folder still in use.    *)
Expendable(r, n) ==
    /\ status[r] = "succeeded" /\ Expired(r)
    /\ RunFolder(r) \in {RunsDir, settings.logDir}
    /\ place[r] = RunFolder(r) /\ n \in files[r]

Candidates == {f \in Runs \X LogNames : Expendable(f[1], f[2])}
-----------------------------------------------------------------------------
(* The API thread does one operation at a time.                             *)
Free == removing = {}

OutputSettings ==
    /\ Free
    /\ settings' \in [days : Days, logDir : Folders \cup {NoFolder}]
    /\ UNCHANGED <<clock, rowVars, diskVars, hand, opVars>>

PreviewPrune ==
    /\ Free
    /\ approved' = Candidates
    /\ UNCHANGED <<clock, settings, rowVars, diskVars, hand, removing>>

(* Mutant: the list of the preview is not compared with that of today.      *)
MutantApplyUnchecked ==
    /\ Free /\ approved # {}
    /\ removing' = Candidates
    /\ UNCHANGED <<clock, settings, rowVars, diskVars, hand, approved>>

ApplyPrune ==
    /\ Free /\ approved = Candidates
    /\ removing' = Candidates
    /\ UNCHANGED <<clock, settings, rowVars, diskVars, hand, approved>>

Unlink(r, n) ==
    /\ <<r, n>> \in removing /\ n \in files[r]
    /\ files' = [files EXCEPT ![r] = @ \ {n}]
    /\ removing' = removing \ {<<r, n>>}
    /\ UNCHANGED <<clock, settings, rowVars, place, written, byHand, hand, approved>>

(* The file has gone meanwhile: the error ends the operation.               *)
UnlinkFails(r, n) ==
    /\ <<r, n>> \in removing /\ n \notin files[r]
    /\ removing' = {}
    /\ UNCHANGED <<clock, settings, rowVars, diskVars, hand, approved>>
-----------------------------------------------------------------------------
(* The worker.                                                              *)
Wrote(r, names) ==
    /\ files' = [files EXCEPT ![r] = @ \cup names]
    /\ written' = [written EXCEPT ![r] = @ \cup names]

End(r, how) ==
    /\ status' = [status EXCEPT ![r] = how]
    /\ endedAt' = [endedAt EXCEPT ![r] = clock]

(* The settings are read once; what is recorded later is this folder.       *)
MakeFolder(r) ==
    /\ hand = NoRun /\ status[r] = "queued"
    /\ hand' = r
    /\ status' = [status EXCEPT ![r] = "claimed"]
    /\ place' = [place EXCEPT ![r] =
          IF settings.logDir = NoFolder THEN RunsDir ELSE settings.logDir]
    /\ UNCHANGED <<clock, settings, endedAt, outputDir, files, written, byHand, opVars>>

(* The working folder is missing: the run fails and no folder is recorded.  *)
CwdMissing(r) ==
    /\ hand = r /\ status[r] = "claimed" /\ written[r] = {}
    /\ End(r, "failed") /\ hand' = NoRun
    /\ UNCHANGED <<clock, settings, outputDir, diskVars, opVars>>

OpenCaptures(r) ==
    /\ hand = r /\ status[r] = "claimed" /\ written[r] = {}
    /\ Wrote(r, LogNames)
    /\ UNCHANGED <<clock, settings, rowVars, place, byHand, hand, opVars>>

(* The prompt cannot be read, the command is not valid or does not start.   *)
LaunchFails(r) ==
    /\ hand = r /\ status[r] = "claimed"
    /\ End(r, "failed")
    /\ outputDir' = [outputDir EXCEPT ![r] = place[r]]
    /\ UNCHANGED <<clock, settings, diskVars, hand, opVars>>

(* Mutant: the folder is worked out again from the settings.                *)
MutantMarkRunningRereads(r) ==
    /\ hand = r /\ status[r] = "claimed" /\ written[r] # {}
    /\ status' = [status EXCEPT ![r] = "running"]
    /\ outputDir' = [outputDir EXCEPT ![r] =
          IF settings.logDir = NoFolder THEN RunsDir ELSE settings.logDir]
    /\ UNCHANGED <<clock, settings, endedAt, diskVars, hand, opVars>>

MarkRunning(r) ==
    /\ hand = r /\ status[r] = "claimed" /\ written[r] # {}
    /\ status' = [status EXCEPT ![r] = "running"]
    /\ outputDir' = [outputDir EXCEPT ![r] = place[r]]
    /\ UNCHANGED <<clock, settings, endedAt, diskVars, hand, opVars>>

RunSucceeds(r) ==
    /\ hand = r /\ status[r] = "running"
    /\ Wrote(r, {"result"}) /\ End(r, "succeeded")
    /\ outputDir' = [outputDir EXCEPT ![r] = place[r]]
    /\ UNCHANGED <<clock, settings, place, byHand, hand, opVars>>

(* If stdout cannot be read back, no log is written either.                 *)
RunFails(r) ==
    /\ hand = r /\ status[r] = "running"
    /\ End(r, "failed")
    /\ \/ outputDir' = [outputDir EXCEPT ![r] = place[r]] /\ UNCHANGED hand
       \/ hand' = NoRun /\ UNCHANGED outputDir
    /\ UNCHANGED <<clock, settings, diskVars, opVars>>

(* Best effort: the status is already durable.                              *)
WriteLog(r) ==
    /\ hand = r /\ status[r] \in Ended
    /\ Wrote(r, {"log"}) \/ UNCHANGED <<files, written>>
    /\ hand' = NoRun
    /\ UNCHANGED <<clock, settings, rowVars, place, byHand, opVars>>
-----------------------------------------------------------------------------
(* Mutant: reconcile looks for running rows only.                           *)
MutantRestartRunningOnly ==
    /\ hand' = NoRun /\ removing' = {}
    /\ LET left == {r \in Runs : status[r] = "running"} IN
          /\ status' = [r \in Runs |-> IF r \in left THEN "interrupted" ELSE status[r]]
          /\ endedAt' = [r \in Runs |-> IF r \in left THEN clock ELSE endedAt[r]]
    /\ UNCHANGED <<clock, settings, outputDir, diskVars, approved>>

(* The process dies anywhere, and the next one reconciles what it left.     *)
Restart ==
    /\ hand' = NoRun /\ removing' = {}
    /\ LET left == {r \in Runs : status[r] \in {"claimed", "running"}} IN
          /\ status' = [r \in Runs |-> IF r \in left THEN "interrupted" ELSE status[r]]
          /\ endedAt' = [r \in Runs |-> IF r \in left THEN clock ELSE endedAt[r]]
    /\ UNCHANGED <<clock, settings, outputDir, diskVars, approved>>

(* Only diagnostics: the cleanup never asks for the other files.            *)
PersonRemoves(r, n) ==
    /\ status[r] \in Ended /\ n \in files[r] \cap LogNames
    /\ files' = [files EXCEPT ![r] = @ \ {n}]
    /\ byHand' = [byHand EXCEPT ![r] = @ \cup {n}]
    /\ UNCHANGED <<clock, settings, rowVars, place, written, hand, opVars>>

TimePasses ==
    /\ clock < MaxTime
    /\ clock' = clock + 1
    /\ UNCHANGED <<settings, rowVars, diskVars, hand, opVars>>

Next ==
    \/ OutputSettings \/ PreviewPrune \/ ApplyPrune \/ Restart \/ TimePasses
    \/ \E r \in Runs :
          \/ MakeFolder(r) \/ CwdMissing(r) \/ OpenCaptures(r) \/ LaunchFails(r)
          \/ MarkRunning(r) \/ RunSucceeds(r) \/ RunFails(r) \/ WriteLog(r)
    \/ \E r \in Runs, n \in LogNames : Unlink(r, n) \/ UnlinkFails(r, n) \/ PersonRemoves(r, n)

Spec == Init /\ [][Next]_vars
-----------------------------------------------------------------------------
(* Whatever fails, is cut off or goes on meanwhile: of the files that were  *)
(* ever written, only diagnostics of successes are gone, but for what a     *)
(* person removed.  Results, logs and all failed output remain.             *)
ResultsAndFailuresSurvive ==
    \A r \in Runs : \A n \in written[r] \ (files[r] \cup byHand[r]) :
        status[r] = "succeeded" /\ n \in LogNames

(* A step of the service removes only what the preview showed and what has  *)
(* expired by the settings of this moment, however long ago the preview was *)
(* and whatever was set in between.                                         *)
RemovesOnlyTheApproved ==
    [][byHand' = byHand =>
          \A r \in Runs : \A n \in files[r] \ files'[r] :
              <<r, n>> \in approved /\ Expired(r)]_vars

(* The popup opens the folder the row names: whoever ended a run recorded   *)
(* the folder its files are in, although the log folder may have been       *)
(* changed while it ran.  (A run cut off before mark_running is the one     *)
(* exception: its captures are in a folder no row names.)                   *)
FilesAreFound ==
    \A r \in Runs :
        status[r] \in {"running", "succeeded", "failed"} /\ files[r] # {}
            => RunFolder(r) = place[r]
=============================================================================
