------------------------------ MODULE Supervise ------------------------------
(***************************************************************************)
(* What stands behind one run: the child process and its helpers, their    *)
(* process group, the files the run leaves, and the worker that watches    *)
(* over them (runner.py supervise, worker.py execute).  Above it the queue *)
(* is reduced to which runs wait; below it a process is alive or ended.    *)
(***************************************************************************)
EXTENDS Integers

CONSTANTS
    Runs,          \* run ids
    NoRun,
    Units,         \* who runs the service: "systemd" (KillMode=control-group), "shell"
    Raising,       \* the steps of `execute` out of which an exception may escape
    MaxStarts      \* bound: starts of the service

ASSUME SuperviseAssumption ==
    /\ NoRun \notin Runs
    /\ Units \subseteq {"systemd", "shell"}
    /\ Raising \subseteq {"preparing", "launched", "checking", "showing", "recording"}
    /\ MaxStarts \in Nat

VARIABLES
    service,          \* "down", "sweeping" (reconciled, orphans left), "up", "stopping"
    unit,             \* who runs the service
    starts,           \* starts so far
    sweep,            \* runs that _reconcile has still to look at
    cutShort,         \* history: a start died before it had looked at all of them
    status,           \* runs.status
    cancelRequested,  \* runs.cancel_requested
    recorded,         \* runs.pid, pgid and proc_start are set
    leader,           \* the child: "none", "alive", or how it ended
    helper,           \* another process of its group: "none", "alive", "gone"
    capture,          \* stdout.jsonl: "none", "part", "complete"
    result,           \* result.md is in place
    step,             \* where the worker stands in `execute`
    hand,             \* the run it works on
    overdue,          \* the deadline of that run has passed
    stopFor,          \* why the child is stopped: "none" or a reason
    overLimit,        \* output_limit_exceeded
    verdict           \* what finish_run is going to write

serviceVars == <<service, unit, starts, sweep, cutShort>>
rowVars     == <<status, cancelRequested, recorded>>
groupVars   == <<leader, helper>>
fileVars    == <<capture, result>>
workerVars  == <<step, hand, overdue, stopFor, overLimit, verdict>>
vars == <<serviceVars, rowVars, groupVars, fileVars, workerVars>>

ActiveStatuses   == {"claimed", "running"}
TerminalStatuses == {"succeeded", "failed", "timed_out", "canceled", "interrupted"}

(* "good": exit 0 and a result event without an error.  "stopped": by the   *)
(* supervisor's signal.  "swept": by systemd, when the service stops.       *)
Endings == {"good", "bad", "stopped", "swept"}

Steps == {"none", "idle", "looking", "preparing", "launched", "watching", "asking", "checking",
          "terminating", "waiting", "sealing", "showing", "recording"}

TypeOK ==
    /\ service \in {"down", "sweeping", "up", "stopping"}
    /\ unit \in Units /\ starts \in 0..MaxStarts
    /\ sweep \subseteq Runs /\ cutShort \in BOOLEAN
    /\ status \in [Runs -> {"none", "queued"} \cup ActiveStatuses \cup TerminalStatuses]
    /\ cancelRequested \in [Runs -> BOOLEAN] /\ recorded \in [Runs -> BOOLEAN]
    /\ leader \in [Runs -> {"none", "alive"} \cup Endings]
    /\ helper \in [Runs -> {"none", "alive", "gone"}]
    /\ capture \in [Runs -> {"none", "part", "complete"}] /\ result \in [Runs -> BOOLEAN]
    /\ step \in Steps /\ hand \in Runs \cup {NoRun}
    /\ overdue \in BOOLEAN /\ overLimit \in BOOLEAN
    /\ stopFor \in {"none", "cancel", "shutdown", "deadline", "output", "abort"}
    /\ verdict \in {"none"} \cup TerminalStatuses
    /\ step \in {"showing", "recording"} => verdict \in TerminalStatuses
    /\ step \in {"none", "idle", "looking"} <=> hand = NoRun
    /\ step = "none" <=> service \in {"down", "sweeping"}

Init ==
    /\ service = "down" /\ unit \in Units /\ starts = 0 /\ sweep = {} /\ cutShort = FALSE
    /\ status = [i \in Runs |-> "none"]
    /\ cancelRequested = [i \in Runs |-> FALSE] /\ recorded = [i \in Runs |-> FALSE]
    /\ leader = [i \in Runs |-> "none"] /\ helper = [i \in Runs |-> "none"]
    /\ capture = [i \in Runs |-> "none"] /\ result = [i \in Runs |-> FALSE]
    /\ step = "none" /\ hand = NoRun
    /\ overdue = FALSE /\ stopFor = "none" /\ overLimit = FALSE /\ verdict = "none"

Active(i)   == status[i] \in ActiveStatuses
Terminal(i) == status[i] \in TerminalStatuses
Alive(i)    == leader[i] = "alive"
Serving     == service \in {"up", "stopping"}
-----------------------------------------------------------------------------
(* The API thread, as far as a run's execution meets it.                    *)
Enqueue(i) ==
    /\ Serving /\ status[i] = "none"
    /\ status' = [status EXCEPT ![i] = "queued"]
    /\ UNCHANGED <<serviceVars, cancelRequested, recorded, groupVars, fileVars, workerVars>>

RequestCancel(i) ==
    /\ Serving /\ (status[i] = "queued" \/ Active(i))
    /\ status' = IF status[i] = "queued" THEN [status EXCEPT ![i] = "canceled"] ELSE status
    /\ cancelRequested' = [cancelRequested EXCEPT ![i] = TRUE]
    /\ UNCHANGED <<serviceVars, recorded, groupVars, fileVars, workerVars>>
-----------------------------------------------------------------------------
(* The child's own doings: nothing here waits for the service.              *)
LeaderEnds(i) ==
    /\ Alive(i)
    /\ \E how \in {"good", "bad"} : leader' = [leader EXCEPT ![i] = how]
    /\ UNCHANGED <<serviceVars, rowVars, helper, fileVars, workerVars>>

HelperStarts(i) ==
    /\ Alive(i) /\ helper[i] = "none"
    /\ helper' = [helper EXCEPT ![i] = "alive"]
    /\ UNCHANGED <<serviceVars, rowVars, leader, fileVars, workerVars>>

HelperEnds(i) ==
    /\ helper[i] = "alive"
    /\ helper' = [helper EXCEPT ![i] = "gone"]
    /\ UNCHANGED <<serviceVars, rowVars, leader, fileVars, workerVars>>

(* SIGTERM to the groups of S: a process may obey, or go on.                *)
Terminated(S, how) ==
    /\ leader' \in [Runs -> {"none", "alive"} \cup Endings]
    /\ helper' \in [Runs -> {"none", "alive", "gone"}]
    /\ \A i \in Runs :
          /\ leader'[i] = leader[i] \/ (i \in S /\ Alive(i) /\ leader'[i] = how)
          /\ helper'[i] = helper[i] \/ (i \in S /\ helper[i] = "alive" /\ helper'[i] = "gone")

(* SIGKILL to the groups of S.                                              *)
Killed(S, how) ==
    /\ leader' = [i \in Runs |-> IF i \in S /\ Alive(i) THEN how ELSE leader[i]]
    /\ helper' = [i \in Runs |-> IF i \in S /\ helper[i] = "alive" THEN "gone" ELSE helper[i]]
-----------------------------------------------------------------------------
PutDown ==
    /\ step' = "idle" /\ hand' = NoRun
    /\ overdue' = FALSE /\ stopFor' = "none" /\ overLimit' = FALSE /\ verdict' = "none"

(* The top of the loop, then claim_next: a stop may fall between them.      *)
Look ==
    /\ step = "idle" /\ service = "up"
    /\ step' = "looking"
    /\ UNCHANGED <<serviceVars, rowVars, groupVars, fileVars, hand, overdue, stopFor, overLimit,
                   verdict>>

Claimable == {i \in Runs : status[i] = "queued" /\ \A k \in Runs : ~Active(k)}

FindNothing ==
    /\ step = "looking" /\ Claimable = {}
    /\ step' = "idle"
    /\ UNCHANGED <<serviceVars, rowVars, groupVars, fileVars, hand, overdue, stopFor, overLimit,
                   verdict>>

Claim(i) ==
    /\ step = "looking" /\ i \in Claimable
    /\ status' = [status EXCEPT ![i] = "claimed"]
    /\ step' = "preparing" /\ hand' = i
    /\ UNCHANGED <<serviceVars, cancelRequested, recorded, groupVars, fileVars,
                   overdue, stopFor, overLimit, verdict>>

(* The output folder, the working folder, the skill or the arguments are    *)
(* wrong, or the program cannot be started: _fail, with no child.           *)
PrepareFails ==
    /\ step = "preparing"
    /\ status' = [status EXCEPT ![hand] = "failed"]
    /\ \E c \in {"none", "complete"} : capture' = [capture EXCEPT ![hand] = c]
    /\ PutDown
    /\ UNCHANGED <<serviceVars, cancelRequested, recorded, groupVars, result>>

(* Popen returns; no row knows the child yet.                               *)
Launch ==
    /\ step = "preparing"
    /\ leader' = [leader EXCEPT ![hand] = "alive"]
    /\ capture' = [capture EXCEPT ![hand] = "part"]
    /\ step' = "launched"
    /\ UNCHANGED <<serviceVars, rowVars, helper, result, hand, overdue, stopFor, overLimit,
                   verdict>>

(* on_started: mark_running writes pid, pgid and proc_start with the status. *)
Record ==
    /\ step = "launched"
    /\ status' = [status EXCEPT ![hand] = "running"]
    /\ recorded' = [recorded EXCEPT ![hand] = TRUE]
    /\ step' = "watching"
    /\ UNCHANGED <<serviceVars, cancelRequested, groupVars, fileVars, hand, overdue, stopFor,
                   overLimit, verdict>>

(* Mutant: the error goes on and the child too. *)
MutantRecordFailsLeaves ==
    /\ step = "launched" /\ step \in Raising
    /\ PutDown
    /\ UNCHANGED <<serviceVars, rowVars, groupVars, fileVars>>

(* on_started raises: the child is stopped before the error goes on.        *)
RecordFails ==
    /\ step = "launched" /\ step \in Raising
    /\ step' = "terminating" /\ stopFor' = "abort"
    /\ UNCHANGED <<serviceVars, rowVars, groupVars, fileVars, hand, overdue, overLimit, verdict>>

(* The monotonic clock passes t0 + deadline_s, at any time after the launch. *)
DeadlinePasses ==
    /\ step \notin {"none", "idle", "looking", "preparing"} /\ ~overdue
    /\ overdue' = TRUE
    /\ UNCHANGED <<serviceVars, rowVars, groupVars, fileVars, step, hand, stopFor, overLimit,
                   verdict>>

To(where) ==
    /\ step' = where
    /\ UNCHANGED <<hand, overdue, overLimit, verdict>>

(* _watch: proc.poll, then stop_check reads the event, then the database.   *)
Poll ==
    /\ step = "watching"
    /\ To(IF Alive(hand) THEN "asking" ELSE "sealing")
    /\ UNCHANGED <<serviceVars, rowVars, groupVars, fileVars, stopFor>>

AskStopping ==
    /\ step = "asking"
    /\ IF service = "stopping"
       THEN To("terminating") /\ stopFor' = "shutdown"
       ELSE To("checking") /\ stopFor' = stopFor
    /\ UNCHANGED <<serviceVars, rowVars, groupVars, fileVars>>

(* Mutant: the limits are looked at, the cancel flag is not. *)
MutantCheckNoCancel ==
    /\ step = "checking"
    /\ \/ /\ overdue
          /\ To("terminating") /\ stopFor' = "deadline"
       \/ /\ ~overdue
          /\ To("watching") /\ stopFor' = stopFor
    /\ UNCHANGED <<serviceVars, rowVars, groupVars, fileVars>>

CheckLimits ==
    /\ step = "checking"
    /\ \/ /\ cancelRequested[hand]
          /\ To("terminating") /\ stopFor' = "cancel"
       \/ /\ ~cancelRequested[hand] /\ overdue
          /\ To("terminating") /\ stopFor' = "deadline"
       \/ /\ ~cancelRequested[hand] /\ ~overdue
          /\ step' = "terminating" /\ stopFor' = "output" /\ overLimit' = TRUE
          /\ UNCHANGED <<hand, overdue, verdict>>
       \/ /\ ~cancelRequested[hand] /\ ~overdue
          /\ To("watching") /\ stopFor' = stopFor
    /\ UNCHANGED <<serviceVars, rowVars, groupVars, fileVars>>

(* stop_process_group: SIGTERM, up to grace_s for the leader alone to go,   *)
(* then SIGKILL.                                                            *)
Terminate ==
    /\ step = "terminating"
    /\ Terminated({hand}, "stopped")
    /\ To("waiting")
    /\ UNCHANGED <<serviceVars, rowVars, fileVars, stopFor>>

LeaderObeyed ==
    /\ step = "waiting" /\ ~Alive(hand) /\ stopFor # "abort"
    /\ To("sealing")
    /\ UNCHANGED <<serviceVars, rowVars, groupVars, fileVars, stopFor>>

(* Mutant: the captures are closed on a child that goes on. *)
MutantKillNothing ==
    /\ step = "waiting" /\ Alive(hand)
    /\ To(IF stopFor = "abort" THEN "waiting" ELSE "sealing") /\ UNCHANGED stopFor
    /\ UNCHANGED <<serviceVars, rowVars, groupVars, fileVars>>

(* Mutant: SIGTERM is all the supervisor ever sends. *)
MutantTermAgain ==
    /\ step = "waiting" /\ Alive(hand)
    /\ To("terminating") /\ UNCHANGED stopFor
    /\ UNCHANGED <<serviceVars, rowVars, groupVars, fileVars>>

Kill ==
    /\ step = "waiting" /\ Alive(hand)
    /\ Killed({hand}, "stopped")
    /\ To(IF stopFor = "abort" THEN "waiting" ELSE "sealing") /\ UNCHANGED stopFor
    /\ UNCHANGED <<serviceVars, rowVars, fileVars>>

(* The error of on_started leaves `supervise` and `execute`; the captures   *)
(* are named on the way.                                                    *)
Abort ==
    /\ step = "waiting" /\ ~Alive(hand) /\ stopFor = "abort"
    /\ capture' = [capture EXCEPT ![hand] = "complete"]
    /\ PutDown
    /\ UNCHANGED <<serviceVars, rowVars, groupVars, result>>

(* _record_and_store and classify: what the run ended as. *)
Verdict(over) ==
    IF over THEN "failed"
    ELSE CASE stopFor = "cancel"   -> "canceled"
           [] stopFor = "deadline" -> "timed_out"
           [] stopFor = "shutdown" -> "interrupted"
           [] OTHER -> IF leader[hand] = "good" THEN "succeeded" ELSE "failed"

(* The captures are measured, flushed and given their final names; output   *)
(* over the limit is cut.  A failure of storage fails the run.              *)
Seal ==
    /\ step = "sealing"
    /\ \/ \E over \in {overLimit, TRUE} :
            /\ overLimit' = over
            /\ verdict' = Verdict(over)
            /\ step' = IF Verdict(over) = "succeeded" THEN "showing" ELSE "recording"
            /\ capture' = [capture EXCEPT ![hand] = "complete"]
       \/ /\ verdict' = "failed" /\ step' = "recording"
          /\ \E c \in {"part", "complete"} : capture' = [capture EXCEPT ![hand] = c]
          /\ UNCHANGED overLimit
    /\ UNCHANGED <<serviceVars, rowVars, groupVars, result, hand, overdue, stopFor>>

(* Mutant: the status does not wait for the file. *)
MutantShowAnyway ==
    /\ step = "showing"
    /\ \E stored \in BOOLEAN : result' = [result EXCEPT ![hand] = stored]
    /\ step' = "recording"
    /\ UNCHANGED <<serviceVars, rowVars, groupVars, capture, hand, overdue, stopFor, overLimit,
                   verdict>>

(* result.md is stored before the status says succeeded.                    *)
Show ==
    /\ step = "showing"
    /\ \E stored \in BOOLEAN :
          /\ result' = [result EXCEPT ![hand] = stored]
          /\ verdict' = IF stored THEN verdict ELSE "failed"
    /\ step' = "recording"
    /\ UNCHANGED <<serviceVars, rowVars, groupVars, capture, hand, overdue, stopFor, overLimit>>

(* Mutant: the worker forgets to put the run down. *)
MutantFinishKeepsHand ==
    /\ step = "recording"
    /\ status' = [status EXCEPT ![hand] = verdict]
    /\ step' = "idle"
    /\ UNCHANGED <<serviceVars, cancelRequested, recorded, groupVars, fileVars, hand, overdue,
                   stopFor, overLimit, verdict>>

(* finish_run, then back to the loop. *)
Finish ==
    /\ step = "recording"
    /\ status' = [status EXCEPT ![hand] = verdict]
    /\ PutDown
    /\ UNCHANGED <<serviceVars, cancelRequested, recorded, groupVars, fileVars>>

(* An exception of a store call, or of the encoding of the result, leaves   *)
(* `execute`: run_forever logs it.  Out of _watch the captures are named on the way,   *)
(* and nobody stops the child.                                              *)
Raise ==
    /\ step \in Raising \ {"launched"}
    /\ capture' = [capture EXCEPT ![hand] = IF step = "checking" THEN "complete" ELSE @]
    /\ PutDown
    /\ UNCHANGED <<serviceVars, rowVars, groupVars, result>>
-----------------------------------------------------------------------------
(* Mutant: nobody looks for the processes of interrupted runs. *)
MutantSweepNone ==
    /\ service = "down" /\ starts < MaxStarts
    /\ service' = "sweeping" /\ starts' = starts + 1
    /\ status' = [i \in Runs |-> IF Active(i) THEN "interrupted" ELSE status[i]]
    /\ sweep' = {}
    /\ UNCHANGED <<unit, cutShort, cancelRequested, recorded, groupVars, fileVars, workerVars>>

(* Mutant: what was left active goes back to the queue. *)
MutantBootRequeues ==
    /\ service = "down" /\ starts < MaxStarts
    /\ service' = "sweeping" /\ starts' = starts + 1
    /\ status' = [i \in Runs |-> IF Active(i) THEN "queued" ELSE status[i]]
    /\ sweep' = {i \in Runs : Active(i) /\ recorded[i]}
    /\ UNCHANGED <<unit, cutShort, cancelRequested, recorded, groupVars, fileVars, workerVars>>

(* The process.  _reconcile commits the interrupted runs first and looks    *)
(* for their processes after that.                                          *)
Boot ==
    /\ service = "down" /\ starts < MaxStarts
    /\ service' = "sweeping" /\ starts' = starts + 1
    /\ status' = [i \in Runs |-> IF Active(i) THEN "interrupted" ELSE status[i]]
    /\ sweep' = {i \in Runs : Active(i) /\ recorded[i]}
    /\ UNCHANGED <<unit, cutShort, cancelRequested, recorded, groupVars, fileVars, workerVars>>

(* A process that is still the recorded one loses its group; of a group     *)
(* whose leader is gone nothing is known.                                   *)
SweepOne(i) ==
    /\ service = "sweeping" /\ i \in sweep
    /\ sweep' = sweep \ {i}
    /\ IF Alive(i)
       THEN /\ leader' = [leader EXCEPT ![i] = "stopped"]
            /\ \E h \in {helper[i], "gone"} :
                  helper' = [helper EXCEPT ![i] = IF @ = "alive" THEN h ELSE @]
       ELSE UNCHANGED groupVars
    /\ UNCHANGED <<service, unit, starts, cutShort, rowVars, fileVars, workerVars>>

Serve ==
    /\ service = "sweeping" /\ sweep = {}
    /\ service' = "up" /\ step' = "idle"
    /\ UNCHANGED <<unit, starts, sweep, cutShort, rowVars, groupVars, fileVars, hand, overdue,
                   stopFor, overLimit, verdict>>

(* SIGTERM to the service.  systemd sends it to its whole control group.    *)
StopSignal ==
    /\ service = "up" /\ starts < MaxStarts
    /\ service' = "stopping"
    /\ IF unit = "systemd" THEN Terminated(Runs, "swept") ELSE UNCHANGED groupVars
    /\ UNCHANGED <<unit, starts, sweep, cutShort, rowVars, fileVars, workerVars>>

(* stop() waits ten seconds for the worker and leaves in any case; or the   *)
(* process dies.  systemd then ends what is left of the control group.      *)
ProcessGone ==
    /\ service # "down" /\ (service = "stopping" \/ starts < MaxStarts)
    /\ service' = "down" /\ sweep' = {}
    /\ cutShort' = (cutShort \/ sweep # {})
    /\ step' = "none" /\ hand' = NoRun
    /\ overdue' = FALSE /\ stopFor' = "none" /\ overLimit' = FALSE /\ verdict' = "none"
    /\ IF unit = "systemd" THEN Killed(Runs, "swept") ELSE UNCHANGED groupVars
    /\ UNCHANGED <<unit, starts, rowVars, fileVars>>
-----------------------------------------------------------------------------
ApiStep == \E i \in Runs : Enqueue(i) \/ RequestCancel(i)

ChildStep == \E i \in Runs : LeaderEnds(i) \/ HelperStarts(i) \/ HelperEnds(i)

WorkerStep ==
    \/ Look \/ FindNothing \/ \E i \in Runs : Claim(i)
    \/ PrepareFails \/ Launch \/ Record \/ RecordFails
    \/ Poll \/ AskStopping \/ CheckLimits
    \/ Terminate \/ LeaderObeyed \/ Kill \/ Abort
    \/ Seal \/ Show \/ Finish \/ Raise

ProcessStep == Boot \/ (\E i \in Runs : SweepOne(i)) \/ Serve \/ StopSignal \/ ProcessGone

Next == ApiStep \/ ChildStep \/ WorkerStep \/ DeadlinePasses \/ ProcessStep

Spec == Init /\ [][Next]_vars
-----------------------------------------------------------------------------
(* Under systemd no child of an earlier process, and none the worker has    *)
(* let go of, runs while the service serves: a run that is not in hand has  *)
(* no process, whatever the service died between (service.py _reconcile).   *)
NoStrayChild == unit = "systemd" /\ Serving => \A i \in Runs : Alive(i) => hand = i

(* Without systemd the sweep of _reconcile is all there is: a child that    *)
(* outlived the service and whose pid was recorded is gone when the service *)
(* serves again, unless a start died in the middle of its sweep.            *)
RecordedChildIsSwept ==
    Serving /\ ~cutShort => \A i \in Runs : Alive(i) /\ recorded[i] => hand = i

(* A success the service cannot show is not one (worker.py): its output is  *)
(* stored and complete, and the child ended by itself.                      *)
SuccessIsShown ==
    \A i \in Runs : status[i] = "succeeded" =>
        result[i] /\ capture[i] = "complete" /\ leader[i] = "good"

(* A partial capture is never mistaken for a complete one (supervise): when *)
(* the captures have their names, the child has ended.                      *)
CompleteCaptureIsFinal == \A i \in Runs : capture[i] = "complete" => ~Alive(i)

(* stop_process_group targets the group "so helpers cannot outlive the      *)
(* run": a run the supervisor stopped has left no process.                  *)
StoppedRunLeavesNobody ==
    \A i \in Runs : Terminal(i) /\ leader[i] = "stopped" => helper[i] # "alive"

(* A run that the stop of the service ended is recorded interrupted, not as *)
(* a failure of the routine.                                                *)
StopIsNoFailure == \A i \in Runs : leader[i] = "swept" => status[i] # "failed"

(* The run queue's promise, kept by the worker in all its steps.            *)
Phase(i) ==
    CASE status[i] = "none"   -> "unborn"
      [] status[i] = "queued" -> "waiting"
      [] Active(i)            -> "started"
      [] OTHER                -> "ended"

Queue == INSTANCE RunQueue WITH Ids <- Runs, phase <- [i \in Runs |-> Phase(i)]

KeepsPromise == Queue!Spec
-----------------------------------------------------------------------------
(* The worker thread is scheduled and its waits are bounded.  The child     *)
(* owes nothing: it may hang for ever and ignore SIGTERM.                   *)
WorkerGoesOn ==
    \/ PrepareFails \/ Launch \/ Record \/ Poll \/ AskStopping \/ CheckLimits
    \/ Terminate \/ LeaderObeyed \/ Kill \/ Abort \/ Seal \/ Show \/ Finish

Fairness == WF_vars(WorkerGoesOn)

FairSpec == Spec /\ Fairness

(* A cancel frees the worker of a run whose child hangs, ignores SIGTERM    *)
(* and whose deadline never comes.                                          *)
CancelFreesWorker == \A i \in Runs : (hand = i /\ cancelRequested[i]) ~> hand # i

(* A deadline that has passed frees the worker, with no help from the child *)
(* and nobody asking.                                                       *)
DeadlineFreesWorker == \A i \in Runs : (hand = i /\ overdue) ~> hand # i
=============================================================================
