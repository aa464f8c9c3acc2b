--------------------------- MODULE SuperviseProofs ---------------------------
(* Theorems about Supervise, for any number of runs and starts.             *)
EXTENDS Supervise, TLAPS

(* The fields of the worker, the files and the processes of the run in hand *)
(* are what the actions change; the type follows action by action.          *)
LEMMA TypeSteps ==
    ASSUME TypeOK, Next
    PROVE  TypeOK'
<1>1. ASSUME NEW i \in Runs, Enqueue(i) PROVE TypeOK'
  BY <1>1 DEF Enqueue, TypeOK, serviceVars, rowVars, groupVars, fileVars, workerVars
<1>2. ASSUME NEW i \in Runs, RequestCancel(i) PROVE TypeOK'
  BY <1>2 DEF RequestCancel, TypeOK, TerminalStatuses, serviceVars, groupVars, fileVars, workerVars
<1>3. ASSUME NEW i \in Runs, LeaderEnds(i) PROVE TypeOK'
  BY <1>3 DEF LeaderEnds, TypeOK, Endings, serviceVars, rowVars, fileVars, workerVars
<1>4. ASSUME NEW i \in Runs, HelperStarts(i) \/ HelperEnds(i) PROVE TypeOK'
  BY <1>4 DEF HelperStarts, HelperEnds, TypeOK, serviceVars, rowVars, fileVars, workerVars
<1>5. CASE Look \/ FindNothing
  BY <1>5, SuperviseAssumption
     DEF Look, FindNothing, TypeOK, Steps, serviceVars, rowVars, groupVars, fileVars,
         SuperviseAssumption
<1>6. ASSUME NEW i \in Runs, Claim(i) PROVE TypeOK'
  BY <1>6, SuperviseAssumption
     DEF Claim, TypeOK, Steps, ActiveStatuses, serviceVars, groupVars, fileVars,
         SuperviseAssumption
<1>7. CASE PrepareFails
  <2>1. status' \in [Runs -> {"none", "queued"} \cup ActiveStatuses \cup TerminalStatuses]
    BY <1>7 DEF PrepareFails, TypeOK, TerminalStatuses
  <2>2. capture' \in [Runs -> {"none", "part", "complete"}]
    BY <1>7 DEF PrepareFails, TypeOK
  <2>3. /\ step = "preparing" /\ step' = "idle" /\ hand' = NoRun
        /\ overdue' = FALSE /\ overLimit' = FALSE /\ stopFor' = "none" /\ verdict' = "none"
    BY <1>7 DEF PrepareFails, PutDown
  <2>4. UNCHANGED <<service, unit, starts, sweep, cutShort, cancelRequested, recorded, leader,
                    helper, result>>
    BY <1>7 DEF PrepareFails, serviceVars, groupVars
  <2>5. QED
    BY <2>1, <2>2, <2>3, <2>4 DEF TypeOK, Steps
<1>8. CASE Launch
  BY <1>8 DEF Launch, TypeOK, Steps, serviceVars, rowVars
<1>9. CASE Record
  BY <1>9 DEF Record, TypeOK, Steps, ActiveStatuses, serviceVars, groupVars, fileVars
<1>10. CASE RecordFails \/ DeadlinePasses
  <2>1. CASE RecordFails
    BY <2>1 DEF RecordFails, TypeOK, Steps, serviceVars, rowVars, groupVars, fileVars
  <2>2. CASE DeadlinePasses
    BY <2>2 DEF DeadlinePasses, TypeOK, Steps, serviceVars, rowVars, groupVars, fileVars
  <2>3. QED
    BY <1>10, <2>1, <2>2
<1>11. CASE Poll \/ AskStopping \/ CheckLimits \/ LeaderObeyed
  <2>1. CASE Poll
    BY <2>1 DEF Poll, To, TypeOK, Steps, serviceVars, rowVars, groupVars, fileVars
  <2>2. CASE AskStopping
    BY <2>2 DEF AskStopping, To, TypeOK, Steps, serviceVars, rowVars, groupVars, fileVars
  <2>3. CASE CheckLimits
    BY <2>3 DEF CheckLimits, To, TypeOK, Steps, serviceVars, rowVars, groupVars, fileVars
  <2>4. CASE LeaderObeyed
    BY <2>4 DEF LeaderObeyed, To, TypeOK, Steps, serviceVars, rowVars, groupVars, fileVars
  <2>5. QED
    BY <1>11, <2>1, <2>2, <2>3, <2>4
<1>12. CASE Terminate
  BY <1>12 DEF Terminate, Terminated, To, TypeOK, Steps, Endings, serviceVars, rowVars, fileVars
<1>13. CASE Kill
  BY <1>13 DEF Kill, Killed, To, TypeOK, Steps, Endings, serviceVars, rowVars, fileVars
<1>14. CASE Abort \/ Raise
  BY <1>14, SuperviseAssumption
     DEF Abort, Raise, PutDown, TypeOK, Steps, SuperviseAssumption, serviceVars, rowVars, groupVars
<1>15. CASE Seal
  <2>1. \A over : Verdict(over) \in TerminalStatuses
    BY DEF Verdict, TerminalStatuses
  <2>2. capture' \in [Runs -> {"none", "part", "complete"}] /\ overLimit' \in BOOLEAN
    BY <1>15 DEF Seal, TypeOK
  <2>3. /\ step = "sealing" /\ step' \in {"showing", "recording"}
        /\ verdict' \in TerminalStatuses
        /\ UNCHANGED <<serviceVars, rowVars, groupVars, result, hand, overdue, stopFor>>
    BY <1>15, <2>1 DEF Seal, TerminalStatuses
  <2>4. QED
    BY <2>2, <2>3 DEF TypeOK, Steps, serviceVars, rowVars, groupVars
<1>16. CASE Show
  BY <1>16 DEF Show, TypeOK, Steps, TerminalStatuses, serviceVars, rowVars, groupVars
<1>17. CASE Finish
  <2>1. verdict \in TerminalStatuses
    BY <1>17 DEF Finish, TypeOK
  <2>2. QED
    BY <1>17, <2>1 DEF Finish, PutDown, TypeOK, Steps, serviceVars, groupVars, fileVars
<1>18. CASE Boot
  BY <1>18, SuperviseAssumption
     DEF Boot, TypeOK, TerminalStatuses, SuperviseAssumption, groupVars, fileVars, workerVars
<1>19. ASSUME NEW i \in Runs, SweepOne(i) PROVE TypeOK'
  BY <1>19 DEF SweepOne, TypeOK, Endings, groupVars, rowVars, fileVars, workerVars
<1>20. CASE Serve
  BY <1>20 DEF Serve, TypeOK, Steps, rowVars, groupVars, fileVars
<1>21. CASE StopSignal
  BY <1>21 DEF StopSignal, Terminated, TypeOK, Endings, groupVars, rowVars, fileVars, workerVars
<1>22. CASE ProcessGone
  BY <1>22 DEF ProcessGone, Killed, TypeOK, Steps, Endings, groupVars, rowVars, fileVars
<1>23. QED
  BY <1>1, <1>2, <1>3, <1>4, <1>5, <1>6, <1>7, <1>8, <1>9, <1>10, <1>11, <1>12, <1>13, <1>14,
     <1>15, <1>16, <1>17, <1>18, <1>19, <1>20, <1>21, <1>22
     DEF Next, ApiStep, ChildStep, WorkerStep, ProcessStep

(* Every reachable state is well typed.                                     *)
THEOREM SuperviseTypeCorrect == Spec => []TypeOK
<1>1. Init => TypeOK
  <2> SUFFICES ASSUME Init PROVE TypeOK
    OBVIOUS
  <2>1. starts \in 0..MaxStarts
    BY SuperviseAssumption DEF Init, SuperviseAssumption
  <2>2. QED
    BY <2>1 DEF Init, TypeOK, Steps
<1>2. TypeOK /\ UNCHANGED vars => TypeOK'
  BY DEF TypeOK, vars, serviceVars, rowVars, groupVars, fileVars, workerVars
<1>3. QED
  BY <1>1, <1>2, TypeSteps, PTL DEF Spec
-----------------------------------------------------------------------------
(* The worker's run is active, a run nobody has claimed has no child, and   *)
(* the child in hand has not started or has ended at the quiet steps.       *)
QuietSteps == {"preparing", "sealing", "showing", "recording"}

HandInv ==
    /\ hand # NoRun => Active(hand)
    /\ \A i \in Runs : status[i] \in {"none", "queued"} => leader[i] = "none"
    /\ step \in QuietSteps => ~Alive(hand)

LEMMA HandSteps ==
    ASSUME TypeOK, HandInv, Next
    PROVE  HandInv'
<1>1. ASSUME NEW i \in Runs, Enqueue(i) \/ RequestCancel(i) PROVE HandInv'
  BY <1>1
     DEF Enqueue, RequestCancel, TypeOK, HandInv, QuietSteps, Active, Alive, ActiveStatuses,
         TerminalStatuses, serviceVars, groupVars, fileVars, workerVars
<1>2. ASSUME NEW i \in Runs, LeaderEnds(i) \/ HelperStarts(i) \/ HelperEnds(i) PROVE HandInv'
  BY <1>2
     DEF LeaderEnds, HelperStarts, HelperEnds, TypeOK, HandInv, QuietSteps, Active, Alive,
         serviceVars, rowVars, fileVars, workerVars
<1>3. CASE Look \/ FindNothing
  BY <1>3
     DEF Look, FindNothing, TypeOK, HandInv, QuietSteps, Active, Alive, rowVars, groupVars
<1>4. ASSUME NEW i \in Runs, Claim(i) PROVE HandInv'
  BY <1>4
     DEF Claim, Claimable, TypeOK, HandInv, QuietSteps, Active, Alive, ActiveStatuses, groupVars
<1>5. CASE PrepareFails \/ Finish
  BY <1>5, SuperviseAssumption
     DEF PrepareFails, Finish, PutDown, TypeOK, HandInv, QuietSteps, Active, Alive,
         TerminalStatuses, ActiveStatuses, groupVars, SuperviseAssumption
<1>6. CASE Launch
  BY <1>6
     DEF Launch, TypeOK, HandInv, QuietSteps, Active, Alive, ActiveStatuses, rowVars
<1>7. CASE Record
  BY <1>7
     DEF Record, TypeOK, HandInv, QuietSteps, Active, Alive, ActiveStatuses, groupVars
<1>8. CASE RecordFails \/ DeadlinePasses
  BY <1>8
     DEF RecordFails, DeadlinePasses, TypeOK, HandInv, QuietSteps, Active, Alive, rowVars, groupVars
<1>9. CASE Poll \/ AskStopping \/ CheckLimits \/ LeaderObeyed
  BY <1>9
     DEF Poll, AskStopping, CheckLimits, LeaderObeyed, To, TypeOK, HandInv, QuietSteps, Active,
         Alive, rowVars, groupVars
<1>10. CASE Terminate
  BY <1>10
     DEF Terminate, Terminated, To, TypeOK, HandInv, QuietSteps, Active, Alive, rowVars
<1>11. CASE Kill
  BY <1>11
     DEF Kill, Killed, To, TypeOK, HandInv, QuietSteps, Active, Alive, rowVars
<1>12. CASE Abort \/ Raise
  BY <1>12, SuperviseAssumption
     DEF Abort, Raise, PutDown, TypeOK, HandInv, QuietSteps, Active, Alive, rowVars, groupVars
<1>13. CASE Seal \/ Show
  BY <1>13
     DEF Seal, Show, TypeOK, HandInv, QuietSteps, Active, Alive, rowVars, groupVars
<1>14. CASE Boot
  BY <1>14
     DEF Boot, TypeOK, HandInv, QuietSteps, Active, Alive, ActiveStatuses, groupVars, workerVars
<1>15. ASSUME NEW i \in Runs, SweepOne(i) PROVE HandInv'
  BY <1>15
     DEF SweepOne, TypeOK, HandInv, QuietSteps, Active, Alive, groupVars, rowVars, workerVars
<1>16. CASE Serve
  BY <1>16 DEF Serve, TypeOK, HandInv, QuietSteps, Active, Alive, rowVars, groupVars
<1>17. CASE StopSignal
  BY <1>17
     DEF StopSignal, Terminated, TypeOK, HandInv, QuietSteps, Active, Alive, groupVars, rowVars,
         workerVars
<1>18. CASE ProcessGone
  BY <1>18
     DEF ProcessGone, Killed, TypeOK, HandInv, QuietSteps, Active, Alive, groupVars, rowVars
<1>19. QED
  BY <1>1, <1>2, <1>3, <1>4, <1>5, <1>6, <1>7, <1>8, <1>9, <1>10, <1>11, <1>12, <1>13, <1>14,
     <1>15, <1>16, <1>17, <1>18
     DEF Next, ApiStep, ChildStep, WorkerStep, ProcessStep

LEMMA HandAlways == Spec => []HandInv
<1>1. Init => HandInv
  BY DEF Init, HandInv, QuietSteps
<1>2. HandInv /\ UNCHANGED vars => HandInv'
  BY DEF HandInv, QuietSteps, Active, Alive, vars, rowVars, groupVars, workerVars
<1>3. QED
  BY <1>1, <1>2, HandSteps, SuperviseTypeCorrect, PTL DEF Spec
-----------------------------------------------------------------------------
(* What stands behind a success, while it is shown, recorded and kept.      *)
ShownInv ==
    /\ SuccessIsShown
    /\ step = "showing" =>
          leader[hand] = "good" /\ capture[hand] = "complete" /\ verdict = "succeeded"
    /\ step = "recording" /\ verdict = "succeeded" =>
          result[hand] /\ capture[hand] = "complete" /\ leader[hand] = "good"

(* A child that has ended is not touched by signals.                        *)
LEMMA SignalsSpareEnded ==
    ASSUME TypeOK, NEW S, NEW how, Terminated(S, how) \/ Killed(S, how)
    PROVE  \A i \in Runs : ~Alive(i) => leader'[i] = leader[i]
BY DEF Terminated, Killed, Alive, TypeOK

LEMMA ShownSteps ==
    ASSUME TypeOK, HandInv, ShownInv, Next
    PROVE  ShownInv'
<1>1. \A i \in Runs : status[i] = "succeeded" => i # hand
  BY SuperviseAssumption DEF HandInv, Active, ActiveStatuses, SuperviseAssumption
<1>2. ASSUME UNCHANGED <<capture, result>>, UNCHANGED <<step, hand, verdict>>,
             \A i \in Runs : status'[i] = "succeeded" => status[i] = "succeeded",
             \A i \in Runs : ~Alive(i) => leader'[i] = leader[i]
      PROVE  ShownInv'
  BY <1>2 DEF ShownInv, SuccessIsShown, TypeOK, Alive
<1>3. CASE ApiStep
  BY <1>2, <1>3
     DEF ApiStep, Enqueue, RequestCancel, TypeOK, serviceVars, groupVars, fileVars, workerVars
<1>4. CASE ChildStep
  BY <1>2, <1>4
     DEF ChildStep, LeaderEnds, HelperStarts, HelperEnds, Alive, TypeOK, rowVars, fileVars,
         workerVars
<1>5. ASSUME UNCHANGED leader, UNCHANGED <<capture, result>>, step' \notin {"showing", "recording"},
             \A i \in Runs : status'[i] = "succeeded" => status[i] = "succeeded"
      PROVE  ShownInv'
  BY <1>5 DEF ShownInv, SuccessIsShown
<1>6. CASE Look \/ FindNothing \/ (\E i \in Runs : Claim(i)) \/ Record \/ RecordFails
  BY <1>5, <1>6
     DEF Look, FindNothing, Claim, Record, RecordFails, TypeOK, rowVars, groupVars, fileVars
<1>7. CASE DeadlinePasses
  BY <1>2, <1>7 DEF DeadlinePasses, rowVars, groupVars, fileVars
<1>8. CASE Poll \/ AskStopping \/ CheckLimits \/ LeaderObeyed
  BY <1>5, <1>8
     DEF Poll, AskStopping, CheckLimits, LeaderObeyed, To, rowVars, groupVars, fileVars
<1>9. CASE Terminate \/ Kill
  <2>1. \A i \in Runs : ~Alive(i) => leader'[i] = leader[i]
    BY <1>9, SignalsSpareEnded DEF Terminate, Kill
  <2>2. QED
    BY <1>9, <2>1
       DEF Terminate, Kill, To, ShownInv, SuccessIsShown, Alive, TypeOK, rowVars, fileVars
<1>10. ASSUME UNCHANGED <<leader, result>>, step' \notin {"showing", "recording"},
              \A i \in Runs : status'[i] = "succeeded" => status[i] = "succeeded",
              \A i \in Runs : i # hand => capture'[i] = capture[i]
       PROVE  ShownInv'
  BY <1>1, <1>10 DEF ShownInv, SuccessIsShown
<1>11. CASE PrepareFails \/ Abort \/ Raise
  BY <1>10, <1>11 DEF PrepareFails, Abort, Raise, PutDown, TypeOK, rowVars, groupVars
<1>12. CASE Launch
  <2>1. \A i \in Runs : i # hand => leader'[i] = leader[i] /\ capture'[i] = capture[i]
    BY <1>12 DEF Launch, TypeOK
  <2>2. QED
    BY <1>1, <1>12, <2>1 DEF Launch, ShownInv, SuccessIsShown, rowVars
<1>13. CASE Seal
  <2>1. hand \in Runs /\ \A i \in Runs : i # hand => capture'[i] = capture[i]
    BY <1>13 DEF Seal, TypeOK
  <2>2. SuccessIsShown'
    BY <1>1, <1>13, <2>1 DEF Seal, ShownInv, SuccessIsShown, rowVars, groupVars
  <2>3. \A over : Verdict(over) = "succeeded" => leader[hand] = "good"
    BY DEF Verdict
  <2>4. QED
    BY <1>13, <2>1, <2>2, <2>3 DEF Seal, ShownInv, TypeOK, rowVars, groupVars
<1>14. CASE Show
  <2>1. hand \in Runs /\ \A i \in Runs : i # hand => result'[i] = result[i]
    BY <1>14 DEF Show, TypeOK
  <2>2. SuccessIsShown'
    BY <1>1, <1>14, <2>1 DEF Show, ShownInv, SuccessIsShown, rowVars, groupVars
  <2>3. QED
    BY <1>14, <2>1, <2>2 DEF Show, ShownInv, TypeOK, rowVars, groupVars
<1>15. CASE Finish
  <2>1. \A i \in Runs : status'[i] = "succeeded" =>
            status[i] = "succeeded" \/ (i = hand /\ verdict = "succeeded")
    BY <1>15 DEF Finish, TypeOK
  <2>2. QED
    BY <1>15, <2>1 DEF Finish, PutDown, ShownInv, SuccessIsShown, groupVars, fileVars
<1>16. CASE Boot
  BY <1>2, <1>16 DEF Boot, groupVars, fileVars, workerVars
<1>17. CASE \E i \in Runs : SweepOne(i)
  BY <1>2, <1>17 DEF SweepOne, Alive, TypeOK, groupVars, rowVars, fileVars, workerVars
<1>18. CASE Serve
  BY <1>5, <1>18 DEF Serve, rowVars, groupVars, fileVars
<1>19. CASE StopSignal
  <2>1. \A i \in Runs : ~Alive(i) => leader'[i] = leader[i]
    BY <1>19, SignalsSpareEnded DEF StopSignal, groupVars
  <2>2. QED
    BY <1>2, <1>19, <2>1 DEF StopSignal, rowVars, fileVars, workerVars
<1>20. CASE ProcessGone
  <2>1. \A i \in Runs : ~Alive(i) => leader'[i] = leader[i]
    BY <1>20, SignalsSpareEnded DEF ProcessGone, groupVars
  <2>2. QED
    BY <1>20, <2>1 DEF ProcessGone, ShownInv, SuccessIsShown, Alive, TypeOK, rowVars, fileVars
<1>21. QED
  BY <1>3, <1>4, <1>6, <1>7, <1>8, <1>9, <1>11, <1>12, <1>13, <1>14, <1>15, <1>16, <1>17, <1>18,
     <1>19, <1>20
     DEF Next, WorkerStep, ProcessStep

(* A success the service cannot show is not one: over crashes, failures of  *)
(* storage, stops and exceptions, a run that succeeded has its output.      *)
THEOREM SuccessShown == Spec => []SuccessIsShown
<1>1. Init => ShownInv
  BY DEF Init, ShownInv, SuccessIsShown
<1>2. ShownInv /\ UNCHANGED vars => ShownInv'
  BY DEF ShownInv, SuccessIsShown, vars, rowVars, groupVars, fileVars, workerVars
<1>3. ShownInv => SuccessIsShown
  BY DEF ShownInv
<1>4. QED
  BY <1>1, <1>2, <1>3, ShownSteps, HandAlways, SuperviseTypeCorrect, PTL DEF Spec
-----------------------------------------------------------------------------
(* Only a launch makes a child alive, and it opens new captures; the other  *)
(* steps that touch a capture do so when the child has ended.               *)
LEMMA CaptureSteps ==
    ASSUME TypeOK, HandInv, CompleteCaptureIsFinal, Next, "checking" \notin Raising
    PROVE  CompleteCaptureIsFinal'
<1>1. ASSUME UNCHANGED capture, \A i \in Runs : ~Alive(i) => leader'[i] = leader[i]
      PROVE  CompleteCaptureIsFinal'
  BY <1>1 DEF CompleteCaptureIsFinal, Alive
<1>2. CASE ApiStep
  BY <1>1, <1>2 DEF ApiStep, Enqueue, RequestCancel, groupVars, fileVars
<1>3. CASE ChildStep
  BY <1>1, <1>3 DEF ChildStep, LeaderEnds, HelperStarts, HelperEnds, Alive, TypeOK, fileVars
<1>4. CASE Look \/ FindNothing \/ (\E i \in Runs : Claim(i)) \/ Record \/ RecordFails
           \/ DeadlinePasses \/ Poll \/ AskStopping \/ CheckLimits \/ LeaderObeyed \/ Show
           \/ Finish
  BY <1>1, <1>4
     DEF Look, FindNothing, Claim, Record, RecordFails, DeadlinePasses, Poll, AskStopping,
         CheckLimits, LeaderObeyed, Show, Finish, groupVars, fileVars
<1>5. CASE Terminate \/ Kill
  BY <1>1, <1>5, SignalsSpareEnded DEF Terminate, Kill, fileVars
<1>6. CASE Launch
  BY <1>6 DEF Launch, CompleteCaptureIsFinal, Alive, TypeOK
<1>7. ASSUME UNCHANGED leader, ~Alive(hand), \A i \in Runs : i # hand => capture'[i] = capture[i]
      PROVE  CompleteCaptureIsFinal'
  BY <1>7 DEF CompleteCaptureIsFinal, Alive
<1>8. CASE PrepareFails \/ Abort \/ Seal \/ Raise
  <2>1. ~Alive(hand)
    BY <1>8, SuperviseAssumption
       DEF PrepareFails, Abort, Seal, Raise, HandInv, QuietSteps, SuperviseAssumption
  <2>2. QED
    BY <1>7, <1>8, <2>1 DEF PrepareFails, Abort, Seal, Raise, TypeOK, groupVars
<1>9. CASE Boot \/ Serve
  BY <1>1, <1>9 DEF Boot, Serve, groupVars, fileVars
<1>10. CASE \E i \in Runs : SweepOne(i)
  BY <1>1, <1>10 DEF SweepOne, Alive, TypeOK, groupVars, fileVars
<1>11. CASE StopSignal \/ ProcessGone
  BY <1>1, <1>11, SignalsSpareEnded DEF StopSignal, ProcessGone, groupVars, fileVars
<1>12. QED
  BY <1>2, <1>3, <1>4, <1>5, <1>6, <1>8, <1>9, <1>10, <1>11
     DEF Next, WorkerStep, ProcessStep

(* A partial capture is never mistaken for a complete one, as long as the   *)
(* cancel flag can be read.                                                 *)
THEOREM CaptureFinal ==
    ASSUME "checking" \notin Raising
    PROVE  Spec => []CompleteCaptureIsFinal
<1>1. Init => CompleteCaptureIsFinal
  BY DEF Init, CompleteCaptureIsFinal
<1>2. CompleteCaptureIsFinal /\ UNCHANGED vars => CompleteCaptureIsFinal'
  BY DEF CompleteCaptureIsFinal, Alive, vars, groupVars, fileVars
<1>3. TypeOK /\ HandInv /\ CompleteCaptureIsFinal /\ Next => CompleteCaptureIsFinal'
  BY CaptureSteps
<1>4. QED
  BY <1>1, <1>2, <1>3, HandAlways, SuperviseTypeCorrect, PTL DEF Spec
-----------------------------------------------------------------------------
(* Who may have a live child at all: systemd leaves none behind a process   *)
(* that is gone; without it, only what the next start will look for.        *)
ChildrenInv ==
    /\ unit = "systemd" => \A i \in Runs : Alive(i) => hand = i
    /\ \A i \in Runs : Alive(i) /\ recorded[i] /\ ~cutShort =>
          \/ hand = i
          \/ service = "down" /\ Active(i)
          \/ service = "sweeping" /\ i \in sweep

LEMMA ChildrenSteps ==
    ASSUME TypeOK, HandInv, ChildrenInv, Next, "checking" \notin Raising
    PROVE  ChildrenInv'
<1>1. ASSUME UNCHANGED <<unit, service, sweep, cutShort, hand, recorded>>,
             \A i \in Runs : Alive(i)' => Alive(i),
             \A i \in Runs : Active(i) => Active(i)'
      PROVE  ChildrenInv'
  BY <1>1 DEF ChildrenInv
<1>2. CASE ApiStep
  BY <1>1, <1>2
     DEF ApiStep, Enqueue, RequestCancel, TypeOK, Active, Alive, ActiveStatuses, serviceVars,
         groupVars, workerVars
<1>3. CASE ChildStep
  BY <1>1, <1>3
     DEF ChildStep, LeaderEnds, HelperStarts, HelperEnds, TypeOK, Active, Alive, serviceVars,
         rowVars, workerVars
<1>4. CASE Look \/ FindNothing \/ RecordFails \/ DeadlinePasses \/ Poll \/ AskStopping
           \/ CheckLimits \/ LeaderObeyed \/ Seal \/ Show
  BY <1>1, <1>4
     DEF Look, FindNothing, RecordFails, DeadlinePasses, Poll, AskStopping, CheckLimits,
         LeaderObeyed, Seal, Show, To, Active, Alive, serviceVars, rowVars, groupVars
<1>5. CASE Terminate \/ Kill
  <2>1. \A i \in Runs : Alive(i)' => Alive(i)
    BY <1>5, SignalsSpareEnded DEF Terminate, Kill, Alive
  <2>2. QED
    BY <1>1, <1>5, <2>1 DEF Terminate, Kill, To, Active, serviceVars, rowVars
<1>6. CASE \E i \in Runs : Claim(i)
  <2>1. hand = NoRun /\ service \in {"up", "stopping"}
    BY <1>6 DEF Claim, TypeOK
  <2>2. \A i \in Runs : ~(Alive(i) /\ recorded[i] /\ ~cutShort)
    BY <2>1, SuperviseAssumption DEF ChildrenInv, SuperviseAssumption
  <2>3. \A i \in Runs : unit = "systemd" => ~Alive(i)
    BY <2>1, SuperviseAssumption DEF ChildrenInv, SuperviseAssumption
  <2>4. QED
    BY <1>6, <2>2, <2>3 DEF Claim, ChildrenInv, Alive, serviceVars, groupVars
<1>7. ASSUME hand \in Runs, ~Alive(hand), hand' = NoRun, UNCHANGED <<leader, recorded>>,
             UNCHANGED serviceVars, service \in {"up", "stopping"}
      PROVE  ChildrenInv'
  BY <1>7 DEF ChildrenInv, Alive, serviceVars
<1>8. CASE PrepareFails \/ Abort \/ Finish \/ Raise
  <2>1. ~Alive(hand)
    BY <1>8, SuperviseAssumption
       DEF PrepareFails, Abort, Finish, Raise, HandInv, QuietSteps, SuperviseAssumption
  <2>2. hand \in Runs /\ service \in {"up", "stopping"}
    BY <1>8, SuperviseAssumption
       DEF PrepareFails, Abort, Finish, Raise, TypeOK, SuperviseAssumption
  <2>3. QED
    BY <1>7, <1>8, <2>1, <2>2
       DEF PrepareFails, Abort, Finish, Raise, PutDown, rowVars, groupVars
<1>9. CASE Launch \/ Record
  <2>1. hand \in Runs
    BY <1>9 DEF Launch, Record, TypeOK
  <2>2. \A i \in Runs : i # hand => leader'[i] = leader[i] /\ recorded'[i] = recorded[i]
    BY <1>9 DEF Launch, Record, TypeOK, rowVars, groupVars
  <2>3. \A i \in Runs : i # hand => (Active(i)' <=> Active(i))
    BY <1>9 DEF Launch, Record, TypeOK, Active, rowVars
  <2>4. QED
    BY <1>9, <2>1, <2>2, <2>3 DEF Launch, Record, ChildrenInv, Alive, serviceVars
<1>10. CASE Boot
  <2>1. hand = NoRun
    BY <1>10 DEF Boot, TypeOK
  <2>2. QED
    BY <1>10, <2>1, SuperviseAssumption
       DEF Boot, ChildrenInv, Alive, groupVars, workerVars, SuperviseAssumption
<1>11. ASSUME NEW i \in Runs, SweepOne(i) PROVE ChildrenInv'
  <2>1. ~Alive(i)' /\ \A k \in Runs : k # i => leader'[k] = leader[k]
    BY <1>11 DEF SweepOne, Alive, TypeOK, groupVars
  <2>2. QED
    BY <1>11, <2>1 DEF SweepOne, ChildrenInv, Alive, rowVars, workerVars
<1>12. CASE Serve
  BY <1>12 DEF Serve, ChildrenInv, Alive, rowVars, groupVars
<1>13. CASE StopSignal
  <2>1. \A i \in Runs : Alive(i)' => Alive(i)
    BY <1>13, SignalsSpareEnded DEF StopSignal, Alive, groupVars
  <2>2. QED
    BY <1>13, <2>1 DEF StopSignal, ChildrenInv, rowVars, workerVars
<1>14. CASE ProcessGone
  <2>1. \A i \in Runs : Alive(i)' => Alive(i) /\ unit # "systemd"
    BY <1>14 DEF ProcessGone, Killed, Alive, TypeOK, groupVars
  <2>2. \A i \in Runs : hand = i => Active(i)
    BY SuperviseAssumption DEF HandInv, SuperviseAssumption
  <2>3. QED
    BY <1>14, <2>1, <2>2 DEF ProcessGone, ChildrenInv, Active, TypeOK, rowVars
<1>15. QED
  BY <1>2, <1>3, <1>4, <1>5, <1>6, <1>8, <1>9, <1>10, <1>11, <1>12, <1>13, <1>14
     DEF Next, WorkerStep, ProcessStep

LEMMA ChildrenAlways ==
    ASSUME "checking" \notin Raising
    PROVE  Spec => []ChildrenInv
<1>1. Init => ChildrenInv
  BY DEF Init, ChildrenInv, Alive
<1>2. ChildrenInv /\ UNCHANGED vars => ChildrenInv'
  BY DEF ChildrenInv, Alive, Active, vars, serviceVars, rowVars, groupVars, workerVars
<1>3. TypeOK /\ HandInv /\ ChildrenInv /\ Next => ChildrenInv'
  BY ChildrenSteps
<1>4. QED
  BY <1>1, <1>2, <1>3, HandAlways, SuperviseTypeCorrect, PTL DEF Spec

(* Under systemd no child runs while the service serves, but the one in the *)
(* worker's hands.                                                          *)
THEOREM NoStray ==
    ASSUME "checking" \notin Raising
    PROVE  Spec => []NoStrayChild
<1>1. ChildrenInv => NoStrayChild
  BY DEF ChildrenInv, NoStrayChild
<1>2. QED
  BY <1>1, ChildrenAlways, PTL

(* Without systemd a recorded child is gone when the service serves again,  *)
(* unless a start died in the middle of its sweep.                          *)
THEOREM RecordedSwept ==
    ASSUME "checking" \notin Raising
    PROVE  Spec => []RecordedChildIsSwept
<1>1. ChildrenInv => RecordedChildIsSwept
  BY DEF ChildrenInv, RecordedChildIsSwept, Serving
<1>2. QED
  BY <1>1, ChildrenAlways, PTL
-----------------------------------------------------------------------------
(* How the rows move in a step that claims nothing, and in one that does.   *)
Settles(i) ==
    \/ status'[i] = status[i]
    \/ status[i] = "none" /\ status'[i] = "queued"
    \/ status[i] = "queued" /\ status'[i] \in TerminalStatuses
    \/ Active(i) /\ status'[i] \in ActiveStatuses \cup TerminalStatuses

Takes(i) ==
    /\ status[i] = "queued" /\ status'[i] = "claimed"
    /\ \A k \in Runs : ~Active(k)
    /\ \A k \in Runs \ {i} : status'[k] = status[k]

LEMMA RowSteps ==
    ASSUME TypeOK, HandInv, Next
    PROVE  (\A i \in Runs : Settles(i)) \/ \E i \in Runs : Takes(i)
<1>1. ASSUME NEW i \in Runs, Enqueue(i) \/ RequestCancel(i) PROVE \A k \in Runs : Settles(k)
  BY <1>1 DEF Enqueue, RequestCancel, Settles, TypeOK, TerminalStatuses
<1>2. ASSUME UNCHANGED status PROVE \A k \in Runs : Settles(k)
  BY <1>2 DEF Settles
<1>3. ASSUME NEW i \in Runs, Claim(i) PROVE Takes(i)
  BY <1>3 DEF Claim, Claimable, Takes, TypeOK
<1>4. CASE PrepareFails \/ Record \/ Finish
  <2>1. hand \in Runs /\ Active(hand)
    BY <1>4 DEF PrepareFails, Record, Finish, TypeOK, HandInv
  <2>2. \A k \in Runs : k # hand => status'[k] = status[k]
    BY <1>4 DEF PrepareFails, Record, Finish, TypeOK
  <2>3. status'[hand] \in ActiveStatuses \cup TerminalStatuses
    BY <1>4, <2>1
       DEF PrepareFails, Record, Finish, TypeOK, ActiveStatuses, TerminalStatuses
  <2>4. QED
    BY <2>1, <2>2, <2>3 DEF Settles
<1>5. CASE Boot
  BY <1>5 DEF Boot, Settles, TypeOK, TerminalStatuses
<1>6. CASE ChildStep
  BY <1>2, <1>6 DEF ChildStep, LeaderEnds, HelperStarts, HelperEnds, rowVars
<1>7. CASE Look \/ FindNothing \/ Launch \/ RecordFails \/ DeadlinePasses \/ Poll \/ AskStopping
           \/ CheckLimits \/ Terminate \/ LeaderObeyed \/ Kill \/ Abort \/ Seal \/ Show \/ Raise
  BY <1>2, <1>7
     DEF Look, FindNothing, Launch, RecordFails, DeadlinePasses, Poll, AskStopping, CheckLimits,
         Terminate, LeaderObeyed, Kill, Abort, Seal, Show, Raise, rowVars
<1>8. CASE Serve \/ StopSignal \/ ProcessGone \/ \E i \in Runs : SweepOne(i)
  BY <1>2, <1>8 DEF Serve, StopSignal, ProcessGone, SweepOne, rowVars
<1>9. QED
  BY <1>1, <1>3, <1>4, <1>5, <1>6, <1>7, <1>8 DEF Next, ApiStep, WorkerStep, ProcessStep

PhaseBar == [i \in Runs |-> Phase(i)]

LEMMA PhaseValues ==
    /\ \A i : status[i] = "none" => Phase(i) = "unborn"
    /\ \A i : status[i] = "queued" => Phase(i) = "waiting"
    /\ \A i : status[i] \in ActiveStatuses => Phase(i) = "started"
    /\ \A i : status[i] \in TerminalStatuses => Phase(i) = "ended"
    /\ \A i : Phase(i) \in {"unborn", "waiting", "started", "ended"}
BY DEF Phase, Active, ActiveStatuses, TerminalStatuses

LEMMA PhaseValuesNext ==
    /\ \A i : status'[i] = "none" => Phase(i)' = "unborn"
    /\ \A i : status'[i] = "queued" => Phase(i)' = "waiting"
    /\ \A i : status'[i] \in ActiveStatuses => Phase(i)' = "started"
    /\ \A i : status'[i] \in TerminalStatuses => Phase(i)' = "ended"
    /\ \A i : Phase(i)' \in {"unborn", "waiting", "started", "ended"}
BY DEF Phase, Active, ActiveStatuses, TerminalStatuses

(* The worker's many steps, the sweep and the child's doings implement the  *)
(* abstract queue of runs: a run starts at most once and alone, ends once   *)
(* and is not replayed.                                                     *)
THEOREM WorkerKeepsPromise == Spec => KeepsPromise
<1>1. Init => Queue!Init
  BY PhaseValues DEF Init, Queue!Init
<1>2. TypeOK /\ HandInv /\ Next => Queue!Next
  <2> SUFFICES ASSUME TypeOK, HandInv, Next PROVE Queue!Next
    OBVIOUS
  <2>1. PhaseBar' \in [Runs -> Queue!Phases]
    BY PhaseValuesNext DEF PhaseBar, Queue!Phases
  <2>2. \A i \in Runs : PhaseBar[i] = Phase(i) /\ PhaseBar'[i] = Phase(i)'
    BY DEF PhaseBar
  <2>3. ASSUME NEW i \in Runs, Settles(i) PROVE <<PhaseBar[i], PhaseBar'[i]>> \in Queue!Passage
    <3>1. CASE status'[i] = status[i]
      <4>1. Phase(i)' = Phase(i)
        BY <3>1 DEF Phase, Active
      <4>2. QED
        BY <2>2, <4>1, PhaseValues DEF Queue!Passage, Queue!Phases
    <3>2. CASE status[i] = "none" /\ status'[i] = "queued"
      BY <2>2, <3>2, PhaseValues, PhaseValuesNext DEF Queue!Passage
    <3>3. CASE status[i] = "queued" /\ status'[i] \in TerminalStatuses
      BY <2>2, <3>3, PhaseValues, PhaseValuesNext DEF Queue!Passage
    <3>4. CASE Active(i) /\ status'[i] \in ActiveStatuses \cup TerminalStatuses
      BY <2>2, <3>4, PhaseValues, PhaseValuesNext DEF Active, Queue!Passage, Queue!Phases
    <3>5. QED
      BY <2>3, <3>1, <3>2, <3>3, <3>4 DEF Settles
  <2>4. CASE \A i \in Runs : Settles(i)
    BY <2>1, <2>3, <2>4 DEF Queue!Next, Queue!Settle, PhaseBar
  <2>5. CASE \E i \in Runs : Takes(i)
    <3>1. PICK i \in Runs : Takes(i)
      BY <2>5
    <3>2. \A k \in Runs : Phase(k) # "started"
      BY <3>1 DEF Takes, Phase
    <3>3. Phase(i) = "waiting" /\ Phase(i)' = "started"
      BY <3>1, PhaseValues, PhaseValuesNext DEF Takes, ActiveStatuses
    <3>4. \A k \in Runs \ {i} : <<PhaseBar[k], PhaseBar'[k]>> \in Queue!Passage
      BY <2>3, <3>1 DEF Takes, Settles
    <3>5. Queue!Start(i)
      BY <2>1, <2>2, <3>2, <3>3, <3>4 DEF Queue!Start, Queue!Settle, PhaseBar
    <3>6. QED
      BY <3>5 DEF Queue!Next
  <2>6. QED
    BY <2>4, <2>5, RowSteps
<1>3. UNCHANGED vars => UNCHANGED PhaseBar
  BY DEF vars, rowVars, PhaseBar, Phase, Active
<1>4. QED
  BY <1>1, <1>2, <1>3, HandAlways, SuperviseTypeCorrect, PTL
     DEF Spec, KeepsPromise, Queue!Spec, PhaseBar
=============================================================================
