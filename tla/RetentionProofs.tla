-------------------------- MODULE RetentionProofs --------------------------
(***************************************************************************)
(* Theorems about the cleanup of run output, for any number of runs, log   *)
(* folders and retention days: what may go, what stays, and that the row   *)
(* of a run leads to its files.                                            *)
(***************************************************************************)
EXTENDS Retention, TLAPS

(* One step of the service on one run, as the proofs below need it.         *)
WorkerActs(r) ==
    \/ MakeFolder(r) \/ CwdMissing(r) \/ OpenCaptures(r) \/ LaunchFails(r)
    \/ MarkRunning(r) \/ RunSucceeds(r) \/ RunFails(r) \/ WriteLog(r)

LEMMA Cases ==
    ASSUME [Next]_vars
    PROVE  \/ \E r \in Runs : WorkerActs(r)
           \/ \E r \in Runs, n \in LogNames : Unlink(r, n) \/ UnlinkFails(r, n) \/ PersonRemoves(r, n)
           \/ OutputSettings \/ PreviewPrune \/ ApplyPrune \/ Restart \/ TimePasses
           \/ UNCHANGED vars
BY DEF Next, WorkerActs

LEMMA TypeStays == TypeOK /\ [Next]_vars => TypeOK'
<1> SUFFICES ASSUME TypeOK, [Next]_vars PROVE TypeOK'
  OBVIOUS
<1> USE RetentionAssumption DEF RetentionAssumption, TypeOK
<1>1. ASSUME NEW r \in Runs, WorkerActs(r) PROVE TypeOK'
  <2>1. CASE MakeFolder(r)
    BY <2>1 DEF MakeFolder, opVars
  <2>2. CASE CwdMissing(r)
    BY <2>2 DEF CwdMissing, End, diskVars, opVars, Ended
  <2>3. CASE OpenCaptures(r)
    BY <2>3 DEF OpenCaptures, Wrote, rowVars, opVars, Names
  <2>4. CASE LaunchFails(r)
    BY <2>4 DEF LaunchFails, End, diskVars, opVars, Ended
  <2>5. CASE MarkRunning(r)
    BY <2>5 DEF MarkRunning, diskVars, opVars
  <2>6. CASE RunSucceeds(r)
    BY <2>6 DEF RunSucceeds, End, Wrote, opVars, Ended, Names
  <2>7. CASE RunFails(r)
    BY <2>7 DEF RunFails, End, diskVars, opVars, Ended
  <2>8. CASE WriteLog(r)
    <3>1. hand = r /\ status[r] \in Ended /\ hand' = NoRun /\ status' = status
      BY <2>8 DEF WriteLog, rowVars
    <3>2. \A q \in Runs : status[q] \notin {"claimed", "running"}
      BY <3>1 DEF Ended
    <3>3. QED
      BY <2>8, <3>1, <3>2 DEF WriteLog, Wrote, rowVars, opVars, Names
  <2>9. QED
    BY <1>1, <2>1, <2>2, <2>3, <2>4, <2>5, <2>6, <2>7, <2>8 DEF WorkerActs
<1>2. ASSUME NEW r \in Runs, NEW n \in LogNames,
             Unlink(r, n) \/ UnlinkFails(r, n) \/ PersonRemoves(r, n)
      PROVE  TypeOK'
  BY <1>2 DEF Unlink, UnlinkFails, PersonRemoves, rowVars, diskVars, opVars, Names
<1>3. CASE OutputSettings
  BY <1>3 DEF OutputSettings, rowVars, diskVars, opVars
<1>4. CASE PreviewPrune \/ ApplyPrune
  BY <1>4 DEF PreviewPrune, ApplyPrune, Candidates, rowVars, diskVars, Names
<1>5. CASE Restart
  <2>1. \A r \in Runs : status'[r] \notin {"claimed", "running"}
    BY <1>5 DEF Restart, Ended
  <2>2. status' \in [Runs -> {"queued", "claimed", "running"} \cup Ended]
    BY <1>5 DEF Restart, Ended
  <2>3. endedAt' \in [Runs -> 0..MaxTime]
    BY <1>5 DEF Restart
  <2>4. QED
    BY <1>5, <2>1, <2>2, <2>3 DEF Restart, diskVars
<1>6. CASE TimePasses
  BY <1>6 DEF TimePasses, rowVars, diskVars, opVars
<1>7. CASE UNCHANGED vars
  BY <1>7 DEF vars, rowVars, diskVars, opVars
<1>8. QED
  BY <1>1, <1>2, <1>3, <1>4, <1>5, <1>6, <1>7, Cases

(* The rows, the settings and the disk hold what they may hold, and a run   *)
(* that is claimed or running is in the worker's hands.                     *)
THEOREM RetentionTyped == Spec => []TypeOK
<1>1. Init => TypeOK
  BY RetentionAssumption DEF RetentionAssumption, Init, TypeOK, Names
<1>2. QED
  BY <1>1, TypeStays, PTL DEF Spec
-----------------------------------------------------------------------------
(* What the cleanup still has to remove: it has expired and was approved.   *)
(* The settings cannot change under it, and time only makes it older.       *)
RemovingInv ==
    \A r \in Runs, n \in Names : <<r, n>> \in removing =>
        <<r, n>> \in approved /\ n \in LogNames /\ status[r] = "succeeded" /\ Expired(r)

(* No action gives an ended run another end.                                *)
LEMMA SucceededStays ==
    ASSUME TypeOK, [Next]_vars, NEW r \in Runs, status[r] = "succeeded"
    PROVE  status'[r] = "succeeded" /\ endedAt'[r] = endedAt[r]
<1>1. ASSUME NEW q \in Runs, WorkerActs(q) PROVE status'[r] = "succeeded" /\ endedAt'[r] = endedAt[r]
  BY <1>1 DEF TypeOK, WorkerActs, MakeFolder, CwdMissing, OpenCaptures, LaunchFails, MarkRunning,
              RunSucceeds, RunFails, WriteLog, End, rowVars
<1>2. QED
  BY <1>1, Cases
     DEF TypeOK, OutputSettings, PreviewPrune, ApplyPrune, Unlink, UnlinkFails, PersonRemoves,
         Restart, TimePasses, vars, rowVars

LEMMA RemovingStays == TypeOK /\ RemovingInv /\ [Next]_vars => RemovingInv'
<1> SUFFICES ASSUME TypeOK, RemovingInv, [Next]_vars,
                    NEW r \in Runs, NEW n \in Names, <<r, n>> \in removing'
             PROVE  /\ <<r, n>> \in approved' /\ n \in LogNames
                    /\ status'[r] = "succeeded" /\ Expired(r)'
  BY DEF RemovingInv
<1>1. CASE <<r, n>> \in removing
  <2>1. /\ <<r, n>> \in approved /\ n \in LogNames /\ status[r] = "succeeded"
        /\ Expired(r) /\ removing # {}
    BY <1>1 DEF RemovingInv
  <2>2. status'[r] = "succeeded" /\ endedAt'[r] = endedAt[r]
    BY <2>1, SucceededStays
  <2>3. approved' = approved /\ settings' = settings /\ clock <= clock'
    <3>1. clock \in Int
      BY RetentionAssumption DEF TypeOK, RetentionAssumption
    <3>2. \A q \in Runs : WorkerActs(q) => approved' = approved /\ settings' = settings /\ clock' = clock
      BY DEF WorkerActs, MakeFolder, CwdMissing, OpenCaptures, LaunchFails, MarkRunning,
             RunSucceeds, RunFails, WriteLog, opVars
    <3>3. ~(OutputSettings \/ PreviewPrune \/ ApplyPrune)
      BY <2>1 DEF OutputSettings, PreviewPrune, ApplyPrune, Free
    <3>4. CASE TimePasses
      BY <3>1, <3>4 DEF TimePasses, opVars
    <3>5. CASE Restart \/ UNCHANGED vars
      BY <3>1, <3>5 DEF Restart, vars, opVars
    <3>6. ASSUME NEW q \in Runs, NEW m \in LogNames,
                 Unlink(q, m) \/ UnlinkFails(q, m) \/ PersonRemoves(q, m)
          PROVE  approved' = approved /\ settings' = settings /\ clock' = clock
      BY <3>6 DEF Unlink, UnlinkFails, PersonRemoves, opVars
    <3>7. QED
      BY <3>1, <3>2, <3>3, <3>4, <3>5, <3>6, Cases
  <2>4. endedAt[r] \in Int /\ clock \in Int /\ clock' \in Int /\ settings.days \in Int
    <3>1. endedAt[r] \in 0..MaxTime /\ clock \in 0..MaxTime /\ clock' \in 0..MaxTime
      BY TypeStays DEF TypeOK
    <3>2. settings.days \in Days
      BY DEF TypeOK
    <3>3. settings.days \in Nat /\ MaxTime \in Nat
      BY <3>2, RetentionAssumption DEF RetentionAssumption
    <3>4. QED
      BY <3>1, <3>3
  <2>5. QED
    BY <2>1, <2>2, <2>3, <2>4 DEF Expired
<1>2. CASE <<r, n>> \notin removing
  <2>1. \A q \in Runs : WorkerActs(q) => removing' = removing
    BY DEF WorkerActs, MakeFolder, CwdMissing, OpenCaptures, LaunchFails, MarkRunning,
           RunSucceeds, RunFails, WriteLog, opVars
  <2>2. ApplyPrune
    BY <1>2, <2>1, Cases
       DEF OutputSettings, PreviewPrune, Unlink, UnlinkFails, PersonRemoves, Restart, TimePasses,
           opVars, vars
  <2>3. approved' = approved /\ <<r, n>> \in approved /\ <<r, n>> \in Candidates
    BY <2>2 DEF ApplyPrune
  <2>4. n \in LogNames /\ status[r] = "succeeded" /\ Expired(r)
    BY <2>3 DEF Candidates, Expendable
  <2>5. status' = status /\ endedAt' = endedAt /\ clock' = clock /\ settings' = settings
    BY <2>2 DEF ApplyPrune, rowVars
  <2>6. QED
    BY <2>3, <2>4, <2>5 DEF Expired
<1>3. QED
  BY <1>1, <1>2

LEMMA RemovingAlways == Spec => []RemovingInv
<1>1. Init => RemovingInv
  BY DEF Init, RemovingInv
<1>2. QED
  BY <1>1, RemovingStays, RetentionTyped, PTL DEF Spec

(* Files are there because they were written; what a person removed was     *)
(* written, and does not come back.                                         *)
DiskInv ==
    \A r \in Runs : /\ files[r] \subseteq written[r] /\ byHand[r] \subseteq written[r]
                    /\ byHand[r] \cap files[r] = {}

LEMMA DiskStays == TypeOK /\ DiskInv /\ [Next]_vars => DiskInv'
<1> SUFFICES ASSUME TypeOK, DiskInv, [Next]_vars, NEW r \in Runs
             PROVE  /\ files'[r] \subseteq written'[r] /\ byHand'[r] \subseteq written'[r]
                    /\ byHand'[r] \cap files'[r] = {}
  BY DEF DiskInv
<1>1. /\ files[r] \subseteq written[r] /\ byHand[r] \subseteq written[r]
      /\ byHand[r] \cap files[r] = {} /\ byHand[r] \subseteq LogNames
  BY DEF DiskInv, TypeOK
<1>2. ASSUME NEW q \in Runs, WorkerActs(q)
      PROVE  /\ files'[r] \subseteq written'[r] /\ byHand'[r] \subseteq written'[r]
             /\ byHand'[r] \cap files'[r] = {}
  <2>1. CASE OpenCaptures(q)
    BY <1>1, <2>1 DEF OpenCaptures, Wrote, TypeOK
  <2>2. CASE RunSucceeds(q)
    BY <1>1, <2>2 DEF RunSucceeds, Wrote, TypeOK, LogNames
  <2>3. CASE WriteLog(q)
    BY <1>1, <2>3 DEF WriteLog, Wrote, TypeOK, LogNames
  <2>4. CASE MakeFolder(q) \/ CwdMissing(q) \/ LaunchFails(q) \/ MarkRunning(q) \/ RunFails(q)
    BY <1>1, <2>4 DEF MakeFolder, CwdMissing, LaunchFails, MarkRunning, RunFails, diskVars
  <2>5. QED
    BY <1>2, <2>1, <2>2, <2>3, <2>4 DEF WorkerActs
<1>3. ASSUME NEW q \in Runs, NEW m \in LogNames, Unlink(q, m)
      PROVE  /\ files'[r] \subseteq written'[r] /\ byHand'[r] \subseteq written'[r]
             /\ byHand'[r] \cap files'[r] = {}
  BY <1>1, <1>3 DEF Unlink, TypeOK
<1>4. ASSUME NEW q \in Runs, NEW m \in LogNames, PersonRemoves(q, m)
      PROVE  /\ files'[r] \subseteq written'[r] /\ byHand'[r] \subseteq written'[r]
             /\ byHand'[r] \cap files'[r] = {}
  BY <1>1, <1>4 DEF PersonRemoves, TypeOK
<1>5. QED
  BY <1>1, <1>2, <1>3, <1>4, Cases
     DEF UnlinkFails, OutputSettings, PreviewPrune, ApplyPrune, Restart, TimePasses, diskVars, vars

LEMMA DiskAlways == Spec => []DiskInv
<1>1. Init => DiskInv
  BY DEF Init, DiskInv
<1>2. QED
  BY <1>1, DiskStays, RetentionTyped, PTL DEF Spec

(* Two steps take files away: an unlink of the cleanup, and a person.       *)
LEMMA Removal ==
    ASSUME TypeOK, DiskInv, [Next]_vars, NEW r \in Runs, NEW n \in files[r], n \notin files'[r]
    PROVE  /\ n \in LogNames
           /\ \/ <<r, n>> \in removing /\ UNCHANGED <<status, written, byHand>>
              \/ n \in byHand'[r] /\ byHand' # byHand /\ UNCHANGED <<status, written>>
<1>1. \A q \in Runs : ~WorkerActs(q)
  BY DEF TypeOK, WorkerActs, MakeFolder, CwdMissing, OpenCaptures, LaunchFails, MarkRunning,
         RunSucceeds, RunFails, WriteLog, Wrote, diskVars
<1>2. PICK q \in Runs, m \in LogNames : Unlink(q, m) \/ PersonRemoves(q, m)
  BY <1>1, Cases
     DEF OutputSettings, PreviewPrune, ApplyPrune, UnlinkFails, Restart, TimePasses, diskVars, vars
<1>3. q = r /\ m = n
  BY <1>2 DEF TypeOK, Unlink, PersonRemoves
<1>4. CASE Unlink(q, m)
  BY <1>3, <1>4 DEF Unlink, rowVars
<1>5. CASE PersonRemoves(q, m)
  <2>1. n \in byHand'[r] /\ UNCHANGED <<status, written>>
    BY <1>3, <1>5 DEF TypeOK, PersonRemoves, rowVars
  <2>2. n \notin byHand[r]
    BY DEF DiskInv
  <2>3. QED
    BY <1>3, <2>1, <2>2
<1>6. QED
  BY <1>2, <1>4, <1>5

(* The cleanup removes only what was shown and approved and has expired by  *)
(* the settings of the moment at which it goes.                             *)
THEOREM RemovalApproved == Spec => RemovesOnlyTheApproved
<1>1. TypeOK /\ RemovingInv /\ DiskInv /\ [Next]_vars =>
        (byHand' = byHand =>
          \A r \in Runs : \A n \in files[r] \ files'[r] : <<r, n>> \in approved /\ Expired(r))
  <2> SUFFICES ASSUME TypeOK, RemovingInv, DiskInv, [Next]_vars, byHand' = byHand,
                      NEW r \in Runs, NEW n \in files[r], n \notin files'[r]
               PROVE  <<r, n>> \in approved /\ Expired(r)
    OBVIOUS
  <2>1. <<r, n>> \in removing /\ n \in Names
    BY Removal DEF LogNames, Names
  <2>2. QED
    BY <2>1 DEF RemovingInv
<1>2. QED
  BY <1>1, RemovingAlways, DiskAlways, RetentionTyped, PTL DEF Spec, RemovesOnlyTheApproved

(* Results, logs and the output of what did not succeed are never removed.  *)
THEOREM Survival == Spec => []ResultsAndFailuresSurvive
<1>1. Init => ResultsAndFailuresSurvive
  BY DEF Init, ResultsAndFailuresSurvive
<1>2. TypeOK /\ RemovingInv /\ DiskInv /\ ResultsAndFailuresSurvive /\ [Next]_vars
        => ResultsAndFailuresSurvive'
  <2> SUFFICES ASSUME TypeOK, RemovingInv, DiskInv, ResultsAndFailuresSurvive, [Next]_vars,
                      NEW r \in Runs, NEW n \in written'[r],
                      n \notin files'[r], n \notin byHand'[r]
               PROVE  status'[r] = "succeeded" /\ n \in LogNames
    BY DEF ResultsAndFailuresSurvive
  <2>1. CASE n \in files[r]
    <3>1. n \in LogNames /\ <<r, n>> \in removing /\ status' = status
      BY <2>1, Removal
    <3>2. QED
      BY <3>1 DEF RemovingInv, LogNames, Names
  <2>2. CASE n \notin files[r]
    <3>1. n \in written[r] /\ n \notin byHand[r]
      <4>1. ASSUME NEW q \in Runs, WorkerActs(q) PROVE n \in written[r] /\ byHand' = byHand
        BY <2>2, <4>1
           DEF TypeOK, WorkerActs, MakeFolder, CwdMissing, OpenCaptures, LaunchFails, MarkRunning,
               RunSucceeds, RunFails, WriteLog, Wrote, diskVars
      <4>2. CASE \A q \in Runs : ~WorkerActs(q)
        <5>1. written' = written
          BY <4>2, Cases
             DEF Unlink, UnlinkFails, PersonRemoves, OutputSettings, PreviewPrune, ApplyPrune,
                 Restart, TimePasses, diskVars, vars
        <5>2. byHand[r] \subseteq byHand'[r]
          <6>1. ASSUME NEW q \in Runs, NEW m \in LogNames, PersonRemoves(q, m)
                PROVE  byHand[r] \subseteq byHand'[r]
            BY <6>1 DEF PersonRemoves, TypeOK
          <6>2. ASSUME NEW q \in Runs, NEW m \in LogNames, Unlink(q, m) \/ UnlinkFails(q, m)
                PROVE  byHand' = byHand
            BY <6>2 DEF Unlink, UnlinkFails, diskVars
          <6>3. QED
            BY <4>2, <6>1, <6>2, Cases
               DEF OutputSettings, PreviewPrune, ApplyPrune, Restart, TimePasses, diskVars, vars
        <5>3. QED
          BY <5>1, <5>2
      <4>3. QED
        BY <4>1, <4>2
    <3>2. status[r] = "succeeded" /\ n \in LogNames
      BY <2>2, <3>1 DEF ResultsAndFailuresSurvive
    <3>3. QED
      BY <3>2, SucceededStays
  <2>3. QED
    BY <2>1, <2>2
<1>3. QED
  BY <1>1, <1>2, RemovingAlways, DiskAlways, RetentionTyped, PTL DEF Spec
-----------------------------------------------------------------------------
(* Whoever has a run in hand knows its folder, and an ended run that is     *)
(* still in hand, for its log, has it recorded.                             *)
PlaceInv ==
    \A r \in Runs :
        /\ status[r] \in {"claimed", "running"} => place[r] \in Folders
        /\ hand = r /\ status[r] \in Ended => RunFolder(r) = place[r]

LEMMA FoundStays == TypeOK /\ DiskInv /\ PlaceInv /\ FilesAreFound /\ [Next]_vars
                      => PlaceInv' /\ FilesAreFound'
<1> SUFFICES ASSUME TypeOK, DiskInv, PlaceInv, FilesAreFound, [Next]_vars, NEW r \in Runs
             PROVE  /\ status'[r] \in {"claimed", "running"} => place'[r] \in Folders
                    /\ hand' = r /\ status'[r] \in Ended => RunFolder(r)' = place'[r]
                    /\ status'[r] \in {"running", "succeeded", "failed"} /\ files'[r] # {}
                         => RunFolder(r)' = place'[r]
  BY DEF PlaceInv, FilesAreFound
<1> DEFINE Goal == /\ status'[r] \in {"claimed", "running"} => place'[r] \in Folders
                   /\ hand' = r /\ status'[r] \in Ended => RunFolder(r)' = place'[r]
                   /\ status'[r] \in {"running", "succeeded", "failed"} /\ files'[r] # {}
                         => RunFolder(r)' = place'[r]
<1>1. /\ status[r] \in {"claimed", "running"} => place[r] \in Folders
      /\ hand = r /\ status[r] \in Ended => RunFolder(r) = place[r]
      /\ status[r] \in {"running", "succeeded", "failed"} /\ files[r] # {} => RunFolder(r) = place[r]
      /\ files[r] \subseteq written[r]
  BY DEF PlaceInv, FilesAreFound, DiskInv
<1>2. RunsDir \in Folders /\ NoFolder \notin Folders /\ NoRun \notin Runs
  BY RetentionAssumption DEF RetentionAssumption
<1>3. ASSUME NEW q \in Runs, WorkerActs(q) PROVE Goal
  <2>1. CASE MakeFolder(q)
    BY <1>1, <1>2, <2>1 DEF MakeFolder, TypeOK, RunFolder, Ended
  <2>2. CASE CwdMissing(q)
    BY <1>1, <1>2, <2>2 DEF CwdMissing, End, diskVars, TypeOK, RunFolder, Ended
  <2>3. CASE OpenCaptures(q)
    BY <1>1, <2>3 DEF OpenCaptures, Wrote, rowVars, TypeOK, RunFolder, Ended
  <2>4. CASE LaunchFails(q)
    BY <1>1, <1>2, <2>4 DEF LaunchFails, End, diskVars, TypeOK, RunFolder, Ended
  <2>5. CASE MarkRunning(q)
    BY <1>1, <1>2, <2>5 DEF MarkRunning, diskVars, TypeOK, RunFolder, Ended
  <2>6. CASE RunSucceeds(q)
    BY <1>1, <1>2, <2>6 DEF RunSucceeds, End, Wrote, TypeOK, RunFolder, Ended
  <2>7. CASE RunFails(q)
    BY <1>1, <1>2, <2>7 DEF RunFails, End, diskVars, TypeOK, RunFolder, Ended
  <2>8. CASE WriteLog(q)
    BY <1>1, <1>2, <2>8 DEF WriteLog, Wrote, rowVars, TypeOK, RunFolder
  <2>9. QED
    BY <1>3, <2>1, <2>2, <2>3, <2>4, <2>5, <2>6, <2>7, <2>8 DEF WorkerActs
<1>4. ASSUME NEW q \in Runs, NEW m \in LogNames,
             Unlink(q, m) \/ UnlinkFails(q, m) \/ PersonRemoves(q, m)
      PROVE  Goal
  <2>1. UNCHANGED <<status, outputDir, place, hand>> /\ files'[r] \subseteq files[r]
    BY <1>4 DEF Unlink, UnlinkFails, PersonRemoves, rowVars, diskVars, TypeOK
  <2>2. QED
    BY <1>1, <2>1 DEF RunFolder
<1>5. CASE Restart
  <2>1. UNCHANGED <<outputDir, place, files>> /\ hand' = NoRun
    BY <1>5 DEF Restart, diskVars
  <2>2. status'[r] = IF status[r] \in {"claimed", "running"} THEN "interrupted" ELSE status[r]
    BY <1>5 DEF Restart
  <2>3. QED
    BY <1>1, <1>2, <2>1, <2>2 DEF RunFolder
<1>6. CASE OutputSettings \/ PreviewPrune \/ ApplyPrune \/ TimePasses \/ UNCHANGED vars
  BY <1>1, <1>6
     DEF OutputSettings, PreviewPrune, ApplyPrune, TimePasses, rowVars, diskVars, vars, RunFolder
<1>7. QED
  BY <1>3, <1>4, <1>5, <1>6, Cases

(* The row of a run leads to its files, wherever logs were sent meanwhile.  *)
THEOREM RowsLeadToFiles == Spec => []FilesAreFound
<1>1. Init => PlaceInv /\ FilesAreFound
  BY RetentionAssumption DEF Init, PlaceInv, FilesAreFound, Ended, RetentionAssumption
<1>2. QED
  BY <1>1, FoundStays, DiskAlways, RetentionTyped, PTL DEF Spec
=============================================================================
