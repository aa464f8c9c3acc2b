-------------------------------- MODULE Panel --------------------------------
(***************************************************************************)
(* The popup (RoutinesPanel.qml, RoutineEditor.qml), its one request at a   *)
(* time (ServiceClient.qml, client.py, ipc.py) and the operations of the   *)
(* service it calls (service.py, history.py).  A request is asked, done by *)
(* the service and delivered; the user goes on between any two of these    *)
(* steps, and so do other clients.                                         *)
(***************************************************************************)
EXTENDS Integers, Sequences

CONSTANTS
    Routines, NoRoutine,
    Runs, NoRun,
    History,       \* the runs of each routine, newest first, one to a page
    Saved,         \* the routines there are at first
    MaxRevision,   \* bound on routines.revision
    MaxFailures    \* bound on the calls whose answer does not arrive

ASSUME PanelAssumption ==
    /\ NoRoutine \notin Routines /\ NoRun \notin Runs
    /\ History \in [Routines -> Seq(Runs)] /\ Saved \subseteq Routines
    /\ MaxRevision \in Nat \ {0} /\ MaxFailures \in Nat

VARIABLES
    revision,      \* the service's rows: the revision, 0 where there is no routine
    deleted,       \* routines.deleted_at is set
    call,          \* the bridge: what was asked, and how far it has got
    failures,      \* calls that failed so far
    connected,     \* root.connected
    known,         \* root.routines: the revision shown, 0 where there is no row
    view,          \* "list", "routine", "run"
    routine,       \* root.routine: id and revision
    page,          \* root.runPage
    total,         \* root.runTotal
    shown,         \* root.runs
    run,           \* root.run
    confirming,    \* root.confirmingDelete
    editing,       \* root.editing
    editTarget,    \* root.editTarget, which is also the editor's `existing`
    saving,        \* saveTimer is running
    opened,        \* history: the run the user tapped, in the run view
    askedFor,      \* history: the routine the question on the screen is about
    form           \* history: the routine the fields of the form came from

rowVars  == <<revision, deleted>>
linkVars == <<call, failures, connected>>
viewVars == <<view, routine, page, total, shown, run, opened>>
delVars  == <<confirming, askedFor>>
editVars == <<editing, editTarget, saving, form>>
vars == <<rowVars, linkVars, known, viewVars, delVars, editVars>>

Reads   == {"dashboard", "list_runs", "get_run", "get_routine", "preview_schedule"}
Changes == {"set_enabled", "delete_routine", "update_routine"}

Row(id, n) == [id |-> id, revision |-> n]
NoRow      == Row(NoRoutine, 0)
Rows       == [id : Routines \cup {NoRoutine}, revision : 0..MaxRevision]

Request(op) == [op |-> op, id |-> NoRoutine, revision |-> 0, run |-> NoRun, offset |-> 0]
NoData      == [id \in Routines |-> 0]
Asked(q)    == [phase |-> "asked", request |-> q, data |-> NoData]
NoCall      == [phase |-> "idle", request |-> Request("none"), data |-> NoData]

Busy       == call.phase # "idle"
Ask(q)     == call' = IF Busy THEN call ELSE Asked(q)
OfRow(op, row) == [Request(op) EXCEPT !.id = row.id, !.revision = row.revision]
RunsOf(id, n)  == [Request("list_runs") EXCEPT !.id = id, !.offset = n]
RunOf(r)       == [Request("get_run") EXCEPT !.run = r]

TypeOK ==
    /\ revision \in [Routines -> 0..MaxRevision] /\ deleted \subseteq Routines
    /\ call.phase \in {"idle", "asked", "answered", "refused", "failed"}
    /\ call.request.op \in Reads \cup Changes \cup {"create_routine", "none"}
    /\ call.data \in [Routines -> 0..MaxRevision]
    /\ failures \in 0..MaxFailures /\ connected \in BOOLEAN
    /\ known \in [Routines -> 0..MaxRevision]
    /\ view \in {"list", "routine", "run"} /\ routine \in Rows
    /\ page \in Nat /\ total \in Nat /\ shown \subseteq Runs /\ run \in Runs \cup {NoRun}
    /\ opened \in Runs \cup {NoRun}
    /\ confirming \in BOOLEAN /\ askedFor \in Routines \cup {NoRoutine}
    /\ editing \in BOOLEAN /\ editTarget \in Rows /\ saving \in BOOLEAN /\ form \in Rows
    \* the bridge is busy exactly while there is something to answer
    /\ Busy <=> call.request.op # "none"
    /\ view = "run" => run # NoRun
    /\ view = "routine" => routine # NoRow
    /\ saving => editing

Init ==
    /\ revision = [id \in Routines |-> IF id \in Saved THEN 1 ELSE 0] /\ deleted = {}
    /\ call = NoCall /\ failures = 0 /\ connected = FALSE
    /\ known = NoData
    /\ view = "list" /\ routine = NoRow /\ page = 0 /\ total = 0 /\ shown = {} /\ run = NoRun
    /\ confirming = FALSE /\ askedFor = NoRoutine
    /\ editing = FALSE /\ editTarget = NoRow /\ saving = FALSE /\ form = NoRow
    /\ opened = NoRun
-----------------------------------------------------------------------------
(* The service, one request at a time.                                      *)
Listed == [id \in Routines |-> IF id \in deleted THEN 0 ELSE revision[id]]
Reply(id, n) == [NoData EXCEPT ![id] = n]
PageOf(id, n) == IF n < Len(History[id]) THEN {History[id][n + 1]} ELSE {}

Answer(data) == call' = [call EXCEPT !.phase = "answered", !.data = data]
Refuse       == call' = [call EXCEPT !.phase = "refused"]

ServeRead ==
    /\ call.phase = "asked" /\ call.request.op \in Reads
    /\ Answer(CASE call.request.op = "dashboard" -> Listed
                [] call.request.op = "get_routine" ->
                       Reply(call.request.id, revision[call.request.id])
                [] OTHER -> NoData)
    /\ UNCHANGED <<rowVars, failures, connected, known, viewVars, delVars, editVars>>

(* The revision the caller has seen must be the current one.  The bound is  *)
(* one more reason to refuse, like a draft that is not valid.               *)
Accepts(q) ==
    /\ q.id \notin deleted /\ q.revision = revision[q.id]
    /\ q.revision < MaxRevision

ServeChange ==
    LET q == call.request IN
    /\ call.phase = "asked" /\ q.op \in Changes
    /\ \/ /\ Accepts(q)
          /\ revision' = [revision EXCEPT ![q.id] = @ + 1]
          /\ deleted' = IF q.op = "delete_routine" THEN deleted \cup {q.id} ELSE deleted
          /\ Answer(Reply(q.id, revision'[q.id]))
       \/ ~Accepts(q) /\ Refuse /\ UNCHANGED rowVars
    /\ UNCHANGED <<failures, connected, known, viewVars, delVars, editVars>>

ServeCreate ==
    /\ call.phase = "asked" /\ call.request.op = "create_routine"
    /\ \/ \E id \in Routines :
             /\ revision[id] = 0
             /\ revision' = [revision EXCEPT ![id] = 1]
             /\ Answer(NoData) /\ UNCHANGED deleted
       \/ Refuse /\ UNCHANGED rowVars
    /\ UNCHANGED <<failures, connected, known, viewVars, delVars, editVars>>

Serve == ServeRead \/ ServeChange \/ ServeCreate

(* The service is down or too slow: the call or its answer is lost.         *)
LoseAnswer ==
    /\ Busy /\ call.phase # "failed" /\ failures < MaxFailures
    /\ call' = [call EXCEPT !.phase = "failed", !.data = NoData]
    /\ failures' = failures + 1
    /\ UNCHANGED <<rowVars, connected, known, viewVars, delVars, editVars>>

(* Another client edits, pauses or deletes a routine.                       *)
OthersChange(id) ==
    /\ revision[id] \in 1..(MaxRevision - 1) /\ id \notin deleted
    /\ revision' = [revision EXCEPT ![id] = @ + 1]
    /\ deleted' \in {deleted, deleted \cup {id}}
    /\ UNCHANGED <<linkVars, known, viewVars, delVars, editVars>>
-----------------------------------------------------------------------------
(* What the user does.                                                      *)
Sync == IF editing THEN UNCHANGED call ELSE Ask(Request("dashboard"))

OpenRoutine(id) ==
    /\ view = "list" /\ ~editing /\ connected /\ known[id] # 0
    /\ view' = "routine" /\ routine' = Row(id, known[id])
    /\ page' = 0 /\ total' = 0 /\ shown' = {}
    /\ confirming' = FALSE /\ askedFor' = NoRoutine
    /\ Ask(RunsOf(id, 0))
    /\ UNCHANGED <<rowVars, failures, connected, known, run, opened, editVars>>

OpenRun(r) ==
    /\ view = "routine" /\ ~editing /\ r \in shown
    /\ view' = "run" /\ run' = r /\ opened' = r
    /\ Ask(RunOf(r))
    /\ UNCHANGED <<rowVars, failures, connected, known, routine, page, total, shown, delVars,
                   editVars>>

TurnRuns(n) ==
    /\ view = "routine" /\ ~editing /\ ~Busy
    /\ n \in {page - 1, page + 1} /\ n >= 0 /\ n < total
    /\ page' = n
    /\ Ask(RunsOf(routine.id, n))
    /\ UNCHANGED <<rowVars, failures, connected, known, view, routine, total, shown, run, opened,
                   delVars, editVars>>

(* back(), which the reply to a deletion also calls.                        *)
StepBack(from) ==
    /\ confirming' = FALSE /\ askedFor' = NoRoutine
    /\ run' = NoRun /\ opened' = NoRun
    /\ IF view = "run" /\ from # NoRow THEN view' = "routine" /\ routine' = from
                                       ELSE view' = "list" /\ routine' = NoRow

Back ==
    /\ view # "list" /\ ~editing
    /\ StepBack(routine)
    /\ Sync
    /\ UNCHANGED <<rowVars, failures, connected, known, page, total, shown, editVars>>

SetEnabled ==
    /\ view = "routine" /\ ~editing /\ connected /\ ~Busy
    /\ Ask(OfRow("set_enabled", routine))
    /\ UNCHANGED <<rowVars, failures, connected, known, viewVars, delVars, editVars>>

(* Mutant: the question may be put while a reply is on its way.             *)
MutantAskDeleteAnyTime ==
    /\ view = "routine" /\ ~editing /\ connected /\ ~confirming
    /\ confirming' = TRUE /\ askedFor' = routine.id
    /\ UNCHANGED <<rowVars, linkVars, known, viewVars, editVars>>

AskDelete ==
    /\ view = "routine" /\ ~editing /\ connected /\ ~Busy /\ ~confirming
    /\ confirming' = TRUE /\ askedFor' = routine.id
    /\ UNCHANGED <<rowVars, linkVars, known, viewVars, editVars>>

KeepRoutine ==
    /\ confirming /\ view = "routine" /\ ~editing
    /\ confirming' = FALSE /\ askedFor' = NoRoutine
    /\ UNCHANGED <<rowVars, linkVars, known, viewVars, editVars>>

DeleteRoutine ==
    /\ confirming /\ view = "routine" /\ ~editing /\ connected /\ ~Busy
    /\ Ask(OfRow("delete_routine", routine))
    /\ UNCHANGED <<rowVars, failures, connected, known, viewVars, delVars, editVars>>

StartNew ==
    /\ view = "list" /\ ~editing /\ connected
    /\ editing' = TRUE /\ editTarget' = NoRow /\ form' = NoRow
    /\ UNCHANGED <<rowVars, linkVars, known, viewVars, delVars, saving>>

StartEdit ==
    /\ view = "routine" /\ ~editing /\ connected /\ ~Busy
    /\ Ask(OfRow("get_routine", routine))
    /\ UNCHANGED <<rowVars, failures, connected, known, viewVars, delVars, editVars>>

(* The schedule or the source was changed: its preview is asked for.        *)
Preview ==
    /\ editing /\ ~Busy
    /\ Ask(Request("preview_schedule"))
    /\ UNCHANGED <<rowVars, failures, connected, known, viewVars, delVars, editVars>>

SendDraft ==
    call' = Asked(IF editTarget = NoRow THEN Request("create_routine")
                                        ELSE OfRow("update_routine", editTarget))

PressSave ==
    /\ editing
    /\ IF Busy THEN saving' = TRUE /\ UNCHANGED call ELSE saving' = FALSE /\ SendDraft
    /\ UNCHANGED <<rowVars, failures, connected, known, viewVars, delVars, editing, editTarget,
                   form>>

(* Mutant: a timer that finds the bridge busy is not started again.         *)
MutantSaveFiresOnce ==
    /\ saving
    /\ saving' = FALSE /\ IF Busy THEN UNCHANGED call ELSE SendDraft
    /\ UNCHANGED <<rowVars, failures, connected, known, viewVars, delVars, editing, editTarget,
                   form>>

SaveFires ==
    /\ saving /\ ~Busy
    /\ saving' = FALSE /\ SendDraft
    /\ UNCHANGED <<rowVars, failures, connected, known, viewVars, delVars, editing, editTarget,
                   form>>

(* Mutant: the armed timer outlives the form.                               *)
MutantStopKeepsTimer ==
    editing' = FALSE /\ editTarget' = NoRow /\ saving' = saving /\ form' = NoRow

StopEditing ==
    editing' = FALSE /\ editTarget' = NoRow /\ saving' = FALSE /\ form' = NoRow

CancelEdit ==
    /\ editing
    /\ StopEditing
    /\ UNCHANGED <<rowVars, linkVars, known, viewVars, delVars>>

(* The timer that polls while the panel is open.                            *)
Poll ==
    /\ ~editing /\ ~Busy
    /\ Sync
    /\ UNCHANGED <<rowVars, failures, connected, known, viewVars, delVars, editVars>>
-----------------------------------------------------------------------------
(* What a reply does when it is delivered: onResult, then what it asks next *)
(* (the bridge is free again by then).                                      *)
Answered(op) == call.phase = "answered" /\ call.request.op = op /\ connected' = TRUE

(* Mutant: the open routine's page of runs is not loaded again.             *)
MutantDashboardSkipsRuns ==
    /\ Answered("dashboard")
    /\ known' = call.data
    /\ call' = IF view = "run" THEN Asked(RunOf(run)) ELSE NoCall
    /\ LET n == call.data[routine.id] IN
          routine' = IF view # "routine" \/ n = 0 THEN routine ELSE Row(routine.id, n)
    /\ UNCHANGED <<rowVars, failures, view, page, total, shown, run, opened, delVars, editVars>>

DeliverDashboard ==
    /\ Answered("dashboard")
    /\ known' = call.data
    /\ IF view = "routine"
       THEN LET n == call.data[routine.id] IN
            /\ routine' = IF n = 0 THEN routine ELSE Row(routine.id, n)
            /\ call' = Asked(RunsOf(routine.id, page))
       ELSE /\ call' = IF view = "run" THEN Asked(RunOf(run)) ELSE NoCall
            /\ UNCHANGED routine
    /\ UNCHANGED <<rowVars, failures, view, page, total, shown, run, opened, delVars, editVars>>

(* A page that is no longer there makes the panel step back to the last.    *)
DeliverRuns ==
    LET id == call.request.id
        n  == call.request.offset
        stepBack == PageOf(id, n) = {} /\ n > 0 /\ Len(History[id]) > 0
    IN
    /\ Answered("list_runs")
    /\ total' = Len(History[id])
    /\ page' = IF stepBack THEN total' - 1 ELSE page
    /\ shown' = IF ~stepBack /\ n = page THEN PageOf(id, n) ELSE shown
    /\ call' = IF stepBack /\ routine # NoRow THEN Asked(RunsOf(routine.id, page'))
               ELSE IF view = "run" THEN Asked(RunOf(run)) ELSE NoCall
    /\ UNCHANGED <<rowVars, failures, known, view, routine, run, opened, delVars, editVars>>

DeliverRun ==
    /\ Answered("get_run")
    /\ run' = call.request.run /\ call' = NoCall
    /\ UNCHANGED <<rowVars, failures, known, view, routine, page, total, shown, opened, delVars,
                   editVars>>

(* A form that is open already keeps its fields and gets a new target.      *)
DeliverRoutine ==
    LET id == call.request.id IN
    /\ Answered("get_routine")
    /\ editing' = TRUE /\ editTarget' = Row(id, call.data[id])
    /\ form' = IF editing THEN form ELSE editTarget'
    /\ call' = NoCall
    /\ UNCHANGED <<rowVars, failures, known, viewVars, delVars, saving>>

DeliverEnabled ==
    LET id == call.request.id IN
    /\ Answered("set_enabled")
    /\ routine' = Row(id, call.data[id])
    /\ call' = Asked(Request("dashboard"))
    /\ UNCHANGED <<rowVars, failures, known, view, page, total, shown, run, opened, delVars,
                   editVars>>

DeliverDeleted ==
    /\ Answered("delete_routine")
    /\ StepBack(NoRow)
    /\ call' = IF editing THEN NoCall ELSE Asked(Request("dashboard"))
    /\ UNCHANGED <<rowVars, failures, known, page, total, shown, editVars>>

(* Handled by the editor, if one is open still.                             *)
DeliverSaved ==
    LET id == call.request.id IN
    /\ Answered("update_routine") \/ Answered("create_routine")
    /\ IF editing
       THEN /\ routine' = IF id = routine.id /\ routine # NoRow THEN Row(id, call.data[id])
                                                                ELSE routine
            /\ StopEditing
            /\ call' = Asked(Request("dashboard"))
       ELSE call' = NoCall /\ UNCHANGED <<routine, editVars>>
    /\ UNCHANGED <<rowVars, failures, known, view, page, total, shown, run, opened, delVars>>

DeliverPreview ==
    /\ Answered("preview_schedule")
    /\ call' = NoCall
    /\ UNCHANGED <<rowVars, failures, known, viewVars, delVars, editVars>>

(* Mutant: what failed is asked again.                                      *)
MutantDeliverFailureRetries ==
    /\ call.phase \in {"refused", "failed"}
    /\ connected' = (connected /\ call.phase = "refused")
    /\ call' = Asked(call.request)
    /\ UNCHANGED <<rowVars, failures, known, viewVars, delVars, editVars>>

DeliverFailure ==
    /\ call.phase \in {"refused", "failed"}
    /\ connected' = (connected /\ call.phase = "refused")
    /\ call' = NoCall
    /\ UNCHANGED <<rowVars, failures, known, viewVars, delVars, editVars>>

Deliver ==
    \/ DeliverDashboard \/ DeliverRuns \/ DeliverRun \/ DeliverRoutine \/ DeliverEnabled
    \/ DeliverDeleted \/ DeliverSaved \/ DeliverPreview \/ DeliverFailure
-----------------------------------------------------------------------------
UserStep ==
    \/ \E id \in Routines : OpenRoutine(id)
    \/ \E r \in Runs : OpenRun(r)
    \/ \E n \in {page - 1, page + 1} : TurnRuns(n)
    \/ Back \/ SetEnabled \/ AskDelete \/ KeepRoutine \/ DeleteRoutine
    \/ StartNew \/ StartEdit \/ Preview \/ PressSave \/ CancelEdit

Next ==
    \/ UserStep \/ SaveFires \/ Poll \/ Serve \/ LoseAnswer \/ Deliver
    \/ \E id \in Routines : OthersChange(id)

Spec == Init /\ [][Next]_vars

(* The client process ends by its timeouts, the event loop delivers, timers *)
(* fire.  saveTimer fires every 50 ms and asks as soon as it finds the      *)
(* bridge free; a preview waits 400 ms after a change.                      *)
Fairness == WF_vars(Serve) /\ WF_vars(Deliver) /\ WF_vars(Poll) /\ SF_vars(SaveFires)
FairSpec == Spec /\ Fairness
-----------------------------------------------------------------------------
(* What is deleted is what the user was asked about: no reply and no other  *)
(* client's change comes between the question and the confirmed deletion.   *)
DeletesWhatWasAsked ==
    [][call'.request.op = "delete_routine" /\ ~Busy => call'.request.id = askedFor]_vars

(* The bridge is never stuck: every request comes to an end, through all    *)
(* that its reply asks next.                                                *)
CallsEnd == Busy ~> ~Busy

(* A press of Save that met another request is not dropped.                 *)
SaveLands ==
    saving ~> (call.request.op \in {"create_routine", "update_routine"} \/ ~editing)

(* A panel left alone comes to show what the service has, whatever replies  *)
(* were lost, late or meant for another view: unless the user goes on       *)
(* forever, the list, the open routine and its page of runs are current     *)
(* from some time on.                                                       *)
Current ==
    /\ connected /\ known = Listed
    /\ view = "routine" /\ routine.id \notin deleted =>
          /\ routine.revision = revision[routine.id]
          /\ shown = PageOf(routine.id, page)

BecomesCurrent == []<><<UserStep>>_vars \/ <>[](editing \/ Current)

(* A late reply leaves alone what the user has opened: the run view shows   *)
(* the run that was tapped, and the editor saves to the routine its fields  *)
(* came from (or creates one).                                              *)
RepliesLeaveWhatIsOpen ==
    /\ view = "run" => run = opened
    /\ editing => editTarget = form
=============================================================================
