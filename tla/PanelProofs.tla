----------------------------- MODULE PanelProofs -----------------------------
(***************************************************************************)
(* Theorems about the popup, for any routines, runs, other clients and     *)
(* lost answers.                                                           *)
(***************************************************************************)
EXTENDS Panel, TLAPS

(* What the bridge carries is well formed: what is asked about one routine  *)
(* or run names it.                                                         *)
Requests == [op : Reads \cup Changes \cup {"create_routine", "none"},
             id : Routines \cup {NoRoutine}, revision : 0..MaxRevision,
             run : Runs \cup {NoRun}, offset : Nat]

WellFormed(q) ==
    /\ q \in Requests
    /\ q.op \in Changes \cup {"list_runs", "get_routine"} => q.id \in Routines
    /\ q.op = "get_run" => q.run # NoRun

(* What may be on the bridge at any time.                                   *)
GoodCall(c) ==
    /\ c = [phase |-> c.phase, request |-> c.request, data |-> c.data]
    /\ c.phase \in {"idle", "asked", "answered", "refused", "failed"}
    /\ c.data \in [Routines -> 0..MaxRevision]
    /\ WellFormed(c.request)
    /\ (c.phase # "idle") <=> c.request.op # "none"

(* The type invariant in parts, with what each part needs of the others.   *)
RowsOK ==
    /\ revision \in [Routines -> 0..MaxRevision] /\ deleted \subseteq Routines
    /\ failures \in 0..MaxFailures /\ known \in [Routines -> 0..MaxRevision]
    /\ connected \in BOOLEAN

ViewOK ==
    /\ view \in {"list", "routine", "run"} /\ routine \in Rows
    /\ page \in Nat /\ total \in Nat /\ shown \subseteq Runs /\ run \in Runs \cup {NoRun}
    /\ opened \in Runs \cup {NoRun}
    /\ confirming \in BOOLEAN /\ askedFor \in Routines \cup {NoRoutine}
    /\ view = "run" => run # NoRun
    /\ view = "routine" => routine # NoRow
    /\ routine # NoRow => routine.id \in Routines

FormOK ==
    /\ editing \in BOOLEAN /\ saving \in BOOLEAN
    /\ saving => editing
    /\ editTarget \in Rows /\ form \in Rows
    /\ editTarget # NoRow => editTarget.id \in Routines

PanelInv == RowsOK /\ ViewOK /\ FormOK /\ GoodCall(call)

LEMMA RowFacts ==
    ASSUME NEW id \in Routines, NEW n \in 0..MaxRevision
    PROVE  /\ Row(id, n) \in Rows /\ Row(id, n).id = id /\ Row(id, n) # NoRow
           /\ NoRow \in Rows
BY PanelAssumption DEF PanelAssumption, Row, Rows, NoRow

LEMMA DataFacts ==
    /\ NoData \in [Routines -> 0..MaxRevision]
    /\ \A id \in Routines, n \in 0..MaxRevision : Reply(id, n) \in [Routines -> 0..MaxRevision]
BY PanelAssumption DEF PanelAssumption, NoData, Reply

LEMMA RequestFacts ==
    /\ \A op \in {"dashboard", "preview_schedule", "create_routine", "none"} :
          WellFormed(Request(op)) /\ Request(op).op = op
    /\ \A op \in Changes \cup {"get_routine"}, row \in Rows :
          row.id \in Routines =>
              /\ WellFormed(OfRow(op, row))
              /\ OfRow(op, row).op = op /\ OfRow(op, row).id = row.id
    /\ \A id \in Routines, n \in Nat :
          WellFormed(RunsOf(id, n)) /\ RunsOf(id, n).op = "list_runs"
    /\ \A r \in Runs : WellFormed(RunOf(r)) /\ RunOf(r).op = "get_run"
<1> USE PanelAssumption DEF PanelAssumption, WellFormed, Requests, Request, Reads, Changes
<1>1. ASSUME NEW op \in {"dashboard", "preview_schedule", "create_routine", "none"}
      PROVE  WellFormed(Request(op)) /\ Request(op).op = op
  OBVIOUS
<1>2. ASSUME NEW op \in Changes \cup {"get_routine"}, NEW row \in Rows, row.id \in Routines
      PROVE  /\ WellFormed(OfRow(op, row))
             /\ OfRow(op, row).op = op /\ OfRow(op, row).id = row.id
  BY <1>2 DEF OfRow, Rows
<1>3. ASSUME NEW id \in Routines, NEW n \in Nat
      PROVE  WellFormed(RunsOf(id, n)) /\ RunsOf(id, n).op = "list_runs"
  <2>1. RunsOf(id, n) = [op |-> "list_runs", id |-> id, revision |-> 0, run |-> NoRun,
                         offset |-> n]
    <3> DEFINE asked == [Request("list_runs") EXCEPT !.id = id]
    <3>1. asked = [op |-> "list_runs", id |-> id, revision |-> 0, run |-> NoRun, offset |-> 0]
      BY DEF Request
    <3>2. RunsOf(id, n) = [asked EXCEPT !.offset = n]
      BY DEF RunsOf
    <3>3. QED
      BY <3>1, <3>2
  <2>2. RunsOf(id, n) \in Requests
    BY ONLY <2>1, PanelAssumption, n \in Nat, id \in Routines
       DEF Requests, Reads, Changes, PanelAssumption
  <2>3. /\ RunsOf(id, n).op = "list_runs" /\ RunsOf(id, n).id = id
    BY ONLY <2>1
  <2>4. QED
    BY ONLY <2>2, <2>3, id \in Routines DEF WellFormed
<1>4. ASSUME NEW r \in Runs PROVE WellFormed(RunOf(r)) /\ RunOf(r).op = "get_run"
  BY DEF RunOf
<1> HIDE DEF WellFormed, Requests, Request, Reads, Changes
<1>5. QED
  BY <1>1, <1>2, <1>3, <1>4

LEMMA GoodCallIs ==
    /\ \A q : WellFormed(q) /\ q.op # "none" => GoodCall(Asked(q))
    /\ GoodCall(NoCall)
BY DataFacts, RequestFacts DEF GoodCall, Asked, NoCall

LEMMA AskKeeps ==
    ASSUME PanelInv, NEW q, WellFormed(q), q.op # "none", Ask(q)
    PROVE  GoodCall(call')
BY GoodCallIs DEF Ask, PanelInv

LEMMA PanelStarts == Init => PanelInv
<1> SUFFICES ASSUME Init PROVE PanelInv
  OBVIOUS
<1>1. GoodCall(call)
  BY GoodCallIs DEF Init
<1>2. NoRow \in Rows
  BY PanelAssumption DEF PanelAssumption, NoRow, Row, Rows
<1>3. revision \in [Routines -> 0..MaxRevision] /\ failures \in 0..MaxFailures
  BY PanelAssumption DEF PanelAssumption, Init
<1>4. QED
  BY <1>1, <1>2, <1>3, DataFacts DEF Init, PanelInv, RowsOK, ViewOK, FormOK
-----------------------------------------------------------------------------
(* A request that is asked is well formed, and so is what its reply asks.   *)
LEMMA CallStays ==
    ASSUME PanelInv, Next
    PROVE  GoodCall(call')
<1>1. RowsOK /\ ViewOK /\ FormOK /\ GoodCall(call) /\ WellFormed(call.request)
  BY DEF PanelInv, GoodCall
<1>2. /\ \A q : WellFormed(q) /\ q.op # "none" => GoodCall(Asked(q))
      /\ GoodCall(NoCall)
  BY GoodCallIs
<1>3. \A op \in {"dashboard", "preview_schedule", "create_routine"} :
         WellFormed(Request(op)) /\ Request(op).op # "none"
  BY RequestFacts
<1>4. \A op \in Changes \cup {"get_routine"}, row \in Rows :
         row.id \in Routines => WellFormed(OfRow(op, row)) /\ OfRow(op, row).op # "none"
  BY RequestFacts DEF Changes
<1>5. /\ \A id \in Routines, n \in Nat : WellFormed(RunsOf(id, n)) /\ RunsOf(id, n).op # "none"
      /\ \A r \in Runs : WellFormed(RunOf(r)) /\ RunOf(r).op # "none"
  BY RequestFacts
<1>6. /\ routine \in Rows /\ editTarget \in Rows /\ page \in Nat
      /\ view = "routine" => routine.id \in Routines
      /\ routine # NoRow => routine.id \in Routines
      /\ editTarget # NoRow => editTarget.id \in Routines
      /\ view = "run" => run \in Runs
  BY <1>1 DEF RowsOK, ViewOK, FormOK
<1>7. UNCHANGED call => GoodCall(call')
  BY <1>1
<1>8. ASSUME NEW q, WellFormed(q), q.op # "none", Ask(q) PROVE GoodCall(call')
  BY <1>8, AskKeeps
<1>9. Sync => GoodCall(call')
  BY <1>3, <1>7, <1>8 DEF Sync
<1>10. SendDraft => GoodCall(call')
  BY <1>2, <1>3, <1>4, <1>6 DEF SendDraft, Changes
<1>11. CASE UserStep
  <2>1. ASSUME NEW id \in Routines, OpenRoutine(id) PROVE GoodCall(call')
    BY <1>5, <1>8, <2>1 DEF OpenRoutine
  <2>2. ASSUME NEW r \in Runs, OpenRun(r) PROVE GoodCall(call')
    BY <1>5, <1>8, <2>2 DEF OpenRun
  <2>3. ASSUME NEW n \in {page - 1, page + 1}, TurnRuns(n) PROVE GoodCall(call')
    <3>1. n \in Nat /\ routine.id \in Routines /\ Ask(RunsOf(routine.id, n))
      BY <1>6, <2>3 DEF TurnRuns
    <3>2. QED
      BY <1>5, <1>8, <3>1
  <2>4. CASE Back
    BY <1>9, <2>4 DEF Back
  <2>5. CASE SetEnabled \/ DeleteRoutine \/ StartEdit
    <3>1. /\ routine.id \in Routines
          /\ \E op \in Changes \cup {"get_routine"} : Ask(OfRow(op, routine))
      BY <1>6, <2>5 DEF SetEnabled, DeleteRoutine, StartEdit, Changes
    <3>2. QED
      BY <1>4, <1>6, <1>8, <3>1
  <2>6. CASE AskDelete \/ KeepRoutine \/ StartNew \/ CancelEdit
    BY <1>7, <2>6 DEF AskDelete, KeepRoutine, StartNew, CancelEdit, linkVars
  <2>7. CASE Preview
    BY <1>3, <1>8, <2>7 DEF Preview
  <2>8. CASE PressSave
    BY <1>7, <1>10, <2>8 DEF PressSave
  <2>9. QED
    BY <1>11, <2>1, <2>2, <2>3, <2>4, <2>5, <2>6, <2>7, <2>8 DEF UserStep
<1>12. CASE SaveFires \/ Poll
  BY <1>9, <1>10, <1>12 DEF SaveFires, Poll
<1>13. CASE Serve \/ LoseAnswer
  <2>1. \E phase \in {"answered", "refused", "failed"}, data \in [Routines -> 0..MaxRevision] :
           /\ call.phase # "idle"
           /\ call' = [phase |-> phase, request |-> call.request, data |-> data]
    <3>1. /\ call = [phase |-> call.phase, request |-> call.request, data |-> call.data]
          /\ call.data \in [Routines -> 0..MaxRevision]
          /\ revision \in [Routines -> 0..MaxRevision]
      BY <1>1 DEF GoodCall, RowsOK, ViewOK, FormOK
    <3>2. Refuse => call' = [phase |-> "refused", request |-> call.request, data |-> call.data]
      BY <3>1 DEF Refuse
    <3>3. \A data : Answer(data) =>
             call' = [phase |-> "answered", request |-> call.request, data |-> data]
      BY <3>1 DEF Answer
    <3>4. CASE ServeRead
      <4>1. Listed \in [Routines -> 0..MaxRevision]
        BY <3>1, PanelAssumption DEF Listed, PanelAssumption
      <4>2. call.request.op = "get_routine" =>
               Reply(call.request.id, revision[call.request.id]) \in [Routines -> 0..MaxRevision]
        BY <1>1, <3>1, DataFacts DEF WellFormed
      <4>3. PICK data \in [Routines -> 0..MaxRevision] : Answer(data)
        BY <3>4, <4>1, <4>2, DataFacts DEF ServeRead
      <4>4. QED
        BY <3>3, <3>4, <4>3 DEF ServeRead
    <3>5. CASE ServeChange
      <4>1. call.phase = "asked" /\ call.request.id \in Routines
        BY <1>1, <3>5 DEF ServeChange, WellFormed
      <4>2. CASE Refuse
        BY <3>1, <3>2, <4>1, <4>2
      <4>3. CASE Accepts(call.request) /\ ~Refuse
        <5>1. /\ revision' = [revision EXCEPT ![call.request.id] = @ + 1]
              /\ Answer(Reply(call.request.id, revision'[call.request.id]))
          BY <3>5, <4>3 DEF ServeChange
        <5>2. revision'[call.request.id] \in 0..MaxRevision
          BY <3>1, <4>1, <4>3, <5>1, PanelAssumption DEF Accepts, PanelAssumption
        <5>3. QED
          BY <3>3, <4>1, <5>1, <5>2, DataFacts
      <4>4. QED
        BY <3>5, <4>2, <4>3 DEF ServeChange
    <3>6. CASE ServeCreate
      BY <3>1, <3>2, <3>3, <3>6, DataFacts DEF ServeCreate
    <3>7. CASE LoseAnswer
      BY <3>1, <3>7, DataFacts DEF LoseAnswer, Busy
    <3>8. QED
      BY <1>13, <3>4, <3>5, <3>6, <3>7 DEF Serve
  <2>2. QED
    BY <1>1, <2>1 DEF GoodCall
<1>14. CASE Deliver
  <2>1. CASE DeliverDashboard
    BY <1>2, <1>5, <1>6, <2>1 DEF DeliverDashboard
  <2>2. CASE DeliverRuns
    <3> DEFINE id == call.request.id
               n == call.request.offset
               stepBack == PageOf(id, n) = {} /\ n > 0 /\ Len(History[id]) > 0
    <3>1. id \in Routines
      BY <1>1, <2>2 DEF DeliverRuns, Answered, WellFormed
    <3>2. Len(History[id]) \in Nat
      BY <3>1, PanelAssumption DEF PanelAssumption
    <3>3. stepBack => page' \in Nat
      BY <2>2, <3>2 DEF DeliverRuns
    <3>4. call' = IF stepBack /\ routine # NoRow THEN Asked(RunsOf(routine.id, page'))
                  ELSE IF view = "run" THEN Asked(RunOf(run)) ELSE NoCall
      BY <2>2 DEF DeliverRuns
    <3> HIDE DEF stepBack
    <3>5. QED
      BY <1>2, <1>5, <1>6, <3>3, <3>4
  <2>3. CASE DeliverRun \/ DeliverRoutine \/ DeliverPreview \/ DeliverFailure
    BY <1>2, <2>3 DEF DeliverRun, DeliverRoutine, DeliverPreview, DeliverFailure
  <2>4. CASE DeliverEnabled \/ DeliverDeleted \/ DeliverSaved
    BY <1>2, <1>3, <2>4 DEF DeliverEnabled, DeliverDeleted, DeliverSaved
  <2>5. QED
    BY <1>14, <2>1, <2>2, <2>3, <2>4 DEF Deliver
<1>15. ASSUME NEW id \in Routines, OthersChange(id) PROVE GoodCall(call')
  BY <1>7, <1>15 DEF OthersChange, linkVars
<1>16. QED
  BY <1>11, <1>12, <1>13, <1>14, <1>15 DEF Next

(* The rest keeps its shape: what a reply names exists, and what is open is *)
(* not left without its row.                                                *)
LEMMA RowsUnchanged ==
    ASSUME RowsOK, UNCHANGED <<revision, deleted, failures, known>>, connected' \in BOOLEAN
    PROVE  RowsOK'
BY DEF RowsOK

LEMMA ViewUnchanged ==
    ASSUME ViewOK, UNCHANGED <<viewVars, delVars>>
    PROVE  ViewOK'
BY DEF ViewOK, viewVars, delVars

LEMMA FormUnchanged ==
    ASSUME FormOK, UNCHANGED editVars
    PROVE  FormOK'
BY DEF FormOK, editVars

LEMMA RowsStay ==
    ASSUME PanelInv, Next
    PROVE  RowsOK'
<1>1. RowsOK /\ GoodCall(call) /\ WellFormed(call.request)
  BY DEF PanelInv, GoodCall
<1>2. connected \in BOOLEAN
  BY <1>1 DEF RowsOK
<1>3. CASE UserStep
  BY <1>1, <1>2, <1>3, RowsUnchanged
     DEF UserStep, OpenRoutine, OpenRun, TurnRuns, Back, SetEnabled, AskDelete, KeepRoutine,
         DeleteRoutine, StartNew, StartEdit, Preview, PressSave, CancelEdit, rowVars, linkVars
<1>4. CASE SaveFires \/ Poll
  BY <1>1, <1>2, <1>4, RowsUnchanged DEF SaveFires, Poll, rowVars
<1>5. CASE Serve
  <2>1. revision \in [Routines -> 0..MaxRevision] /\ deleted \subseteq Routines
    BY <1>1 DEF RowsOK
  <2>2. revision' \in [Routines -> 0..MaxRevision] /\ deleted' \subseteq Routines
    <3>1. CASE ServeRead
      BY <2>1, <3>1 DEF ServeRead, rowVars
    <3>2. CASE ServeChange
      <4>1. call.request.id \in Routines
        BY <1>1, <3>2 DEF ServeChange, WellFormed
      <4>2. CASE ~Accepts(call.request)
        BY <2>1, <3>2, <4>2 DEF ServeChange, rowVars
      <4>3. CASE Accepts(call.request)
        BY <2>1, <3>2, <4>1, <4>3, PanelAssumption DEF ServeChange, Accepts, PanelAssumption
      <4>4. QED
        BY <4>2, <4>3
    <3>3. CASE ServeCreate
      BY <2>1, <3>3, PanelAssumption DEF ServeCreate, rowVars, PanelAssumption
    <3>4. QED
      BY <1>5, <3>1, <3>2, <3>3 DEF Serve
  <2>3. UNCHANGED <<failures, connected, known>>
    BY <1>5 DEF Serve, ServeRead, ServeChange, ServeCreate
  <2>4. QED
    BY <1>1, <2>2, <2>3 DEF RowsOK
<1>6. CASE LoseAnswer
  BY <1>1, <1>6, PanelAssumption DEF LoseAnswer, RowsOK, rowVars, PanelAssumption
<1>7. CASE Deliver
  <2>1. CASE DeliverDashboard
    <3>1. known' \in [Routines -> 0..MaxRevision] /\ connected' = TRUE
      BY <1>1, <2>1 DEF DeliverDashboard, Answered, GoodCall
    <3>2. QED
      BY <1>1, <2>1, <3>1 DEF DeliverDashboard, RowsOK, rowVars
  <2>2. CASE DeliverFailure
    BY <1>1, <1>2, <2>2, RowsUnchanged DEF DeliverFailure, rowVars
  <2>3. CASE Deliver /\ ~DeliverDashboard /\ ~DeliverFailure
    BY <1>1, <2>3, RowsUnchanged
       DEF Deliver, Answered, DeliverRuns, DeliverRun, DeliverRoutine, DeliverEnabled,
           DeliverDeleted, DeliverSaved, DeliverPreview, rowVars
  <2>4. QED
    BY <1>7, <2>1, <2>2, <2>3
<1>8. ASSUME NEW id \in Routines, OthersChange(id) PROVE RowsOK'
  <2>1. revision' \in [Routines -> 0..MaxRevision] /\ deleted' \subseteq Routines
    BY <1>1, <1>8, PanelAssumption DEF OthersChange, RowsOK, PanelAssumption
  <2>2. QED
    BY <1>1, <1>8, <2>1 DEF OthersChange, RowsOK, linkVars
<1>9. QED
  BY <1>3, <1>4, <1>5, <1>6, <1>7, <1>8 DEF Next

LEMMA ViewStays ==
    ASSUME PanelInv, Next
    PROVE  ViewOK'
<1>1. RowsOK /\ ViewOK /\ GoodCall(call) /\ WellFormed(call.request)
  BY DEF PanelInv, GoodCall
<1>2. \A id \in Routines, n \in 0..MaxRevision :
         Row(id, n) \in Rows /\ Row(id, n).id \in Routines /\ Row(id, n) # NoRow
  BY RowFacts
<1>3. NoRow \in Rows
  BY PanelAssumption DEF PanelAssumption, NoRow, Row, Rows
<1>4. call.data \in [Routines -> 0..MaxRevision]
  BY <1>1 DEF GoodCall
<1>5. view = "routine" => routine.id \in Routines
  BY <1>1 DEF ViewOK
<1>6. \A from : from = routine \/ from = NoRow =>
         (StepBack(from) /\ UNCHANGED <<page, total, shown>> => ViewOK')
  <2> SUFFICES ASSUME NEW from, from = routine \/ from = NoRow, StepBack(from),
                      UNCHANGED <<page, total, shown>>
               PROVE  ViewOK'
    OBVIOUS
  <2>1. CASE view' = "routine" /\ routine' = from /\ from # NoRow
    BY <1>1, <2>1 DEF StepBack, ViewOK
  <2>2. CASE view' = "list" /\ routine' = NoRow
    BY <1>1, <1>3, <2>2 DEF StepBack, ViewOK
  <2>3. QED
    BY <2>1, <2>2 DEF StepBack
<1>7. ASSUME routine' \in Rows, view = "routine" => routine' # NoRow,
             routine' # NoRow => routine'.id \in Routines,
             UNCHANGED <<view, page, total, shown, run, opened, delVars>>
      PROVE  ViewOK'
  BY <1>1, <1>7 DEF ViewOK, delVars
<1>8. CASE UserStep
  <2>1. ASSUME NEW id \in Routines, OpenRoutine(id) PROVE ViewOK'
    <3>1. known[id] \in 0..MaxRevision
      BY <1>1 DEF RowsOK
    <3>2. QED
      BY <1>1, <1>2, <2>1, <3>1 DEF OpenRoutine, ViewOK
  <2>2. ASSUME NEW r \in Runs, OpenRun(r) PROVE ViewOK'
    BY <1>1, <2>2, PanelAssumption DEF OpenRun, ViewOK, delVars, PanelAssumption
  <2>3. ASSUME NEW n \in {page - 1, page + 1}, TurnRuns(n) PROVE ViewOK'
    <3>1. n \in Nat
      BY <1>1, <2>3 DEF TurnRuns, ViewOK
    <3>2. QED
      BY <1>1, <2>3, <3>1 DEF TurnRuns, ViewOK, delVars
  <2>4. CASE Back
    BY <1>6, <2>4 DEF Back
  <2>5. CASE AskDelete \/ KeepRoutine
    BY <1>1, <1>5, <2>5 DEF AskDelete, KeepRoutine, ViewOK, viewVars
  <2>6. CASE \/ SetEnabled \/ DeleteRoutine \/ StartNew \/ StartEdit
             \/ Preview \/ PressSave \/ CancelEdit
    BY <1>1, <2>6, ViewUnchanged
       DEF SetEnabled, DeleteRoutine, StartNew, StartEdit, Preview, PressSave, CancelEdit
  <2>7. QED
    BY <1>8, <2>1, <2>2, <2>3, <2>4, <2>5, <2>6 DEF UserStep
<1>9. CASE SaveFires \/ Poll \/ Serve \/ LoseAnswer
  BY <1>1, <1>9, ViewUnchanged
     DEF SaveFires, Poll, Serve, ServeRead, ServeChange, ServeCreate, LoseAnswer
<1>10. CASE Deliver
  <2>1. CASE DeliverDashboard
    <3>1. call.data[routine.id] \in 0..MaxRevision \/ view # "routine"
      BY <1>4, <1>5
    <3>2. \/ routine' = routine
          \/ view = "routine" /\ \E n \in 0..MaxRevision : routine' = Row(routine.id, n)
      BY <2>1, <3>1 DEF DeliverDashboard
    <3>3. routine \in Rows /\ (view = "routine" => routine # NoRow)
          /\ (routine # NoRow => routine.id \in Routines)
      BY <1>1 DEF ViewOK
    <3>4. QED
      BY <1>2, <1>5, <1>7, <2>1, <3>2, <3>3 DEF DeliverDashboard
  <2>2. CASE DeliverRuns
    <3> DEFINE id == call.request.id
               n == call.request.offset
    <3>1. id \in Routines /\ n \in Nat
      BY <1>1, <2>2 DEF DeliverRuns, Answered, WellFormed, Requests
    <3>2. History[id] \in Seq(Runs)
      BY <3>1, PanelAssumption DEF PanelAssumption
    <3>3. PageOf(id, n) \subseteq Runs
      BY <3>1, <3>2 DEF PageOf
    <3>4. page' \in Nat /\ total' \in Nat /\ shown' \subseteq Runs
      BY <1>1, <2>2, <3>2, <3>3 DEF DeliverRuns, ViewOK
    <3>5. UNCHANGED <<view, routine, run, opened, delVars>>
      BY <2>2 DEF DeliverRuns
    <3>6. QED
      BY <1>1, <3>4, <3>5 DEF ViewOK, delVars
  <2>3. CASE DeliverRun
    <3>1. call.request.run \in Runs
      BY <1>1, <2>3 DEF DeliverRun, Answered, WellFormed, Requests
    <3>2. QED
      BY <1>1, <2>3, <3>1, PanelAssumption DEF DeliverRun, ViewOK, delVars, PanelAssumption
  <2>4. CASE DeliverEnabled
    <3>1. call.request.id \in Routines
      BY <1>1, <2>4 DEF DeliverEnabled, Answered, WellFormed, Changes
    <3>2. routine' \in Rows /\ routine' # NoRow /\ routine'.id \in Routines
      BY <1>2, <1>4, <2>4, <3>1 DEF DeliverEnabled
    <3>3. QED
      BY <1>7, <2>4, <3>2 DEF DeliverEnabled
  <2>5. CASE DeliverDeleted
    BY <1>6, <2>5 DEF DeliverDeleted
  <2>6. CASE DeliverSaved
    <3>1. \/ routine' = routine
          \/ /\ routine # NoRow
             /\ routine' = Row(routine.id, call.data[routine.id])
      BY <2>6 DEF DeliverSaved
    <3>2. routine \in Rows /\ (view = "routine" => routine # NoRow)
          /\ (routine # NoRow => routine.id \in Routines)
      BY <1>1 DEF ViewOK
    <3>3. QED
      BY <1>2, <1>4, <1>7, <2>6, <3>1, <3>2 DEF DeliverSaved
  <2>7. CASE DeliverRoutine \/ DeliverPreview \/ DeliverFailure
    BY <1>1, <2>7, ViewUnchanged DEF DeliverRoutine, DeliverPreview, DeliverFailure
  <2>8. QED
    BY <1>10, <2>1, <2>2, <2>3, <2>4, <2>5, <2>6, <2>7 DEF Deliver
<1>11. ASSUME NEW id \in Routines, OthersChange(id) PROVE ViewOK'
  BY <1>1, <1>11, ViewUnchanged DEF OthersChange
<1>12. QED
  BY <1>8, <1>9, <1>10, <1>11 DEF Next

LEMMA FormStays ==
    ASSUME PanelInv, Next
    PROVE  FormOK'
<1>1. FormOK /\ GoodCall(call) /\ WellFormed(call.request)
  BY DEF PanelInv, GoodCall
<1>2. NoRow \in Rows
  BY PanelAssumption DEF PanelAssumption, NoRow, Row, Rows
<1>3. StopEditing => FormOK'
  BY <1>2 DEF StopEditing, FormOK
<1>4. CASE UserStep
  <2>1. CASE StartNew
    BY <1>1, <1>2, <2>1 DEF StartNew, FormOK
  <2>2. CASE PressSave
    BY <1>1, <2>2 DEF PressSave, FormOK
  <2>3. CASE CancelEdit
    BY <1>3, <2>3 DEF CancelEdit
  <2>4. CASE UserStep /\ ~StartNew /\ ~PressSave /\ ~CancelEdit
    BY <1>1, <2>4, FormUnchanged
       DEF UserStep, OpenRoutine, OpenRun, TurnRuns, Back, SetEnabled, AskDelete, KeepRoutine,
           DeleteRoutine, StartEdit, Preview
  <2>5. QED
    BY <1>4, <2>1, <2>2, <2>3, <2>4
<1>5. CASE SaveFires
  BY <1>1, <1>5 DEF SaveFires, FormOK
<1>6. CASE Poll \/ Serve \/ LoseAnswer
  BY <1>1, <1>6, FormUnchanged DEF Poll, Serve, ServeRead, ServeChange, ServeCreate, LoseAnswer
<1>7. CASE Deliver
  <2>1. CASE DeliverRoutine
    <3>1. call.request.id \in Routines /\ call.data \in [Routines -> 0..MaxRevision]
      BY <1>1, <2>1 DEF DeliverRoutine, Answered, WellFormed, GoodCall
    <3>2. editTarget' \in Rows /\ editTarget'.id \in Routines
      BY <2>1, <3>1, RowFacts DEF DeliverRoutine
    <3>3. QED
      BY <1>1, <2>1, <3>2 DEF DeliverRoutine, FormOK
  <2>2. CASE DeliverSaved
    BY <1>1, <1>3, <2>2, FormUnchanged DEF DeliverSaved
  <2>3. CASE Deliver /\ ~DeliverRoutine /\ ~DeliverSaved
    BY <1>1, <2>3, FormUnchanged
       DEF Deliver, DeliverDashboard, DeliverRuns, DeliverRun, DeliverEnabled, DeliverDeleted,
           DeliverPreview, DeliverFailure
  <2>4. QED
    BY <1>7, <2>1, <2>2, <2>3
<1>8. ASSUME NEW id \in Routines, OthersChange(id) PROVE FormOK'
  BY <1>1, <1>8, FormUnchanged DEF OthersChange
<1>9. QED
  BY <1>4, <1>5, <1>6, <1>7, <1>8 DEF Next

LEMMA PanelStays == PanelInv /\ [Next]_vars => PanelInv'
<1>1. PanelInv /\ Next => PanelInv'
  <2> SUFFICES ASSUME PanelInv, Next PROVE PanelInv'
    OBVIOUS
  <2>1. GoodCall(call') /\ RowsOK' /\ ViewOK' /\ FormOK'
    BY CallStays, RowsStay, ViewStays, FormStays
  <2>2. QED
    BY <2>1 DEF PanelInv, GoodCall
<1>2. PanelInv /\ UNCHANGED vars => PanelInv'
  <2> SUFFICES ASSUME PanelInv, UNCHANGED vars PROVE PanelInv'
    OBVIOUS
  <2>1. /\ UNCHANGED <<revision, deleted, failures, known, connected, call>>
        /\ UNCHANGED <<viewVars, delVars>> /\ UNCHANGED editVars
    BY DEF vars, rowVars, linkVars
  <2>2. RowsOK' /\ ViewOK' /\ FormOK'
    BY <2>1, RowsUnchanged, ViewUnchanged, FormUnchanged DEF PanelInv, RowsOK
  <2>3. QED
    BY <2>1, <2>2 DEF PanelInv, GoodCall
<1>3. QED
  BY <1>1, <1>2

LEMMA PanelAlways == Spec => []PanelInv
<1>1. QED
  BY PanelStarts, PanelStays, PTL DEF Spec

(* Every reachable state is well typed: a reply is to a request that could  *)
(* be made, and no view is left without what it shows.                      *)
THEOREM PanelTyped == Spec => []TypeOK
<1>1. PanelInv => TypeOK
  <2> SUFFICES ASSUME PanelInv PROVE TypeOK
    OBVIOUS
  <2>1. /\ call.phase \in {"idle", "asked", "answered", "refused", "failed"}
        /\ call.data \in [Routines -> 0..MaxRevision]
        /\ call.request \in Requests /\ (Busy <=> call.request.op # "none")
    BY DEF PanelInv, GoodCall, WellFormed, Busy
  <2>2. call.request.op \in Reads \cup Changes \cup {"create_routine", "none"}
    BY <2>1 DEF Requests
  <2>3. RowsOK /\ ViewOK /\ FormOK
    BY DEF PanelInv
  <2>4. QED
    BY <2>1, <2>2, <2>3 DEF RowsOK, ViewOK, FormOK, TypeOK
<1>2. QED
  BY <1>1, PanelAlways, PTL
-----------------------------------------------------------------------------
(* The question on the screen is about the routine on the screen, and a     *)
(* reply that may still replace that row is about the same routine.         *)
QuestionInv ==
    confirming => /\ askedFor = routine.id
                  /\ call.request.op = "set_enabled" => call.request.id = routine.id

LEMMA QuestionStays ==
    ASSUME PanelInv, QuestionInv, Next
    PROVE  QuestionInv'
<1>1. RowsOK /\ ViewOK /\ FormOK /\ GoodCall(call) /\ WellFormed(call.request)
  BY DEF PanelInv, GoodCall
<1>2. \A id \in Routines, n \in 0..MaxRevision : Row(id, n).id = id
  BY RowFacts
<1>3. NoCall.request.op = "none" /\ \A q : Asked(q).request = q
  BY RequestFacts DEF NoCall, Asked
<1>4. /\ \A op : Request(op).op = op
      /\ \A id, n : RunsOf(id, n).op = "list_runs"
      /\ \A r : RunOf(r).op = "get_run"
      /\ \A op, row : OfRow(op, row).op = op /\ OfRow(op, row).id = row.id
  BY DEF Request, RunsOf, RunOf, OfRow
<1>5. ASSUME NEW q, Ask(q) PROVE call' = call \/ call'.request = q
  BY <1>3, <1>5 DEF Ask
<1>6. CASE UserStep
  <2>1. ASSUME NEW id \in Routines, OpenRoutine(id) PROVE QuestionInv'
    BY <2>1 DEF OpenRoutine, QuestionInv
  <2>2. ASSUME NEW r \in Runs, OpenRun(r) PROVE QuestionInv'
    <3>1. call' = call \/ call'.request = RunOf(r)
      BY <1>5, <2>2 DEF OpenRun
    <3>2. QED
      BY <1>4, <2>2, <3>1 DEF OpenRun, QuestionInv, delVars
  <2>3. ASSUME NEW n \in {page - 1, page + 1}, TurnRuns(n) PROVE QuestionInv'
    <3>1. call' = call \/ call'.request = RunsOf(routine.id, n)
      BY <1>5, <2>3 DEF TurnRuns
    <3>2. QED
      BY <1>4, <2>3, <3>1 DEF TurnRuns, QuestionInv, delVars
  <2>4. CASE Back
    BY <2>4 DEF Back, StepBack, QuestionInv
  <2>5. CASE SetEnabled \/ DeleteRoutine \/ StartEdit
    <3>1. call' = call \/ \E op : call'.request = OfRow(op, routine)
      BY <1>5, <2>5 DEF SetEnabled, DeleteRoutine, StartEdit
    <3>2. UNCHANGED <<viewVars, delVars>>
      BY <2>5 DEF SetEnabled, DeleteRoutine, StartEdit
    <3>3. QED
      BY <1>4, <3>1, <3>2 DEF QuestionInv, viewVars, delVars
  <2>6. CASE AskDelete
    BY <1>1, <2>6 DEF AskDelete, QuestionInv, Busy, GoodCall, linkVars, viewVars
  <2>7. CASE KeepRoutine
    BY <2>7 DEF KeepRoutine, QuestionInv
  <2>8. CASE StartNew \/ CancelEdit
    BY <2>8 DEF StartNew, CancelEdit, QuestionInv, linkVars, viewVars, delVars
  <2>9. CASE Preview
    <3>1. call' = call \/ call'.request = Request("preview_schedule")
      BY <1>5, <2>9 DEF Preview
    <3>2. QED
      BY <1>4, <2>9, <3>1 DEF Preview, QuestionInv, viewVars, delVars
  <2>10. CASE PressSave
    <3>1. call' = call \/ call'.request.op \in {"create_routine", "update_routine"}
      BY <1>3, <1>4, <2>10 DEF PressSave, SendDraft
    <3>2. QED
      BY <2>10, <3>1 DEF PressSave, QuestionInv, viewVars, delVars
  <2>11. QED
    BY <1>6, <2>1, <2>2, <2>3, <2>4, <2>5, <2>6, <2>7, <2>8, <2>9, <2>10 DEF UserStep
<1>7. CASE SaveFires \/ Poll
  <2>1. call' = call \/ call'.request.op \in {"create_routine", "update_routine", "dashboard"}
    BY <1>3, <1>4, <1>5, <1>7 DEF SaveFires, SendDraft, Poll, Sync
  <2>2. QED
    BY <1>7, <2>1 DEF SaveFires, Poll, QuestionInv, viewVars, delVars
<1>8. CASE Serve \/ LoseAnswer
  <2>1. call'.request = call.request
    BY <1>1, <1>8
       DEF Serve, ServeRead, ServeChange, ServeCreate, Answer, Refuse, LoseAnswer, GoodCall
  <2>2. UNCHANGED <<viewVars, delVars>>
    BY <1>8 DEF Serve, ServeRead, ServeChange, ServeCreate, LoseAnswer
  <2>3. QED
    BY <2>1, <2>2 DEF QuestionInv, viewVars, delVars
<1>9. CASE Deliver
  <2>1. CASE DeliverDashboard
    <3>1. call'.request.op # "set_enabled" /\ UNCHANGED delVars
      BY <1>3, <1>4, <2>1 DEF DeliverDashboard
    <3>2. routine'.id = routine.id
      <4>1. view = "routine" => routine.id \in Routines /\ call.data[routine.id] \in 0..MaxRevision
        BY <1>1 DEF GoodCall, ViewOK
      <4>2. QED
        BY <1>2, <2>1, <4>1 DEF DeliverDashboard
    <3>3. QED
      BY <3>1, <3>2 DEF QuestionInv, delVars
  <2>2. CASE DeliverRuns
    <3>1. call'.request.op # "set_enabled"
      BY <1>3, <1>4, <2>2 DEF DeliverRuns
    <3>2. QED
      BY <2>2, <3>1 DEF DeliverRuns, QuestionInv, delVars
  <2>3. CASE DeliverRun \/ DeliverRoutine \/ DeliverPreview \/ DeliverFailure
    <3>1. call'.request.op # "set_enabled"
      BY <1>3, <2>3 DEF DeliverRun, DeliverRoutine, DeliverPreview, DeliverFailure
    <3>2. UNCHANGED <<routine, delVars>>
      BY <2>3 DEF DeliverRun, DeliverRoutine, DeliverPreview, DeliverFailure, viewVars
    <3>3. QED
      BY <3>1, <3>2 DEF QuestionInv, delVars
  <2>4. CASE DeliverEnabled
    <3>1. call.request.id \in Routines /\ call.request.op = "set_enabled"
      BY <1>1, <2>4 DEF DeliverEnabled, Answered, WellFormed, Changes
    <3>2. routine'.id = call.request.id
      BY <1>1, <1>2, <2>4, <3>1 DEF DeliverEnabled, GoodCall
    <3>3. call'.request.op # "set_enabled"
      BY <1>3, <1>4, <2>4 DEF DeliverEnabled
    <3>4. QED
      BY <2>4, <3>1, <3>2, <3>3 DEF DeliverEnabled, QuestionInv, delVars
  <2>5. CASE DeliverDeleted
    BY <2>5 DEF DeliverDeleted, StepBack, QuestionInv
  <2>6. CASE DeliverSaved
    <3>1. routine'.id = routine.id
      BY <1>1, <1>2, <2>6 DEF DeliverSaved, GoodCall, RowsOK, ViewOK, FormOK
    <3>2. call'.request.op # "set_enabled"
      BY <1>3, <1>4, <2>6 DEF DeliverSaved
    <3>3. QED
      BY <2>6, <3>1, <3>2 DEF DeliverSaved, QuestionInv, delVars
  <2>7. QED
    BY <1>9, <2>1, <2>2, <2>3, <2>4, <2>5, <2>6 DEF Deliver
<1>10. ASSUME NEW id \in Routines, OthersChange(id) PROVE QuestionInv'
  BY <1>10 DEF OthersChange, QuestionInv, linkVars, viewVars, delVars
<1>11. QED
  BY <1>6, <1>7, <1>8, <1>9, <1>10 DEF Next

(* The only step that asks for a deletion is the confirmed button.          *)
LEMMA DeletionAsked ==
    ASSUME PanelInv, QuestionInv, Next, ~Busy, call'.request.op = "delete_routine"
    PROVE  call'.request.id = askedFor
<1>1. call.request.op = "none" /\ call.phase = "idle"
  BY DEF PanelInv, GoodCall, Busy
<1>2. call' # call
  BY <1>1
<1>3. NoCall.request.op = "none" /\ \A q : Asked(q).request = q
  BY RequestFacts DEF NoCall, Asked
<1>4. /\ \A op : Request(op).op = op
      /\ \A id, n : RunsOf(id, n).op = "list_runs"
      /\ \A r : RunOf(r).op = "get_run"
      /\ \A op, row : OfRow(op, row).op = op /\ OfRow(op, row).id = row.id
  BY DEF Request, RunsOf, RunOf, OfRow
<1>5. ~Serve /\ ~LoseAnswer /\ ~Deliver
  BY <1>1
     DEF Busy, Serve, ServeRead, ServeChange, ServeCreate, LoseAnswer, Deliver, Answered,
         DeliverDashboard, DeliverRuns, DeliverRun, DeliverRoutine, DeliverEnabled,
         DeliverDeleted, DeliverSaved, DeliverPreview, DeliverFailure
<1>6. CASE DeleteRoutine
  BY <1>3, <1>4, <1>6 DEF DeleteRoutine, Ask, QuestionInv
<1>7. ~SendDraft /\ ~Sync
  BY <1>2, <1>3, <1>4 DEF SendDraft, Sync, Ask
<1>8. \A q : Ask(q) => q.op = "delete_routine"
  BY <1>3 DEF Ask
<1>9. ~SaveFires /\ ~Poll /\ \A id \in Routines : ~OthersChange(id)
  BY <1>2, <1>7 DEF SaveFires, Poll, OthersChange, linkVars
<1>10. CASE UserStep
  <2>1. /\ \A id \in Routines : ~OpenRoutine(id)
        /\ \A r \in Runs : ~OpenRun(r)
        /\ \A n : ~TurnRuns(n)
    BY <1>4, <1>8 DEF OpenRoutine, OpenRun, TurnRuns
  <2>2. ~Back /\ ~PressSave
    BY <1>2, <1>7 DEF Back, PressSave
  <2>3. ~SetEnabled /\ ~StartEdit /\ ~Preview
    BY <1>4, <1>8 DEF SetEnabled, StartEdit, Preview
  <2>4. ~AskDelete /\ ~KeepRoutine /\ ~StartNew /\ ~CancelEdit
    BY <1>2 DEF AskDelete, KeepRoutine, StartNew, CancelEdit, linkVars
  <2>5. QED
    BY <1>6, <1>10, <2>1, <2>2, <2>3, <2>4 DEF UserStep
<1>11. QED
  BY <1>5, <1>9, <1>10 DEF Next

(* A confirmed deletion is of the routine the user was asked about.         *)
THEOREM DeletionConfirmed == Spec => DeletesWhatWasAsked
<1>1. Init => QuestionInv
  BY DEF Init, QuestionInv
<1>2. PanelInv /\ QuestionInv /\ [Next]_vars => QuestionInv'
  <2>1. UNCHANGED vars /\ QuestionInv => QuestionInv'
    BY DEF vars, linkVars, viewVars, delVars, QuestionInv
  <2>2. QED
    BY <2>1, QuestionStays
<1>3. PanelInv /\ QuestionInv /\ [Next]_vars
        => [call'.request.op = "delete_routine" /\ ~Busy => call'.request.id = askedFor]_vars
  BY DeletionAsked
<1>4. QED
  BY <1>1, <1>2, <1>3, PanelAlways, PTL DEF Spec, DeletesWhatWasAsked
=============================================================================
