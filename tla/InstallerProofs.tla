-------------------------- MODULE InstallerProofs --------------------------
(* Theorems about Installer, for every set of releases, items and edits and *)
(* any number of operations and faults.                                     *)
(*                                                                          *)
(* A step of an operation relies on what steps before it have done: it      *)
(* removes a folder because the lock was taken and not yet given back.  A   *)
(* rule says which steps rely on which.  That the programs keep to the      *)
(* rules is proved of the lists alone; the invariants say that what the     *)
(* steps left rely on, and no step left will do, holds now.                 *)
EXTENDS Installer, SequenceTheorems, TLAPS

(***************************************************************************)
(* The programs, as the steps they come to.                                *)
(***************************************************************************)
(* A step is told by what it does and what it does it to.                   *)
LEMMA StepFields == \A a, b : Step(a, b).do = a /\ Step(a, b).on = b
BY DEF Step

LEMMA Steps ==
    /\ \A a \in PlainSteps : All(a) \in AnyStep
    /\ \A a \in {"drop", "copy"}, p \in Parts : Step(a, p) \in AnyStep
    /\ \A s \in AnyStep : s.do \in PlainSteps => s = All(s.do)
    /\ \A s \in AnyStep : s.do \in {"drop", "copy"} => s.on \in Parts /\ s = Step(s.do, s.on)
    /\ \A s \in AnyStep : s.do \in PlainSteps \cup {"drop", "copy"}
<1>1. \A a \in PlainSteps : All(a) \in AnyStep
  BY DEF All, Step, AnyStep
<1>2. \A a \in {"drop", "copy"}, p \in Parts : Step(a, p) \in AnyStep
  BY DEF Step, AnyStep
<1>3. \A s \in [do : PlainSteps, on : {"all"}] : s.do \in PlainSteps /\ s = All(s.do)
  BY DEF All, Step
<1>4. \A s \in [do : {"drop", "copy"}, on : Parts] :
         s.do \in {"drop", "copy"} /\ s.on \in Parts /\ s = Step(s.do, s.on)
  BY DEF Step
<1>5. \A d \in {"drop", "copy"} : d \notin PlainSteps
  BY DEF PlainSteps
<1>. QED BY <1>1, <1>2, <1>3, <1>4, <1>5 DEF AnyStep

(* Two lists after each other.                                              *)
LEMMA JoinIs ==
    ASSUME NEW s \in Seq(AnyStep), NEW t \in Seq(AnyStep)
    PROVE  /\ s \o t \in Seq(AnyStep) /\ Len(s \o t) = Len(s) + Len(t)
           /\ \A i \in 1..(Len(s) + Len(t)) :
                (s \o t)[i] = IF i <= Len(s) THEN s[i] ELSE t[i - Len(s)]
BY ConcatProperties

LEMMA StopIs ==
    LET s == StopSteps IN
      /\ s \in Seq(AnyStep) /\ Len(s) = 3
      /\ s[1] = All("disableUnit") /\ s[2] = All("lock")
      /\ s[3] = All("dispatchOff")
<1>1. <<All("disableUnit"), All("lock"), All("dispatchOff")>> \in Seq(AnyStep)
  BY Steps DEF PlainSteps, Parts
<1>. QED BY <1>1 DEF StopSteps

LEMMA WidgetIs ==
    LET s == WidgetSteps IN
      /\ s \in Seq(AnyStep) /\ Len(s) = 3
      /\ s[1] = All("readShell") /\ s[2] = All("compareShell")
      /\ s[3] = All("replaceShell")
<1>1. <<All("readShell"), All("compareShell"), All("replaceShell")>> \in Seq(AnyStep)
  BY Steps DEF PlainSteps, Parts
<1>. QED BY <1>1 DEF WidgetSteps

LEMMA BackupIs ==
    LET s == BackupSteps IN
      /\ s \in Seq(AnyStep) /\ Len(s) = 5
      /\ s[1] = All("disableUnit") /\ s[2] = All("lock")
      /\ s[3] = All("dispatchOff") /\ s[4] = All("copyAll") /\ s[5] = All("seal")
<1>. DEFINE a == <<All("copyAll"), All("seal")>>
<1>1. a \in Seq(AnyStep)
  BY Steps DEF PlainSteps, Parts
<1>2. /\ Len(a) = 2
      /\ a[1] = All("copyAll") /\ a[2] = All("seal")
  OBVIOUS
<1>3. BackupSteps = StopSteps \o a
  BY DEF BackupSteps
<1>. HIDE DEF a
<1>4. /\ BackupSteps \in Seq(AnyStep) /\ Len(BackupSteps) = Len(StopSteps) + Len(a)
      /\ \A i \in 1..(Len(StopSteps) + Len(a)) :
            BackupSteps[i] = IF i <= Len(StopSteps) THEN StopSteps[i] ELSE a[i - Len(StopSteps)]
  BY StopIs, <1>1, <1>2, <1>3, JoinIs
<1>. QED BY StopIs, <1>1, <1>2, <1>4

LEMMA InstallIs ==
    LET s == InstallSteps IN
      /\ s \in Seq(AnyStep) /\ Len(s) = 1
      /\ s[1] = All("place")
<1>1. <<All("place")>> \in Seq(AnyStep)
  BY Steps DEF PlainSteps, Parts
<1>. QED BY <1>1 DEF InstallSteps

LEMMA EnableIs ==
    LET s == EnableSteps IN
      /\ s \in Seq(AnyStep) /\ Len(s) = 4
      /\ s[1] = All("requirePlugin") /\ s[2] = All("readShell")
      /\ s[3] = All("compareShell") /\ s[4] = All("replaceShell")
<1>. DEFINE a == <<All("requirePlugin")>>
<1>1. a \in Seq(AnyStep)
  BY Steps DEF PlainSteps, Parts
<1>2. /\ Len(a) = 1
      /\ a[1] = All("requirePlugin")
  OBVIOUS
<1>3. EnableSteps = a \o WidgetSteps
  BY DEF EnableSteps
<1>. HIDE DEF a
<1>4. /\ EnableSteps \in Seq(AnyStep) /\ Len(EnableSteps) = Len(a) + Len(WidgetSteps)
      /\ \A i \in 1..(Len(a) + Len(WidgetSteps)) :
            EnableSteps[i] = IF i <= Len(a) THEN a[i] ELSE WidgetSteps[i - Len(a)]
  BY <1>1, <1>2, WidgetIs, <1>3, JoinIs
<1>. QED BY WidgetIs, <1>1, <1>2, <1>4

LEMMA DisableIs ==
    LET s == DisableSteps IN
      /\ s \in Seq(AnyStep) /\ Len(s) = 6
      /\ s[1] = All("disableUnit") /\ s[2] = All("lock")
      /\ s[3] = All("dispatchOff") /\ s[4] = All("readShell")
      /\ s[5] = All("compareShell") /\ s[6] = All("replaceShell")
<1>1. DisableSteps = StopSteps \o WidgetSteps
  BY DEF DisableSteps
<1>2. /\ DisableSteps \in Seq(AnyStep) /\ Len(DisableSteps) = Len(StopSteps) + Len(WidgetSteps)
      /\ \A i \in 1..(Len(StopSteps) + Len(WidgetSteps)) :
            DisableSteps[i] = IF i <= Len(StopSteps) THEN StopSteps[i] ELSE WidgetSteps[i - Len(StopSteps)]
  BY StopIs, WidgetIs, <1>1, JoinIs
<1>. QED BY StopIs, WidgetIs, <1>2

LEMMA SetupIs ==
    LET s == SetupSteps IN
      /\ s \in Seq(AnyStep) /\ Len(s) = 11
      /\ s[1] = All("requirePlugin") /\ s[2] = All("disableUnit")
      /\ s[3] = All("lock") /\ s[4] = All("dispatchOff") /\ s[5] = All("venv")
      /\ s[6] = All("schema") /\ s[7] = All("dispatchOff") /\ s[8] = All("settings")
      /\ s[9] = All("writeUnit") /\ s[10] = All("unlock") /\ s[11] = All("start")
<1>. DEFINE a == <<All("requirePlugin")>>
            b == <<All("venv"), All("schema"), All("dispatchOff"), All("settings"),
                    All("writeUnit"), All("unlock"), All("start")>>
            u == a \o StopSteps
<1>1. a \in Seq(AnyStep)
  BY Steps DEF PlainSteps, Parts
<1>2. /\ Len(a) = 1
      /\ a[1] = All("requirePlugin")
  OBVIOUS
<1>3. b \in Seq(AnyStep)
  BY Steps DEF PlainSteps, Parts
<1>4. /\ Len(b) = 7
      /\ b[1] = All("venv") /\ b[2] = All("schema") /\ b[3] = All("dispatchOff")
      /\ b[4] = All("settings") /\ b[5] = All("writeUnit") /\ b[6] = All("unlock")
      /\ b[7] = All("start")
  OBVIOUS
<1>5. SetupSteps = u \o b
  BY DEF SetupSteps
<1>. HIDE DEF a, b
<1>6. /\ u \in Seq(AnyStep) /\ Len(u) = Len(a) + Len(StopSteps)
      /\ \A i \in 1..(Len(a) + Len(StopSteps)) :
            u[i] = IF i <= Len(a) THEN a[i] ELSE StopSteps[i - Len(a)]
  BY <1>1, <1>2, StopIs, JoinIs
<1>. HIDE DEF u
<1>7. /\ SetupSteps \in Seq(AnyStep) /\ Len(SetupSteps) = Len(u) + Len(b)
      /\ \A i \in 1..(Len(u) + Len(b)) :
            SetupSteps[i] = IF i <= Len(u) THEN u[i] ELSE b[i - Len(u)]
  BY <1>6, <1>3, <1>4, <1>5, JoinIs
<1>. QED BY StopIs, <1>1, <1>2, <1>3, <1>4, <1>6, <1>7

LEMMA UpgradeIs ==
    LET s == UpgradeSteps IN
      /\ s \in Seq(AnyStep) /\ Len(s) = 19
      /\ s[1] = All("disableUnit") /\ s[2] = All("lock")
      /\ s[3] = All("dispatchOff") /\ s[4] = All("copyAll") /\ s[5] = All("seal")
      /\ s[6] = All("requirePlugin") /\ s[7] = Step("drop", "plugin")
      /\ s[8] = All("place") /\ s[9] = All("requirePlugin")
      /\ s[10] = All("disableUnit") /\ s[11] = All("lock")
      /\ s[12] = All("dispatchOff") /\ s[13] = All("venv") /\ s[14] = All("schema")
      /\ s[15] = All("dispatchOff") /\ s[16] = All("settings")
      /\ s[17] = All("writeUnit") /\ s[18] = All("unlock") /\ s[19] = All("start")
<1>. DEFINE a == <<All("requirePlugin"), Step("drop", "plugin"), All("place")>>
            u == BackupSteps \o a
<1>1. a \in Seq(AnyStep)
  BY Steps DEF PlainSteps, Parts
<1>2. /\ Len(a) = 3
      /\ a[1] = All("requirePlugin") /\ a[2] = Step("drop", "plugin")
      /\ a[3] = All("place")
  OBVIOUS
<1>3. UpgradeSteps = u \o SetupSteps
  BY DEF UpgradeSteps
<1>. HIDE DEF a
<1>4. /\ u \in Seq(AnyStep) /\ Len(u) = Len(BackupSteps) + Len(a)
      /\ \A i \in 1..(Len(BackupSteps) + Len(a)) :
            u[i] = IF i <= Len(BackupSteps) THEN BackupSteps[i] ELSE a[i - Len(BackupSteps)]
  BY BackupIs, <1>1, <1>2, JoinIs
<1>. HIDE DEF u
<1>5. /\ UpgradeSteps \in Seq(AnyStep) /\ Len(UpgradeSteps) = Len(u) + Len(SetupSteps)
      /\ \A i \in 1..(Len(u) + Len(SetupSteps)) :
            UpgradeSteps[i] = IF i <= Len(u) THEN u[i] ELSE SetupSteps[i - Len(u)]
  BY <1>4, SetupIs, <1>3, JoinIs
<1>. QED BY BackupIs, SetupIs, <1>1, <1>2, <1>4, <1>5

LEMMA RollbackIs ==
    LET s == RollbackSteps IN
      /\ s \in Seq(AnyStep) /\ Len(s) = 20
      /\ s[1] = All("verify") /\ s[2] = All("disableUnit") /\ s[3] = All("lock")
      /\ s[4] = All("dispatchOff") /\ s[5] = Step("drop", "plugin")
      /\ s[6] = Step("copy", "plugin") /\ s[7] = All("unlink")
      /\ s[8] = Step("drop", "state") /\ s[9] = All("make")
      /\ s[10] = Step("copy", "state") /\ s[11] = Step("drop", "config")
      /\ s[12] = Step("copy", "config") /\ s[13] = All("restoreUnit")
      /\ s[14] = All("unlock") /\ s[15] = All("disableUnit") /\ s[16] = All("lock")
      /\ s[17] = All("dispatchOff") /\ s[18] = All("readShell")
      /\ s[19] = All("compareShell") /\ s[20] = All("replaceShell")
<1>. DEFINE a == <<All("verify")>>
            b == <<Step("drop", "plugin"), Step("copy", "plugin"), All("unlink"),
                    Step("drop", "state"), All("make"), Step("copy", "state"),
                    Step("drop", "config"), Step("copy", "config"),
                    All("restoreUnit"), All("unlock")>>
            u == a \o StopSteps
            v == u \o b
            w == v \o StopSteps
<1>1. a \in Seq(AnyStep)
  BY Steps DEF PlainSteps, Parts
<1>2. /\ Len(a) = 1
      /\ a[1] = All("verify")
  OBVIOUS
<1>3. b \in Seq(AnyStep)
  BY Steps DEF PlainSteps, Parts
<1>4. /\ Len(b) = 10
      /\ b[1] = Step("drop", "plugin") /\ b[2] = Step("copy", "plugin")
      /\ b[3] = All("unlink") /\ b[4] = Step("drop", "state") /\ b[5] = All("make")
      /\ b[6] = Step("copy", "state") /\ b[7] = Step("drop", "config")
      /\ b[8] = Step("copy", "config") /\ b[9] = All("restoreUnit")
      /\ b[10] = All("unlock")
  OBVIOUS
<1>5. RollbackSteps = w \o WidgetSteps
  BY DEF RollbackSteps
<1>. HIDE DEF a, b
<1>6. /\ u \in Seq(AnyStep) /\ Len(u) = Len(a) + Len(StopSteps)
      /\ \A i \in 1..(Len(a) + Len(StopSteps)) :
            u[i] = IF i <= Len(a) THEN a[i] ELSE StopSteps[i - Len(a)]
  BY <1>1, <1>2, StopIs, JoinIs
<1>. HIDE DEF u
<1>7. /\ v \in Seq(AnyStep) /\ Len(v) = Len(u) + Len(b)
      /\ \A i \in 1..(Len(u) + Len(b)) :
            v[i] = IF i <= Len(u) THEN u[i] ELSE b[i - Len(u)]
  BY <1>6, <1>3, <1>4, JoinIs
<1>. HIDE DEF v
<1>8. /\ w \in Seq(AnyStep) /\ Len(w) = Len(v) + Len(StopSteps)
      /\ \A i \in 1..(Len(v) + Len(StopSteps)) :
            w[i] = IF i <= Len(v) THEN v[i] ELSE StopSteps[i - Len(v)]
  BY <1>7, StopIs, JoinIs
<1>. HIDE DEF w
<1>9. /\ RollbackSteps \in Seq(AnyStep) /\ Len(RollbackSteps) = Len(w) + Len(WidgetSteps)
      /\ \A i \in 1..(Len(w) + Len(WidgetSteps)) :
            RollbackSteps[i] = IF i <= Len(w) THEN w[i] ELSE WidgetSteps[i - Len(w)]
  BY <1>8, WidgetIs, <1>5, JoinIs
<1>. QED BY StopIs, WidgetIs, <1>1, <1>2, <1>3, <1>4, <1>6, <1>7, <1>8, <1>9

LEMMA RecoveryIs ==
    LET s == RecoverySteps IN
      /\ s \in Seq(AnyStep) /\ Len(s) = 21
      /\ s[1] = All("verify") /\ s[2] = All("disableUnit") /\ s[3] = All("lock")
      /\ s[4] = All("dispatchOff") /\ s[5] = Step("drop", "plugin")
      /\ s[6] = Step("copy", "plugin") /\ s[7] = All("unlink")
      /\ s[8] = Step("drop", "state") /\ s[9] = All("make")
      /\ s[10] = Step("copy", "state") /\ s[11] = Step("drop", "config")
      /\ s[12] = Step("copy", "config") /\ s[13] = All("restoreUnit")
      /\ s[14] = All("unlock") /\ s[15] = All("disableUnit") /\ s[16] = All("lock")
      /\ s[17] = All("dispatchOff") /\ s[18] = All("readShell")
      /\ s[19] = All("compareShell") /\ s[20] = All("replaceShell")
      /\ s[21] = All("record")
<1>. DEFINE a == <<All("record")>>
<1>1. a \in Seq(AnyStep)
  BY Steps DEF PlainSteps, Parts
<1>2. /\ Len(a) = 1
      /\ a[1] = All("record")
  OBVIOUS
<1>3. RecoverySteps = RollbackSteps \o a
  BY DEF RecoverySteps
<1>. HIDE DEF a
<1>4. /\ RecoverySteps \in Seq(AnyStep) /\ Len(RecoverySteps) = Len(RollbackSteps) + Len(a)
      /\ \A i \in 1..(Len(RollbackSteps) + Len(a)) :
            RecoverySteps[i] = IF i <= Len(RollbackSteps) THEN RollbackSteps[i] ELSE a[i - Len(RollbackSteps)]
  BY RollbackIs, <1>1, <1>2, <1>3, JoinIs
<1>. QED BY RollbackIs, <1>1, <1>2, <1>4

LEMMA UninstallIs ==
    LET s == UninstallSteps IN
      /\ s \in Seq(AnyStep) /\ Len(s) = 10
      /\ s[1] = All("disableUnit") /\ s[2] = All("lock")
      /\ s[3] = All("dispatchOff") /\ s[4] = All("copyAll") /\ s[5] = All("seal")
      /\ s[6] = All("readShell") /\ s[7] = All("compareShell")
      /\ s[8] = All("replaceShell") /\ s[9] = Step("drop", "plugin")
      /\ s[10] = All("dropUnit")
<1>. DEFINE a == <<Step("drop", "plugin"), All("dropUnit")>>
            u == BackupSteps \o WidgetSteps
<1>1. a \in Seq(AnyStep)
  BY Steps DEF PlainSteps, Parts
<1>2. /\ Len(a) = 2
      /\ a[1] = Step("drop", "plugin") /\ a[2] = All("dropUnit")
  OBVIOUS
<1>3. UninstallSteps = u \o a
  BY DEF UninstallSteps
<1>. HIDE DEF a
<1>4. /\ u \in Seq(AnyStep) /\ Len(u) = Len(BackupSteps) + Len(WidgetSteps)
      /\ \A i \in 1..(Len(BackupSteps) + Len(WidgetSteps)) :
            u[i] = IF i <= Len(BackupSteps) THEN BackupSteps[i] ELSE WidgetSteps[i - Len(BackupSteps)]
  BY BackupIs, WidgetIs, JoinIs
<1>. HIDE DEF u
<1>5. /\ UninstallSteps \in Seq(AnyStep) /\ Len(UninstallSteps) = Len(u) + Len(a)
      /\ \A i \in 1..(Len(u) + Len(a)) :
            UninstallSteps[i] = IF i <= Len(u) THEN u[i] ELSE a[i - Len(u)]
  BY <1>4, <1>1, <1>2, <1>3, JoinIs
<1>. QED BY BackupIs, WidgetIs, <1>1, <1>2, <1>4, <1>5

(***************************************************************************)
(* The rules.  A step of r.steps relies on one of r.by before it, and on   *)
(* none of r.until in between.                                             *)
(***************************************************************************)
Own(s, r, j)  == \E i \in 1..(j - 1) :
                    s[i] \in r.by /\ \A k \in (i + 1)..(j - 1) : s[k] \notin r.until
Free(s, r, j) == \A k \in 1..(j - 1) : s[k] \notin r.until

(* s holds a step that relies on what was done before s.                    *)
Relies(s, r) == \E j \in 1..Len(s) : s[j] \in r.steps /\ ~Own(s, r, j)
(* No step of s relies on what a step of s undoes.                          *)
Keeps(s, r)  == \A j \in 1..Len(s) : s[j] \in r.steps => Own(s, r, j) \/ Free(s, r, j)

Rule(by, until, steps) == [by |-> by, until |-> until, steps |-> steps]

(* Only who has the lock touches the state, backs it up, or records.        *)
LockRule     == Rule({All("lock")}, {All("unlock"), All("unlink")},
                     {All("dispatchOff"), All("copyAll"), All("seal"), All("venv"),
                      All("schema"), All("settings"), All("record"), Step("drop", "plugin"),
                      Step("copy", "plugin"), All("unlink")})
(* While the state is moved, with a file of its own the lock is held.       *)
HoldRule     == Rule({All("lock")}, {All("unlock")},
                     {Step("drop", "state"), All("make"), Step("copy", "state"),
                      Step("drop", "config"), Step("copy", "config")})
(* The state folder is emptied, made and filled right after its lock is     *)
(* gone, and nothing else is done in between.                               *)
OrphanRule   == Rule({All("unlink")}, AnyStep \ {Step("drop", "state"), All("make")},
                     {Step("drop", "state"), All("make"), Step("copy", "state")})
(* Dispatch is off in what is copied.                                       *)
QuietRule    == Rule({All("dispatchOff")},
                     {All("unlock"), All("unlink"), Step("copy", "state")},
                     {All("copyAll"), All("record")})
(* The file is compared right before it is replaced, a copy sealed right    *)
(* after it is made.                                                        *)
CompareRule  == Rule({All("compareShell")}, AnyStep, {All("replaceShell")})
SealRule     == Rule({All("copyAll")}, AnyStep, {All("seal")})
(* The state is removed for a backup that is complete.                      *)
VerifyRule   == Rule({All("verify")}, {All("copyAll"), All("seal")}, {All("unlink")})
(* The unit changes while systemd will not start it.                        *)
DisableRule  == Rule({All("disableUnit")}, {All("start")},
                     {All("record"), All("restoreUnit"), All("dropUnit")})
StartRule    == Rule({All("writeUnit")}, {All("dropUnit"), All("restoreUnit")}, {All("start")})
(* What is copied back takes an empty place, and stays.                     *)
EmptyRule(p) == Rule({Step("drop", p)}, {Step("copy", p), All("place"), All("settings")},
                     {Step("copy", p)})
CopiedRule(p) == Rule({Step("copy", p)},
                      {Step("drop", p), All("place"), All("settings"), All("venv"),
                       All("copyAll"), All("seal")}, {All("record")})
NewRule      == Rule({Step("drop", "state")},
                     {Step("drop", "plugin"), Step("copy", "plugin"), All("place"),
                      Step("copy", "state")}, {Step("copy", "state")})
DataRule     == Rule({Step("copy", "state")},
                     {All("unlink"), Step("drop", "state"), All("make"),
                      Step("drop", "plugin"), Step("copy", "plugin"), All("place"),
                      All("copyAll"), All("seal"), All("schema")}, {All("record")})
UnitRule     == Rule({All("restoreUnit")},
                     {All("writeUnit"), All("dropUnit"), All("copyAll"), All("seal")},
                     {All("record")})
HiddenRule   == Rule({All("replaceShell")}, {}, {All("record")})

(* Of these the programs begin with what is there when they begin.          *)
FirstLockRule == Rule({All("unlock")}, {All("unlink")}, {All("lock")})
RestoreRule   == Rule({}, {}, {All("unlink"), All("record")})
MineRule      == Rule({}, {All("seal")},
                      {All("verify"), All("unlink"), All("make"), Step("copy", "plugin"),
                       Step("copy", "state"), Step("copy", "config"), All("restoreUnit"),
                       All("record")})

FreshRules ==
    {LockRule, HoldRule, OrphanRule, QuietRule, CompareRule, SealRule, VerifyRule, DisableRule,
     StartRule, NewRule, DataRule, UnitRule, HiddenRule} \cup {EmptyRule(p) : p \in {"plugin", "config"}}
    \cup {CopiedRule(p) : p \in {"plugin", "config"}}
Rules == FreshRules \cup {FirstLockRule, RestoreRule, MineRule}

LEMMA RuleFields ==
    \A by, until, steps : LET r == Rule(by, until, steps) IN
                            r.by = by /\ r.until = until /\ r.steps = steps
BY DEF Rule

(* A list that relies on nothing before it keeps to the rule.               *)
LEMMA FreshKeeps ==
    ASSUME NEW s, NEW r, ~Relies(s, r)
    PROVE  Keeps(s, r)
BY DEF Relies, Keeps

(* When a step is taken, what the rest relies on is done by it, or was done *)
(* before and is not undone by it.                                          *)
LEMMA RestRelies ==
    ASSUME NEW s \in Seq(AnyStep), s # <<>>, NEW r, Keeps(s, r)
    PROVE  /\ Keeps(Tail(s), r)
           /\ Relies(Tail(s), r) => \/ Head(s) \in r.by
                                    \/ Relies(s, r) /\ Head(s) \notin r.until
<1>. DEFINE t == Tail(s)
<1>1. /\ Len(s) \in Nat \ {0} /\ Len(t) = Len(s) - 1 /\ Head(s) = s[1]
      /\ \A i \in 1..Len(t) : t[i] = s[i + 1]
  BY HeadTailProperties, LenProperties, EmptySeq
<1>. HIDE DEF t
<1>2. ASSUME NEW j \in 1..Len(t), t[j] \in r.steps, ~Own(t, r, j)
      PROVE  /\ j + 1 \in 1..Len(s) /\ s[j + 1] \in r.steps
             /\ Own(s, r, j + 1) => Head(s) \in r.by
             /\ Own(s, r, j + 1) => Free(t, r, j)
  <2>1. j + 1 \in 1..Len(s) /\ s[j + 1] \in r.steps
    BY <1>1, <1>2
  <2>2. ASSUME Own(s, r, j + 1)  PROVE Head(s) \in r.by /\ Free(t, r, j)
    <3>1. PICK i \in 1..((j + 1) - 1) :
             s[i] \in r.by /\ \A k \in (i + 1)..((j + 1) - 1) : s[k] \notin r.until
      BY <2>2 DEF Own
    <3>2. i = 1
      <4>. SUFFICES ASSUME i # 1  PROVE FALSE
        OBVIOUS
      <4>1. i - 1 \in 1..(j - 1) /\ i - 1 \in 1..Len(t) /\ t[i - 1] \in r.by
        BY <1>1, <3>1
      <4>2. \A k \in ((i - 1) + 1)..(j - 1) : t[k] \notin r.until
        BY <1>1, <3>1
      <4>. QED BY <4>1, <4>2, <1>2 DEF Own
    <3>3. \A k \in 1..(j - 1) : t[k] = s[k + 1] /\ k + 1 \in (i + 1)..((j + 1) - 1)
      BY <1>1, <3>2
    <3>. QED BY <1>1, <3>1, <3>2, <3>3 DEF Free
  <2>. QED BY <2>1, <2>2
<1>3. ASSUME NEW j \in 1..Len(t), Free(s, r, j + 1)
      PROVE  Head(s) \notin r.until /\ Free(t, r, j)
  <2>1. \A k \in 1..(j - 1) : t[k] = s[k + 1] /\ k + 1 \in 1..((j + 1) - 1)
    BY <1>1
  <2>2. 1 \in 1..((j + 1) - 1)
    OBVIOUS
  <2>. QED BY <1>1, <1>3, <2>1, <2>2 DEF Free
<1>4. ASSUME NEW j \in 1..Len(t), t[j] \in r.steps, ~Own(t, r, j)
      PROVE  Own(s, r, j + 1) \/ Free(s, r, j + 1)
  BY <1>2, <1>4 DEF Keeps
<1>5. Keeps(t, r)
  BY <1>2, <1>3, <1>4 DEF Keeps
<1>6. ASSUME Relies(t, r)
      PROVE  Head(s) \in r.by \/ (Relies(s, r) /\ Head(s) \notin r.until)
  <2>1. PICK j \in 1..Len(t) : t[j] \in r.steps /\ ~Own(t, r, j)
    BY <1>6 DEF Relies
  <2>2. CASE Own(s, r, j + 1)
    BY <2>1, <2>2, <1>2
  <2>3. CASE ~Own(s, r, j + 1)
    <3>1. Relies(s, r)
      BY <2>1, <2>3, <1>2 DEF Relies
    <3>. QED BY <2>1, <2>3, <3>1, <1>3, <1>4
  <2>. QED BY <2>2, <2>3
<1>. QED BY <1>5, <1>6 DEF t

(* The step that is next relies on what was done before.                    *)
LEMMA NextRelies ==
    ASSUME NEW s \in Seq(AnyStep), s # <<>>, NEW r, Head(s) \in r.steps
    PROVE  Relies(s, r)
<1>1. Len(s) \in Nat \ {0} /\ Head(s) = s[1]
  BY HeadTailProperties, LenProperties, EmptySeq
<1>2. ~Own(s, r, 1)
  BY DEF Own
<1>. QED BY <1>1, <1>2 DEF Relies

LEMMA NothingRelies ==
    ASSUME NEW r
    PROVE  ~Relies(<<>>, r) /\ Keeps(<<>>, r)
BY DEF Relies, Keeps

(* What a longer list does not rely on, its beginning does not.             *)
LEMMA BeginningRelies ==
    ASSUME NEW s \in Seq(AnyStep), NEW t \in Seq(AnyStep), NEW r,
           Len(t) <= Len(s), \A i \in 1..Len(t) : t[i] = s[i]
    PROVE  (Relies(t, r) => Relies(s, r)) /\ (Keeps(s, r) => Keeps(t, r))
<1>1. Len(s) \in Nat /\ Len(t) \in Nat
  BY LenProperties
<1>2. ASSUME NEW j \in 1..Len(t)
      PROVE  /\ j \in 1..Len(s) /\ s[j] = t[j]
             /\ Own(s, r, j) <=> Own(t, r, j)
             /\ Free(s, r, j) <=> Free(t, r, j)
  <2>1. \A i \in 1..(j - 1) : i \in 1..Len(t) /\ t[i] = s[i]
    BY <1>1
  <2>2. \A i \in 1..(j - 1) : \A k \in (i + 1)..(j - 1) : t[k] = s[k]
    BY <1>1
  <2>3. Own(s, r, j) <=> Own(t, r, j)
    BY <2>1, <2>2 DEF Own
  <2>4. Free(s, r, j) <=> Free(t, r, j)
    BY <2>1 DEF Free
  <2>. QED BY <1>1, <2>3, <2>4
<1>. QED BY <1>2 DEF Relies, Keeps

(* While something relies on it, no step undoes it.                         *)
LEMMA HeadRelies ==
    ASSUME NEW s \in Seq(AnyStep), NEW r, Keeps(s, r), Relies(s, r)
    PROVE  s # <<>> /\ (Head(s) \in r.steps \/ Head(s) \notin r.until)
<1>1. PICK j \in 1..Len(s) : s[j] \in r.steps /\ ~Own(s, r, j)
  BY DEF Relies
<1>2. s # <<>> /\ Len(s) \in Nat \ {0} /\ Head(s) = s[1]
  <2>1. Len(s) \in Nat /\ Len(s) # 0
    BY <1>1, LenProperties
  <2>. QED BY <2>1, HeadTailProperties, EmptySeq
<1>3. Free(s, r, j)
  BY <1>1 DEF Keeps
<1>4. CASE j = 1
  BY <1>1, <1>2, <1>4
<1>5. CASE j # 1
  <2>1. 1 \in 1..(j - 1)
    BY <1>5
  <2>. QED BY <1>2, <1>3, <2>1 DEF Free
<1>. QED BY <1>4, <1>5

(***************************************************************************)
(* The programs keep to the rules.                                         *)
(***************************************************************************)
Fresh(s)  == \A r \in FreshRules : ~Relies(s, r)
InRule(s) == \A r \in Rules : Keeps(s, r)

LEMMA RecoveryFresh == Fresh(RecoverySteps)
<1>. USE RecoveryIs, StepFields DEF Relies, Own, Rule, All
<1>1. ~Relies(RecoverySteps, LockRule)  BY SMTT(60) DEF LockRule
<1>2. ~Relies(RecoverySteps, HoldRule)  BY SMTT(60) DEF HoldRule
<1>3. ~Relies(RecoverySteps, OrphanRule)  BY SMTT(60) DEF OrphanRule
<1>4. ~Relies(RecoverySteps, QuietRule)  BY SMTT(60) DEF QuietRule
<1>5. ~Relies(RecoverySteps, CompareRule)  BY SMTT(60) DEF CompareRule
<1>6. ~Relies(RecoverySteps, SealRule)  BY SMTT(60) DEF SealRule
<1>7. ~Relies(RecoverySteps, VerifyRule)  BY SMTT(60) DEF VerifyRule
<1>8. ~Relies(RecoverySteps, DisableRule)  BY SMTT(60) DEF DisableRule
<1>9. ~Relies(RecoverySteps, StartRule)  BY SMTT(60) DEF StartRule
<1>10. ~Relies(RecoverySteps, NewRule)  BY SMTT(60) DEF NewRule
<1>11. ~Relies(RecoverySteps, DataRule)
  <2>1. Len(RecoverySteps) = 21 /\ RecoverySteps[10] \in DataRule.by
    BY DEF DataRule
  <2>2. \A j \in 1..21 : RecoverySteps[j] \in DataRule.steps => j = 21
    BY DEF DataRule
  <2>3. \A k \in 11..20 : RecoverySteps[k] \notin DataRule.until
    <3>1. \A k \in 11..20 : RecoverySteps[k].do \in
             {"drop", "copy", "restoreUnit", "unlock", "disableUnit", "lock", "dispatchOff",
              "readShell", "compareShell", "replaceShell"}
      OBVIOUS
    <3>2. \A k \in 11..20 : RecoverySteps[k].do \in {"drop", "copy"} => RecoverySteps[k].on = "config"
      OBVIOUS
    <3>. HIDE RecoveryIs DEF Relies, Own
    <3>. QED BY <3>1, <3>2, SMTT(60) DEF DataRule
  <2>. HIDE RecoveryIs, StepFields DEF Rule, All
  <2>. QED BY <2>1, <2>2, <2>3
<1>12. ~Relies(RecoverySteps, UnitRule)  BY SMTT(60) DEF UnitRule
<1>13. ~Relies(RecoverySteps, HiddenRule)  BY SMTT(60) DEF HiddenRule
<1>14. ~Relies(RecoverySteps, EmptyRule("plugin"))  BY SMTT(60) DEF EmptyRule
<1>15. ~Relies(RecoverySteps, EmptyRule("config"))  BY SMTT(60) DEF EmptyRule
<1>16. ~Relies(RecoverySteps, CopiedRule("plugin"))  BY SMTT(60) DEF CopiedRule
<1>17. ~Relies(RecoverySteps, CopiedRule("config"))  BY SMTT(60) DEF CopiedRule
<1>. HIDE DEF Relies, Own, Rule, All
<1>. QED BY <1>1, <1>2, <1>3, <1>4, <1>5, <1>6, <1>7, <1>8, <1>9, <1>10, <1>11, <1>12,
        <1>13, <1>14, <1>15, <1>16, <1>17 DEF Fresh, FreshRules

LEMMA UpgradeFresh == Fresh(UpgradeSteps)
<1>. USE UpgradeIs, StepFields DEF Relies, Own, Rule, All
<1>1. ~Relies(UpgradeSteps, LockRule)  BY SMTT(60) DEF LockRule
<1>2. ~Relies(UpgradeSteps, HoldRule)  BY SMTT(60) DEF HoldRule
<1>3. ~Relies(UpgradeSteps, OrphanRule)  BY SMTT(60) DEF OrphanRule
<1>4. ~Relies(UpgradeSteps, QuietRule)  BY SMTT(60) DEF QuietRule
<1>5. ~Relies(UpgradeSteps, CompareRule)  BY SMTT(60) DEF CompareRule
<1>6. ~Relies(UpgradeSteps, SealRule)  BY SMTT(60) DEF SealRule
<1>7. ~Relies(UpgradeSteps, VerifyRule)  BY SMTT(60) DEF VerifyRule
<1>8. ~Relies(UpgradeSteps, DisableRule)  BY SMTT(60) DEF DisableRule
<1>9. ~Relies(UpgradeSteps, StartRule)  BY SMTT(60) DEF StartRule
<1>10. ~Relies(UpgradeSteps, NewRule)  BY SMTT(60) DEF NewRule
<1>11. ~Relies(UpgradeSteps, DataRule)  BY SMTT(60) DEF DataRule
<1>12. ~Relies(UpgradeSteps, UnitRule)  BY SMTT(60) DEF UnitRule
<1>13. ~Relies(UpgradeSteps, HiddenRule)  BY SMTT(60) DEF HiddenRule
<1>14. ~Relies(UpgradeSteps, EmptyRule("plugin"))  BY SMTT(60) DEF EmptyRule
<1>15. ~Relies(UpgradeSteps, EmptyRule("config"))  BY SMTT(60) DEF EmptyRule
<1>16. ~Relies(UpgradeSteps, CopiedRule("plugin"))  BY SMTT(60) DEF CopiedRule
<1>17. ~Relies(UpgradeSteps, CopiedRule("config"))  BY SMTT(60) DEF CopiedRule
<1>. HIDE DEF Relies, Own, Rule, All
<1>. QED BY <1>1, <1>2, <1>3, <1>4, <1>5, <1>6, <1>7, <1>8, <1>9, <1>10, <1>11, <1>12,
        <1>13, <1>14, <1>15, <1>16, <1>17 DEF Fresh, FreshRules

LEMMA SetupFresh == Fresh(SetupSteps)
<1>. USE SetupIs, StepFields DEF Relies, Own, Rule, All
<1>1. ~Relies(SetupSteps, LockRule)  BY SMTT(60) DEF LockRule
<1>2. ~Relies(SetupSteps, HoldRule)  BY SMTT(60) DEF HoldRule
<1>3. ~Relies(SetupSteps, OrphanRule)  BY SMTT(60) DEF OrphanRule
<1>4. ~Relies(SetupSteps, QuietRule)  BY SMTT(60) DEF QuietRule
<1>5. ~Relies(SetupSteps, CompareRule)  BY SMTT(60) DEF CompareRule
<1>6. ~Relies(SetupSteps, SealRule)  BY SMTT(60) DEF SealRule
<1>7. ~Relies(SetupSteps, VerifyRule)  BY SMTT(60) DEF VerifyRule
<1>8. ~Relies(SetupSteps, DisableRule)  BY SMTT(60) DEF DisableRule
<1>9. ~Relies(SetupSteps, StartRule)  BY SMTT(60) DEF StartRule
<1>10. ~Relies(SetupSteps, NewRule)  BY SMTT(60) DEF NewRule
<1>11. ~Relies(SetupSteps, DataRule)  BY SMTT(60) DEF DataRule
<1>12. ~Relies(SetupSteps, UnitRule)  BY SMTT(60) DEF UnitRule
<1>13. ~Relies(SetupSteps, HiddenRule)  BY SMTT(60) DEF HiddenRule
<1>14. ~Relies(SetupSteps, EmptyRule("plugin"))  BY SMTT(60) DEF EmptyRule
<1>15. ~Relies(SetupSteps, EmptyRule("config"))  BY SMTT(60) DEF EmptyRule
<1>16. ~Relies(SetupSteps, CopiedRule("plugin"))  BY SMTT(60) DEF CopiedRule
<1>17. ~Relies(SetupSteps, CopiedRule("config"))  BY SMTT(60) DEF CopiedRule
<1>. HIDE DEF Relies, Own, Rule, All
<1>. QED BY <1>1, <1>2, <1>3, <1>4, <1>5, <1>6, <1>7, <1>8, <1>9, <1>10, <1>11, <1>12,
        <1>13, <1>14, <1>15, <1>16, <1>17 DEF Fresh, FreshRules

LEMMA UninstallFresh == Fresh(UninstallSteps)
<1>. USE UninstallIs, StepFields DEF Relies, Own, Rule, All
<1>1. ~Relies(UninstallSteps, LockRule)  BY SMTT(60) DEF LockRule
<1>2. ~Relies(UninstallSteps, HoldRule)  BY SMTT(60) DEF HoldRule
<1>3. ~Relies(UninstallSteps, OrphanRule)  BY SMTT(60) DEF OrphanRule
<1>4. ~Relies(UninstallSteps, QuietRule)  BY SMTT(60) DEF QuietRule
<1>5. ~Relies(UninstallSteps, CompareRule)  BY SMTT(60) DEF CompareRule
<1>6. ~Relies(UninstallSteps, SealRule)  BY SMTT(60) DEF SealRule
<1>7. ~Relies(UninstallSteps, VerifyRule)  BY SMTT(60) DEF VerifyRule
<1>8. ~Relies(UninstallSteps, DisableRule)  BY SMTT(60) DEF DisableRule
<1>9. ~Relies(UninstallSteps, StartRule)  BY SMTT(60) DEF StartRule
<1>10. ~Relies(UninstallSteps, NewRule)  BY SMTT(60) DEF NewRule
<1>11. ~Relies(UninstallSteps, DataRule)  BY SMTT(60) DEF DataRule
<1>12. ~Relies(UninstallSteps, UnitRule)  BY SMTT(60) DEF UnitRule
<1>13. ~Relies(UninstallSteps, HiddenRule)  BY SMTT(60) DEF HiddenRule
<1>14. ~Relies(UninstallSteps, EmptyRule("plugin"))  BY SMTT(60) DEF EmptyRule
<1>15. ~Relies(UninstallSteps, EmptyRule("config"))  BY SMTT(60) DEF EmptyRule
<1>16. ~Relies(UninstallSteps, CopiedRule("plugin"))  BY SMTT(60) DEF CopiedRule
<1>17. ~Relies(UninstallSteps, CopiedRule("config"))  BY SMTT(60) DEF CopiedRule
<1>. HIDE DEF Relies, Own, Rule, All
<1>. QED BY <1>1, <1>2, <1>3, <1>4, <1>5, <1>6, <1>7, <1>8, <1>9, <1>10, <1>11, <1>12,
        <1>13, <1>14, <1>15, <1>16, <1>17 DEF Fresh, FreshRules

LEMMA InstallFresh == Fresh(InstallSteps)
<1>1. /\ ~Relies(InstallSteps, LockRule)
      /\ ~Relies(InstallSteps, HoldRule)
      /\ ~Relies(InstallSteps, OrphanRule)
      /\ ~Relies(InstallSteps, QuietRule)
      /\ ~Relies(InstallSteps, CompareRule)
      /\ ~Relies(InstallSteps, SealRule)
      /\ ~Relies(InstallSteps, VerifyRule)
      /\ ~Relies(InstallSteps, DisableRule)
      /\ ~Relies(InstallSteps, StartRule)
      /\ ~Relies(InstallSteps, NewRule)
      /\ ~Relies(InstallSteps, DataRule)
      /\ ~Relies(InstallSteps, UnitRule)
      /\ ~Relies(InstallSteps, HiddenRule)
      /\ ~Relies(InstallSteps, EmptyRule("plugin"))
      /\ ~Relies(InstallSteps, EmptyRule("config"))
      /\ ~Relies(InstallSteps, CopiedRule("plugin"))
      /\ ~Relies(InstallSteps, CopiedRule("config"))
  BY InstallIs, StepFields, SMTT(120) DEF Relies, Own, Rule, All, LockRule, HoldRule,
     OrphanRule, QuietRule, CompareRule, SealRule, VerifyRule, DisableRule, StartRule,
     NewRule, DataRule, UnitRule, HiddenRule, EmptyRule, CopiedRule
<1>. QED BY <1>1 DEF Fresh, FreshRules

LEMMA EnableFresh == Fresh(EnableSteps)
<1>1. /\ ~Relies(EnableSteps, LockRule)
      /\ ~Relies(EnableSteps, HoldRule)
      /\ ~Relies(EnableSteps, OrphanRule)
      /\ ~Relies(EnableSteps, QuietRule)
      /\ ~Relies(EnableSteps, CompareRule)
      /\ ~Relies(EnableSteps, SealRule)
      /\ ~Relies(EnableSteps, VerifyRule)
      /\ ~Relies(EnableSteps, DisableRule)
      /\ ~Relies(EnableSteps, StartRule)
      /\ ~Relies(EnableSteps, NewRule)
      /\ ~Relies(EnableSteps, DataRule)
      /\ ~Relies(EnableSteps, UnitRule)
      /\ ~Relies(EnableSteps, HiddenRule)
      /\ ~Relies(EnableSteps, EmptyRule("plugin"))
      /\ ~Relies(EnableSteps, EmptyRule("config"))
      /\ ~Relies(EnableSteps, CopiedRule("plugin"))
      /\ ~Relies(EnableSteps, CopiedRule("config"))
  BY EnableIs, StepFields, SMTT(120) DEF Relies, Own, Rule, All, LockRule, HoldRule,
     OrphanRule, QuietRule, CompareRule, SealRule, VerifyRule, DisableRule, StartRule,
     NewRule, DataRule, UnitRule, HiddenRule, EmptyRule, CopiedRule
<1>. QED BY <1>1 DEF Fresh, FreshRules

LEMMA DisableFresh == Fresh(DisableSteps)
<1>1. /\ ~Relies(DisableSteps, LockRule)
      /\ ~Relies(DisableSteps, HoldRule)
      /\ ~Relies(DisableSteps, OrphanRule)
      /\ ~Relies(DisableSteps, QuietRule)
      /\ ~Relies(DisableSteps, CompareRule)
      /\ ~Relies(DisableSteps, SealRule)
      /\ ~Relies(DisableSteps, VerifyRule)
      /\ ~Relies(DisableSteps, DisableRule)
      /\ ~Relies(DisableSteps, StartRule)
      /\ ~Relies(DisableSteps, NewRule)
      /\ ~Relies(DisableSteps, DataRule)
      /\ ~Relies(DisableSteps, UnitRule)
      /\ ~Relies(DisableSteps, HiddenRule)
      /\ ~Relies(DisableSteps, EmptyRule("plugin"))
      /\ ~Relies(DisableSteps, EmptyRule("config"))
      /\ ~Relies(DisableSteps, CopiedRule("plugin"))
      /\ ~Relies(DisableSteps, CopiedRule("config"))
  BY DisableIs, StepFields, SMTT(120) DEF Relies, Own, Rule, All, LockRule, HoldRule,
     OrphanRule, QuietRule, CompareRule, SealRule, VerifyRule, DisableRule, StartRule,
     NewRule, DataRule, UnitRule, HiddenRule, EmptyRule, CopiedRule
<1>. QED BY <1>1 DEF Fresh, FreshRules

LEMMA RollbackFresh == Fresh(RollbackSteps)
<1>1. Len(RollbackSteps) <= Len(RecoverySteps) /\ \A i \in 1..Len(RollbackSteps) : RollbackSteps[i] = RecoverySteps[i]
  BY RollbackIs, RecoveryIs
<1>2. RollbackSteps \in Seq(AnyStep) /\ RecoverySteps \in Seq(AnyStep)
  BY RollbackIs, RecoveryIs
<1>. QED BY <1>1, <1>2, RecoveryFresh, BeginningRelies DEF Fresh

LEMMA BackupFresh == Fresh(BackupSteps)
<1>1. Len(BackupSteps) <= Len(UpgradeSteps) /\ \A i \in 1..Len(BackupSteps) : BackupSteps[i] = UpgradeSteps[i]
  BY BackupIs, UpgradeIs
<1>2. BackupSteps \in Seq(AnyStep) /\ UpgradeSteps \in Seq(AnyStep)
  BY BackupIs, UpgradeIs
<1>. QED BY <1>1, <1>2, UpgradeFresh, BeginningRelies DEF Fresh

LEMMA ProgramsKeep ==
    /\ \A o \in Operations : StepsOf(o) \in Seq(AnyStep) /\ Fresh(StepsOf(o)) /\ InRule(StepsOf(o))
    /\ RecoverySteps \in Seq(AnyStep) /\ Fresh(RecoverySteps) /\ InRule(RecoverySteps)
    /\ \A o \in Operations \ {"rollback"} :
          ~Relies(StepsOf(o), RestoreRule) /\ ~Relies(StepsOf(o), MineRule)
<1>. DEFINE Begun(s) == /\ s \in Seq(AnyStep) /\ Fresh(s)
                        /\ Keeps(s, FirstLockRule) /\ Keeps(s, RestoreRule) /\ Keeps(s, MineRule)
            Plain(s) == ~Relies(s, RestoreRule) /\ ~Relies(s, MineRule)
<1>1. Begun(RecoverySteps)
  BY RecoveryIs, RecoveryFresh, StepFields, SMTT(60)
     DEF Keeps, Own, Free, Rule, All, FirstLockRule, MineRule, RestoreRule
<1>2. Begun(UpgradeSteps) /\ Plain(UpgradeSteps)
  BY UpgradeIs, UpgradeFresh, StepFields
     DEF Keeps, Relies, Own, Free, Rule, All, FirstLockRule, MineRule, RestoreRule
<1>3. Begun(SetupSteps) /\ Plain(SetupSteps)
  BY SetupIs, SetupFresh, StepFields
     DEF Keeps, Relies, Own, Free, Rule, All, FirstLockRule, MineRule, RestoreRule
<1>4. Begun(UninstallSteps) /\ Plain(UninstallSteps)
  BY UninstallIs, UninstallFresh, StepFields
     DEF Keeps, Relies, Own, Free, Rule, All, FirstLockRule, MineRule, RestoreRule
<1>5. Begun(InstallSteps) /\ Plain(InstallSteps)
  BY InstallIs, InstallFresh, StepFields
     DEF Keeps, Relies, Own, Free, Rule, All, FirstLockRule, MineRule, RestoreRule
<1>6. Begun(EnableSteps) /\ Plain(EnableSteps)
  BY EnableIs, EnableFresh, StepFields
     DEF Keeps, Relies, Own, Free, Rule, All, FirstLockRule, MineRule, RestoreRule
<1>7. Begun(DisableSteps) /\ Plain(DisableSteps)
  BY DisableIs, DisableFresh, StepFields
     DEF Keeps, Relies, Own, Free, Rule, All, FirstLockRule, MineRule, RestoreRule
<1>8. Begun(BackupSteps) /\ Plain(BackupSteps)
  BY BackupIs, BackupFresh, StepFields
     DEF Keeps, Relies, Own, Free, Rule, All, FirstLockRule, MineRule, RestoreRule
<1>9. Begun(RollbackSteps)
  BY RollbackIs, RollbackFresh, StepFields, SMTT(60)
     DEF Keeps, Own, Free, Rule, All, FirstLockRule, MineRule, RestoreRule
<1>10. ASSUME NEW s, Begun(s)  PROVE InRule(s)
  BY <1>10, FreshKeeps DEF InRule, Fresh, Rules
<1>11. ASSUME NEW o \in Operations
       PROVE  Begun(StepsOf(o)) /\ (o # "rollback" => Plain(StepsOf(o)))
  <2>. HIDE DEF Begun, Plain
  <2>. QED BY <1>2, <1>3, <1>4, <1>5, <1>6, <1>7, <1>8, <1>9 DEF StepsOf, Operations
<1>. QED BY <1>1, <1>10, <1>11


(***************************************************************************)
(* What the steps left rely on holds.                                      *)
(***************************************************************************)
RuleInv ==
    /\ InRule(todo)
    /\ Relies(todo, LockRule) => held = "lock"
    /\ Relies(todo, HoldRule) => held # "no"
    /\ Relies(todo, OrphanRule) => held = "orphan"
    /\ Relies(todo, FirstLockRule) => held # "orphan"
    /\ Relies(todo, RestoreRule) => op = "rollback" \/ recovering
    /\ Relies(todo, MineRule) => mine # 0
    /\ held = "orphan" => op = "rollback" \/ recovering
    /\ recovering => op = "upgrade"

BaseInv == TypeOK /\ RuleInv

StepTaken ==
    \/ DisableUnit \/ Lock \/ DispatchOff \/ CopyAll \/ Seal \/ Verify \/ Unlink \/ Drop
    \/ Make \/ Copy \/ RestoreUnit \/ DropUnit \/ RequirePlugin \/ Place \/ Venv \/ Schema \/ Settings
    \/ WriteUnit \/ Unlock \/ Start \/ ReadShell \/ CompareShell \/ ReplaceShell \/ Record

LEMMA AtStep ==
    ASSUME todo \in Seq(AnyStep), NEW d \in PlainSteps \cup {"drop", "copy"}, At(d)
    PROVE  /\ op # "none" /\ todo # <<>> /\ This = Head(todo) /\ This \in AnyStep /\ This.do = d
           /\ Tail(todo) \in Seq(AnyStep)
           /\ d \in PlainSteps => This = All(d)
           /\ d \in {"drop", "copy"} => This.on \in Parts /\ This = Step(d, This.on)
<1>1. op # "none" /\ This.do = d
  BY DEF At
<1>2. todo # <<>>
  BY <1>1, StepFields DEF This, PlainSteps
<1>3. This = Head(todo) /\ This \in AnyStep /\ Tail(todo) \in Seq(AnyStep)
  BY <1>2, HeadTailProperties DEF This
<1>. QED BY <1>1, <1>2, <1>3, Steps

LEMMA PartsAre == /\ "plugin" \in Parts /\ "state" \in Parts /\ "config" \in Parts
                  /\ \A p \in Parts : p \in {"plugin", "state", "config"}
BY DEF Parts

LEMMA StepsAre ==
    \A d \in {"disableUnit", "lock", "dispatchOff", "copyAll", "seal", "verify", "restoreUnit",
              "dropUnit", "requirePlugin", "place", "venv", "schema", "settings", "writeUnit",
              "unlink", "make", "unlock", "start", "readShell", "compareShell", "replaceShell", "record"} :
        d \in PlainSteps
BY DEF PlainSteps

(* The steps of the same kind: which, and that the list goes on behind it.  *)
LEMMA Taken ==
    ASSUME todo \in Seq(AnyStep), StepTaken
    PROVE  /\ op # "none" /\ todo # <<>> /\ This = Head(todo) /\ This \in AnyStep
           /\ todo' = Tail(todo) /\ todo' \in Seq(AnyStep) /\ Able
           /\ UNCHANGED <<op, recovering, ops, faults>>
<1>1. PICK d \in PlainSteps \cup {"drop", "copy"} : At(d) /\ Done
  BY StepsAre DEF StepTaken, DisableUnit, Lock, DispatchOff, CopyAll, Seal, Verify, Unlink,
     Drop, Make, Copy,
     RestoreUnit, DropUnit, RequirePlugin, Place, Venv, Schema, Settings, WriteUnit, Unlock,
     Start, ReadShell, CompareShell, ReplaceShell, Record
<1>2. UNCHANGED <<op, recovering, ops, faults>>
  BY DEF StepTaken, DisableUnit, Lock, DispatchOff, CopyAll, Seal, Verify, Unlink, Drop,
     Make, Copy,
     RestoreUnit, DropUnit, RequirePlugin, Place, Venv, Schema, Settings, WriteUnit, Unlock,
     Start, ReadShell, CompareShell, ReplaceShell, Record, opVars
<1>. QED BY <1>1, <1>2, AtStep DEF Done

(* What a step may do to each variable, and which step.                     *)
LEMMA LockMoves ==
    ASSUME todo \in Seq(AnyStep), StepTaken
    PROVE  \/ /\ This = All("lock") /\ service' = service
              /\ held = "no" => holder = "none"
              /\ held' = (IF held = "no" THEN "lock" ELSE held)
              /\ holder' = (IF held = "no" THEN "installer" ELSE holder)
           \/ This = All("unlock") /\ Released /\ service' = service
           \/ /\ This = All("unlink") /\ service' = service
              /\ held' = "orphan" /\ holder' = "none"
           \/ /\ This = All("disableUnit") /\ held' = held /\ service = "unit"
              /\ service' = "none" /\ holder' = "none"
           \/ /\ This = All("start") /\ held' = held /\ UnitRuns
              /\ service' = "unit" /\ holder' = "service"
           \/ /\ This \notin {All("lock"), All("unlock"), All("unlink")}
              /\ UNCHANGED <<service, holder, held>>
<1>1. CASE Lock
  <2>1. This = All("lock")
    BY <1>1, AtStep, StepsAre DEF Lock
  <2>. QED BY <1>1, <2>1 DEF Lock, Done, Able, lockVars, serviceVars
<1>2. CASE Unlock
  BY <1>2, AtStep, StepsAre DEF Unlock, serviceVars
<1>3. CASE Unlink
  BY <1>3, AtStep, StepsAre DEF Unlink, serviceVars
<1>4. CASE DisableUnit
  <2>1. This = All("disableUnit") /\ All("disableUnit") \notin {All("lock"), All("unlock"), All("unlink")}
    BY <1>4, AtStep, StepsAre, StepFields DEF DisableUnit, All
  <2>. QED BY <1>4, <2>1 DEF DisableUnit
<1>5. CASE Start
  <2>1. This = All("start") /\ All("start") \notin {All("lock"), All("unlock"), All("unlink")}
    BY <1>5, AtStep, StepsAre, StepFields DEF Start, All
  <2>. QED BY <1>5, <2>1 DEF Start, Serve
<1>6. CASE ~(Lock \/ Unlock \/ Unlink \/ DisableUnit \/ Start)
  <2>1. UNCHANGED <<service, holder, held>>
    BY <1>6 DEF StepTaken, DispatchOff, CopyAll, Seal, Verify, Drop, Make, Copy,
       RestoreUnit, DropUnit,
       RequirePlugin, Place, Venv, Schema, Settings, WriteUnit, ReadShell, CompareShell,
       ReplaceShell, Record, lockVars, serviceVars
  <2>2. PICK d \in (PlainSteps \cup {"drop", "copy"}) \ {"lock", "unlock", "unlink"} : At(d)
    BY <1>6, StepsAre DEF StepTaken, DispatchOff, CopyAll, Seal, Verify, Drop, Make, Copy,
       RestoreUnit,
       DropUnit, RequirePlugin, Place, Venv, Schema, Settings, WriteUnit, ReadShell,
       CompareShell, ReplaceShell, Record
  <2>3. This.do \notin {"lock", "unlock", "unlink"}
    BY <2>2, AtStep
  <2>. QED BY <2>1, <2>3, StepFields DEF All
<1>. QED BY <1>1, <1>2, <1>3, <1>4, <1>5, <1>6

LEMMA AllDiffer == /\ \A a, b : All(a) = All(b) => a = b
                   /\ \A a, b, p : All(a) = Step(b, p) => a = b
BY StepFields DEF All

LEMMA MineMoves ==
    ASSUME todo \in Seq(AnyStep), StepTaken
    PROVE  \/ This = All("seal") /\ mine' = Len(backups)
              /\ backups' = [backups EXCEPT ![Len(backups)].complete = TRUE]
           \/ This = All("copyAll") /\ mine' = mine
              /\ backups' = Append(backups, [parts |-> disk, unit |-> unit, complete |-> FALSE])
           \/ This \notin {All("seal"), All("copyAll")} /\ UNCHANGED <<mine, backups>>
<1>1. CASE Seal
  BY <1>1, AtStep, StepsAre DEF Seal
<1>2. CASE CopyAll
  BY <1>2, AtStep, StepsAre DEF CopyAll, opVars
<1>3. CASE ~(Seal \/ CopyAll)
  <2>1. UNCHANGED <<mine, backups>>
    BY <1>3 DEF StepTaken, DisableUnit, Lock, DispatchOff, Verify, Unlink, Drop, Make,
       Copy, RestoreUnit,
       DropUnit, RequirePlugin, Place, Venv, Schema, Settings, WriteUnit, Unlock, Start,
       ReadShell, CompareShell, ReplaceShell, Record, opVars
  <2>2. PICK d \in (PlainSteps \cup {"drop", "copy"}) \ {"seal", "copyAll"} : At(d)
    BY <1>3, StepsAre DEF StepTaken, DisableUnit, Lock, DispatchOff, Verify, Unlink, Drop,
       Make, Copy,
       RestoreUnit, DropUnit, RequirePlugin, Place, Venv, Schema, Settings, WriteUnit,
       Unlock, Start, ReadShell, CompareShell, ReplaceShell, Record
  <2>3. This.do \notin {"seal", "copyAll"}
    BY <2>2, AtStep
  <2>. QED BY <2>1, <2>3, StepFields DEF All
<1>. QED BY <1>1, <1>2, <1>3

(* A step of an operation keeps RuleInv.                                    *)
LEMMA RulesStep ==
    ASSUME TypeOK, RuleInv, StepTaken
    PROVE  RuleInv'
<1>. USE DEF RuleInv
<1>1. /\ todo \in Seq(AnyStep) /\ todo # <<>> /\ This = Head(todo) /\ todo' = Tail(todo)
      /\ op' = op /\ recovering' = recovering /\ Able /\ This \in AnyStep
  BY Taken DEF TypeOK
<1>2. ASSUME NEW r \in Rules
      PROVE  /\ Keeps(todo', r)
             /\ Relies(todo', r) => This \in r.by \/ (Relies(todo, r) /\ This \notin r.until)
             /\ This \in r.steps => Relies(todo, r)
  <2>1. Keeps(todo, r)
    BY DEF InRule
  <2>. QED BY <1>1, <2>1, RestRelies, NextRelies
<1>3. /\ LockRule \in Rules /\ HoldRule \in Rules /\ OrphanRule \in Rules /\ FirstLockRule \in Rules
      /\ RestoreRule \in Rules /\ MineRule \in Rules
  BY DEF Rules, FreshRules
<1>4. InRule(todo')
  BY <1>2 DEF InRule
<1>5. This = All("lock") => held # "orphan"
  <2>1. All("lock") \in FirstLockRule.steps
    BY RuleFields DEF FirstLockRule
  <2>. QED BY <1>2, <1>3, <2>1
<1>6. This = All("unlink") => op = "rollback" \/ recovering
  <2>1. All("unlink") \in RestoreRule.steps
    BY RuleFields DEF RestoreRule
  <2>. QED BY <1>2, <1>3, <2>1
<1>. DEFINE unlink == All("unlink")
<1>7. Relies(todo', LockRule) => held' = "lock"
  <2>1. Relies(todo', LockRule) =>
           \/ This = All("lock")
           \/ held = "lock" /\ This \notin {All("unlock"), unlink}
    BY <1>2, <1>3, RuleFields DEF LockRule
  <2>2. All("lock") \notin {All("unlock"), unlink}
    BY StepFields DEF All
  <2>. QED BY <1>1, <1>5, <2>1, <2>2, LockMoves, AllDiffer DEF TypeOK
<1>8. Relies(todo', HoldRule) => held' # "no"
  <2>1. Relies(todo', HoldRule) => This = All("lock") \/ (held # "no" /\ This # All("unlock"))
    BY <1>2, <1>3, RuleFields DEF HoldRule
  <2>2. All("lock") # All("unlock") /\ All("lock") # unlink
    BY StepFields DEF All
  <2>. QED BY <1>1, <2>1, <2>2, LockMoves, AllDiffer DEF TypeOK
<1>9. Relies(todo', FirstLockRule) => held' # "orphan"
  <2>1. Relies(todo', FirstLockRule) => This = All("unlock") \/ (held # "orphan" /\ This # unlink)
    BY <1>2, <1>3, RuleFields DEF FirstLockRule
  <2>2. All("unlock") # unlink /\ All("unlock") # All("lock")
    BY StepFields DEF All
  <2>. QED BY <1>1, <2>1, <2>2, LockMoves, AllDiffer DEF TypeOK, Released
<1>10. Relies(todo', RestoreRule) => op' = "rollback" \/ recovering'
  BY <1>1, <1>2, <1>3, RuleFields DEF RestoreRule
<1>11. Relies(todo', MineRule) => mine' # 0
  <2>1. Relies(todo', MineRule) => mine # 0 /\ This # All("seal")
    BY <1>2, <1>3, RuleFields DEF MineRule
  <2>. QED BY <1>1, <2>1, MineMoves
<1>12. held' = "orphan" => op' = "rollback" \/ recovering'
  BY <1>1, <1>6, LockMoves DEF Released
<1>13. Relies(todo', OrphanRule) => held' = "orphan"
  <2>1. Relies(todo', OrphanRule) =>
           \/ This = unlink
           \/ held = "orphan" /\ This \in {Step("drop", "state"), All("make")}
    BY <1>1, <1>2, <1>3, RuleFields DEF OrphanRule
  <2>2. {unlink, Step("drop", "state"), All("make")}
           \cap {All("lock"), All("unlock"), All("disableUnit")} = {}
    BY StepFields DEF All
  <2>. QED BY <1>1, <2>1, <2>2, LockMoves, AllDiffer
<1>. QED BY <1>1, <1>4, <1>7, <1>8, <1>9, <1>10, <1>11, <1>12, <1>13

(***************************************************************************)
(* Type correctness.                                                       *)
(***************************************************************************)
LEMMA ContentsAre ==
    /\ Absent \in Contents /\ Bare \in Contents
    /\ \A c \in Contents :
          /\ [c EXCEPT !.is = "torn"] \in Contents
          /\ [c EXCEPT !.dispatch = FALSE] \in Contents
          /\ [c EXCEPT !.dispatch = TRUE] \in Contents
          /\ [c EXCEPT !.ready = TRUE] \in Contents
          /\ c.keeps \subseteq Items /\ c.release \in Releases \cup {0}
    /\ [Absent EXCEPT !.is = "torn"] \in Contents
    /\ \A r \in Releases : [Bare EXCEPT !.release = r] \in Contents
    /\ \A c \in Contents, i \in Items : [c EXCEPT !.keeps = @ \cup {i}] \in Contents
BY DEF Contents, Absent, Bare

LEMMA FolderPut ==
    ASSUME NEW f \in [Parts -> Contents], NEW p \in Parts, NEW c \in Contents
    PROVE  /\ [f EXCEPT ![p] = c] \in [Parts -> Contents]
           /\ [f EXCEPT ![p] = c][p] = c
           /\ \A q \in Parts \ {p} : [f EXCEPT ![p] = c][q] = f[q]
OBVIOUS

LEMMA OpenedIs ==
    ASSUME disk \in [Parts -> Contents], NEW c \in Contents
    PROVE  Opened(c) \in Contents
<1>1. disk["plugin"] \in Contents
  BY PartsAre
<1>2. Opened(c) = [c EXCEPT !.is = IF c.is = "none" THEN "whole" ELSE c.is,
                            !.release = disk["plugin"].release]
  BY DEF Opened
<1>. QED BY <1>1, <1>2 DEF Contents

(* The backup an operation restores from is there.                          *)
LEMMA SavedIs ==
    ASSUME TypeOK, RuleInv,
           \/ At("copy") \/ At("restoreUnit") \/ At("unlink") \/ At("make") \/ At("verify")
           \/ At("record")
    PROVE  /\ mine \in 1..Len(backups) /\ backups[mine] \in Backup /\ SavedState \in Contents
           /\ At("copy") => Saved \in Contents
<1>1. todo \in Seq(AnyStep) /\ mine \in 0..Len(backups) /\ backups \in Seq(Backup)
  BY DEF TypeOK
<1>2. todo # <<>> /\ This = Head(todo) /\ This \in MineRule.steps
  <2>1. CASE At("copy")
    BY <1>1, <2>1, AtStep, PartsAre, RuleFields DEF MineRule
  <2>2. ASSUME NEW d \in {"restoreUnit", "unlink", "make", "verify", "record"}, At(d)
        PROVE  todo # <<>> /\ This = Head(todo) /\ This \in MineRule.steps
    <3>1. todo # <<>> /\ This = Head(todo) /\ This = All(d)
      BY <1>1, <2>2, AtStep, StepsAre
    <3>. QED BY <2>2, <3>1, RuleFields DEF MineRule
  <2>. QED BY <2>1, <2>2
<1>3. mine # 0
  BY <1>1, <1>2, NextRelies DEF RuleInv
<1>4. mine \in 1..Len(backups) /\ backups[mine] \in Backup
  BY <1>1, <1>3, LenProperties, ElementOfSeq
<1>5. At("copy") => This.on \in Parts
  BY <1>1, AtStep
<1>. QED BY <1>4, <1>5, PartsAre DEF Saved, SavedState, Backup

(* What a copy leaves is what was saved, or a mixture of that and of what a *)
(* service wrote meanwhile.                                                 *)
LEMMA CopiedIs ==
    ASSUME TypeOK, RuleInv, At("copy")
    PROVE  /\ This.on \in Parts
           /\ \A c \in Copied :
                 /\ c \in Contents /\ c.is = Saved.is
                 /\ c.dispatch => Saved.dispatch \/ disk["state"].dispatch
                 /\ (This.on # "state" \/ ~visited) => c = Saved
<1>1. Saved \in Contents /\ disk["state"] \in Contents /\ This.on \in Parts
  BY SavedIs, AtStep, PartsAre DEF TypeOK
<1>2. CASE This.on # "state" \/ ~visited
  <2>1. CASE This.on # "state"
    <3>1. Copied = {Saved}
      BY <2>1 DEF Copied
    <3>. QED BY <1>1, <3>1
  <2>2. CASE ~visited
    <3>1. visited \in BOOLEAN
      BY DEF TypeOK
    <3>2. Copied = {Saved}
      BY <2>2, <3>1 DEF Copied
    <3>. QED BY <1>1, <3>2
  <2>. QED BY <1>2, <2>1, <2>2
<1>3. CASE ~(This.on # "state" \/ ~visited) /\ Saved.release = 0
  <2>1. Copied = {[disk["state"] EXCEPT !.is = Saved.is]}
    BY <1>3 DEF Copied
  <2>. QED BY <1>1, <1>3, <2>1 DEF Contents
<1>4. CASE ~(This.on # "state" \/ ~visited) /\ Saved.release # 0
  <2>. DEFINE Mixed(k, r, d) == [Saved EXCEPT !.keeps = k, !.release = r, !.dispatch = d]
  <2>1. Copied = {Mixed(k, r, d) : k \in SUBSET (Saved.keeps \cup disk["state"].keeps),
                                   r \in {Saved.release, disk["state"].release},
                                   d \in {Saved.dispatch, disk["state"].dispatch}}
    BY <1>4 DEF Copied
  <2>2. ASSUME NEW c \in Copied
        PROVE  /\ c \in Contents /\ c.is = Saved.is
               /\ c.dispatch => Saved.dispatch \/ disk["state"].dispatch
    <3>. HIDE DEF Mixed
    <3>1. PICK k \in SUBSET (Saved.keeps \cup disk["state"].keeps),
               r \in {Saved.release, disk["state"].release},
               d \in {Saved.dispatch, disk["state"].dispatch} : c = Mixed(k, r, d)
      BY <2>1
    <3>2. c = [Saved EXCEPT !.keeps = k, !.release = r, !.dispatch = d]
      BY <3>1 DEF Mixed
    <3>. QED BY <1>1, <3>2 DEF Contents
  <2>. QED BY <1>1, <1>4, <2>2
<1>. QED BY <1>2, <1>3, <1>4

LEMMA TornIs ==
    \A c \in Contents : \A t \in Torn(c) :
        /\ t \in Contents /\ t.is = "torn"
        /\ t.dispatch => c.dispatch
<1>. SUFFICES ASSUME NEW c \in Contents, NEW t \in Torn(c)
              PROVE  t \in Contents /\ t.is = "torn" /\ (t.dispatch => c.dispatch)
  OBVIOUS
<1>1. CASE t = [c EXCEPT !.is = "torn"]
  BY <1>1 DEF Contents
<1>2. CASE t = [Absent EXCEPT !.is = "torn"]
  <2>1. t.is = "torn" /\ t.dispatch = FALSE
    BY <1>2 DEF Absent
  <2>. QED BY <1>2, <2>1, ContentsAre
<1>. QED BY <1>1, <1>2 DEF Torn

(* What a step does to the folders, and to one of them only.                *)
LEMMA DiskMoves ==
    ASSUME TypeOK, RuleInv, StepTaken
    PROVE  \/ UNCHANGED disk
           \/ \E p \in Parts, c \in Contents : disk' = [disk EXCEPT ![p] = c]
<1>. DEFINE Put == \E p \in Parts, c \in Contents : disk' = [disk EXCEPT ![p] = c]
<1>1. /\ todo \in Seq(AnyStep) /\ disk \in [Parts -> Contents]
      /\ \A p \in Parts : disk[p] \in Contents
  BY DEF TypeOK
<1>2. disk["plugin"] \in Contents /\ disk["state"] \in Contents /\ disk["config"] \in Contents
  BY <1>1, PartsAre
<1>3. CASE Lock
  BY <1>2, <1>3, ContentsAre, PartsAre DEF Lock
<1>4. CASE DispatchOff
  <2>1. disk' = [disk EXCEPT !["state"] = [disk["state"] EXCEPT !.dispatch = FALSE]]
    BY <1>4 DEF DispatchOff
  <2>. QED BY <2>1, <1>2, ContentsAre, PartsAre
<1>5. CASE Drop
  BY <1>1, <1>5, ContentsAre, AtStep DEF Drop
<1>6. CASE Copy
  BY <1>6, CopiedIs DEF Copy
<1>7. CASE Place
  BY <1>7, ContentsAre, PartsAre DEF Place
<1>8. CASE Venv
  <2>1. disk' = [disk EXCEPT !["plugin"] = [disk["plugin"] EXCEPT !.ready = TRUE]]
    BY <1>8 DEF Venv
  <2>. QED BY <2>1, <1>2, ContentsAre, PartsAre
<1>9. CASE Schema
  <2>1. disk' = [disk EXCEPT !["state"] = Opened(disk["state"])]
    BY <1>9 DEF Schema
  <2>. QED BY <2>1, <1>1, <1>2, OpenedIs, PartsAre
<1>10. CASE Settings
  BY <1>2, <1>10, ContentsAre, PartsAre DEF Settings
<1>11. CASE Start
  <2>1. UNCHANGED disk \/ disk' = [disk EXCEPT !["state"] = Opened(disk["state"])]
    BY <1>11 DEF Start, Serve
  <2>. QED BY <2>1, <1>1, <1>2, OpenedIs, PartsAre
<1>12. CASE Unlink
  BY <1>2, <1>12, TornIs, PartsAre DEF Unlink
<1>13. CASE Make
  <2>1. disk' = [disk EXCEPT !["state"] =
                    IF SavedState.is = "none" THEN disk["state"] ELSE [Absent EXCEPT !.is = "torn"]]
    BY <1>13 DEF Make
  <2>. QED BY <1>2, <2>1, ContentsAre, PartsAre
<1>14. CASE ~(\/ Lock \/ DispatchOff \/ Unlink \/ Drop \/ Make \/ Copy \/ Place \/ Venv \/ Schema
              \/ Settings \/ Start)
  BY <1>14 DEF StepTaken, DisableUnit, CopyAll, Seal, Verify, RestoreUnit, DropUnit,
     RequirePlugin, WriteUnit, Unlock, ReadShell, CompareShell, ReplaceShell, Record
<1>. QED BY <1>3, <1>4, <1>5, <1>6, <1>7, <1>8, <1>9, <1>10, <1>11, <1>12, <1>13, <1>14

(* A step of an operation keeps note of a service in a folder in pieces,    *)
(* and of one whose database is gone.                                       *)
LEMMA VisitMoves ==
    ASSUME TypeOK, StepTaken
    PROVE  /\ visited' \in BOOLEAN /\ (visited => visited')
           /\ stray' \in BOOLEAN /\ (stray' => service' # "none")
<1>1. visited \in BOOLEAN /\ stray \in BOOLEAN /\ (stray => service # "none")
  BY DEF TypeOK
<1>2. CASE DisableUnit
  BY <1>1, <1>2 DEF DisableUnit
<1>3. CASE Copy
  <2>1. visited' = visited /\ service' = service /\ (UNCHANGED stray \/ Overwrites)
    BY <1>3 DEF Copy, serviceVars
  <2>2. CASE UNCHANGED stray
    BY <1>1, <2>1, <2>2
  <2>3. CASE Overwrites
    BY <1>1, <2>1, <2>3 DEF Overwrites
  <2>. QED BY <2>1, <2>2, <2>3
<1>4. CASE Start
  <2>1. CASE visited' = (visited \/ InPieces) /\ stray' = FALSE
    BY <1>1, <2>1 DEF InPieces
  <2>2. CASE UNCHANGED <<service, visitVars>>
    BY <1>1, <2>2 DEF visitVars
  <2>. QED BY <1>4, <2>1, <2>2 DEF Start, Serve
<1>5. CASE ~(DisableUnit \/ Copy \/ Start)
  <2>1. UNCHANGED <<service, visited, stray>>
    BY <1>5 DEF StepTaken, Lock, DispatchOff, CopyAll, Seal, Verify, Unlink, Drop, Make,
       RestoreUnit, DropUnit, RequirePlugin, Place, Venv, Schema, Settings, WriteUnit, Unlock,
       ReadShell, CompareShell, ReplaceShell, Record, serviceVars, visitVars
  <2>. QED BY <1>1, <2>1
<1>. QED BY <1>2, <1>3, <1>4, <1>5
LEMMA SealedIs ==
    ASSUME backups \in Seq(Backup), NEW n \in 0..Len(backups)
    PROVE  /\ [backups EXCEPT ![n].complete = TRUE] \in Seq(Backup)
           /\ Len([backups EXCEPT ![n].complete = TRUE]) = Len(backups)
           /\ \A m \in 1..Len(backups) :
                [backups EXCEPT ![n].complete = TRUE][m]
                   = IF m = n THEN [backups[m] EXCEPT !.complete = TRUE] ELSE backups[m]
<1>. DEFINE b == [backups EXCEPT ![n].complete = TRUE]
<1>1. backups \in [1..Len(backups) -> Backup] /\ Len(backups) \in Nat
  BY LenProperties
<1>2. \A c \in Backup : [c EXCEPT !.complete = TRUE] \in Backup
  BY DEF Backup
<1>3. /\ b \in [1..Len(backups) -> Backup]
      /\ \A m \in 1..Len(backups) :
            b[m] = IF m = n THEN [backups[m] EXCEPT !.complete = TRUE] ELSE backups[m]
  BY <1>1, <1>2
<1>. HIDE DEF b
<1>4. b \in Seq(Backup)
  BY <1>1, <1>3, SeqDef
<1>5. DOMAIN b = 1..Len(b) /\ Len(b) \in Nat /\ DOMAIN b = 1..Len(backups)
  BY <1>3, <1>4, LenProperties
<1>6. Len(b) = Len(backups)
  <2>1. \A i \in Int : i \in 1..Len(b) <=> i \in 1..Len(backups)
    BY <1>5
  <2>2. \A k, l \in Nat : (\A i \in Int : i \in 1..k <=> i \in 1..l) => k <= l
    <3>1. \A k, l \in Nat : (k \in 1..k <=> k \in 1..l) => k <= l
      OBVIOUS
    <3>. QED BY <3>1
  <2>3. Len(b) <= Len(backups) /\ Len(backups) <= Len(b)
    BY <1>1, <1>5, <2>1, <2>2
  <2>4. \A k, l \in Nat : k <= l /\ l <= k => k = l
    OBVIOUS
  <2>5. Len(b) \in Nat /\ Len(backups) \in Nat
    BY <1>1, <1>5
  <2>. QED BY <2>3, <2>4, <2>5
<1>. QED BY <1>3, <1>4, <1>6 DEF b

(* A step of an operation keeps TypeOK.                                     *)
LEMMA TypeStep ==
    ASSUME TypeOK, RuleInv, StepTaken
    PROVE  TypeOK'
<1>1. /\ todo \in Seq(AnyStep) /\ todo # <<>> /\ This = Head(todo) /\ todo' = Tail(todo)
      /\ op # "none" /\ todo' \in Seq(AnyStep)
      /\ UNCHANGED <<op, recovering, ops, faults>>
  BY Taken DEF TypeOK
<1>2. disk' \in [Parts -> Contents]
  BY DiskMoves, FolderPut DEF TypeOK
<1>3. unit' \in BOOLEAN /\ enabled' \in BOOLEAN
  <2>1. CASE RestoreUnit
    <3>1. backups[mine] \in Backup
      BY <2>1, SavedIs DEF RestoreUnit
    <3>. QED BY <2>1, <3>1 DEF RestoreUnit, Backup, TypeOK
  <2>2. CASE ~RestoreUnit
    BY <2>2 DEF StepTaken, TypeOK, DisableUnit, Lock, DispatchOff, CopyAll, Seal, Verify,
       Unlink, Drop, Make, Copy, DropUnit, RequirePlugin, Place, Venv, Schema, Settings, WriteUnit, Unlock, Start,
       ReadShell, CompareShell, ReplaceShell, Record, serviceVars
  <2>. QED BY <2>1, <2>2
<1>4. This = All("unlink") => held = "lock"
  <2>1. All("unlink") \in LockRule.steps
    BY RuleFields DEF LockRule
  <2>. QED BY <1>1, <2>1, NextRelies DEF RuleInv
<1>5. /\ service' \in {"none", "unit", "foreground"}
      /\ holder' \in {"none", "service", "installer"} /\ held' \in {"no", "lock", "orphan"}
      /\ (service' # "none") <=> (holder' = "service")
      /\ (held' = "lock") <=> (holder' = "installer")
  BY <1>1, <1>4, LockMoves DEF TypeOK, Released, UnitRuns
<1>6. backups' \in Seq(Backup) /\ mine' \in 0..Len(backups')
  <2>1. backups \in Seq(Backup) /\ mine \in 0..Len(backups) /\ Len(backups) \in Nat
    BY LenProperties DEF TypeOK
  <2>2. [parts |-> disk, unit |-> unit, complete |-> FALSE] \in Backup
    BY DEF TypeOK, Backup
  <2>3. CASE backups' = [backups EXCEPT ![Len(backups)].complete = TRUE] /\ mine' = Len(backups)
    BY <2>1, <2>3, SealedIs
  <2>4. CASE /\ mine' = mine
             /\ backups' = Append(backups, [parts |-> disk, unit |-> unit, complete |-> FALSE])
    BY <2>1, <2>2, <2>4, AppendProperties
  <2>. QED BY <1>1, <2>1, <2>3, <2>4, MineMoves
<1>7. shell' \in Shell /\ seen' \in Shell /\ late' \subseteq Edits
  <2>1. CASE ReplaceShell
    BY <2>1 DEF TypeOK, ReplaceShell, Shell
  <2>2. CASE ~ReplaceShell
    BY <2>2 DEF StepTaken, TypeOK, DisableUnit, Lock, DispatchOff, CopyAll, Seal, Verify,
       Unlink, Drop, Make, Copy, RestoreUnit, DropUnit, RequirePlugin, Place, Venv, Schema, Settings, WriteUnit,
       Unlock, Start, ReadShell, CompareShell, Record, shellVars
  <2>. QED BY <2>1, <2>2
<1>8. owed' \subseteq Items /\ asked' \in BOOLEAN
  <2>1. CASE Unlink
    <3>1. SavedState \in Contents
      BY <2>1, SavedIs DEF Unlink
    <3>2. asked' = asked /\ owed' = IF op = "rollback" THEN SavedState.keeps ELSE owed
      BY <2>1 DEF Unlink, GiveUpNewer
    <3>. QED BY <3>1, <3>2, ContentsAre DEF TypeOK
  <2>2. CASE ~Unlink
    BY <2>2 DEF StepTaken, TypeOK, DisableUnit, Lock, DispatchOff, CopyAll, Seal, Verify, Drop,
       Make, Copy, RestoreUnit, DropUnit, RequirePlugin, Place, Venv, Schema, Settings,
       WriteUnit, Unlock, Start, ReadShell, CompareShell, ReplaceShell, Record
  <2>. QED BY <2>1, <2>2
<1>. QED BY <1>1, <1>2, <1>3, <1>5, <1>6, <1>7, <1>8, VisitMoves DEF TypeOK
(* An operation that fails before it has done anything leaves all as it is. *)
Unmoved == UNCHANGED <<disk, unit, enabled, service, visited, stray, backups, shellVars,
                       owed, asked>>

(* A failure leaves what it was at torn, or as it was.                      *)
LEMMA DamageMoves ==
    ASSUME TypeOK, RuleInv, Damage
    PROVE  /\ UNCHANGED disk \/ \E p \in Parts, c \in Contents : disk' = [disk EXCEPT ![p] = c]
           /\ disk' \in [Parts -> Contents]
           /\ enabled' \in BOOLEAN /\ owed' \subseteq Items
           /\ stray' \in BOOLEAN /\ (stray' => service # "none")
           /\ UNCHANGED <<unit, service, backups, shellVars, visited, asked>>
<1>1. /\ todo \in Seq(AnyStep) /\ disk \in [Parts -> Contents] /\ enabled \in BOOLEAN
      /\ owed \subseteq Items /\ stray \in BOOLEAN /\ (stray => service # "none")
  BY DEF TypeOK
<1>2. UNCHANGED <<unit, service, backups, shellVars, visited, asked>>
  BY DEF Damage
<1>3. CASE UNCHANGED <<disk, stray, enabled, owed>>
  BY <1>1, <1>2, <1>3
<1>4. ASSUME NEW p \in Parts, Remove(p)
      PROVE  /\ \E c \in Contents : disk' = [disk EXCEPT ![p] = c]
             /\ disk' \in [Parts -> Contents]
             /\ stray' \in BOOLEAN /\ (stray' => service # "none")
  <2>1. disk[p] \in Contents
    BY <1>1
  <2>2. PICK t \in Torn(disk[p]) : disk' = [disk EXCEPT ![p] = t]
    BY <1>4 DEF Remove
  <2>3. t \in Contents
    BY <2>1, <2>2, TornIs
  <2>4. stray' \in BOOLEAN /\ (stray' => service # "none")
    BY <1>1, <1>4 DEF Remove
  <2>. QED BY <1>1, <2>2, <2>3, <2>4
<1>5. CASE At("unlink") /\ Remove("state") /\ GiveUpNewer /\ UNCHANGED enabled
  <2>1. SavedState \in Contents
    BY <1>5, SavedIs
  <2>2. owed' \subseteq Items
    BY <1>1, <1>5, <2>1, ContentsAre DEF GiveUpNewer
  <2>. QED BY <1>1, <1>2, <1>4, <1>5, <2>2, PartsAre
<1>6. CASE At("drop") /\ Remove(This.on) /\ UNCHANGED <<enabled, owed>>
  <2>1. This.on \in Parts
    BY <1>1, <1>6, AtStep
  <2>. QED BY <1>1, <1>2, <1>4, <1>6, <2>1
<1>7. CASE /\ At("copy")
           /\ \E c \in Copied : \E t \in Torn(c) : disk' = [disk EXCEPT ![This.on] = t]
           /\ Overwrites /\ UNCHANGED <<enabled, owed>>
  <2>1. This.on \in Parts /\ Copied \subseteq Contents
    BY <1>7, CopiedIs
  <2>2. PICK t \in Contents : disk' = [disk EXCEPT ![This.on] = t]
    BY <1>7, <2>1, TornIs
  <2>3. stray' \in BOOLEAN /\ (stray' => service # "none")
    BY <1>1, <1>7 DEF Overwrites
  <2>. QED BY <1>1, <1>2, <1>7, <2>1, <2>2, <2>3
<1>8. CASE At("start") /\ enabled' = TRUE /\ UNCHANGED <<disk, stray, owed>>
  BY <1>1, <1>2, <1>8
<1>. QED BY <1>3, <1>5, <1>6, <1>7, <1>8 DEF Damage

LEMMA RefusedMoves ==
    ASSUME Refused
    PROVE  op # "none" /\ faults' = faults /\ (Damage \/ Unmoved)
<1>1. CASE At("drop") \/ Clash
  BY <1>1 DEF Refused
<1>2. CASE ~(At("drop") \/ Clash)
  BY <1>2 DEF Refused, Unmoved, serviceVars, shellVars, visitVars
<1>. QED BY <1>1, <1>2

(* An operation ends, or gives way to the recovery.                         *)
LEMMA EndMoves ==
    ASSUME TypeOK, RuleInv, Finish \/ GiveUp
    PROVE  /\ op # "none" /\ Leave /\ faults' \in 0..MaxFaults
           /\ UNCHANGED <<unit, service, backups, shellVars, visited, asked>>
           /\ Unmoved \/ Damage
<1>. USE InstallerAssumption
<1>1. CASE Finish
  BY <1>1 DEF Finish, serviceVars, shellVars, visitVars, TypeOK, Unmoved
<1>2. CASE Fault /\ Leave
  BY <1>2 DEF Fault, Damage, TypeOK
<1>3. CASE Refused /\ Leave
  <2>1. faults' \in 0..MaxFaults
    BY <1>3, RefusedMoves DEF TypeOK
  <2>. QED BY <1>3, <2>1, RefusedMoves DEF Damage, Unmoved
<1>. QED BY <1>1, <1>2, <1>3 DEF GiveUp

LEMMA RecoverMoves ==
    ASSUME TypeOK, RuleInv, Recover
    PROVE  /\ op = "upgrade" /\ mine # 0 /\ ~recovering /\ todo' = RecoverySteps /\ recovering'
           /\ faults' \in 0..MaxFaults
           /\ UNCHANGED <<op, mine, ops, lockVars, unit, service, backups, shellVars,
                          visited, asked>>
           /\ Unmoved \/ Damage
<1>. USE InstallerAssumption
<1>1. CASE Fault
  BY <1>1 DEF Recover, Trying, Fault, Damage, TypeOK
<1>2. CASE Refused
  <2>1. faults' \in 0..MaxFaults
    BY <1>2, RefusedMoves DEF TypeOK
  <2>. QED BY <1>2, <2>1, RefusedMoves DEF Recover, Trying, Damage, Unmoved
<1>. QED BY <1>1, <1>2 DEF Recover

(* What others do beside an operation.                                      *)
Beside == \/ StartByHand \/ Login \/ ServiceStops \/ SetDispatch
          \/ (\E i \in Items : Keep(i)) \/ (\E e \in Edits : EditShell(e))

LEMMA BesideMoves ==
    ASSUME TypeOK, Beside
    PROVE  /\ UNCHANGED <<unit, enabled, held, backups, opVars, todo, seen>>
           /\ \/ UNCHANGED <<service, holder>>
              \/ holder = "none" /\ service' # "none" /\ holder' = "service"
                 /\ service' \in {"unit", "foreground"}
              \/ service # "none" /\ service' = "none" /\ holder' = "none"
           /\ \/ UNCHANGED <<disk, owed>>
              \/ \E c \in Contents : disk' = [disk EXCEPT !["state"] = c]
           /\ owed' \subseteq Items /\ asked' \in BOOLEAN
           /\ visited' \in BOOLEAN /\ (visited => visited')
           /\ stray' \in BOOLEAN /\ (stray' => service' # "none")
           /\ shell' \in Shell /\ late' \subseteq Edits
<1>1. disk \in [Parts -> Contents] /\ disk["state"] \in Contents /\ owed \subseteq Items
      /\ visited \in BOOLEAN /\ stray \in BOOLEAN /\ (stray => service # "none")
  BY PartsAre DEF TypeOK
<1>. DEFINE Visits == /\ visited' \in BOOLEAN /\ (visited => visited')
                      /\ stray' \in BOOLEAN /\ (stray' => service' # "none")
<1>11. ASSUME NEW how, Serve(how)
       PROVE  /\ Visits
              /\ \E c \in Contents : disk' = [disk EXCEPT !["state"] = c]
  <2>1. visited' \in BOOLEAN /\ (visited => visited')
    BY <1>1, <1>11 DEF Serve, InPieces
  <2>2. stray' = FALSE
    BY <1>11 DEF Serve
  <2>3. disk' = [disk EXCEPT !["state"] = Opened(disk["state"])]
    BY <1>11 DEF Serve
  <2>. QED BY <1>1, <2>1, <2>2, <2>3, OpenedIs
<1>2. CASE StartByHand
  BY <1>2, <1>11 DEF StartByHand, Serve, shellVars, TypeOK
<1>3. CASE Login
  BY <1>3, <1>11 DEF Login, UnitRuns, Serve, shellVars, TypeOK
<1>4. CASE ServiceStops
  BY <1>1, <1>4 DEF ServiceStops, shellVars, TypeOK
<1>5. CASE SetDispatch
  <2>1. \/ UNCHANGED disk
        \/ disk' = [disk EXCEPT !["state"] = [disk["state"] EXCEPT !.dispatch = TRUE]]
    BY <1>5 DEF SetDispatch
  <2>2. UNCHANGED <<unit, enabled, held, backups, opVars, todo, seen, service, holder, owed>>
        /\ Visits /\ asked' = TRUE /\ shell' \in Shell /\ late' \subseteq Edits
    BY <1>1, <1>5 DEF SetDispatch, shellVars, serviceVars, lockVars, visitVars, TypeOK
  <2>. QED BY <1>1, <2>1, <2>2, ContentsAre
<1>6. ASSUME NEW i \in Items, Keep(i)
      PROVE  /\ UNCHANGED <<unit, enabled, held, backups, opVars, todo, shellVars, service, holder>>
             /\ \/ UNCHANGED <<disk, owed>>
                \/ \E c \in Contents : disk' = [disk EXCEPT !["state"] = c]
             /\ Visits /\ owed' \subseteq Items /\ asked' \in BOOLEAN
  <2>1. UNCHANGED <<disk, owed>> \/ disk' = [disk EXCEPT !["state"]
                    = [disk["state"] EXCEPT !.keeps = disk["state"].keeps \cup {i}]]
    BY <1>6 DEF Keep
  <2>2. [disk["state"] EXCEPT !.keeps = disk["state"].keeps \cup {i}] \in Contents
    BY <1>1 DEF Contents
  <2>3. owed' \subseteq Items
    BY <1>1, <1>6 DEF Keep
  <2>4. UNCHANGED <<unit, enabled, held, backups, opVars, todo, shellVars, service, holder>>
        /\ Visits /\ asked' \in BOOLEAN
    BY <1>1, <1>6 DEF Keep, serviceVars, lockVars, visitVars, TypeOK
  <2>. QED BY <2>1, <2>2, <2>3, <2>4
<1>7. ASSUME NEW e \in Edits, EditShell(e)
      PROVE  /\ UNCHANGED <<unit, enabled, held, backups, opVars, todo, seen, service, holder>>
             /\ Visits /\ UNCHANGED <<disk, owed,
                                      asked>> /\ shell' \in Shell /\ late' \subseteq Edits
  BY <1>1, <1>7 DEF EditShell, serviceVars, lockVars, visitVars, TypeOK, Shell
<1>8. UNCHANGED shellVars => seen' = seen /\ shell' \in Shell /\ late' \subseteq Edits
  BY DEF shellVars, TypeOK
<1>9. CASE \E i \in Items : Keep(i)
  BY <1>6, <1>8, <1>9
<1>10. CASE \E e \in Edits : EditShell(e)
  BY <1>7, <1>10 DEF TypeOK
<1>. QED BY <1>2, <1>3, <1>4, <1>5, <1>9, <1>10 DEF Beside


(***************************************************************************)
(* Every step of the system.                                               *)
(***************************************************************************)
LEMMA NextMoves ==
    ASSUME Next
    PROVE  \/ \E o \in Operations : Begin(o)
           \/ StepTaken \/ Finish \/ GiveUp \/ Recover \/ Beside
BY DEF Next, StepTaken, Beside

LEMMA NoneLeft == <<>> \in Seq(AnyStep) /\ InRule(<<>>) /\ Fresh(<<>>)
BY NothingRelies, EmptySeq DEF InRule, Fresh

LEMMA BaseInit == Init => BaseInv
<1>. SUFFICES ASSUME Init  PROVE BaseInv
  OBVIOUS
<1>1. TypeOK
  <2>1. PICK r \in Releases \cup {0} :
          /\ disk = [p \in Parts |->
                IF r = 0 THEN Absent
                ELSE [Bare EXCEPT !.release = IF p = "config" THEN 0 ELSE r,
                                  !.ready = (p = "plugin")]]
          /\ unit = (r # 0) /\ enabled = (r # 0)
          /\ service = (IF r = 0 THEN "none" ELSE "unit")
          /\ holder = (IF r = 0 THEN "none" ELSE "service")
          /\ shell = [widget |-> r # 0, edits |-> {}]
    BY DEF Init
  <2>2. \A p \in Parts : [Bare EXCEPT !.release = IF p = "config" THEN 0 ELSE r,
                                      !.ready = (p = "plugin")] \in Contents
    BY DEF Contents, Absent, Bare
  <2>3. disk \in [Parts -> Contents]
    BY <2>1, <2>2, ContentsAre
  <2>4. shell \in Shell
    BY <2>1 DEF Shell
  <2>5. backups \in Seq(Backup) /\ mine \in 0..Len(backups)
    <3>1. backups \in Seq(Backup)
      BY EmptySeq DEF Init
    <3>2. Len(backups) = 0 /\ mine = 0
      BY <3>1, EmptySeq DEF Init
    <3>. QED BY <3>1, <3>2
  <2>6. /\ held = "no" /\ visited = FALSE /\ stray = FALSE /\ seen = shell /\ op = "none" /\ todo = <<>> /\ recovering = FALSE
        /\ ops = 0 /\ faults = 0 /\ owed = {} /\ asked = FALSE /\ late = {}
    BY DEF Init
  <2>7. todo \in Seq(AnyStep) /\ ops \in 0..MaxOps /\ faults \in 0..MaxFaults
    BY <2>6, NoneLeft, InstallerAssumption
  <2>8. /\ service \in {"none", "unit", "foreground"}
        /\ holder \in {"none", "service", "installer"} /\ unit \in BOOLEAN /\ enabled \in BOOLEAN
        /\ (service # "none") <=> (holder = "service")
        /\ holder # "installer"
    BY <2>1
  <2>. QED BY <2>3, <2>4, <2>5, <2>6, <2>7, <2>8 DEF TypeOK
<1>2. RuleInv
  BY NothingRelies, NoneLeft DEF Init, RuleInv
<1>. QED BY <1>1, <1>2 DEF BaseInv

LEMMA BaseStep == BaseInv /\ [Next]_vars => BaseInv'
<1>. SUFFICES ASSUME BaseInv, [Next]_vars  PROVE BaseInv'
  OBVIOUS
<1>. USE DEF BaseInv
<1>1. ASSUME NEW o \in Operations, Begin(o)  PROVE BaseInv'
  <2>1. /\ op = "none" /\ held = "no" /\ op' = o /\ todo' = StepsOf(o) /\ ~recovering'
        /\ UNCHANGED <<disk, unit, enabled, service, holder, held, backups, shell, seen, late,
                       faults, owed, asked, stray>>
        /\ visited' \in BOOLEAN
        /\ ops' = ops + 1 /\ ops < MaxOps /\ recovering' \in BOOLEAN
    BY <1>1 DEF Begin, TypeOK, serviceVars, lockVars, shellVars
  <2>2. IF o = "rollback" THEN mine' \in 1..Len(backups) ELSE mine' = 0
    <3>1. DOMAIN backups = 1..Len(backups)
      BY LenProperties DEF TypeOK
    <3>. QED BY <1>1, <3>1 DEF Begin
  <2>3. mine' \in 0..Len(backups') /\ ops' \in 0..MaxOps
    <3>1. Len(backups) \in Nat
      BY LenProperties DEF TypeOK
    <3>. QED BY <2>1, <2>2, <3>1, InstallerAssumption DEF TypeOK
  <2>4. o # "none"
    BY DEF Operations
  <2>5. todo' \in Seq(AnyStep) /\ Fresh(todo') /\ InRule(todo')
    BY <2>1, ProgramsKeep
  <2>6. TypeOK'
    BY <2>1, <2>3, <2>4, <2>5 DEF TypeOK
  <2>7. ~Relies(todo', LockRule) /\ ~Relies(todo', HoldRule) /\ ~Relies(todo', OrphanRule)
    BY <2>5 DEF Fresh, FreshRules
  <2>8. o # "rollback" => ~Relies(todo', RestoreRule) /\ ~Relies(todo', MineRule)
    BY <2>1, ProgramsKeep
  <2>9. RuleInv'
    BY <2>1, <2>2, <2>5, <2>7, <2>8 DEF RuleInv
  <2>. QED BY <2>6, <2>9
<1>2. CASE StepTaken
  BY <1>2, TypeStep, RulesStep
<1>3. CASE Finish \/ GiveUp
  <2>1. /\ op' = "none" /\ todo' = <<>> /\ mine' = 0 /\ recovering' = FALSE /\ ops' = ops
        /\ held' = "no" /\ holder' = IF held = "lock" THEN "none" ELSE holder
    BY <1>3, EndMoves DEF Leave, Released
  <2>2. /\ disk' \in [Parts -> Contents] /\ enabled' \in BOOLEAN /\ owed' \subseteq Items
        /\ UNCHANGED <<unit, service, backups, shell, seen, late, visited, asked>>
        /\ stray' \in BOOLEAN /\ (stray' => service # "none")
        /\ faults' \in 0..MaxFaults
    BY <1>3, EndMoves, DamageMoves DEF TypeOK, shellVars, Unmoved
  <2>3. mine' \in 0..Len(backups')
    BY <2>1, <2>2 DEF TypeOK
  <2>4. TypeOK'
    BY <2>1, <2>2, <2>3, NoneLeft DEF TypeOK
  <2>5. RuleInv'
    BY <2>1, NothingRelies, NoneLeft DEF RuleInv
  <2>. QED BY <2>4, <2>5
<1>4. CASE Recover
  <2>1. /\ op = "upgrade" /\ mine # 0 /\ ~recovering /\ todo' = RecoverySteps /\ recovering'
        /\ UNCHANGED <<op, mine, ops, holder, held, unit, service, backups, shell, seen, late,
                       visited, asked>>
        /\ recovering' \in BOOLEAN /\ faults' \in 0..MaxFaults
    BY <1>4, RecoverMoves DEF lockVars, shellVars, Recover
  <2>2. /\ disk' \in [Parts -> Contents] /\ enabled' \in BOOLEAN /\ owed' \subseteq Items
        /\ stray' \in BOOLEAN /\ (stray' => service # "none")
    BY <1>4, RecoverMoves, DamageMoves DEF TypeOK, Unmoved
  <2>3. todo' \in Seq(AnyStep) /\ Fresh(todo') /\ InRule(todo')
    BY <2>1, ProgramsKeep
  <2>4. TypeOK'
    BY <2>1, <2>2, <2>3 DEF TypeOK
  <2>5. ~Relies(todo', LockRule) /\ ~Relies(todo', HoldRule) /\ ~Relies(todo', OrphanRule)
    BY <2>3 DEF Fresh, FreshRules
  <2>6. held # "orphan"
    BY <2>1 DEF RuleInv
  <2>7. RuleInv'
    BY <2>1, <2>3, <2>5, <2>6 DEF RuleInv
  <2>. QED BY <2>4, <2>7
<1>5. CASE Beside
  <2>1. /\ UNCHANGED <<unit, enabled, held, backups, op, mine, recovering, ops, faults, todo,
                       seen>>
        /\ owed' \subseteq Items /\ asked' \in BOOLEAN
        /\ shell' \in Shell /\ late' \subseteq Edits
        /\ visited' \in BOOLEAN /\ stray' \in BOOLEAN /\ (stray' => service' # "none")
    BY <1>5, BesideMoves DEF opVars
  <2>2. disk' \in [Parts -> Contents]
    BY <1>5, BesideMoves, FolderPut, PartsAre DEF TypeOK
  <2>3. /\ service' \in {"none", "unit", "foreground"}
        /\ holder' \in {"none", "service", "installer"}
        /\ (service' # "none") <=> (holder' = "service")
        /\ (held' = "lock") <=> (holder' = "installer")
    BY <1>5, <2>1, BesideMoves DEF TypeOK
  <2>4. TypeOK'
    BY <2>1, <2>2, <2>3 DEF TypeOK
  <2>5. RuleInv'
    BY <2>1 DEF RuleInv
  <2>. QED BY <2>4, <2>5
<1>6. CASE UNCHANGED vars
  BY <1>6 DEF vars, serviceVars, lockVars, shellVars, visitVars, opVars, TypeOK, RuleInv
<1>. QED BY <1>1, <1>2, <1>3, <1>4, <1>5, <1>6, NextMoves

LEMMA BaseAlways == Spec => []BaseInv
<1>. QED BY BaseInit, BaseStep, PTL DEF Spec

(* The state keeps its types: the folders and the backups' contents, the    *)
(* steps left, a lock that is held by one at most, and by the service       *)
(* exactly while it runs; outside of operations manage.py has no lock.      *)
THEOREM InstallerTyped == Spec => []TypeOK
BY BaseAlways, PTL DEF BaseInv

(***************************************************************************)
(* The folders, and who may touch them.                                    *)
(***************************************************************************)
Gone(c) == c.is = "none" => c = Absent

FolderInv ==
    /\ service # "none" => disk["plugin"].is = "whole" /\ disk["state"].is # "none"
    /\ Relies(todo, OrphanRule) => (service # "none" => visited)
    /\ \A p \in Parts : Gone(disk[p])
    /\ \A n \in 1..Len(backups) : \A p \in Parts : Gone(backups[n].parts[p])

(* The lock that a step relies on.                                          *)
LEMMA HeldAt ==
    ASSUME BaseInv
    PROVE  /\ \A d \in {"dispatchOff", "copyAll", "seal", "venv", "schema", "settings", "record",
                      "unlink"} : At(d) => held = "lock"
           /\ At("drop") /\ This.on = "plugin" => held = "lock"
           /\ At("copy") /\ This.on = "plugin" => held = "lock"
           /\ At("drop") \/ At("copy") \/ At("make") => held # "no"
           /\ At("drop") /\ This.on = "state" => Relies(todo, OrphanRule)
           /\ held = "lock" => service = "none"
<1>1. /\ todo \in Seq(AnyStep)
      /\ held = "lock" => service = "none"
      /\ Relies(todo, LockRule) => held = "lock"
      /\ Relies(todo, HoldRule) => held # "no"
  BY DEF BaseInv, TypeOK, RuleInv
<1>2. ASSUME NEW d \in {"dispatchOff", "copyAll", "seal", "venv", "schema", "settings", "record",
                     "unlink"}, At(d)
      PROVE  held = "lock"
  <2>1. todo # <<>> /\ Head(todo) = All(d)
    BY <1>1, <1>2, AtStep, StepsAre
  <2>2. All(d) \in LockRule.steps
    BY RuleFields DEF LockRule
  <2>. QED BY <1>1, <2>1, <2>2, NextRelies
<1>3. ASSUME NEW d \in {"drop", "copy"}, At(d)
      PROVE  todo # <<>> /\ Head(todo) = Step(d, This.on) /\ This.on \in Parts
  BY <1>1, <1>3, AtStep
<1>4. /\ Step("drop", "plugin") \in LockRule.steps /\ Step("copy", "plugin") \in LockRule.steps
      /\ Step("drop", "state") \in HoldRule.steps /\ All("make") \in HoldRule.steps
      /\ Step("drop", "state") \in OrphanRule.steps
      /\ Step("drop", "config") \in HoldRule.steps /\ Step("copy", "config") \in HoldRule.steps
      /\ Step("copy", "state") \in HoldRule.steps
  BY RuleFields DEF LockRule, HoldRule, OrphanRule
<1>6. At("make") => held # "no"
  <2>1. At("make") => todo # <<>> /\ Head(todo) = All("make")
    BY <1>1, AtStep, StepsAre
  <2>. QED BY <1>1, <1>4, <2>1, NextRelies
<1>5. /\ At("drop") /\ This.on = "plugin" => held = "lock"
      /\ At("copy") /\ This.on = "plugin" => held = "lock"
      /\ At("drop") /\ This.on \in {"config", "state"} => held # "no"
      /\ At("drop") /\ This.on = "state" => Relies(todo, OrphanRule)
      /\ At("copy") /\ This.on \in {"config", "state"} => held # "no"
  BY <1>1, <1>3, <1>4, NextRelies
<1>. QED BY <1>1, <1>2, <1>3, <1>5, <1>6, PartsAre

(* While a step relies on the lock's being gone, the state is in pieces.    *)
LEMMA PiecesAre ==
    ASSUME BaseInv, Relies(todo, OrphanRule)
    PROVE  /\ InPieces /\ op # "none" /\ todo # <<>> /\ This = Head(todo)
           /\ held = "orphan"
<1>1. todo \in Seq(AnyStep) /\ Keeps(todo, OrphanRule) /\ held = "orphan"
      /\ (op = "none" => todo = <<>>)
  BY DEF BaseInv, TypeOK, RuleInv, InRule, Rules, FreshRules
<1>2. todo # <<>> /\ (Head(todo) \in OrphanRule.steps \/ Head(todo) \notin OrphanRule.until)
  BY <1>1, HeadRelies
<1>3. Head(todo) \in AnyStep
  BY <1>1, <1>2, HeadTailProperties
<1>4. Head(todo) \in {Step("drop", "state"), All("make"), Step("copy", "state")}
  BY <1>2, <1>3, RuleFields DEF OrphanRule
<1>. QED BY <1>1, <1>2, <1>4 DEF InPieces, This

(* The folder that a step removes or copies.                                *)
LEMMA OnIs ==
    ASSUME BaseInv, At("drop") \/ At("copy")
    PROVE  This.on \in Parts /\ disk[This.on] \in Contents
BY AtStep DEF BaseInv, TypeOK

LEMMA DisksAre ==
    ASSUME BaseInv
    PROVE  /\ disk \in [Parts -> Contents] /\ backups \in Seq(Backup) /\ Len(backups) \in Nat
           /\ disk["plugin"] \in Contents /\ disk["state"] \in Contents
           /\ disk["config"] \in Contents
           /\ \A n \in 1..Len(backups) : backups[n] \in Backup
BY PartsAre, LenProperties, ElementOfSeq DEF BaseInv, TypeOK

(* What a step does to the backups: one is made, or the last is sealed.     *)
LEMMA BackupMoves ==
    ASSUME BaseInv, StepTaken
    PROVE  /\ Len(backups') \in Nat
           /\ \A n \in 1..Len(backups) :
                 /\ n \in 1..Len(backups')
                 /\ backups'[n].parts = backups[n].parts /\ backups'[n].unit = backups[n].unit
                 /\ backups[n].complete => backups'[n].complete
           /\ This # All("copyAll") => Len(backups') = Len(backups)
           /\ This = All("copyAll") => /\ mine' = mine /\ Len(backups') = Len(backups) + 1
                                       /\ backups'[Len(backups')].parts = disk
           /\ This = All("seal") => /\ mine' = Len(backups)
                                    /\ Len(backups) # 0 => backups'[Len(backups)].complete
           /\ This \notin {All("copyAll"), All("seal")} => UNCHANGED <<mine, backups>>
<1>1. /\ todo \in Seq(AnyStep) /\ backups \in Seq(Backup) /\ Len(backups) \in Nat
      /\ \A n \in 1..Len(backups) : backups[n] \in Backup
      /\ All("seal") # All("copyAll")
  BY DisksAre, AllDiffer DEF BaseInv, TypeOK
<1>2. CASE This \notin {All("copyAll"), All("seal")} /\ UNCHANGED <<mine, backups>>
  BY <1>1, <1>2
<1>3. CASE /\ This = All("copyAll") /\ mine' = mine
           /\ backups' = Append(backups, [parts |-> disk, unit |-> unit, complete |-> FALSE])
  <2>. DEFINE made == [parts |-> disk, unit |-> unit, complete |-> FALSE]
  <2>1. made \in Backup /\ made.parts = disk
    BY DEF Backup, BaseInv, TypeOK
  <2>. HIDE DEF made
  <2>2. /\ Len(backups') = Len(backups) + 1
        /\ \A n \in 1..Len(backups) : backups'[n] = backups[n]
        /\ backups'[Len(backups) + 1] = made
    BY <1>1, <1>3, <2>1, AppendProperties DEF made
  <2>. QED BY <1>1, <1>3, <2>1, <2>2
<1>4. CASE /\ This = All("seal") /\ mine' = Len(backups)
           /\ backups' = [backups EXCEPT ![Len(backups)].complete = TRUE]
  <2>1. Len(backups) \in 0..Len(backups)
    BY <1>1
  <2>2. /\ Len(backups') = Len(backups)
        /\ \A n \in 1..Len(backups) :
              backups'[n] = IF n = Len(backups) THEN [backups[n] EXCEPT !.complete = TRUE]
                            ELSE backups[n]
    BY <1>1, <1>4, <2>1, SealedIs
  <2>3. \A n \in 1..Len(backups) :
           LET b == [backups[n] EXCEPT !.complete = TRUE] IN
             b.parts = backups[n].parts /\ b.unit = backups[n].unit /\ b.complete
    BY <1>1 DEF Backup
  <2>4. Len(backups) # 0 => Len(backups) \in 1..Len(backups)
    BY <1>1
  <2>. QED BY <1>1, <1>4, <2>2, <2>3, <2>4
<1>. QED BY <1>1, <1>2, <1>3, <1>4, MineMoves

(* What each kind of step leaves of each folder.                            *)
LEMMA FolderStep ==
    ASSUME BaseInv, FolderInv, StepTaken
    PROVE  /\ disk' # disk => service = "none" \/ held = "orphan"
           /\ \A p \in Parts : Gone(disk'[p])
           /\ service' # "none" => disk'["plugin"].is = "whole" /\ disk'["state"].is # "none"
<1>1. /\ disk \in [Parts -> Contents] /\ \A p \in Parts : disk[p] \in Contents /\ Gone(disk[p])
      /\ disk["plugin"] \in Contents /\ disk["state"] \in Contents /\ disk["config"] \in Contents
      /\ service # "none" => disk["plugin"].is = "whole" /\ disk["state"].is # "none"
      /\ Relies(todo, OrphanRule) => (service # "none" => visited)
      /\ held = "lock" => service = "none"
      /\ (service # "none") <=> (holder = "service")
      /\ (held = "lock") <=> (holder = "installer")
      /\ held \in {"no", "lock", "orphan"}
  BY DisksAre DEF BaseInv, TypeOK, FolderInv
<1>2. /\ Gone(Absent) /\ Gone(Bare) /\ Bare.is = "whole"
      /\ \A c \in Contents : Gone(c) => Gone([c EXCEPT !.dispatch = FALSE])
      /\ \A c \in Contents : [c EXCEPT !.dispatch = FALSE].is = c.is
      /\ \A c \in Contents : [c EXCEPT !.ready = TRUE].is = c.is
      /\ \A r \in Releases : [Bare EXCEPT !.release = r].is = "whole"
      /\ \A c \in Contents : Opened(c).is = IF c.is = "none" THEN "whole" ELSE c.is
  <2>1. Gone(Absent) /\ Gone(Bare) /\ Bare.is = "whole"
    BY DEF Gone, Absent, Bare
  <2>2. [Absent EXCEPT !.dispatch = FALSE] = Absent
    <3>1. Absent \in Contents /\ Absent.dispatch = FALSE
      BY ContentsAre DEF Absent
    <3>2. \A c \in Contents : c.dispatch = FALSE => [c EXCEPT !.dispatch = FALSE] = c
      BY DEF Contents
    <3>. QED BY <3>1, <3>2
  <2>3. /\ \A c \in Contents : [c EXCEPT !.dispatch = FALSE].is = c.is
        /\ \A c \in Contents : [c EXCEPT !.ready = TRUE].is = c.is
    BY DEF Contents
  <2>4. \A c \in Contents : Gone(c) => Gone([c EXCEPT !.dispatch = FALSE])
    BY <2>2, <2>3 DEF Gone
  <2>5. \A r \in Releases : [Bare EXCEPT !.release = r].is = "whole"
    BY DEF Absent, Bare
  <2>6. \A c \in Contents : Opened(c).is = IF c.is = "none" THEN "whole" ELSE c.is
    BY DEF Opened, Contents
  <2>. QED BY <2>1, <2>3, <2>4, <2>5, <2>6
<1>3. CASE UNCHANGED disk /\ (service' = service \/ service' = "none")
  BY <1>1, <1>3
<1>4. CASE Lock
  <2>1. /\ disk' = [disk EXCEPT !["state"] = IF disk["state"].is = "none" THEN Bare
                                             ELSE disk["state"]]
        /\ service' = service /\ (held = "no" => holder = "none")
    BY <1>4 DEF Lock, Done, Able, serviceVars
  <2>. QED BY <1>1, <1>2, <2>1, PartsAre
<1>5. CASE DispatchOff
  <2>1. /\ disk' = [disk EXCEPT !["state"] = [disk["state"] EXCEPT !.dispatch = FALSE]]
        /\ service' = service /\ held = "lock"
    BY <1>5, HeldAt DEF DispatchOff, serviceVars
  <2>. QED BY <1>1, <1>2, <2>1, PartsAre
<1>6. CASE Drop
  <2>1. /\ This.on \in Parts /\ disk' = [disk EXCEPT ![This.on] = Absent]
        /\ service' = service /\ held # "no"
        /\ This.on = "plugin" => held = "lock"
        /\ This.on = "state" => Relies(todo, OrphanRule) /\ ~visited
    BY <1>6, HeldAt, OnIs DEF Drop, Done, Able, serviceVars
  <2>. QED BY <1>1, <1>2, <2>1, PartsAre
<1>7. CASE Copy
  <2>1. /\ This.on \in Parts /\ service' = service /\ held # "no"
        /\ This.on = "plugin" => held = "lock"
    BY <1>7, HeldAt, OnIs DEF Copy, serviceVars
  <2>2. CASE Saved.is = "none"
    BY <1>3, <1>7, <2>1, <2>2 DEF Copy
  <2>3. CASE Saved.is # "none"
    <3>1. PICK c \in Copied : disk' = [disk EXCEPT ![This.on] = c]
      BY <1>7, <2>3 DEF Copy
    <3>2. c.is # "none" /\ Gone(c)
      BY <1>7, <2>3, CopiedIs DEF Copy, BaseInv, Gone
    <3>. QED BY <1>1, <2>1, <3>1, <3>2, PartsAre
  <2>. QED BY <2>2, <2>3
<1>8. CASE Place
  <2>1. PICK r \in Releases : disk' = [disk EXCEPT !["plugin"] = [Bare EXCEPT !.release = r]]
    BY <1>8 DEF Place
  <2>2. disk["plugin"].is = "none" /\ service' = service
    BY <1>8 DEF Place, Done, Able, serviceVars
  <2>3. Gone([Bare EXCEPT !.release = r])
    BY <1>2 DEF Gone
  <2>. QED BY <1>1, <1>2, <2>1, <2>2, <2>3, PartsAre
<1>9. CASE Venv
  <2>1. /\ disk' = [disk EXCEPT !["plugin"] = [disk["plugin"] EXCEPT !.ready = TRUE]]
        /\ service' = service /\ held = "lock" /\ disk["plugin"].is = "whole"
    BY <1>9, HeldAt DEF Venv, Done, Able, serviceVars
  <2>2. Gone([disk["plugin"] EXCEPT !.ready = TRUE])
    BY <1>1, <1>2, <2>1 DEF Gone
  <2>. QED BY <1>1, <1>2, <2>1, <2>2, PartsAre
<1>10. CASE Schema
  <2>1. /\ disk' = [disk EXCEPT !["state"] = Opened(disk["state"])]
        /\ service' = service /\ held = "lock"
    BY <1>10, HeldAt DEF Schema, serviceVars
  <2>2. Gone(Opened(disk["state"])) /\ Opened(disk["state"]).is # "none"
    BY <1>1, <1>2 DEF Gone
  <2>. QED BY <1>1, <2>1, <2>2, PartsAre
<1>11. CASE Settings
  <2>1. /\ disk' = [disk EXCEPT !["config"] = IF disk["config"].is = "none" THEN Bare
                                              ELSE disk["config"]]
        /\ service' = service /\ held = "lock"
    BY <1>11, HeldAt DEF Settings, serviceVars
  <2>. QED BY <1>1, <1>2, <2>1, PartsAre
<1>12. CASE Start /\ UnitRuns
  <2>1. /\ disk' = [disk EXCEPT !["state"] = Opened(disk["state"])]
        /\ holder = "none" /\ disk["plugin"].is = "whole"
    BY <1>12 DEF Start, Serve, UnitRuns
  <2>2. Gone(Opened(disk["state"])) /\ Opened(disk["state"]).is # "none"
    BY <1>1, <1>2 DEF Gone
  <2>. QED BY <1>1, <2>1, <2>2, PartsAre
<1>14. CASE Unlink
  <2>1. PICK t \in Torn(disk["state"]) : disk' = [disk EXCEPT !["state"] = t]
    BY <1>14 DEF Unlink
  <2>2. t.is = "torn" /\ Gone(t)
    BY <1>1, TornIs DEF Gone
  <2>3. service' = service /\ held = "lock"
    BY <1>14, HeldAt DEF Unlink, serviceVars
  <2>. QED BY <1>1, <2>1, <2>2, <2>3, PartsAre
<1>15. CASE Make
  <2>. DEFINE left == [Absent EXCEPT !.is = "torn"]
  <2>1. left.is = "torn" /\ Gone(left)
    BY DEF Absent, Gone
  <2>2. /\ disk' = [disk EXCEPT !["state"] = IF SavedState.is = "none" THEN disk["state"]
                                             ELSE left]
        /\ service' = service /\ held # "no"
    BY <1>15, HeldAt DEF Make, serviceVars
  <2>. HIDE DEF left
  <2>. QED BY <1>1, <2>1, <2>2, PartsAre
<1>13. CASE ~(\/ Lock \/ DispatchOff \/ Unlink \/ Make \/ Drop \/ Copy \/ Place \/ Venv \/ Schema \/ Settings
              \/ (Start /\ UnitRuns))
  <2>1. UNCHANGED disk /\ (service' = service \/ service' = "none")
    BY <1>13 DEF StepTaken, DisableUnit, CopyAll, Seal, Verify, RestoreUnit, DropUnit, Start,
       RequirePlugin, WriteUnit, Unlock, ReadShell, CompareShell, ReplaceShell, Record, serviceVars
  <2>. QED BY <1>3, <2>1
<1>. QED BY <1>4, <1>5, <1>6, <1>7, <1>8, <1>9, <1>10, <1>11, <1>12, <1>13, <1>14,
      <1>15

(* No service runs unseen while the state folder is in pieces.              *)
LEMMA PiecesStep ==
    ASSUME BaseInv, FolderInv, StepTaken
    PROVE  Relies(todo', OrphanRule) => (service' # "none" => visited')
<1>1. /\ todo \in Seq(AnyStep) /\ todo # <<>> /\ This = Head(todo) /\ todo' = Tail(todo)
      /\ Keeps(todo, OrphanRule) /\ This \in AnyStep
  BY Taken DEF BaseInv, TypeOK, RuleInv, InRule, Rules, FreshRules
<1>. SUFFICES ASSUME Relies(todo', OrphanRule)  PROVE service' # "none" => visited'
  OBVIOUS
<1>2. \/ This = All("unlink")
      \/ Relies(todo, OrphanRule) /\ This \in {Step("drop", "state"), All("make")}
  BY <1>1, RestRelies, RuleFields DEF OrphanRule
<1>3. {All("unlink"), Step("drop", "state"), All("make")}
         \cap {All("lock"), All("unlock"), All("disableUnit"), All("start")} = {}
  BY StepFields DEF All
<1>4. service' = service
  BY <1>1, <1>2, <1>3, LockMoves
<1>5. CASE This = All("unlink")
  <2>1. op # "none" /\ This.do = "unlink"
    BY <1>5, Taken, StepFields DEF BaseInv, TypeOK, All
  <2>. QED BY <1>4, <2>1, HeldAt DEF At
<1>6. CASE Relies(todo, OrphanRule)
  BY <1>4, <1>6, VisitMoves DEF FolderInv, BaseInv
<1>. QED BY <1>2, <1>5, <1>6

(* A failure in the middle of a step touches what the step would.           *)
LEMMA FolderDamage ==
    ASSUME BaseInv, FolderInv, Damage
    PROVE  /\ disk' # disk => service = "none" \/ held = "orphan"
           /\ \A p \in Parts : Gone(disk'[p])
           /\ service' # "none" => disk'["plugin"].is = "whole" /\ disk'["state"].is # "none"
           /\ UNCHANGED <<service, backups>>
<1>1. /\ disk \in [Parts -> Contents] /\ \A p \in Parts : disk[p] \in Contents /\ Gone(disk[p])
      /\ service # "none" => disk["plugin"].is = "whole" /\ disk["state"].is # "none"
      /\ held = "lock" => service = "none"
      /\ held \in {"no", "lock", "orphan"}
      /\ UNCHANGED <<service, backups>>
  BY DisksAre DEF BaseInv, TypeOK, FolderInv, Damage
<1>2. CASE UNCHANGED disk
  BY <1>1, <1>2
<1>3. ASSUME NEW p \in Parts, NEW c \in Contents, NEW t \in Torn(c),
             disk' = [disk EXCEPT ![p] = t], held # "no", p = "plugin" => held = "lock"
      PROVE  /\ disk' # disk => service = "none" \/ held = "orphan"
             /\ \A q \in Parts : Gone(disk'[q])
             /\ service' # "none" => disk'["plugin"].is = "whole" /\ disk'["state"].is # "none"
  <2>1. t.is = "torn" /\ Gone(t)
    BY TornIs DEF Gone
  <2>. QED BY <1>1, <1>3, <2>1, PartsAre
<1>4. CASE At("unlink") /\ Remove("state")
  <2>1. held = "lock"
    BY <1>4, HeldAt
  <2>. QED BY <1>1, <1>3, <1>4, <2>1, PartsAre DEF Remove
<1>5. CASE At("drop") /\ Remove(This.on)
  <2>1. This.on \in Parts /\ held # "no" /\ (This.on = "plugin" => held = "lock")
    BY <1>5, HeldAt, OnIs
  <2>. QED BY <1>1, <1>3, <1>5, <2>1 DEF Remove
<1>6. CASE At("copy") /\ \E c \in Copied : \E t \in Torn(c) : disk' = [disk EXCEPT ![This.on] = t]
  <2>1. /\ This.on \in Parts /\ held # "no" /\ (This.on = "plugin" => held = "lock")
        /\ Copied \subseteq Contents
    BY <1>6, HeldAt, OnIs, CopiedIs DEF BaseInv
  <2>. QED BY <1>1, <1>3, <1>6, <2>1
<1>. QED BY <1>1, <1>2, <1>4, <1>5, <1>6 DEF Damage

(* The backups' folders are those there were when they were made.           *)
LEMMA FolderBackups ==
    ASSUME BaseInv, FolderInv, StepTaken
    PROVE  \A n \in 1..Len(backups') : \A p \in Parts : Gone(backups'[n].parts[p])
<1>1. /\ Len(backups) \in Nat
      /\ \A p \in Parts : Gone(disk[p])
      /\ \A n \in 1..Len(backups) : \A p \in Parts : Gone(backups[n].parts[p])
  BY DisksAre DEF FolderInv
<1>. QED BY <1>1, BackupMoves

(***************************************************************************)
(* What a step that will be next relies on.                                *)
(***************************************************************************)
LEMMA AtRelies ==
    ASSUME todo' \in Seq(AnyStep), NEW d \in PlainSteps, At(d)', NEW r, All(d) \in r.steps
    PROVE  Relies(todo', r)
<1>1. This'.do = d
  BY DEF At
<1>2. todo' # <<>> /\ This' = Head(todo')
  BY <1>1, StepFields DEF This, PlainSteps
<1>3. Head(todo') \in AnyStep
  BY <1>2, HeadTailProperties
<1>4. Head(todo') = All(d)
  BY <1>1, <1>2, <1>3, Steps
<1>. QED BY <1>2, <1>4, NextRelies

(* What the steps rely on after a step, of what they relied on before.      *)
LEMMA RestAfter ==
    ASSUME BaseInv, StepTaken, NEW r \in Rules
    PROVE  /\ Relies(todo', r) => This \in r.by \/ (Relies(todo, r) /\ This \notin r.until)
           /\ This \in r.steps => Relies(todo, r)
           /\ todo' \in Seq(AnyStep) /\ This \in AnyStep /\ todo # <<>>
<1>1. todo \in Seq(AnyStep) /\ Keeps(todo, r)
  BY DEF BaseInv, TypeOK, RuleInv, InRule
<1>2. todo # <<>> /\ This = Head(todo) /\ This \in AnyStep /\ todo' = Tail(todo)
      /\ todo' \in Seq(AnyStep)
  BY <1>1, Taken
<1>. QED BY <1>1, <1>2, RestRelies, NextRelies

(* An operation that begins, or recovers, or ends relies on nothing before. *)
LEMMA BegunRelies ==
    ASSUME BaseInv, (\E o \in Operations : Begin(o)) \/ Recover \/ Finish \/ GiveUp
    PROVE  /\ Fresh(todo') /\ todo' \in Seq(AnyStep)
           /\ \A r \in FreshRules : ~Relies(todo', r)
           /\ (Finish \/ GiveUp) => op' = "none"
<1>1. CASE \E o \in Operations : Begin(o)
  <2>1. PICK o \in Operations : todo' = StepsOf(o)
    BY <1>1 DEF Begin
  <2>2. ~(Finish \/ GiveUp)
    BY <1>1 DEF Begin, Finish, GiveUp, Fault, Refused
  <2>. QED BY <2>1, <2>2, ProgramsKeep DEF Fresh
<1>2. CASE Recover
  <2>1. todo' = RecoverySteps
    BY <1>2 DEF Recover
  <2>2. (Finish \/ GiveUp) => op' = "none"
    BY EndMoves DEF BaseInv, Leave
  <2>. QED BY <2>1, <2>2, ProgramsKeep DEF Fresh
<1>3. CASE Finish \/ GiveUp
  <2>1. todo' = <<>> /\ op' = "none"
    BY <1>3, EndMoves DEF BaseInv, Leave
  <2>. QED BY <2>1, NoneLeft DEF Fresh
<1>. QED BY <1>1, <1>2, <1>3

(* What others do of it is done by a service, or starts one.                *)
LEMMA FolderBeside ==
    ASSUME BaseInv, FolderInv, Beside
    PROVE  /\ \A p \in Parts : Gone(disk'[p])
           /\ service' # "none" => disk'["plugin"].is = "whole" /\ disk'["state"].is # "none"
           /\ Relies(todo', OrphanRule) => (service' # "none" => visited')
<1>1. /\ disk \in [Parts -> Contents] /\ disk["state"] \in Contents
      /\ \A p \in Parts : Gone(disk[p])
      /\ service # "none" => disk["plugin"].is = "whole" /\ disk["state"].is # "none"
  BY DisksAre DEF FolderInv
<1>2. Opened(disk["state"]).is # "none"
  BY <1>1 DEF Opened, Contents
<1>6. Relies(todo', OrphanRule) => (service' # "none" => visited')
  <2>1. todo' = todo /\ (visited => visited')
    BY BesideMoves DEF BaseInv
  <2>2. Relies(todo, OrphanRule) => InPieces /\ (service # "none" => visited)
    BY PiecesAre DEF FolderInv
  <2>3. CASE StartByHand \/ Login
    <3>1. visited' = (visited \/ InPieces)
      BY <2>3 DEF StartByHand, Login, Serve
    <3>. QED BY <2>1, <2>2, <3>1
  <2>4. CASE ~(StartByHand \/ Login)
    <3>1. service' = service \/ service' = "none"
      BY <2>4 DEF Beside, ServiceStops, SetDispatch, Keep, EditShell, serviceVars
    <3>. QED BY <2>1, <2>2, <3>1
  <2>. QED BY <2>3, <2>4
<1>3. CASE StartByHand \/ Login
  <2>1. disk' = [disk EXCEPT !["state"] = Opened(disk["state"])] /\ disk["plugin"].is = "whole"
    BY <1>3 DEF StartByHand, Login, UnitRuns, Serve
  <2>2. Gone(Opened(disk["state"]))
    BY <1>2 DEF Gone
  <2>. QED BY <1>1, <1>2, <1>6, <2>1, <2>2, PartsAre
<1>4. CASE ServiceStops \/ \E e \in Edits : EditShell(e)
  <2>1. UNCHANGED disk /\ (service' = service \/ service' = "none")
    BY <1>4 DEF ServiceStops, EditShell, serviceVars
  <2>. QED BY <1>1, <1>6, <2>1
<1>5. CASE (SetDispatch \/ \E i \in Items : Keep(i)) /\ ~UNCHANGED disk
  <2>1. PICK c : /\ disk' = [disk EXCEPT !["state"] = c] /\ c.is = disk["state"].is
                 /\ service' = service /\ service # "none"
    <3>1. CASE SetDispatch
      BY <1>1, <3>1 DEF SetDispatch, serviceVars, Contents
    <3>2. CASE \E i \in Items : Keep(i)
      BY <1>1, <3>2 DEF Keep, serviceVars, Contents
    <3>. QED BY <1>5, <3>1, <3>2
  <2>2. Gone(c)
    BY <1>1, <2>1 DEF Gone
  <2>. QED BY <1>1, <1>6, <2>1, <2>2, PartsAre
<1>7. CASE (SetDispatch \/ \E i \in Items : Keep(i)) /\ UNCHANGED disk
  <2>1. service' = service
    BY <1>7 DEF SetDispatch, Keep, serviceVars
  <2>. QED BY <1>1, <1>6, <1>7, <2>1
<1>. QED BY <1>3, <1>4, <1>5, <1>6, <1>7 DEF Beside

LEMMA FolderInit == Init => FolderInv
<1>. SUFFICES ASSUME Init  PROVE FolderInv
  OBVIOUS
<1>1. PICK r \in Releases \cup {0} :
        /\ disk = [p \in Parts |->
              IF r = 0 THEN Absent
              ELSE [Bare EXCEPT !.release = IF p = "config" THEN 0 ELSE r,
                                !.ready = (p = "plugin")]]
        /\ service = (IF r = 0 THEN "none" ELSE "unit") /\ backups = <<>>
  BY DEF Init
<1>2. \A p \in Parts : [Bare EXCEPT !.release = IF p = "config" THEN 0 ELSE r,
                                    !.ready = (p = "plugin")].is = "whole"
  BY DEF Absent, Bare
<1>3. \A p \in Parts : IF r = 0 THEN disk[p] = Absent ELSE disk[p].is = "whole"
  BY <1>1, <1>2
<1>4. Len(backups) = 0
  <2>1. backups \in Seq(Backup)
    BY <1>1, EmptySeq
  <2>. QED BY <1>1, <2>1, EmptySeq
<1>5. \A p \in Parts : Gone(disk[p])
  BY <1>3 DEF Gone
<1>6. \A n \in 1..Len(backups) : FALSE
  BY <1>4
<1>7. service # "none" => disk["plugin"].is = "whole" /\ disk["state"].is # "none"
  BY <1>1, <1>3, PartsAre
<1>8. ~Relies(todo, OrphanRule)
  BY NothingRelies DEF Init
<1>. QED BY <1>5, <1>6, <1>7, <1>8 DEF FolderInv

LEMMA FolderNext == BaseInv /\ FolderInv /\ [Next]_vars => FolderInv'
<1>. SUFFICES ASSUME BaseInv, FolderInv, [Next]_vars  PROVE FolderInv'
  OBVIOUS
<1>1. CASE StepTaken
  BY <1>1, FolderStep, FolderBackups, PiecesStep DEF FolderInv
<1>2. CASE Beside
  BY <1>2, FolderBeside, BesideMoves DEF FolderInv, BaseInv
<1>. DEFINE Begun == (\E o \in Operations : Begin(o)) \/ Recover \/ Finish \/ GiveUp
<1>3. Begun => ~Relies(todo', OrphanRule)
  BY BegunRelies DEF FreshRules
<1>4. CASE Finish \/ GiveUp
  BY <1>3, <1>4, EndMoves, FolderDamage DEF FolderInv, BaseInv, Unmoved
<1>5. CASE Recover
  BY <1>3, <1>5, RecoverMoves, FolderDamage DEF FolderInv, BaseInv, Unmoved
<1>6. CASE \E o \in Operations : Begin(o)
  BY <1>3, <1>6 DEF Begin, serviceVars, FolderInv
<1>7. CASE UNCHANGED vars
  BY <1>7 DEF vars, serviceVars, visitVars, FolderInv
<1>. QED BY <1>1, <1>2, <1>4, <1>5, <1>6, <1>7, NextMoves

LEMMA FolderAlways == Spec => [](BaseInv /\ FolderInv)
<1>1. Init => BaseInv /\ FolderInv
  BY BaseInit, FolderInit
<1>2. BaseInv /\ FolderInv /\ [Next]_vars => (BaseInv /\ FolderInv)'
  BY BaseStep, FolderNext
<1>. QED BY <1>1, <1>2, PTL DEF Spec

(* An operation changes the folders only while no service runs on them,     *)
(* whoever started it; but for what follows once the state folder, and the  *)
(* lock in it, have been removed.                                           *)
THEOREM FoldersTouchedAlone == Spec => OwnedAlone
<1>. DEFINE Alone == disk' # disk /\ op # "none" /\ todo' # todo
                        => service = "none" \/ held = "orphan"
<1>1. ASSUME BaseInv, FolderInv, [Next]_vars  PROVE Alone
  <2>1. CASE StepTaken
    BY <1>1, <2>1, FolderStep
  <2>2. CASE Beside
    BY <1>1, <2>2, BesideMoves DEF BaseInv
  <2>3. CASE Finish \/ GiveUp
    BY <1>1, <2>3, EndMoves, FolderDamage DEF BaseInv, Unmoved
  <2>4. CASE Recover
    BY <1>1, <2>4, RecoverMoves, FolderDamage DEF BaseInv, Unmoved
  <2>5. CASE (\E o \in Operations : Begin(o)) \/ UNCHANGED vars
    BY <2>5 DEF Begin, vars
  <2>. QED BY <1>1, <2>1, <2>2, <2>3, <2>4, <2>5, NextMoves
<1>. QED BY <1>1, FolderAlways, PTL DEF Spec, OwnedAlone

(***************************************************************************)
(* The shell's settings.                                                   *)
(***************************************************************************)
CompareInv == At("replaceShell") => /\ shell.edits \ seen.edits \subseteq late
                                    /\ shell.widget = seen.widget

LEMMA ShellMoves ==
    ASSUME BaseInv, CompareInv, StepTaken
    PROVE  \/ /\ This = All("replaceShell") /\ shell.edits \ shell'.edits \subseteq late
              /\ shell'.widget = (op = "enable-widget")
           \/ This # All("replaceShell") /\ UNCHANGED shell
<1>1. CASE ReplaceShell
  <2>1. This = All("replaceShell") /\ At("replaceShell")
    BY <1>1, AtStep, StepsAre DEF ReplaceShell, BaseInv, TypeOK
  <2>2. shell \in Shell /\ seen \in Shell
    BY DEF BaseInv, TypeOK
  <2>3. shell' = IF seen.widget = (op = "enable-widget") THEN shell
                 ELSE [seen EXCEPT !.widget = (op = "enable-widget")]
    BY <1>1 DEF ReplaceShell
  <2>4. shell.edits \ seen.edits \subseteq late /\ shell.widget = seen.widget
    BY <2>1 DEF CompareInv
  <2>5. CASE seen.widget = (op = "enable-widget")
    BY <2>1, <2>3, <2>4, <2>5
  <2>6. CASE seen.widget # (op = "enable-widget")
    <3>1. shell' = [seen EXCEPT !.widget = (op = "enable-widget")]
      BY <2>3, <2>6
    <3>2. shell'.edits = seen.edits /\ shell'.widget = (op = "enable-widget")
      BY <3>1, <2>2 DEF Shell
    <3>. QED BY <2>1, <2>4, <3>2
  <2>. QED BY <2>5, <2>6
<1>2. CASE ~ReplaceShell
  <2>1. UNCHANGED shell
    BY <1>2 DEF StepTaken, DisableUnit, Lock, DispatchOff, CopyAll, Seal, Verify, Unlink,
       Drop, Make, Copy,
       RestoreUnit, DropUnit, RequirePlugin, Place, Venv, Schema, Settings, WriteUnit, Unlock,
       Start, ReadShell, CompareShell, Record, shellVars
  <2>2. PICK d \in (PlainSteps \cup {"drop", "copy"}) \ {"replaceShell"} : At(d)
    BY <1>2, StepsAre DEF StepTaken, DisableUnit, Lock, DispatchOff, CopyAll, Seal, Verify,
       Unlink, Drop, Make,
       Copy, RestoreUnit, DropUnit, RequirePlugin, Place, Venv, Schema, Settings, WriteUnit,
       Unlock, Start, ReadShell, CompareShell, Record
  <2>3. This.do # "replaceShell"
    BY <2>2 DEF At
  <2>. QED BY <2>1, <2>3, StepFields DEF All
<1>. QED BY <1>1, <1>2

LEMMA CompareNext == BaseInv /\ CompareInv /\ [Next]_vars => CompareInv'
<1>. SUFFICES ASSUME BaseInv, CompareInv, [Next]_vars, At("replaceShell")'
              PROVE  (shell'.edits \ seen'.edits \subseteq late') /\ shell'.widget = seen'.widget
  BY DEF CompareInv
<1>1. "replaceShell" \in PlainSteps /\ All("replaceShell") \in CompareRule.steps
  BY StepsAre, RuleFields DEF CompareRule
<1>2. CompareRule \in FreshRules /\ CompareRule \in Rules
  BY DEF FreshRules, Rules
<1>3. CASE StepTaken
  <2>1. This = All("compareShell")
    <3>1. Relies(todo', CompareRule)
      BY <1>1, <1>2, <1>3, RestAfter, AtRelies
    <3>2. This \in CompareRule.by \/ This \notin CompareRule.until
      BY <1>2, <1>3, <3>1, RestAfter
    <3>. QED BY <1>2, <1>3, <3>2, RestAfter, RuleFields DEF CompareRule
  <2>2. CompareShell
    <3>1. This.do = "compareShell"
      BY <2>1, StepFields DEF All
    <3>. QED BY <1>3, <3>1 DEF StepTaken, At, DisableUnit, Lock, DispatchOff, CopyAll,
            Seal, Verify,
       Unlink, Drop, Make, Copy, RestoreUnit, DropUnit, RequirePlugin, Place, Venv, Schema, Settings,
       WriteUnit, Unlock, Start, ReadShell, ReplaceShell, Record
  <2>3. shell = seen /\ shell' = shell /\ seen' = seen
    BY <2>2 DEF CompareShell, Done, Able
  <2>. QED BY <2>3
<1>4. CASE (\E o \in Operations : Begin(o)) \/ Recover \/ Finish \/ GiveUp
  BY <1>1, <1>2, <1>4, BegunRelies, AtRelies
<1>5. CASE Beside
  <2>1. UNCHANGED <<op, todo, seen>>
    BY <1>5, BesideMoves DEF BaseInv, opVars
  <2>2. At("replaceShell")
    BY <2>1 DEF At, This
  <2>3. (shell.edits \ seen.edits \subseteq late) /\ shell.widget = seen.widget
    BY <2>2 DEF CompareInv
  <2>4. CASE \E e \in Edits : EditShell(e)
    <3>1. PICK e \in Edits : shell' = [shell EXCEPT !.edits = shell.edits \cup {e}] /\ late' = late \cup {e}
      BY <2>2, <2>4 DEF EditShell
    <3>2. shell'.edits = shell.edits \cup {e} /\ shell'.widget = shell.widget
      BY <3>1 DEF BaseInv, TypeOK, Shell
    <3>. QED BY <2>1, <2>3, <3>1, <3>2
  <2>5. CASE ~\E e \in Edits : EditShell(e)
    <3>1. UNCHANGED shellVars
      BY <1>5, <2>5 DEF Beside, StartByHand, Login, ServiceStops, SetDispatch, Keep
    <3>. QED BY <2>3, <3>1 DEF shellVars
  <2>. QED BY <2>4, <2>5
<1>6. CASE UNCHANGED vars
  <2>1. UNCHANGED <<op, todo, shell, seen, late>>
    BY <1>6 DEF vars, opVars, shellVars
  <2>2. At("replaceShell")
    BY <2>1 DEF At, This
  <2>. QED BY <2>1, <2>2 DEF CompareInv
<1>. QED BY <1>3, <1>4, <1>5, <1>6, NextMoves

LEMMA CompareAlways == Spec => [](BaseInv /\ CompareInv)
<1>1. Init => BaseInv /\ CompareInv
  BY BaseInit DEF Init, CompareInv, At
<1>2. BaseInv /\ CompareInv /\ [Next]_vars => (BaseInv /\ CompareInv)'
  BY BaseStep, CompareNext
<1>. QED BY <1>1, <1>2, PTL DEF Spec

(* Whatever a person changes in shell.json beside an operation stays there, *)
(* but for what they change after the operation has compared the file with  *)
(* what it read and before it puts its own in place.                        *)
THEOREM EditsStay == Spec => ShellEditsKept
<1>. DEFINE Kept == shell.edits \ shell'.edits \subseteq late
<1>1. ASSUME BaseInv, CompareInv, [Next]_vars  PROVE Kept
  <2>1. CASE StepTaken
    BY <1>1, <2>1, ShellMoves
  <2>2. CASE \E e \in Edits : EditShell(e)
    BY <1>1, <2>2 DEF EditShell, BaseInv, TypeOK, Shell
  <2>3. CASE ~StepTaken /\ ~(\E e \in Edits : EditShell(e))
    <3>1. UNCHANGED shell
      <4>1. CASE Finish \/ GiveUp
        BY <4>1, <1>1, EndMoves DEF BaseInv, shellVars
      <4>2. CASE Recover
        BY <4>2, <1>1, RecoverMoves DEF BaseInv, shellVars
      <4>3. CASE Beside
        BY <4>3, <2>3 DEF Beside, StartByHand, Login, ServiceStops, SetDispatch, Keep, shellVars
      <4>4. CASE (\E o \in Operations : Begin(o)) \/ UNCHANGED vars
        BY <4>4 DEF Begin, vars, shellVars
      <4>. QED BY <1>1, <2>3, <4>1, <4>2, <4>3, <4>4, NextMoves
    <3>. QED BY <3>1
  <2>. QED BY <2>1, <2>2, <2>3
<1>. QED BY <1>1, CompareAlways, PTL DEF Spec, ShellEditsKept

(***************************************************************************)
(* What a step does to each folder, to the unit and to what was asked.     *)
(***************************************************************************)
(* Which action is taken is told by the step.                               *)
LEMMA ActionIs ==
    ASSUME BaseInv
    PROVE  /\ \A d \in PlainSteps : At(d) => This = All(d)
           /\ \A d \in {"drop", "copy"} : At(d) => This = Step(d, This.on) /\ This.on \in Parts
           /\ \A d, e \in PlainSteps \cup {"drop", "copy"} : At(d) /\ At(e) => d = e
           /\ \A d \in {"drop", "copy"}, p, q \in Parts : Step(d, p) = Step(d, q) => p = q
           /\ \A p, q \in Parts : Step("drop", p) # Step("copy", q)
           /\ \A d \in PlainSteps, p \in Parts : /\ All(d) # Step("drop", p)
                                                 /\ All(d) # Step("copy", p)
           /\ \A d \in PlainSteps : \A e : This = All(d) /\ At(e) => d = e
           /\ \A d, p, e : This = Step(d, p) /\ At(e) => d = e
<1>1. todo \in Seq(AnyStep)
  BY DEF BaseInv, TypeOK
<1>2. \A d \in PlainSteps : At(d) => This = All(d)
  BY <1>1, AtStep
<1>3. \A d \in {"drop", "copy"} : At(d) => This = Step(d, This.on) /\ This.on \in Parts
  BY <1>1, AtStep
<1>4. \A d, e : At(d) /\ At(e) => d = e
  BY DEF At
<1>5. \A d : d \in PlainSteps => d # "drop" /\ d # "copy"
  BY DEF PlainSteps
<1>6. \A d, e : This = All(d) /\ At(e) => d = e
  BY StepFields DEF All, At
<1>7. \A d, p, e : This = Step(d, p) /\ At(e) => d = e
  BY StepFields DEF At
<1>8. /\ \A d, p, q : Step(d, p) = Step(d, q) => p = q
      /\ \A p, q : Step("drop", p) # Step("copy", q)
      /\ \A d, p : (d # "drop" => All(d) # Step("drop", p)) /\ (d # "copy" => All(d) # Step("copy", p))
  BY StepFields DEF All
<1>. QED BY <1>2, <1>3, <1>4, <1>5, <1>6, <1>7, <1>8

(* What a copy leaves of the folders.                                       *)
LEMMA CopyMoves ==
    ASSUME BaseInv, Copy
    PROVE  /\ This.on \in Parts /\ This = Step("copy", This.on)
           /\ \A p \in Parts \ {This.on} : disk'[p] = disk[p]
           /\ Saved.is = "none" => disk'[This.on] = disk[This.on]
           /\ Saved.is # "none" => /\ disk'[This.on] \in Copied
                                   /\ (This.on # "state" => disk'[This.on] = Saved)
<1>1. At("copy") /\ disk \in [Parts -> Contents] /\ This.on \in Parts
  BY DisksAre, OnIs DEF Copy
<1>2. This = Step("copy", This.on)
  BY <1>1, ActionIs
<1>3. CASE Saved.is = "none"
  BY <1>1, <1>2, <1>3 DEF Copy
<1>4. CASE Saved.is # "none"
  <2>1. PICK c \in Copied : disk' = [disk EXCEPT ![This.on] = c]
    BY <1>4 DEF Copy
  <2>2. This.on # "state" => c = Saved
    BY <1>1, <2>1, CopiedIs DEF BaseInv
  <2>. QED BY <1>1, <1>2, <1>4, <2>1, <2>2
<1>. QED BY <1>3, <1>4

LEMMA StateMoves ==
    ASSUME BaseInv, StepTaken
    PROVE  \/ This = Step("drop", "state") /\ disk'["state"] = Absent
           \/ /\ This = Step("copy", "state")
              /\ IF Saved.is = "none" THEN disk'["state"] = disk["state"]
                 ELSE disk'["state"] \in Copied
           \/ This = All("unlink") /\ disk'["state"] \in Torn(disk["state"])
           \/ /\ This = All("make")
              /\ disk'["state"] = IF SavedState.is = "none" THEN disk["state"]
                                 ELSE [Absent EXCEPT !.is = "torn"]
           \/ /\ This = All("dispatchOff")
              /\ disk'["state"] = [disk["state"] EXCEPT !.dispatch = FALSE]
           \/ This = All("lock") /\ disk["state"].is = "none" /\ disk'["state"] = Bare
           \/ This = All("schema") /\ disk'["state"] = Opened(disk["state"])
           \/ This = All("start") /\ UnitRuns /\ disk'["state"] = Opened(disk["state"])
           \/ /\ disk'["state"] = disk["state"]
              /\ This \notin {Step("drop", "state"), Step("copy", "state"), All("unlink"),
                              All("make"), All("dispatchOff")}
<1>. USE ActionIs, StepsAre, PartsAre
<1>1. disk \in [Parts -> Contents]
  BY DisksAre
<1>2. CASE Drop
  BY <1>1, <1>2 DEF Drop
<1>3. CASE Copy
  <2>1. CASE This.on = "state"
    BY <1>3, <2>1, CopyMoves
  <2>2. CASE This.on # "state"
    <3>1. /\ This # Step("copy", "state") /\ This # Step("drop", "state")
          /\ This # All("dispatchOff") /\ This # All("unlink") /\ This # All("make")
      BY <1>3, <2>2, CopyMoves
    <3>. QED BY <1>3, <2>2, <3>1, CopyMoves
  <2>. QED BY <2>1, <2>2
<1>4. CASE DispatchOff
  BY <1>1, <1>4 DEF DispatchOff
<1>5. CASE Lock
  <2>1. This = All("lock") /\ disk' = [disk EXCEPT !["state"] = IF disk["state"].is = "none" THEN Bare
                                                                ELSE disk["state"]]
    BY <1>5 DEF Lock
  <2>2. All("lock") \notin {All("dispatchOff"), All("unlink"), All("make")}
    BY AllDiffer
  <2>. QED BY <1>1, <2>1, <2>2
<1>6. CASE Schema
  BY <1>1, <1>6 DEF Schema
<1>7. CASE Start /\ UnitRuns
  BY <1>1, <1>7 DEF Start, Serve
<1>9. CASE Unlink
  BY <1>1, <1>9 DEF Unlink
<1>10. CASE Make
  BY <1>1, <1>10 DEF Make
<1>8. CASE ~(\/ Unlink \/ Drop \/ Make \/ Copy \/ DispatchOff \/ Lock \/ Schema \/ (Start /\ UnitRuns))
  <2>1. disk'["state"] = disk["state"]
    BY <1>1, <1>8 DEF StepTaken, DisableUnit, CopyAll, Seal, Verify, Unlink, Make,
       RestoreUnit, DropUnit, Start,
       RequirePlugin, WriteUnit, Unlock, ReadShell, CompareShell, ReplaceShell, Record, Place,
       Venv, Settings
  <2>2. PICK d \in PlainSteps \ {"dispatchOff", "unlink", "make"} : At(d)
    BY <1>8 DEF StepTaken, DisableUnit, CopyAll, Seal, Verify, Unlink, Make, RestoreUnit,
       DropUnit, Start,
       RequirePlugin, WriteUnit, Unlock, ReadShell, CompareShell, ReplaceShell, Record, Place,
       Venv, Settings
  <2>3. This \notin {Step("drop", "state"), Step("copy", "state"), All("unlink"), All("make"),
                     All("dispatchOff")}
    BY <2>2, AllDiffer
  <2>. QED BY <2>1, <2>3
<1>. QED BY <1>2, <1>3, <1>4, <1>5, <1>6, <1>7, <1>8, <1>9, <1>10

LEMMA PluginMoves ==
    ASSUME BaseInv, StepTaken
    PROVE  \/ This = Step("drop", "plugin") /\ disk'["plugin"] = Absent
           \/ /\ This = Step("copy", "plugin")
              /\ disk'["plugin"] = IF Saved.is = "none" THEN disk["plugin"] ELSE Saved
           \/ This = All("place")
           \/ This = All("venv") /\ disk'["plugin"] = [disk["plugin"] EXCEPT !.ready = TRUE]
           \/ /\ disk'["plugin"] = disk["plugin"]
              /\ This \notin {Step("drop", "plugin"), Step("copy", "plugin"), All("place"), All("venv")}
<1>. USE ActionIs, StepsAre, PartsAre
<1>1. disk \in [Parts -> Contents]
  BY DisksAre
<1>2. CASE Drop
  BY <1>1, <1>2 DEF Drop
<1>3. CASE Copy
  <2>1. CASE This.on = "plugin"
    BY <1>3, <2>1, CopyMoves
  <2>2. CASE This.on # "plugin"
    <3>1. /\ This # Step("copy", "plugin") /\ This # Step("drop", "plugin")
          /\ This # All("place") /\ This # All("venv")
      BY <1>3, <2>2, CopyMoves
    <3>. QED BY <1>3, <2>2, <3>1, CopyMoves
  <2>. QED BY <2>1, <2>2
<1>4. CASE Place
  BY <1>4 DEF Place
<1>5. CASE Venv
  BY <1>1, <1>5 DEF Venv
<1>6. CASE ~(Drop \/ Copy \/ Place \/ Venv)
  <2>1. disk'["plugin"] = disk["plugin"]
    BY <1>1, <1>6 DEF StepTaken, DisableUnit, Lock, DispatchOff, CopyAll, Seal, Verify,
       Unlink, Make, RestoreUnit,
       DropUnit, RequirePlugin, Schema, Settings, WriteUnit, Unlock, Start, Serve, ReadShell,
       CompareShell, ReplaceShell, Record
  <2>2. PICK d \in PlainSteps \ {"place", "venv"} : At(d)
    BY <1>6 DEF StepTaken, DisableUnit, Lock, DispatchOff, CopyAll, Seal, Verify, Unlink,
       Make, RestoreUnit,
       DropUnit, RequirePlugin, Schema, Settings, WriteUnit, Unlock, Start, ReadShell,
       CompareShell, ReplaceShell, Record
  <2>3. This \notin {Step("drop", "plugin"), Step("copy", "plugin"), All("place"), All("venv")}
    BY <2>2, AllDiffer
  <2>. QED BY <2>1, <2>3
<1>. QED BY <1>2, <1>3, <1>4, <1>5, <1>6

LEMMA ConfigMoves ==
    ASSUME BaseInv, StepTaken
    PROVE  \/ This = Step("drop", "config") /\ disk'["config"] = Absent
           \/ /\ This = Step("copy", "config")
              /\ disk'["config"] = IF Saved.is = "none" THEN disk["config"] ELSE Saved
           \/ This = All("settings")
           \/ /\ disk'["config"] = disk["config"]
              /\ This \notin {Step("drop", "config"), Step("copy", "config"), All("settings")}
<1>. USE ActionIs, StepsAre, PartsAre
<1>1. disk \in [Parts -> Contents]
  BY DisksAre
<1>2. CASE Drop
  BY <1>1, <1>2 DEF Drop
<1>3. CASE Copy
  <2>1. CASE This.on = "config"
    BY <1>3, <2>1, CopyMoves
  <2>2. CASE This.on # "config"
    <3>1. /\ This # Step("copy", "config") /\ This # Step("drop", "config")
          /\ This # All("settings")
      BY <1>3, <2>2, CopyMoves
    <3>. QED BY <1>3, <2>2, <3>1, CopyMoves
  <2>. QED BY <2>1, <2>2
<1>4. CASE Settings
  BY <1>4 DEF Settings
<1>5. CASE ~(Drop \/ Copy \/ Settings)
  <2>1. disk'["config"] = disk["config"]
    BY <1>1, <1>5 DEF StepTaken, DisableUnit, Lock, DispatchOff, CopyAll, Seal, Verify,
       Unlink, Make, RestoreUnit,
       DropUnit, RequirePlugin, Place, Venv, Schema, WriteUnit, Unlock, Start, Serve, ReadShell,
       CompareShell, ReplaceShell, Record
  <2>2. PICK d \in PlainSteps \ {"settings"} : At(d)
    BY <1>5 DEF StepTaken, DisableUnit, Lock, DispatchOff, CopyAll, Seal, Verify, Unlink,
       Make, RestoreUnit,
       DropUnit, RequirePlugin, Place, Venv, Schema, WriteUnit, Unlock, Start, ReadShell,
       CompareShell, ReplaceShell, Record
  <2>3. This \notin {Step("drop", "config"), Step("copy", "config"), All("settings")}
    BY <2>2, AllDiffer
  <2>. QED BY <2>1, <2>3
<1>. QED BY <1>2, <1>3, <1>4, <1>5

LEMMA UnitMoves ==
    ASSUME BaseInv, StepTaken
    PROVE  \/ This = All("restoreUnit") /\ unit' = backups[mine].unit /\ enabled' = enabled
           \/ This = All("dropUnit") /\ ~unit' /\ enabled' = enabled
           \/ This = All("writeUnit") /\ unit' /\ enabled' = enabled
           \/ This = All("disableUnit") /\ enabled' = (enabled /\ ~unit) /\ unit' = unit
           \/ This = All("start") /\ enabled' /\ unit' = unit
           \/ /\ UNCHANGED <<unit, enabled>>
              /\ This \notin {All("restoreUnit"), All("dropUnit"), All("writeUnit"),
                              All("disableUnit"), All("start")}
<1>. USE ActionIs, StepsAre
<1>1. CASE RestoreUnit
  BY <1>1 DEF RestoreUnit
<1>2. CASE DropUnit
  BY <1>2 DEF DropUnit
<1>3. CASE WriteUnit
  BY <1>3 DEF WriteUnit
<1>4. CASE DisableUnit
  <2>1. enabled \in BOOLEAN /\ unit \in BOOLEAN
    BY DEF BaseInv, TypeOK
  <2>. QED BY <1>4, <2>1 DEF DisableUnit
<1>5. CASE Start
  BY <1>5 DEF Start
<1>6. CASE ~(RestoreUnit \/ DropUnit \/ WriteUnit \/ DisableUnit \/ Start)
  <2>1. UNCHANGED <<unit, enabled>>
    BY <1>6 DEF StepTaken, Lock, DispatchOff, CopyAll, Seal, Verify, Unlink, Drop, Make,
       Copy, RequirePlugin, Place,
       Venv, Schema, Settings, Unlock, ReadShell, CompareShell, ReplaceShell, Record, serviceVars
  <2>2. PICK d \in (PlainSteps \cup {"drop", "copy"})
                      \ {"restoreUnit", "dropUnit", "writeUnit", "disableUnit", "start"} : At(d)
    BY <1>6 DEF StepTaken, Lock, DispatchOff, CopyAll, Seal, Verify, Unlink, Drop, Make,
       Copy, RequirePlugin, Place,
       Venv, Schema, Settings, Unlock, ReadShell, CompareShell, ReplaceShell, Record
  <2>3. This.do = d
    BY <2>2 DEF At
  <2>. QED BY <2>1, <2>2, <2>3, StepFields DEF All
<1>. QED BY <1>1, <1>2, <1>3, <1>4, <1>5, <1>6

LEMMA AskedMoves ==
    ASSUME BaseInv, StepTaken
    PROVE  This = All("dispatchOff") \/ asked' = asked
<1>1. CASE DispatchOff
  BY <1>1, ActionIs, StepsAre DEF DispatchOff
<1>2. CASE ~DispatchOff
  BY <1>2 DEF StepTaken, DisableUnit, Lock, CopyAll, Seal, Verify, Unlink, Drop, Make,
     Copy, RestoreUnit, DropUnit,
     RequirePlugin, Place, Venv, Schema, Settings, WriteUnit, Unlock, Start, ReadShell,
     CompareShell, ReplaceShell, Record
<1>. QED BY <1>1, <1>2

(***************************************************************************)
(* Dispatch.                                                               *)
(***************************************************************************)
DispatchInv ==
    /\ disk["state"].dispatch => asked
    /\ \A n \in 1..Len(backups) : ~backups[n].parts["state"].dispatch
    /\ Relies(todo, QuietRule) => held = "lock" /\ ~disk["state"].dispatch

LEMMA DispatchParts ==
    /\ ~Absent.dispatch /\ ~Bare.dispatch /\ ~[Absent EXCEPT !.is = "torn"].dispatch
    /\ \A c \in Contents : /\ ~[c EXCEPT !.dispatch = FALSE].dispatch
                           /\ Opened(c).dispatch = c.dispatch
                           /\ \A t \in Torn(c) : t.dispatch => c.dispatch
<1>1. ~Absent.dispatch /\ ~Bare.dispatch /\ ~[Absent EXCEPT !.is = "torn"].dispatch
  BY DEF Absent, Bare
<1>2. \A c \in Contents : ~[c EXCEPT !.dispatch = FALSE].dispatch /\ Opened(c).dispatch = c.dispatch
  BY DEF Contents, Opened
<1>. QED BY <1>1, <1>2, TornIs

LEMMA DispatchStep ==
    ASSUME BaseInv, DispatchInv, StepTaken
    PROVE  DispatchInv'
<1>1. /\ disk["state"] \in Contents /\ Len(backups) \in Nat /\ backups \in Seq(Backup)
      /\ \A n \in 1..Len(backups) : backups[n] \in Backup
      /\ todo \in Seq(AnyStep)
  BY DisksAre DEF BaseInv, TypeOK
<1>2. This = Step("copy", "state") =>
         \A c \in Copied : c.dispatch => disk["state"].dispatch
  <2>1. This = Step("copy", "state") => At("copy") /\ This.on = "state"
    BY <1>1, StepFields, Taken DEF At
  <2>2. At("copy") => mine \in 1..Len(backups)
    BY SavedIs DEF BaseInv
  <2>3. This = Step("copy", "state") => ~Saved.dispatch
    BY <2>1, <2>2 DEF Saved, DispatchInv
  <2>. QED BY <2>1, <2>3, CopiedIs DEF BaseInv
<1>3. disk["state"].dispatch => asked
  BY DEF DispatchInv
<1>4. disk'["state"].dispatch => asked'
  <2>1. This = All("dispatchOff") => ~disk'["state"].dispatch
    <3>1. /\ \A p \in Parts : All("dispatchOff") # Step("drop", p) /\ All("dispatchOff") # Step("copy", p)
          /\ All("dispatchOff") # All("lock") /\ All("dispatchOff") # All("schema")
          /\ All("dispatchOff") # All("start") /\ All("dispatchOff") # All("unlink")
          /\ All("dispatchOff") # All("make")
      BY ActionIs, AllDiffer, StepsAre
    <3>. QED BY <1>1, <3>1, StateMoves, DispatchParts, PartsAre
  <2>2. disk'["state"].dispatch => disk["state"].dispatch
    BY <1>1, <1>2, StateMoves, DispatchParts
  <2>. QED BY <1>3, <2>1, <2>2, AskedMoves
<1>5. Relies(todo', QuietRule) => held' = "lock" /\ ~disk'["state"].dispatch
  <2>1. QuietRule \in Rules
    BY DEF Rules, FreshRules
  <2>2. Relies(todo', QuietRule) =>
           \/ This = All("dispatchOff")
           \/ /\ held = "lock" /\ ~disk["state"].dispatch
              /\ This \notin {All("unlock"), All("unlink"), Step("copy", "state")}
    BY <2>1, RestAfter, RuleFields DEF QuietRule, DispatchInv
  <2>3. CASE This = All("dispatchOff")
    <3>1. /\ \A p \in Parts : All("dispatchOff") # Step("drop", p) /\ All("dispatchOff") # Step("copy", p)
          /\ All("dispatchOff") # All("lock") /\ All("dispatchOff") # All("schema")
          /\ All("dispatchOff") # All("start") /\ All("dispatchOff") # All("unlock")
          /\ All("dispatchOff") # All("disableUnit") /\ All("dispatchOff") # All("unlink")
          /\ All("dispatchOff") # All("make")
      BY ActionIs, AllDiffer, StepsAre
    <3>2. held = "lock"
      BY <2>3, HeldAt, Taken, StepFields, <1>1 DEF At, All
    <3>. QED BY <1>1, <2>3, <3>1, <3>2, StateMoves, LockMoves, DispatchParts, PartsAre
  <2>4. CASE /\ held = "lock" /\ ~disk["state"].dispatch
             /\ This \notin {All("unlock"), All("unlink"), Step("copy", "state")}
    <3>1. held' = "lock"
      BY <1>1, <2>4, LockMoves
    <3>2. ~disk'["state"].dispatch
      BY <1>1, <2>4, StateMoves, DispatchParts
    <3>. QED BY <3>1, <3>2
  <2>. QED BY <2>2, <2>3, <2>4
<1>6. \A n \in 1..Len(backups') : ~backups'[n].parts["state"].dispatch
  <2>1. \A n \in 1..Len(backups) : ~backups[n].parts["state"].dispatch
    BY DEF DispatchInv
  <2>2. This = All("copyAll") => ~disk["state"].dispatch
    <3>1. QuietRule \in Rules /\ All("copyAll") \in QuietRule.steps
      BY RuleFields DEF Rules, FreshRules, QuietRule
    <3>. QED BY <3>1, RestAfter DEF DispatchInv
  <2>. QED BY <1>1, <2>1, <2>2, BackupMoves
<1>. QED BY <1>4, <1>5, <1>6 DEF DispatchInv

LEMMA DispatchDamage ==
    ASSUME BaseInv, DispatchInv, Damage
    PROVE  (disk'["state"].dispatch => disk["state"].dispatch) /\ UNCHANGED <<asked, backups>>
<1>1. disk \in [Parts -> Contents]
  BY DisksAre
<1>2. UNCHANGED <<asked, backups>>
  BY DEF Damage
<1>3. CASE UNCHANGED disk
  BY <1>2, <1>3
<1>4. CASE At("drop") /\ Remove(This.on)
  BY <1>1, <1>2, <1>4, OnIs, DispatchParts, PartsAre DEF Remove
<1>5. CASE At("unlink") /\ Remove("state")
  BY <1>1, <1>2, <1>5, DispatchParts, PartsAre DEF Remove
<1>6. CASE At("copy") /\ \E c \in Copied : \E t \in Torn(c) : disk' = [disk EXCEPT ![This.on] = t]
  <2>1. mine \in 1..Len(backups)
    BY <1>6, SavedIs DEF BaseInv
  <2>2. This.on = "state" => ~Saved.dispatch
    BY <2>1 DEF DispatchInv, Saved
  <2>3. PICK c \in Copied : \E t \in Torn(c) : disk' = [disk EXCEPT ![This.on] = t]
    BY <1>6
  <2>4. /\ This.on \in Parts /\ c \in Contents
        /\ c.dispatch => Saved.dispatch \/ disk["state"].dispatch
    BY <1>6, CopiedIs DEF BaseInv
  <2>. QED BY <1>1, <1>2, <2>2, <2>3, <2>4, DispatchParts, PartsAre
<1>. QED BY <1>3, <1>4, <1>5, <1>6 DEF Damage

LEMMA DispatchBeside ==
    ASSUME BaseInv, DispatchInv, Beside
    PROVE  DispatchInv'
<1>1. disk \in [Parts -> Contents] /\ disk["state"] \in Contents
  BY DisksAre
<1>2. UNCHANGED <<held, backups, todo>>
  BY BesideMoves DEF BaseInv
<1>3. CASE SetDispatch
  <2>1. service # "none" /\ asked'
    BY <1>3 DEF SetDispatch
  <2>2. held # "lock"
    BY <2>1, HeldAt
  <2>. QED BY <1>2, <2>1, <2>2 DEF DispatchInv
<1>4. CASE ~SetDispatch
  <2>1. (disk'["state"].dispatch <=> disk["state"].dispatch) /\ asked' = asked
    <3>1. CASE StartByHand \/ Login
      <4>1. disk' = [disk EXCEPT !["state"] = Opened(disk["state"])] /\ asked' = asked
        BY <3>1 DEF StartByHand, Login, Serve
      <4>. QED BY <1>1, <4>1, DispatchParts, PartsAre
    <3>2. CASE ServiceStops \/ \E e \in Edits : EditShell(e)
      BY <3>2 DEF ServiceStops, EditShell
    <3>3. CASE \E i \in Items : Keep(i)
      <4>1. PICK i \in Items : /\ asked' = asked
                               /\ \/ UNCHANGED disk
                                  \/ disk' = [disk EXCEPT !["state"]
                                     = [disk["state"] EXCEPT !.keeps = disk["state"].keeps \cup {i}]]
        BY <3>3 DEF Keep
      <4>. QED BY <1>1, <4>1, PartsAre DEF Contents
    <3>. QED BY <1>4, <3>1, <3>2, <3>3 DEF Beside
  <2>. QED BY <1>2, <2>1 DEF DispatchInv
<1>. QED BY <1>3, <1>4

LEMMA DispatchInit == Init => DispatchInv
<1>. SUFFICES ASSUME Init  PROVE DispatchInv
  OBVIOUS
<1>1. PICK r \in Releases \cup {0} :
        disk = [p \in Parts |->
              IF r = 0 THEN Absent
              ELSE [Bare EXCEPT !.release = IF p = "config" THEN 0 ELSE r,
                                !.ready = (p = "plugin")]]
  BY DEF Init
<1>2. \A p \in Parts : ~[Bare EXCEPT !.release = IF p = "config" THEN 0 ELSE r,
                                     !.ready = (p = "plugin")].dispatch
  BY DEF Absent, Bare
<1>3. ~disk["state"].dispatch
  BY <1>1, <1>2, DispatchParts, PartsAre
<1>4. Len(backups) = 0
  <2>1. backups = <<>> /\ backups \in Seq(Backup)
    BY EmptySeq DEF Init
  <2>. QED BY <2>1, EmptySeq
<1>5. \A n \in 1..Len(backups) : FALSE
  BY <1>4
<1>6. ~Relies(todo, QuietRule)
  BY NothingRelies DEF Init
<1>. QED BY <1>3, <1>5, <1>6 DEF DispatchInv

LEMMA DispatchNext == BaseInv /\ DispatchInv /\ [Next]_vars => DispatchInv'
<1>. SUFFICES ASSUME BaseInv, DispatchInv, [Next]_vars  PROVE DispatchInv'
  OBVIOUS
<1>1. CASE StepTaken
  BY <1>1, DispatchStep
<1>2. CASE Beside
  BY <1>2, DispatchBeside
<1>3. CASE (\E o \in Operations : Begin(o)) \/ Recover \/ Finish \/ GiveUp
  <2>1. ~Relies(todo', QuietRule)
    BY <1>3, BegunRelies DEF FreshRules
  <2>2. (disk'["state"].dispatch => disk["state"].dispatch) /\ UNCHANGED <<asked, backups>>
    <3>1. CASE \E o \in Operations : Begin(o)
      BY <3>1 DEF Begin
    <3>2. CASE Finish \/ GiveUp
      BY <3>2, EndMoves, DispatchDamage DEF BaseInv, Unmoved
    <3>3. CASE Recover
      BY <3>3, RecoverMoves, DispatchDamage DEF BaseInv, Unmoved
    <3>. QED BY <1>3, <3>1, <3>2, <3>3
  <2>. QED BY <2>1, <2>2 DEF DispatchInv
<1>4. CASE UNCHANGED vars
  BY <1>4 DEF vars, lockVars, DispatchInv
<1>. QED BY <1>1, <1>2, <1>3, <1>4, NextMoves

LEMMA DispatchAlways == Spec => [](BaseInv /\ DispatchInv)
<1>1. Init => BaseInv /\ DispatchInv
  BY BaseInit, DispatchInit
<1>2. BaseInv /\ DispatchInv /\ [Next]_vars => (BaseInv /\ DispatchInv)'
  BY BaseStep, DispatchNext
<1>. QED BY <1>1, <1>2, PTL DEF Spec

(* Dispatch is on only where someone has asked for it since it was last     *)
(* turned off: a restored database does not bring it back, for every copy   *)
(* under backups/ was made with dispatch off.                               *)
THEOREM DispatchAsked == Spec => []DispatchOffUntilAsked
BY DispatchAlways, PTL DEF DispatchInv, DispatchOffUntilAsked

(***************************************************************************)
(* What services have kept.                                                *)
(***************************************************************************)
InBackup(i) == \E n \in 1..Len(backups) :
                  backups[n].complete /\ i \in backups[n].parts["state"].keeps

LostInv ==
    /\ \A i \in owed : i \in disk["state"].keeps \/ InBackup(i)
    /\ op = "upgrade" /\ mine # 0 => \A i \in owed : InBackup(i)
    /\ Relies(todo, SealRule) =>
          /\ held = "lock" /\ Len(backups) # 0
          /\ disk["state"].keeps \subseteq backups[Len(backups)].parts["state"].keeps
    /\ Relies(todo, VerifyRule) => mine # 0 /\ backups[mine].complete
    /\ Relies(todo, OrphanRule) => \A i \in owed : InBackup(i)

LEMMA KeepsParts ==
    /\ Absent.keeps = {} /\ Bare.keeps = {}
    /\ \A c \in Contents : /\ [c EXCEPT !.dispatch = FALSE].keeps = c.keeps
                           /\ Opened(c).keeps = c.keeps
BY DEF Absent, Bare, Contents, Opened

LEMMA InBackupStays ==
    ASSUME BaseInv, StepTaken \/ UNCHANGED backups, NEW i, InBackup(i)
    PROVE  InBackup(i)'
<1>1. CASE UNCHANGED backups
  BY <1>1 DEF InBackup
<1>2. CASE StepTaken
  BY <1>2, BackupMoves DEF InBackup
<1>. QED BY <1>1, <1>2

(* Whoever removes the state folder has what is owed in a backup.           *)
LEMMA UnlinkOwes ==
    ASSUME BaseInv, LostInv, At("unlink")
    PROVE  /\ op = "rollback" => \A i \in SavedState.keeps : InBackup(i)
           /\ op # "rollback" => \A i \in owed : InBackup(i)
<1>1. todo \in Seq(AnyStep) /\ todo # <<>> /\ Head(todo) = All("unlink")
  BY AtStep, StepsAre DEF BaseInv, TypeOK
<1>2. /\ All("unlink") \in VerifyRule.steps
      /\ All("unlink") \in RestoreRule.steps
      /\ All("unlink") \in MineRule.steps
  BY RuleFields DEF VerifyRule, RestoreRule, MineRule
<1>3. mine # 0 /\ backups[mine].complete /\ (op = "rollback" \/ (recovering /\ op = "upgrade"))
  BY <1>1, <1>2, NextRelies DEF LostInv, BaseInv, RuleInv
<1>4. mine \in 1..Len(backups)
  BY SavedIs DEF BaseInv
<1>. QED BY <1>3, <1>4 DEF LostInv, InBackup, SavedState

(* And whoever makes the folder again still has.                            *)
LEMMA AtPieces ==
    ASSUME BaseInv, ((At("drop") \/ At("copy")) /\ This.on = "state") \/ At("make")
    PROVE  Relies(todo, OrphanRule)
<1>1. todo \in Seq(AnyStep)
  BY DEF BaseInv, TypeOK
<1>2. /\ Step("drop", "state") \in OrphanRule.steps /\ Step("copy", "state") \in OrphanRule.steps
      /\ All("make") \in OrphanRule.steps
  BY RuleFields DEF OrphanRule
<1>3. ASSUME NEW d \in {"drop", "copy"}, At(d), This.on = "state"
      PROVE  todo # <<>> /\ Head(todo) = Step(d, "state")
  BY <1>1, <1>3, AtStep
<1>4. At("make") => todo # <<>> /\ Head(todo) = All("make")
  BY <1>1, AtStep, StepsAre
<1>. QED BY <1>1, <1>2, <1>3, <1>4, NextRelies

LEMMA OwedMoves ==
    ASSUME BaseInv, StepTaken \/ Damage
    PROVE  \/ UNCHANGED <<disk, owed>>
           \/ UNCHANGED owed /\ ~(At("unlink") /\ op = "rollback")
           \/ At("unlink") /\ op = "rollback" /\ owed' = SavedState.keeps
<1>1. CASE StepTaken
  <2>1. CASE Unlink
    BY <2>1 DEF Unlink, GiveUpNewer
  <2>2. CASE ~Unlink
    BY <1>1, <2>2 DEF StepTaken, At, DisableUnit, Lock, DispatchOff, CopyAll, Seal, Verify,
       Drop,
       Make, Copy, RestoreUnit, DropUnit, RequirePlugin, Place, Venv, Schema, Settings,
       WriteUnit, Unlock, Start, ReadShell, CompareShell, ReplaceShell, Record
  <2>. QED BY <2>1, <2>2
<1>2. CASE Damage
  BY <1>2 DEF Damage, GiveUpNewer, At
<1>. QED BY <1>1, <1>2

(* What is owed stays in the folder, or is in a backup.                     *)
LEMMA OwedStays ==
    ASSUME BaseInv, FolderInv, LostInv, StepTaken \/ Damage, NEW i \in owed'
    PROVE  i \in disk'["state"].keeps \/ InBackup(i)
<1>1. /\ disk \in [Parts -> Contents] /\ disk["state"] \in Contents
      /\ disk["state"].is = "none" => disk["state"].keeps = {}
      /\ \A j \in owed : j \in disk["state"].keeps \/ InBackup(j)
      /\ todo \in Seq(AnyStep)
  BY DisksAre, KeepsParts, PartsAre DEF FolderInv, Gone, LostInv, BaseInv, TypeOK
<1>2. CASE At("unlink")
  BY <1>1, <1>2, UnlinkOwes, OwedMoves
<1>3. CASE ((At("drop") \/ At("copy")) /\ This.on = "state") \/ At("make")
  <2>1. ~At("unlink")
    BY <1>3 DEF At
  <2>2. i \in owed
    BY <2>1, OwedMoves
  <2>. QED BY <1>3, <2>2, AtPieces DEF LostInv
<1>4. CASE /\ ~At("unlink") /\ ~At("make")
           /\ ~((At("drop") \/ At("copy")) /\ This.on = "state")
  <2>1. i \in owed
    BY <1>4, OwedMoves
  <2>2. i \in disk["state"].keeps => i \in disk'["state"].keeps
    <3>. SUFFICES ASSUME i \in disk["state"].keeps  PROVE i \in disk'["state"].keeps
      OBVIOUS
    <3>1. CASE StepTaken
      <4>1. This \notin {Step("drop", "state"), Step("copy", "state"), All("unlink"), All("make")}
        BY <1>1, <1>4, <3>1, Taken, StepFields DEF At, All
      <4>. QED BY <1>1, <3>1, <4>1, StateMoves, KeepsParts
    <3>2. CASE Damage
      <4>1. CASE UNCHANGED disk
        BY <4>1
      <4>2. CASE At("drop") /\ Remove(This.on)
        BY <1>1, <1>4, <4>2, OnIs, PartsAre DEF Remove
      <4>3. CASE At("copy") /\ \E c \in Copied : \E t \in Torn(c) : disk' = [disk EXCEPT ![This.on] = t]
        BY <1>1, <1>4, <4>3, OnIs, PartsAre
      <4>. QED BY <1>4, <3>2, <4>1, <4>2, <4>3 DEF Damage
    <3>. QED BY <3>1, <3>2
  <2>. QED BY <1>1, <2>1, <2>2
<1>. QED BY <1>2, <1>3, <1>4

LEMMA LostStep ==
    ASSUME BaseInv, FolderInv, LostInv, StepTaken
    PROVE  LostInv'
<1>1. /\ todo \in Seq(AnyStep) /\ op' = op /\ Able /\ Len(backups) \in Nat
      /\ disk["state"] \in Contents
      /\ SealRule \in Rules /\ VerifyRule \in Rules /\ OrphanRule \in Rules
  BY Taken, DisksAre DEF BaseInv, TypeOK, Rules, FreshRules
<1>2. \A i \in owed' : i \in disk'["state"].keeps \/ InBackup(i)'
  BY OwedStays, InBackupStays
<1>3. This = All("seal") =>
         /\ held = "lock" /\ Len(backups) # 0
         /\ disk["state"].keeps \subseteq backups[Len(backups)].parts["state"].keeps
  <2>1. All("seal") \in SealRule.steps
    BY RuleFields DEF SealRule
  <2>. QED BY <1>1, <2>1, RestAfter DEF LostInv
<1>4. ASSUME op' = "upgrade", mine' # 0, NEW i \in owed'
      PROVE  InBackup(i)'
  <2>1. i \in owed /\ op = "upgrade"
    BY <1>1, <1>4, OwedMoves
  <2>2. CASE This = All("seal")
    <3>1. i \in disk["state"].keeps \/ InBackup(i)
      BY <2>1 DEF LostInv
    <3>2. i \in disk["state"].keeps => InBackup(i)'
      BY <1>1, <1>3, <2>2, BackupMoves DEF InBackup
    <3>. QED BY <3>1, <3>2, InBackupStays
  <2>3. CASE This # All("seal")
    <3>1. mine' = mine
      BY <2>3, BackupMoves
    <3>. QED BY <1>4, <2>1, <3>1, InBackupStays DEF LostInv
  <2>. QED BY <2>2, <2>3
<1>5. ASSUME Relies(todo', SealRule)
      PROVE  /\ held' = "lock" /\ Len(backups') # 0
             /\ disk'["state"].keeps \subseteq backups'[Len(backups')].parts["state"].keeps
  <2>1. This = All("copyAll")
    BY <1>1, <1>5, RestAfter, RuleFields DEF SealRule
  <2>2. /\ \A p \in Parts : All("copyAll") # Step("drop", p) /\ All("copyAll") # Step("copy", p)
        /\ All("copyAll") \notin {All("lock"), All("schema"), All("start"), All("unlock"),
                                  All("disableUnit"), All("dispatchOff"), All("unlink"),
                                  All("make")}
    BY ActionIs, AllDiffer, StepsAre
  <2>3. held = "lock"
    BY <1>1, <2>1, HeldAt, Taken, StepFields DEF At, All
  <2>4. disk'["state"] = disk["state"]
    BY <2>1, <2>2, StateMoves, PartsAre
  <2>5. held' = "lock"
    BY <1>1, <2>1, <2>2, <2>3, LockMoves, PartsAre
  <2>6. Len(backups') = Len(backups) + 1 /\ backups'[Len(backups')].parts = disk
    BY <2>1, BackupMoves
  <2>. QED BY <1>1, <2>4, <2>5, <2>6
<1>6. ASSUME Relies(todo', VerifyRule)
      PROVE  mine' # 0 /\ backups'[mine'].complete
  <2>1. \/ This = All("verify")
        \/ mine # 0 /\ backups[mine].complete /\ This \notin {All("copyAll"), All("seal")}
    BY <1>1, <1>6, RestAfter, RuleFields DEF VerifyRule, LostInv
  <2>2. CASE This = All("verify")
    <3>1. At("verify")
      BY <1>1, <2>2, Taken, StepFields DEF At, All
    <3>2. mine # 0 /\ backups[mine].complete
      <4>1. mine \in 1..Len(backups)
        BY <3>1, SavedIs DEF BaseInv
      <4>. QED BY <1>1, <3>1, <4>1 DEF Able
    <3>3. All("verify") \notin {All("copyAll"), All("seal")}
      BY AllDiffer
    <3>. QED BY <2>2, <3>2, <3>3, BackupMoves
  <2>. QED BY <2>1, <2>2, BackupMoves
<1>7. ASSUME Relies(todo', OrphanRule), NEW i \in owed'
      PROVE  InBackup(i)'
  <2>1. This = All("unlink") \/ (Relies(todo, OrphanRule) /\ This # All("unlink"))
    <3>1. All("unlink") \in AnyStep /\ All("unlink") \notin {Step("drop", "state"), All("make")}
      BY StepFields, StepsAre DEF All, AnyStep, Step
    <3>. QED BY <1>1, <1>7, <3>1, RestAfter, RuleFields DEF OrphanRule
  <2>2. CASE This = All("unlink")
    <3>1. At("unlink")
      BY <1>1, <2>2, Taken, StepFields DEF At, All
    <3>2. Unlink
      BY <3>1 DEF StepTaken, At, DisableUnit, Lock, DispatchOff, CopyAll, Seal, Verify,
         Drop, Make,
         Copy, RestoreUnit, DropUnit, RequirePlugin, Place, Venv, Schema, Settings, WriteUnit,
         Unlock, Start, ReadShell, CompareShell, ReplaceShell, Record
    <3>3. owed' = IF op = "rollback" THEN SavedState.keeps ELSE owed
      BY <3>2 DEF Unlink, GiveUpNewer
    <3>4. InBackup(i)
      BY <3>1, <3>3, UnlinkOwes
    <3>. QED BY <3>4, InBackupStays
  <2>3. CASE Relies(todo, OrphanRule) /\ This # All("unlink")
    <3>1. ~At("unlink")
      BY <1>1, <2>3, AtStep, StepsAre
    <3>. QED BY <2>3, <3>1, OwedMoves, InBackupStays DEF LostInv
  <2>. QED BY <2>1, <2>2, <2>3
<1>. QED BY <1>2, <1>4, <1>5, <1>6, <1>7 DEF LostInv

LEMMA LostEnd ==
    ASSUME BaseInv, FolderInv, LostInv, Recover \/ Finish \/ GiveUp
    PROVE  LostInv'
<1>1. Damage \/ UNCHANGED <<disk, owed>>
  BY EndMoves, RecoverMoves DEF BaseInv, Unmoved
<1>2. UNCHANGED backups
  BY EndMoves, RecoverMoves DEF BaseInv
<1>3. ~Relies(todo', SealRule) /\ ~Relies(todo', VerifyRule) /\ ~Relies(todo', OrphanRule)
  BY BegunRelies DEF FreshRules
<1>4. \A i \in owed' : i \in disk'["state"].keeps \/ InBackup(i)'
  <2>1. CASE Damage
    BY <1>2, <2>1, OwedStays, InBackupStays
  <2>2. CASE UNCHANGED <<disk, owed>>
    BY <1>2, <2>2, InBackupStays DEF LostInv
  <2>. QED BY <1>1, <2>1, <2>2
<1>5. ASSUME op' = "upgrade", mine' # 0, NEW i \in owed'
      PROVE  InBackup(i)'
  <2>1. op = "upgrade" /\ mine # 0
    BY <1>5, EndMoves, RecoverMoves DEF BaseInv, Leave
  <2>2. i \in owed
    BY <1>1, <2>1, OwedMoves
  <2>. QED BY <1>2, <2>1, <2>2, InBackupStays DEF LostInv
<1>. QED BY <1>3, <1>4, <1>5 DEF LostInv

LEMMA LostBeside ==
    ASSUME BaseInv, FolderInv, LostInv, Beside
    PROVE  LostInv'
<1>1. disk \in [Parts -> Contents] /\ disk["state"] \in Contents
  BY DisksAre
<1>2. UNCHANGED <<held, backups, todo, op, mine>>
  BY BesideMoves DEF BaseInv, opVars
<1>3. CASE \E i \in Items : Keep(i)
  <2>1. PICK i \in Items : Keep(i)
    BY <1>3
  <2>2. /\ disk["state"].keeps \subseteq disk'["state"].keeps
        /\ i \in disk'["state"].keeps \/ owed' = owed
    <3>1. CASE disk' = [disk EXCEPT !["state"]
                          = [disk["state"] EXCEPT !.keeps = disk["state"].keeps \cup {i}]]
      <4>1. disk'["state"].keeps = disk["state"].keeps \cup {i}
        BY <1>1, <3>1, PartsAre DEF Contents
      <4>. QED BY <4>1
    <3>2. CASE stray /\ UNCHANGED disk
      BY <2>1, <3>2 DEF Keep
    <3>. QED BY <2>1, <3>1, <3>2 DEF Keep
  <2>3. /\ owed' = owed \/ owed' = owed \cup {i}
        /\ op = "upgrade" \/ InPieces => owed' = owed
    BY <2>1 DEF Keep
  <2>4. held # "lock"
    BY <2>1, HeldAt DEF Keep
  <2>5. \A j \in owed' : j \in disk'["state"].keeps \/ InBackup(j)'
    BY <1>2, <2>2, <2>3, InBackupStays DEF LostInv
  <2>6. op' = "upgrade" /\ mine' # 0 => \A j \in owed' : InBackup(j)'
    BY <1>2, <2>3, InBackupStays DEF LostInv
  <2>7. Relies(todo', OrphanRule) => \A j \in owed' : InBackup(j)'
    BY <1>2, <2>3, PiecesAre, InBackupStays DEF LostInv
  <2>. QED BY <1>2, <2>4, <2>5, <2>6, <2>7 DEF LostInv
<1>4. CASE ~\E i \in Items : Keep(i)
  <2>1. disk'["state"].keeps = disk["state"].keeps /\ owed' = owed
    <3>1. CASE StartByHand \/ Login
      <4>1. disk' = [disk EXCEPT !["state"] = Opened(disk["state"])] /\ owed' = owed
        BY <3>1 DEF StartByHand, Login, Serve
      <4>. QED BY <1>1, <4>1, KeepsParts, PartsAre
    <3>2. CASE ServiceStops \/ \E e \in Edits : EditShell(e)
      BY <3>2 DEF ServiceStops, EditShell
    <3>3. CASE SetDispatch
      <4>1. /\ \/ UNCHANGED disk
               \/ disk' = [disk EXCEPT !["state"] = [disk["state"] EXCEPT !.dispatch = TRUE]]
            /\ owed' = owed
        BY <3>3 DEF SetDispatch
      <4>. QED BY <1>1, <4>1, PartsAre DEF Contents
    <3>. QED BY <1>4, <3>1, <3>2, <3>3 DEF Beside
  <2>2. \A i \in owed' : i \in disk'["state"].keeps \/ InBackup(i)'
    BY <1>2, <2>1, InBackupStays DEF LostInv
  <2>3. op' = "upgrade" /\ mine' # 0 => \A i \in owed' : InBackup(i)'
    BY <1>2, <2>1, InBackupStays DEF LostInv
  <2>4. Relies(todo', OrphanRule) => \A i \in owed' : InBackup(i)'
    BY <1>2, <2>1, InBackupStays DEF LostInv
  <2>. QED BY <1>2, <2>1, <2>2, <2>3, <2>4 DEF LostInv
<1>. QED BY <1>3, <1>4

LEMMA LostNext == BaseInv /\ FolderInv /\ LostInv /\ [Next]_vars => LostInv'
<1>. SUFFICES ASSUME BaseInv, FolderInv, LostInv, [Next]_vars  PROVE LostInv'
  OBVIOUS
<1>1. CASE StepTaken
  BY <1>1, LostStep
<1>2. CASE Beside
  BY <1>2, LostBeside
<1>3. CASE Recover \/ Finish \/ GiveUp
  BY <1>3, LostEnd
<1>4. CASE \E o \in Operations : Begin(o)
  <2>1. PICK o \in Operations : Begin(o)
    BY <1>4
  <2>2. UNCHANGED <<disk, backups, owed>> /\ (op' = "upgrade" => mine' = 0)
    BY <2>1 DEF Begin
  <2>3. ~Relies(todo', SealRule) /\ ~Relies(todo', VerifyRule) /\ ~Relies(todo', OrphanRule)
    BY <1>4, BegunRelies DEF FreshRules
  <2>. QED BY <2>2, <2>3, InBackupStays DEF LostInv
<1>5. CASE UNCHANGED vars
  BY <1>5, InBackupStays DEF vars, opVars, lockVars, LostInv
<1>. QED BY <1>1, <1>2, <1>3, <1>4, <1>5, NextMoves

LEMMA LostAlways == Spec => [](BaseInv /\ FolderInv /\ LostInv)
<1>1. Init => BaseInv /\ FolderInv /\ LostInv
  <2>1. Init => LostInv
    BY NothingRelies DEF Init, LostInv
  <2>. QED BY <2>1, BaseInit, FolderInit
<1>2. BaseInv /\ FolderInv /\ LostInv /\ [Next]_vars => (BaseInv /\ FolderInv /\ LostInv)'
  BY BaseStep, FolderNext, LostNext
<1>. QED BY <1>1, <1>2, PTL DEF Spec

(* What a service has kept is in its database, or in a backup that rollback *)
(* accepts, wherever operations fail or are killed, even within a rollback  *)
(* and within the recovery of an upgrade.  What is kept by a service that   *)
(* was started while a rollback has the state folder in pieces is not owed, *)
(* until that service stops, or the copy ends without having met it.        *)
THEOREM KeptOrInBackup == Spec => []NothingLost
<1>1. BaseInv /\ LostInv => NothingLost
  <2>. SUFFICES ASSUME BaseInv, LostInv  PROVE NothingLost
    OBVIOUS
  <2>1. DOMAIN backups = 1..Len(backups)
    BY LenProperties DEF BaseInv, TypeOK
  <2>. QED BY <2>1 DEF LostInv, InBackup, NothingLost
<1>. QED BY <1>1, LostAlways, PTL

(***************************************************************************)
(* What the recovery of an upgrade restores.                               *)
(***************************************************************************)
UnitInv ==
    /\ enabled => unit
    /\ Relies(todo, DisableRule) => ~enabled
    /\ Relies(todo, StartRule) => unit
    /\ Relies(todo, UnitRule) => mine # 0 /\ unit = backups[mine].unit
    /\ Relies(todo, HiddenRule) => op = "enable-widget" \/ ~shell.widget

CopiedInv ==
    \A p \in {"plugin", "config"} :
        /\ Relies(todo, EmptyRule(p)) => disk[p] = Absent
        /\ Relies(todo, CopiedRule(p)) => mine # 0 /\ disk[p] = backups[mine].parts[p]

DataInv ==
    /\ Relies(todo, NewRule) => disk["state"].release \in {0, disk["plugin"].release}
    /\ Relies(todo, DataRule) =>
          LET saved == backups[mine].parts["state"] IN
             /\ mine # 0
             /\ visited \/ /\ saved.keeps \subseteq disk["state"].keeps
                           /\ disk["state"].release \in {saved.release, disk["plugin"].release}

RestoreInv == UnitInv /\ CopiedInv /\ DataInv

(* The backup that a step restores from is the same behind it.              *)
LEMMA SavedStays ==
    ASSUME BaseInv, StepTaken, mine # 0, This \notin {All("copyAll"), All("seal")}
    PROVE  mine' = mine /\ mine' # 0 /\ backups'[mine'] = backups[mine]
BY BackupMoves

LEMMA UnitStep ==
    ASSUME BaseInv, CompareInv, UnitInv, StepTaken
    PROVE  UnitInv'
<1>1. /\ todo \in Seq(AnyStep) /\ op' = op /\ enabled \in BOOLEAN /\ unit \in BOOLEAN
      /\ DisableRule \in Rules /\ StartRule \in Rules /\ UnitRule \in Rules /\ HiddenRule \in Rules
  BY Taken DEF BaseInv, TypeOK, Rules, FreshRules
<1>2. /\ This \in {All("restoreUnit"), All("dropUnit")} => ~enabled
      /\ This = All("start") => unit
  <2>1. /\ All("restoreUnit") \in DisableRule.steps /\ All("dropUnit") \in DisableRule.steps
        /\ All("start") \in StartRule.steps
    BY RuleFields DEF DisableRule, StartRule
  <2>. QED BY <1>1, <2>1, RestAfter DEF UnitInv
<1>3. /\ All("disableUnit") \notin {All("restoreUnit"), All("dropUnit"), All("writeUnit"), All("start")}
      /\ All("writeUnit") \notin {All("restoreUnit"), All("dropUnit"), All("start")}
      /\ All("restoreUnit") \notin {All("dropUnit"), All("start"), All("copyAll"), All("seal")}
  BY AllDiffer
<1>4. enabled' => unit'
  BY <1>1, <1>2, UnitMoves DEF UnitInv
<1>5. Relies(todo', DisableRule) => ~enabled'
  <2>1. Relies(todo', DisableRule) => \/ This = All("disableUnit")
                                      \/ ~enabled /\ This # All("start")
    BY <1>1, RestAfter, RuleFields DEF DisableRule, UnitInv
  <2>. QED BY <1>1, <1>3, <2>1, UnitMoves DEF UnitInv
<1>6. Relies(todo', StartRule) => unit'
  <2>1. Relies(todo', StartRule) => \/ This = All("writeUnit")
                                    \/ unit /\ This \notin {All("dropUnit"), All("restoreUnit")}
    BY <1>1, RestAfter, RuleFields DEF StartRule, UnitInv
  <2>. QED BY <1>1, <1>3, <2>1, UnitMoves
<1>7. Relies(todo', UnitRule) => mine' # 0 /\ unit' = backups'[mine'].unit
  <2>1. Relies(todo', UnitRule) =>
           \/ This = All("restoreUnit")
           \/ /\ mine # 0 /\ unit = backups[mine].unit
              /\ This \notin {All("writeUnit"), All("dropUnit"), All("copyAll"), All("seal")}
    BY <1>1, RestAfter, RuleFields DEF UnitRule, UnitInv
  <2>2. CASE This = All("restoreUnit")
    <3>1. At("restoreUnit")
      BY <1>1, <2>2, Taken, StepFields DEF At, All
    <3>2. mine \in 1..Len(backups) /\ Len(backups) \in Nat
      BY <3>1, SavedIs, DisksAre DEF BaseInv
    <3>3. unit' = backups[mine].unit
      BY <2>2, <1>3, UnitMoves, AllDiffer
    <3>. QED BY <2>2, <1>3, <3>2, <3>3, SavedStays
  <2>3. CASE /\ mine # 0 /\ unit = backups[mine].unit
             /\ This \notin {All("writeUnit"), All("dropUnit"), All("copyAll"), All("seal")}
    BY <2>3, SavedStays, UnitMoves
  <2>. QED BY <2>1, <2>2, <2>3
<1>8. Relies(todo', HiddenRule) => op' = "enable-widget" \/ ~shell'.widget
  <2>1. Relies(todo', HiddenRule) =>
           This = All("replaceShell") \/ op = "enable-widget" \/ ~shell.widget
    BY <1>1, RestAfter, RuleFields DEF HiddenRule, UnitInv
  <2>. QED BY <1>1, <2>1, ShellMoves
<1>. QED BY <1>4, <1>5, <1>6, <1>7, <1>8 DEF UnitInv

(* The plugin and the settings.                                             *)
LEMMA CopiedStep ==
    ASSUME BaseInv, FolderInv, CopiedInv, StepTaken
    PROVE  CopiedInv'
<1>. SUFFICES ASSUME NEW p \in {"plugin", "config"}
              PROVE  /\ Relies(todo', EmptyRule(p)) => disk'[p] = Absent
                     /\ Relies(todo', CopiedRule(p)) =>
                           mine' # 0 /\ disk'[p] = backups'[mine'].parts[p]
  BY DEF CopiedInv
<1>1. /\ todo \in Seq(AnyStep) /\ p \in Parts
      /\ EmptyRule(p) \in Rules /\ CopiedRule(p) \in Rules
  BY PartsAre DEF BaseInv, TypeOK, Rules, FreshRules
<1>2. \/ This = Step("drop", p) /\ disk'[p] = Absent
      \/ This = Step("copy", p) /\ disk'[p] = (IF Saved.is = "none" THEN disk[p] ELSE Saved)
      \/ This \in {All("place"), All("settings"), All("venv")}
      \/ /\ disk'[p] = disk[p]
         /\ This \notin {Step("drop", p), Step("copy", p)}
  <2>1. CASE p = "plugin"
    BY <2>1, PluginMoves
  <2>2. CASE p = "config"
    BY <2>2, ConfigMoves
  <2>. QED BY <2>1, <2>2
<1>3. /\ Step("drop", p) # Step("copy", p)
      /\ \A d \in PlainSteps : All(d) # Step("drop", p) /\ All(d) # Step("copy", p)
  BY <1>1, ActionIs
<1>4. Relies(todo, EmptyRule(p)) => disk[p] = Absent
  BY DEF CopiedInv
<1>5. ASSUME Relies(todo', EmptyRule(p))  PROVE disk'[p] = Absent
  <2>1. \/ This = Step("drop", p)
        \/ disk[p] = Absent /\ This \notin {Step("copy", p), All("place"), All("settings")}
    BY <1>1, <1>4, <1>5, RestAfter, RuleFields DEF EmptyRule
  <2>2. CASE This = Step("drop", p)
    BY <1>2, <1>3, <2>2, StepsAre
  <2>3. CASE disk[p] = Absent /\ This = All("venv")
    <3>1. disk'[p] = disk[p]
      <4>1. CASE p = "plugin"
        <5>1. At("venv") /\ Able
          BY <1>1, <2>3, Taken, StepFields DEF At, All
        <5>. QED BY <2>3, <4>1, <5>1 DEF Able, Absent
      <4>2. CASE p = "config"
        BY <1>3, <2>3, <4>2, ConfigMoves, AllDiffer, StepsAre
      <4>. QED BY <4>1, <4>2
    <3>. QED BY <2>3, <3>1
  <2>. QED BY <1>2, <2>1, <2>2, <2>3
<1>6. This = Step("copy", p) =>
         mine \in 1..Len(backups) /\ disk'[p] = backups[mine].parts[p]
  <2>. SUFFICES ASSUME This = Step("copy", p)
                PROVE  mine \in 1..Len(backups) /\ disk'[p] = backups[mine].parts[p]
    OBVIOUS
  <2>1. At("copy") /\ This.on = p
    BY <1>1, Taken, StepFields DEF At
  <2>2. mine \in 1..Len(backups) /\ Saved = backups[mine].parts[p]
    BY <2>1, SavedIs DEF BaseInv, Saved
  <2>3. disk[p] = Absent
    <3>1. Step("copy", p) \in EmptyRule(p).steps
      BY RuleFields DEF EmptyRule
    <3>. QED BY <1>1, <1>4, <3>1, RestAfter
  <2>4. Saved.is = "none" => Saved = Absent
    BY <1>1, <2>2 DEF FolderInv, Gone
  <2>5. disk'[p] = IF Saved.is = "none" THEN disk[p] ELSE Saved
    BY <1>2, <1>3, StepsAre
  <2>. QED BY <2>2, <2>3, <2>4, <2>5
<1>7. ASSUME Relies(todo', CopiedRule(p))
      PROVE  mine' # 0 /\ disk'[p] = backups'[mine'].parts[p]
  <2>1. \/ This = Step("copy", p)
        \/ /\ mine # 0 /\ disk[p] = backups[mine].parts[p]
           /\ This \notin {Step("drop", p), All("place"), All("settings"), All("venv"),
                           All("copyAll"), All("seal")}
    BY <1>1, <1>7, RestAfter, RuleFields DEF CopiedRule, CopiedInv
  <2>2. CASE This = Step("copy", p)
    <3>1. Len(backups) \in Nat
      BY DisksAre
    <3>. QED BY <1>3, <1>6, <2>2, <3>1, SavedStays, StepsAre
  <2>3. CASE This # Step("copy", p)
    BY <1>2, <2>1, <2>3, SavedStays
  <2>. QED BY <2>2, <2>3
<1>. QED BY <1>5, <1>7

LEMMA ReleaseParts ==
    /\ Absent.release = 0 /\ Bare.release = 0 /\ [Absent EXCEPT !.is = "torn"].release = 0
    /\ \A c \in Contents : /\ [c EXCEPT !.dispatch = FALSE].release = c.release
                           /\ [c EXCEPT !.ready = TRUE].release = c.release
                           /\ Opened(c).release = disk["plugin"].release
                           /\ \A t \in Torn(c) : t.release \in {c.release, 0}
<1>1. Absent.release = 0 /\ Bare.release = 0 /\ [Absent EXCEPT !.is = "torn"].release = 0
  BY DEF Absent, Bare
<1>2. \A c \in Contents : /\ [c EXCEPT !.dispatch = FALSE].release = c.release
                         /\ [c EXCEPT !.ready = TRUE].release = c.release
                         /\ [c EXCEPT !.is = "torn"].release = c.release
                         /\ Opened(c).release = disk["plugin"].release
  BY DEF Contents, Opened
<1>. QED BY <1>1, <1>2 DEF Torn

(* The release of the plugin stays but where the plugin is replaced.        *)
LEMMA ReleaseStays ==
    ASSUME BaseInv, StepTaken,
           This \notin {Step("drop", "plugin"), Step("copy", "plugin"), All("place")}
    PROVE  disk'["plugin"].release = disk["plugin"].release
<1>1. disk["plugin"] \in Contents
  BY DisksAre
<1>2. \/ disk'["plugin"] = [disk["plugin"] EXCEPT !.ready = TRUE]
      \/ disk'["plugin"] = disk["plugin"]
  BY PluginMoves
<1>. QED BY <1>1, <1>2 DEF Contents

LEMMA DataStep ==
    ASSUME BaseInv, FolderInv, DataInv, StepTaken
    PROVE  DataInv'
<1>1. /\ todo \in Seq(AnyStep) /\ disk["state"] \in Contents
      /\ disk["state"].is = "none" => disk["state"] = Absent
      /\ NewRule \in Rules /\ DataRule \in Rules
  BY DisksAre, PartsAre DEF BaseInv, TypeOK, Rules, FreshRules, FolderInv, Gone
<1>2. /\ \A p \in Parts, q \in Parts : Step("drop", p) # Step("copy", q)
      /\ Step("drop", "state") # Step("drop", "plugin") /\ Step("copy", "state") # Step("copy", "plugin")
      /\ \A d \in PlainSteps, p \in Parts : All(d) # Step("drop", p) /\ All(d) # Step("copy", p)
  BY ActionIs, PartsAre
<1>3. ASSUME Relies(todo', NewRule)
      PROVE  disk'["state"].release \in {0, disk'["plugin"].release}
  <2>1. \/ This = Step("drop", "state")
        \/ /\ disk["state"].release \in {0, disk["plugin"].release}
           /\ This \notin {Step("drop", "plugin"), Step("copy", "plugin"), All("place"),
                           Step("copy", "state")}
    BY <1>1, <1>3, RestAfter, RuleFields DEF NewRule, DataInv
  <2>2. CASE This = Step("drop", "state")
    BY <1>2, <2>2, StateMoves, ReleaseParts, StepsAre, PartsAre
  <2>3. CASE /\ disk["state"].release \in {0, disk["plugin"].release}
             /\ This \notin {Step("drop", "plugin"), Step("copy", "plugin"), All("place"),
                             Step("copy", "state")}
    <3>1. disk'["plugin"].release = disk["plugin"].release
      BY <2>3, ReleaseStays
    <3>2. disk'["state"].release \in {0, disk["plugin"].release}
      BY <1>1, <2>3, StateMoves, ReleaseParts
    <3>. QED BY <3>1, <3>2
  <2>. QED BY <2>1, <2>2, <2>3
<1>4. ASSUME Relies(todo', DataRule)
      PROVE  LET saved == backups'[mine'].parts["state"] IN
                /\ mine' # 0
                /\ visited' \/ /\ saved.keeps \subseteq disk'["state"].keeps
                               /\ disk'["state"].release \in
                                     {saved.release, disk'["plugin"].release}
  <2>. DEFINE before == backups[mine].parts["state"]
  <2>4. (visited => visited') /\ visited \in BOOLEAN /\ visited' \in BOOLEAN
    BY VisitMoves DEF BaseInv, TypeOK
  <2>1. \/ This = Step("copy", "state")
        \/ /\ mine # 0
           /\ visited \/ /\ before.keeps \subseteq disk["state"].keeps
                         /\ disk["state"].release \in {before.release, disk["plugin"].release}
           /\ This \notin {All("unlink"), Step("drop", "state"), All("make"),
                           Step("drop", "plugin"), Step("copy", "plugin"), All("place"),
                           All("copyAll"), All("seal"), All("schema")}
    BY <1>1, <1>4, RestAfter, RuleFields DEF DataRule, DataInv
  <2>2. CASE This = Step("copy", "state")
    <3>1. At("copy") /\ This.on = "state" /\ Able
      BY <1>1, <2>2, Taken, StepFields DEF At
    <3>2. mine \in 1..Len(backups) /\ Saved = before /\ Len(backups) \in Nat
      BY <3>1, SavedIs, DisksAre DEF BaseInv, Saved
    <3>3. disk["state"].release \in {0, disk["plugin"].release}
      <4>1. Step("copy", "state") \in NewRule.steps
        BY RuleFields DEF NewRule
      <4>. QED BY <1>1, <2>2, <4>1, RestAfter DEF DataInv
    <3>4. before.is = "none" => before = Absent
      BY <3>2, PartsAre DEF FolderInv, Gone
    <3>5. visited' \/ disk'["state"] = IF before.is = "none" THEN disk["state"] ELSE before
      <4>1. IF before.is = "none" THEN disk'["state"] = disk["state"]
            ELSE disk'["state"] \in Copied
        BY <1>2, <2>2, <3>2, StateMoves, StepsAre, PartsAre
      <4>2. ~visited => \A c \in Copied : c = before
        BY <3>1, <3>2, CopiedIs DEF BaseInv
      <4>. QED BY <2>4, <4>1, <4>2
    <3>6. disk'["plugin"].release = disk["plugin"].release
      BY <1>2, <2>2, ReleaseStays, StepsAre, PartsAre
    <3>7. backups'[mine'] = backups[mine] /\ mine' # 0
      BY <1>2, <2>2, <3>2, SavedStays, StepsAre, PartsAre
    <3>. QED BY <3>3, <3>4, <3>5, <3>6, <3>7, ReleaseParts, KeepsParts
  <2>3. CASE /\ This # Step("copy", "state")
             /\ mine # 0
             /\ visited \/ /\ before.keeps \subseteq disk["state"].keeps
                           /\ disk["state"].release \in {before.release, disk["plugin"].release}
             /\ This \notin {All("unlink"), Step("drop", "state"), All("make"),
                             Step("drop", "plugin"), Step("copy", "plugin"), All("place"),
                             All("copyAll"), All("seal"), All("schema")}
    <3>1. disk'["plugin"].release = disk["plugin"].release
      BY <2>3, ReleaseStays
    <3>2. backups'[mine'] = backups[mine] /\ mine' # 0
      BY <2>3, SavedStays
    <3>3. /\ disk'["state"].keeps = disk["state"].keeps
          /\ disk'["state"].release \in {disk["state"].release, disk["plugin"].release}
      BY <1>1, <2>3, StateMoves, ReleaseParts, KeepsParts
    <3>. QED BY <2>3, <2>4, <3>1, <3>2, <3>3
  <2>. QED BY <2>1, <2>2, <2>3
<1>. QED BY <1>3, <1>4 DEF DataInv

LEMMA UnitNext == BaseInv /\ CompareInv /\ UnitInv /\ [Next]_vars => UnitInv'
<1>. SUFFICES ASSUME BaseInv, CompareInv, UnitInv, [Next]_vars  PROVE UnitInv'
  OBVIOUS
<1>1. CASE StepTaken
  BY <1>1, UnitStep
<1>2. CASE (\E o \in Operations : Begin(o)) \/ Recover \/ Finish \/ GiveUp
  <2>1. /\ ~Relies(todo', DisableRule) /\ ~Relies(todo', StartRule)
        /\ ~Relies(todo', UnitRule) /\ ~Relies(todo', HiddenRule)
    BY <1>2, BegunRelies DEF FreshRules
  <2>2. Damage => (enabled' => unit')
    <3>1. At("start") => unit
      <4>1. At("start") => todo # <<>> /\ Head(todo) = All("start") /\ todo \in Seq(AnyStep)
        BY AtStep, StepsAre DEF BaseInv, TypeOK
      <4>2. All("start") \in StartRule.steps
        BY RuleFields DEF StartRule
      <4>. QED BY <4>1, <4>2, NextRelies DEF UnitInv
    <3>2. Damage => unit' = unit /\ (enabled' = enabled \/ At("start"))
      BY DEF Damage
    <3>3. enabled => unit
      BY DEF UnitInv
    <3>. QED BY <3>1, <3>2, <3>3
  <2>3. enabled' => unit'
    <3>1. CASE \E o \in Operations : Begin(o)
      BY <3>1 DEF Begin, serviceVars, UnitInv
    <3>2. CASE Finish \/ GiveUp
      BY <3>2, <2>2, EndMoves DEF BaseInv, UnitInv, Unmoved
    <3>3. CASE Recover
      BY <3>3, <2>2, RecoverMoves DEF BaseInv, UnitInv, Unmoved
    <3>. QED BY <1>2, <3>1, <3>2, <3>3
  <2>. QED BY <2>1, <2>3 DEF UnitInv
<1>3. CASE Beside
  <2>1. UNCHANGED <<unit, enabled, backups, op, mine, todo>>
    BY <1>3, BesideMoves DEF BaseInv, opVars
  <2>2. shell'.widget = shell.widget
    <3>1. CASE \E e \in Edits : EditShell(e)
      BY <3>1 DEF EditShell, BaseInv, TypeOK, Shell
    <3>2. CASE ~\E e \in Edits : EditShell(e)
      BY <1>3, <3>2 DEF Beside, StartByHand, Login, ServiceStops, SetDispatch, Keep, shellVars
    <3>. QED BY <3>1, <3>2
  <2>. QED BY <2>1, <2>2 DEF UnitInv
<1>4. CASE UNCHANGED vars
  BY <1>4 DEF vars, serviceVars, opVars, shellVars, UnitInv
<1>. QED BY <1>1, <1>2, <1>3, <1>4, NextMoves

(* Others touch the state folder only, and take nothing out of it.          *)
LEMMA BesideData ==
    ASSUME BaseInv, Beside
    PROVE  /\ disk'["plugin"] = disk["plugin"] /\ disk'["config"] = disk["config"]
           /\ disk["state"].keeps \subseteq disk'["state"].keeps
           /\ disk'["state"].release \in {disk["state"].release, disk["plugin"].release}
           /\ visited => visited'
<1>1. disk \in [Parts -> Contents] /\ disk["state"] \in Contents
  BY DisksAre
<1>6. visited => visited'
  BY BesideMoves DEF BaseInv
<1>2. CASE StartByHand \/ Login
  <2>1. disk' = [disk EXCEPT !["state"] = Opened(disk["state"])]
    BY <1>2 DEF StartByHand, Login, Serve
  <2>. QED BY <1>1, <1>6, <2>1, KeepsParts, ReleaseParts, PartsAre
<1>3. CASE ServiceStops \/ \E e \in Edits : EditShell(e)
  BY <1>3, <1>6 DEF ServiceStops, EditShell
<1>4. CASE SetDispatch
  <2>1. \/ UNCHANGED disk
        \/ disk' = [disk EXCEPT !["state"] = [disk["state"] EXCEPT !.dispatch = TRUE]]
    BY <1>4 DEF SetDispatch
  <2>. QED BY <1>1, <1>6, <2>1, PartsAre DEF Contents
<1>5. CASE \E i \in Items : Keep(i)
  <2>1. PICK i \in Items :
           \/ UNCHANGED disk
           \/ disk' = [disk EXCEPT !["state"]
                              = [disk["state"] EXCEPT !.keeps = disk["state"].keeps \cup {i}]]
    BY <1>5 DEF Keep
  <2>. QED BY <1>1, <1>6, <2>1, PartsAre DEF Contents
<1>. QED BY <1>2, <1>3, <1>4, <1>5 DEF Beside

LEMMA RestoreNext ==
    BaseInv /\ FolderInv /\ CopiedInv /\ DataInv /\ [Next]_vars => CopiedInv' /\ DataInv'
<1>. SUFFICES ASSUME BaseInv, FolderInv, CopiedInv, DataInv, [Next]_vars
              PROVE  CopiedInv' /\ DataInv'
  OBVIOUS
<1>1. CASE StepTaken
  BY <1>1, CopiedStep, DataStep
<1>2. CASE (\E o \in Operations : Begin(o)) \/ Recover \/ Finish \/ GiveUp
  <2>1. /\ \A p \in {"plugin", "config"} : /\ ~Relies(todo', EmptyRule(p))
                                           /\ ~Relies(todo', CopiedRule(p))
        /\ ~Relies(todo', NewRule) /\ ~Relies(todo', DataRule)
    BY <1>2, BegunRelies DEF FreshRules
  <2>. QED BY <2>1 DEF CopiedInv, DataInv
<1>3. CASE Beside
  <2>1. UNCHANGED <<backups, mine, todo>>
    BY <1>3, BesideMoves DEF BaseInv, opVars
  <2>2. CopiedInv'
    BY <1>3, <2>1, BesideData DEF CopiedInv
  <2>3. DataInv'
    BY <1>3, <2>1, BesideData DEF DataInv
  <2>. QED BY <2>2, <2>3
<1>4. CASE UNCHANGED vars
  BY <1>4 DEF vars, visitVars, opVars, CopiedInv, DataInv
<1>. QED BY <1>1, <1>2, <1>3, <1>4, NextMoves

RestoreAll == BaseInv /\ FolderInv /\ CompareInv /\ DispatchInv /\ RestoreInv

LEMMA RestoreAlways == Spec => []RestoreAll
<1>1. Init => RestoreAll
  <2>1. Init => RestoreInv
    BY NothingRelies DEF Init, RestoreInv, UnitInv, CopiedInv, DataInv
  <2>. QED BY <2>1, BaseInit, FolderInit, DispatchInit DEF RestoreAll, CompareInv, Init, At
<1>2. RestoreAll /\ [Next]_vars => RestoreAll'
  BY BaseStep, FolderNext, CompareNext, DispatchNext, UnitNext, RestoreNext DEF RestoreAll,
     RestoreInv
<1>. QED BY <1>1, <1>2, PTL DEF Spec

(* When upgrade writes that it rolled back, everything is as its backup has *)
(* it, with what a service started by hand in between has added; dispatch   *)
(* is off, no service runs or will at login, and the widget is hidden.  The *)
(* data may be others if a service opened the state folder while it was in  *)
(* pieces.                                                                  *)
THEOREM RecoveredAsBefore == Spec => []RecoveryRestores
<1>1. RestoreAll => RecoveryRestores
  <2>. SUFFICES ASSUME RestoreAll, At("record")  PROVE RecoveryRestores
    BY DEF RecoveryRestores
  <2>. USE DEF RestoreAll
  <2>1. todo \in Seq(AnyStep) /\ todo # <<>> /\ Head(todo) = All("record")
    BY AtStep, StepsAre DEF BaseInv, TypeOK
  <2>2. /\ All("record") \in DisableRule.steps /\ All("record") \in UnitRule.steps
        /\ All("record") \in HiddenRule.steps /\ All("record") \in DataRule.steps
        /\ All("record") \in QuietRule.steps /\ All("record") \in RestoreRule.steps
        /\ \A p \in {"plugin", "config"} : All("record") \in CopiedRule(p).steps
    BY RuleFields DEF DisableRule, UnitRule, HiddenRule, DataRule, QuietRule, RestoreRule,
       CopiedRule
  <2>3. /\ Relies(todo, DisableRule) /\ Relies(todo, UnitRule) /\ Relies(todo, HiddenRule)
        /\ Relies(todo, DataRule) /\ Relies(todo, QuietRule) /\ Relies(todo, RestoreRule)
        /\ \A p \in {"plugin", "config"} : Relies(todo, CopiedRule(p))
    BY <2>1, <2>2, NextRelies
  <2>4. op # "enable-widget"
    BY <2>3 DEF BaseInv, RuleInv
  <2>5. service = "none" /\ ~disk["state"].dispatch
    BY <2>3, HeldAt DEF DispatchInv
  <2>6. ~enabled /\ unit = backups[mine].unit /\ ~shell.widget
    BY <2>3, <2>4 DEF RestoreInv, UnitInv
  <2>7. \A p \in {"plugin", "config"} : disk[p] = backups[mine].parts[p]
    BY <2>3 DEF RestoreInv, CopiedInv
  <2>8. visited \/ /\ backups[mine].parts["state"].keeps \subseteq disk["state"].keeps
                   /\ disk["state"].release \in
                         {backups[mine].parts["state"].release, disk["plugin"].release}
    BY <2>3 DEF RestoreInv, DataInv
  <2>. QED BY <2>5, <2>6, <2>7, <2>8 DEF RecoveryRestores
<1>. QED BY <1>1, RestoreAlways, PTL

=============================================================================
