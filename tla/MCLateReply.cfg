SPECIFICATION Spec
CONSTANTS
    a = a
    b = b
    r1 = r1
    r2 = r2
    r3 = r3
    NoRoutine = NoRoutine
    NoRun = NoRun
    Routines <- MCRoutines
    Runs <- MCRuns
    History <- MCHistory
    Saved = {a}
    MaxRevision = 2
    MaxFailures = 1
INVARIANTS
    RepliesLeaveWhatIsOpen
