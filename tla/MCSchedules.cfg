SPECIFICATION Spec
CONSTANTS
    early = early
    late = late
    Grace = 1
    NRoutines = 1
    Crons = {early, late}
    Manual = Manual
    MinutesOf <- MCMinutes
    ZoneOf <- MCZone
    RankOf <- MCRank
    Keys = {}
    RunNowKeys = {}
    NoKey = NoKey
    MaxWait = 1
    MaxRuns = 2
    MaxTime = 3
    MaxRevision = 3
    MaxStarts = 1
    ClockMayStepBack = TRUE
    LoopErrors = FALSE
    Installer = FALSE
INVARIANTS
    TypeOK
    QueuedScheduledIsCurrent
    FiredBehindCheckpoint
    OccurrenceRunsOnce
    NoRunInsideGap
    NoCatchUp
PROPERTIES
    ScheduledNeedsDispatch
    OccurrencesAccounted
    RunsWereShown
