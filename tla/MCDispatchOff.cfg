SPECIFICATION Spec
CONSTANTS
    early = early
    late = late
    Grace = 1
    NRoutines = 1
    Crons = {early}
    Manual = Manual
    MinutesOf <- MCMinutes
    ZoneOf <- MCZone
    RankOf <- MCRank
    Keys = {}
    RunNowKeys = {}
    NoKey = NoKey
    MaxWait = 1
    MaxRuns = 2
    MaxTime = 2
    MaxRevision = 2
    MaxStarts = 2
    ClockMayStepBack = FALSE
    LoopErrors = FALSE
    Installer = TRUE
PROPERTIES
    ScheduledNeedsDispatch
