SPECIFICATION Spec
CONSTANTS
    early = early
    late = late
    Grace = 1
    NRoutines = 3
    Crons = {early}
    Manual = Manual
    MinutesOf <- MCMinutes
    ZoneOf <- MCZone
    RankOf <- MCRank
    Keys = {k}
    RunNowKeys = {k}
    NoKey = NoKey
    MaxWait = 1
    MaxRuns = 2
    MaxTime = 1
    MaxRevision = 1
    MaxStarts = 2
    ClockMayStepBack = FALSE
    LoopErrors = TRUE
    Installer = TRUE
INVARIANTS
    AtMostOneActive
PROPERTIES
    ClaimInOrder
