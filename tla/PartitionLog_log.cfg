CONSTANTS
    m1 = m1
    m2 = m2
    Msgs <- MsgsTwo
    MaxSize = 5
    IndexInterval = 1
    MaxBatch = 2
    MaxOffset = 6
    MaxFailures = 0
    MaxCrashes = 2
    CrashPoints = {"idle", "index", "sync"}
    PowerLoss = FALSE
SPECIFICATION Spec
INVARIANT FetchMatchesLog
INVARIANT IndexSound
PROPERTY RefinesLog
