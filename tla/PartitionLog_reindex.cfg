CONSTANTS
    m1 = m1
    m2 = m2
    Msgs <- MsgsOne
    MaxSize = 9
    IndexInterval = 1
    MaxBatch = 2
    MaxOffset = 6
    MaxFailures = 0
    MaxCrashes = 1
    CrashPoints = {"idle"}
    PowerLoss = FALSE
SPECIFICATION Spec
INVARIANT AckedReadable
