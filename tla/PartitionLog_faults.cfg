CONSTANTS
    m1 = m1
    m2 = m2
    Msgs <- MsgsTwo
    MaxSize = 3
    IndexInterval = 1
    MaxBatch = 2
    MaxOffset = 3
    MaxFailures = 2
    MaxCrashes = 1
    CrashPoints = {"idle", "create_index", "write", "index", "sync"}
    PowerLoss = TRUE
SPECIFICATION Spec
SYMMETRY Symmetry
INVARIANT TypeOK
INVARIANT SegmentsDisjoint
INVARIANT AckedDurable
INVARIANT OffsetsNotReused
