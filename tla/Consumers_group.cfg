CONSTANTS
    c1 = c1
    c2 = c2
    p1 = p1
    p2 = p2
    Members = {c1, c2}
    Partitions = {p1, p2}
    AutoCommit = TRUE
    MaxOffset = 2
    MaxBatch = 2
    MaxDeaths = 1
    MaxCalls = 4
SPECIFICATION Spec
CHECK_DEADLOCK FALSE
SYMMETRY Symmetry
INVARIANT TypeOK
INVARIANT NothingSkipped
 
 
