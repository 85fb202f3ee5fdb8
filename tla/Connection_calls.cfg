CONSTANTS
    p1 = p1
    p2 = p2
    Partitions = {p1, p2}
    AutoCommit = TRUE
    MaxTasks = 2
    MaxSlips = 1
SPECIFICATION FairSpec
CHECK_DEADLOCK FALSE
INVARIANT TypeOK
INVARIANT InStep
INVARIANT AnswersOwn
 
INVARIANT HeartbeatsGoOn
PROPERTY CallsReturn
