CONSTANTS
    b1 = b1
    b2 = b2
    Brokers = {b1, b2}
    Self = b1
    NumPartitions = 2
    ReplicationFactor = 2
    MaxLag = 1
    Timeout = 1
    EpochLimit = 3
    MaxOffset = 2
SPECIFICATION Spec
INVARIANT TypeOK
INVARIANT LeaderInSync
 
INVARIANT WatermarkWithinLog
