CONSTANTS
    c1 = c1
    c2 = c2
    t1 = t1
    t2 = t2
    t3 = t3
    k1 = k1
    NoKey = NoKey
    Clients = {c1, c2}
    Topics = {t1, t2, t3}
    CountOf <- TopicSizes
    Keys = {k1, NoKey}
    HashOf <- OneHash
    Batches <- SomeBatches
    BatchSize = 2
    Modulus = 3
    MaxMessages = 4
    MaxSends = 2
SPECIFICATION ProducersSpec
CHECK_DEADLOCK FALSE
SYMMETRY Symmetry
INVARIANT Spread
INVARIANT AckedOnce
INVARIANT KeyOrdered
