CONSTANTS
    t1 = t1
    t2 = t2
    t3 = t3
    Threads = {t1, t2, t3}
    CallsOf <- Mixed
    MaxRecords = 2
SPECIFICATION FairSpec
INVARIANT NoWaitCycle
INVARIANT ReadAgrees
PROPERTY CallsReturn
