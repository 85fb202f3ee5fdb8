CONSTANTS
    g1 = g1
    g2 = g2
    k1 = k1
    k2 = k2
    h1 = h1
    h2 = h2
    h3 = h3
    Groups = {g1, g2}
    Keys = {k1, k2}
    Offsets = {1, 2}
    Handlers = {h1, h2, h3}
    MaxCommits = 4
    MaxFailures = 1
    MaxCrashes = 1
    CrashPoints = {"idle", "insert", "create", "write", "sync"}
SPECIFICATION Spec
SYMMETRY Symmetry
INVARIANT TypeOK
 
 
