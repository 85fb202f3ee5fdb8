CONSTANTS
    t1 = t1
    h1 = h1
    h2 = h2
    Names = {t1}
    Counts = {0, 1, 2}
    Handlers = {h1, h2}
    MaxObjects = 3
    MaxRecords = 3
    MaxCrashes = 2
SPECIFICATION Spec
SYMMETRY Symmetry
INVARIANT TypeOK
 
 
 
INVARIANT AdvertisedServed
