CONSTANTS
    g1 = g1
    g2 = g2
    c1 = c1
    c2 = c2
    c3 = c3
    t1 = t1
    t2 = t2
    Groups = {g1, g2}
    Members = {c1, c2, c3}
    GroupOf <- TwoGroups
    Topics = {t1, t2}
    Count <- TwoTopics
    Timeout = 1
    MaxJoins = 2
SPECIFICATION Spec
SYMMETRY FirstGroup
INVARIANT TypeOK
INVARIANT Covered
INVARIANT Exclusive
INVARIANT Balanced
