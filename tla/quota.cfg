SPECIFICATION FairSpec
CONSTANTS
    v1 = v1
    c1 = c1
    c2 = c2
    n1 = n1
    Vols = {v1}
    Slots = {c1, c2}
    Nodes = {n1}
    Sizes = {1, 3, 4}
    GiB = 2
    MaxFail = 1
    MaxSlow = 1
    MaxGiveUp = 1
    MaxCrash = 1
INVARIANTS QuotaCovers
PROPERTIES Created Expanded Deleted
CHECK_DEADLOCK FALSE
