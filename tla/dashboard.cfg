SPECIFICATION Spec
CONSTANTS
    a1 = a1
    a2 = a2
    s1 = s1
    s2 = s2
    m1 = m1
    v1 = v1
    c1 = c1
    Apps = {a1, a2}
    Csis = {s1, s2}
    Mounts = {m1}
    PVs = {v1}
    PVCs = {c1}
    MaxObjects = 3
    MaxEvents <- Pending1
    MaxTime = 2
SYMMETRY Names
INVARIANTS AllListed CSINodeFound Paired TimeOrdered
CHECK_DEADLOCK FALSE
