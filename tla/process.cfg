SPECIFICATION Spec
CONSTANTS
    t1 = t1
    t2 = t2
    MountPath = MountPath
    Targets = {t1, t2}
    ReadOnly = {t2}
    MaxDev = 3
    MaxOverlap = 1
    MaxSlow = 1
    MaxFault = 2
INVARIANTS
    Served
    Released
    NoMountLeft
CHECK_DEADLOCK FALSE
