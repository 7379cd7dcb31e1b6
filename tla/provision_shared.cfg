SPECIFICATION Spec
CONSTANTS
    v1 = v1
    v2 = v2
    v3 = v3
    d1 = d1
    d2 = d2
    s1 = s1
    Vols = {v1, v2, v3}
    Paths = {d1, d2}
    Secrets = {s1}
    PathOf <- MCSharedPath
    SecretOf <- MCSecretOf
    PolicyOf <- MCDelete
    PathPattern = TRUE
    Workers = 4
    UserDeletes = TRUE
    MaxFail = 0
    MaxPatchFail = 0
    MaxTimeout = 1
    MaxJobFail = 0
    MaxCrash = 1
INVARIANTS FinalizerKept SecretReleased
PROPERTIES DirKept
SYMMETRY MCAlike
CHECK_DEADLOCK FALSE
