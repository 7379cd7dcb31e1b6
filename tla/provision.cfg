SPECIFICATION FairSpec
CONSTANTS
    v1 = v1
    v2 = v2
    v3 = v3
    d1 = d1
    d2 = d2
    s1 = s1
    Vols = {v1, v2}
    Paths = {d1, d2}
    Secrets = {s1}
    PathOf <- MCOwnPath
    SecretOf <- MCSecretOf
    PolicyOf <- MCRetain
    PathPattern = FALSE
    Workers = 2
    UserDeletes = FALSE
    MaxFail = 1
    MaxPatchFail = 1
    MaxTimeout = 1
    MaxJobFail = 1
    MaxCrash = 1
INVARIANTS DataDeleted
PROPERTIES ReleasedGone
CHECK_DEADLOCK FALSE
