SPECIFICATION Spec
CONSTANTS
    Targets = {t1, t2}
    PodNames = {p1}
    NoName = NoName
    NoOne = NoOne
    Stripes <- OneStripe
    Stripe <- SameLock
    DeleteDelay = 1
    MaxFail = 1
    MaxDelete = 0
    MaxRestart = 0
    MaxError = 0
    MaxResource = 0
    MaxAbort = 0
    MaxCrash = 0
    RoundTimesOut = FALSE
SYMMETRY Symmetry
INVARIANTS LockOwned RefKept SecretKept
PROPERTIES DeletesOnlyUnused DropsOnlyUnusedRefs
CHECK_DEADLOCK FALSE
