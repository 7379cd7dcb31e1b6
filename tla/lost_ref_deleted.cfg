SPECIFICATION Spec
CONSTANTS
    Targets = {t1, t2}
    PodNames = {p1}
    NoName = NoName
    NoOne = NoOne
    Stripes <- OneStripe
    Stripe <- SameLock
    DeleteDelay = 0
    MaxFail = 0
    MaxDelete = 1
    MaxRestart = 0
    MaxError = 0
    MaxResource = 0
    MaxAbort = 0
    MaxCrash = 0
    RoundTimesOut = FALSE
SYMMETRY Symmetry
INVARIANTS RefKept
CHECK_DEADLOCK FALSE
