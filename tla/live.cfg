SPECIFICATION FairSpec
CONSTANTS
    Targets = {t1}
    PodNames = {p1}
    NoName = NoName
    NoOne = NoOne
    Stripes <- OneStripe
    Stripe <- SameLock
    DeleteDelay = 1
    MaxFail = 0
    MaxDelete = 1
    MaxRestart = 0
    MaxError = 0
    MaxResource = 1
    MaxAbort = 1
    MaxCrash = 1
    RoundTimesOut = TRUE
PROPERTIES CallsReturn NoLeak
CHECK_DEADLOCK FALSE
