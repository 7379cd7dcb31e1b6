SPECIFICATION FairSpec
CONSTANTS
    Targets = {t1}
    PodNames = {p1}
    NoName = NoName
    NoOne = NoOne
    Stripes <- OneStripe
    Stripe <- SameLock
    DeleteDelay = 0
    MaxFail = 1
    MaxDelete = 2
    MaxRestart = 1
    MaxError = 1
    MaxResource = 0
    MaxAbort = 0
    MaxCrash = 0
    RoundTimesOut = TRUE
PROPERTIES Recovers
CHECK_DEADLOCK FALSE
