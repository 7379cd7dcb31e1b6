SPECIFICATION FairSpec
CONSTANTS
    Inputs <- MCInputs
    Configs <- MCConfigs
    Retries = 2
    MaxOther = 2
    MaxReload = 1
    MaxFail = 1
    MaxRestart = 1
    MaxAgain = 1
INVARIANTS Wired CachesBacked QuotaOnMounted ServedWhileRunning
PROPERTIES Completes
CHECK_DEADLOCK FALSE
