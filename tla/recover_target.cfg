SPECIFICATION FairSpec
CONSTANTS
    Remain = 5
    MaxDeath = 6
    EarlyRound = FALSE
INVARIANTS RootKept Bounded Unpublished
PROPERTIES NeverBare Recovers
CHECK_DEADLOCK FALSE
