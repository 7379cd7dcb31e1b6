SPECIFICATION FairSpec
CONSTANTS
    Apps = {a1, a2}
    Tokens = {"t1", "t2", "none"}
    Valid = {"t1"}
    Keys = {"k1"}
    Budgets <- MCBudgets
INVARIANTS LiveProtected
PROPERTIES DropsOnlyGone Collected ConfFresh RefreshesAtomically
CHECK_DEADLOCK FALSE
