\* One task, and operators and a host that take every liberty.
CONSTANTS
    t1 = t1
    t2 = t2
    Task <- MCOneTask
    DepSets <- MCOneTaskDeps
    MaxBatch = 2
    MaxReceipt = 2
    MaxAttempts = 2
    MaxCrash = 1
    Liberty = {"force", "revive", "cancel", "disk"}
SPECIFICATION FairSpec
INVARIANTS
    BranchIsNamed
PROPERTIES
    RunningEnds
\* Bounded counters: every command may be used up.
CHECK_DEADLOCK FALSE
