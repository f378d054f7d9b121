\* Safety of the aggregate under every documented command; the integrating process may
\* stop at any point.
CONSTANTS
    t1 = t1
    t2 = t2
    Task <- MCTask
    DepSets <- MCDepSets
    MaxBatch = 2
    MaxReceipt = 2
    MaxAttempts = 2
    MaxCrash = 1
    Liberty = {}
SPECIFICATION Spec
CONSTRAINT ResubmissionBound
INVARIANTS
    BatchCarriesReceipt
    DependenciesKept
    IntegratingInRunningBatch
    OneLiveBatchPerTask
    OneOutstandingBatch
PROPERTIES
    DependenciesMergeFirst
    ChargedForBatchmate
\* Bounded counters: every command may be used up.
CHECK_DEADLOCK FALSE
