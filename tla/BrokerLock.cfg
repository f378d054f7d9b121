\* Any process may be killed or exit; one of them runs `lock release`.
CONSTANTS
    p1 = p1
    p2 = p2
    p3 = p3
    p4 = p4
    Proc <- MCProc
    None = None
    Unlocker = {p4}
SPECIFICATION FairSpec
INVARIANTS
    LockSurvives
PROPERTIES
    ReclaimersYield
    FenceCatches
    DeadOwnerReclaimed
\* Every call ends.
CHECK_DEADLOCK FALSE
