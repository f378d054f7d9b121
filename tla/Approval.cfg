\* Every command, the moves of the forge and the reviewers, and one stop.
CONSTANTS
    Configs <- MCConfigs
    First <- MCStrict
    Commands <- AllCommands
    Moves <- MCMoves
    MaxRev = 2
    MaxTip = 2
    MaxMoves = 2
    MaxFaults = 1
SPECIFICATION Spec
INVARIANTS
    ApprovalIsExact
    QueueIsRecorded
    MergedIsProven
    BranchIsKnown
    OnePullRequest
PROPERTIES
    QueuedOnlyIfPermitted
    Permitted
\* A batch may be final.
CHECK_DEADLOCK FALSE
