\* Every command and every move of the ref and the directory.
CONSTANTS
    Launches <- MCLaunches
    Commands <- AllCommands
    Moves <- AllMoves
    MaxMoves = 2
    MaxFaults = 2
SPECIFICATION FairSpec
INVARIANTS
    QuietWhileLocked
    CommandsKeepTheirTree
    VerdictIsHonest
    RefIsExplained
    WorktreeIsBound
    SidecarsFollow
PROPERTIES
    ForeignIsKept
    PendingSettles
    ArchiveSettles
\* A retired submission is final.
CHECK_DEADLOCK FALSE
