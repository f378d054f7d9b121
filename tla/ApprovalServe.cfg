\* The polls of serve --publish against a forge that moves and a process that stops.
CONSTANTS
    Configs <- MCStrictOnly
    First <- MCStrict
    Commands <- MCServeCommands
    Moves <- MCServeMoves
    MaxRev = 1
    MaxTip = 2
    MaxMoves = 2
    MaxFaults = 1
SPECIFICATION FairSpec
PROPERTIES
    ChangeRequestSettles
    StaleIsReplaced
    CloseIsNoticed
\* A batch may be final.
CHECK_DEADLOCK FALSE
