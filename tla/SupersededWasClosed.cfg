\* The publishing process stops between the opening of the pull request and its record.
CONSTANTS
    Configs <- MCConfigs
    First <- MCStrict
    Commands <- AllCommands
    Moves <- MCServeMoves
    MaxRev = 2
    MaxTip = 2
    MaxMoves = 2
    MaxFaults = 1
SPECIFICATION Spec
INVARIANTS
    SupersededWasClosed
\* A batch may be final.
CHECK_DEADLOCK FALSE
