\* A directory is swapped in between the check of a removal and the removal.
CONSTANTS
    Launches <- MCLaunches
    Commands <- AllCommands
    Moves <- AllMoves
    MaxMoves = 2
    MaxFaults = 2
SPECIFICATION Spec
PROPERTY ForeignSpared
CHECK_DEADLOCK FALSE
