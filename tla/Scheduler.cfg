\* Every input of three tasks.
CONSTANTS
    N = 3
    Sizes = {1, 2}
    MaxCommits = 3
    Limits = {1, 2, 3}
SPECIFICATION Spec
INVARIANTS
    DependenciesFirst
    ReasonsHold
\* The schedule is finished.
CHECK_DEADLOCK FALSE
