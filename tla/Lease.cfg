\* Two tasks, leases of two ticks, two tokens; the tasks are alike.
CONSTANTS
    t1 = t1
    t2 = t2
    Tasks <- MCTasks
    Scopes <- MCScopes
    Serialized <- MCSerialized
    Files <- MCFiles
    Ttl = 2
    MaxToken = 2
SYMMETRY Symmetry
SPECIFICATION Spec
INVARIANTS
    LeasesAreDisjoint
PROPERTIES
    SubmittedInScope
CHECK_DEADLOCK FALSE
