\* Four mixes of commands: the trail, the metrics, the migration, the keys.
CONSTANTS
    p1 = p1
    p2 = p2
    t1 = t1
    t2 = t2
    k1 = k1
    k2 = k2
    f1 = f1
    f2 = f2
    sidecar = sidecar
    Processes <- MCProcesses
    Tasks <- MCTasks
    Keys <- MCKeys
    Files <- MCFiles
    Locked <- MCLocked
    NoKey = NoKey
    Mixes <- MCMixes
    RotateAt = 2
    MaxSequence = 4
    MaxStops = 2
SYMMETRY Symmetry
SPECIFICATION Spec
INVARIANTS
    SequencesAreUnique
    AuditIsKept
    ReaderMissesNothing
    HousekeepingIsSafe
\* Bounded counters: every command may be used up.
CHECK_DEADLOCK FALSE
