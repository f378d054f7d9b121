------------------------------ MODULE MCStorage ------------------------------
(* An instance of Storage for TLC.                                          *)
EXTENDS Storage

CONSTANTS p1, p2, t1, t2, k1, k2, f1, f2, sidecar

MCProcesses == {p1, p2}
MCTasks == {t1, t2}
MCKeys == {k1, k2}
MCLocked == {f1, f2}
MCFiles == MCLocked \cup {sidecar}
MCMixes == {{"tasks", "compact", "trail"}, {"tasks", "metrics"}, {"formats"}, {"keys"}}

Symmetry ==
    Permutations(MCProcesses) \cup Permutations(MCTasks) \cup Permutations(MCKeys)
        \cup Permutations(MCLocked)
=============================================================================
