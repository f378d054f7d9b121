\* Commands that exit after their release, without any unlock.
CONSTANTS
    p1 = p1
    p2 = p2
    p3 = p3
    p4 = p4
    Proc <- MCProc
    None = None
    Unlocker = {}
SYMMETRY MCSymmetry
SPECIFICATION Spec
PROPERTIES
    NoLostUpdate
\* Every call ends.
CHECK_DEADLOCK FALSE
