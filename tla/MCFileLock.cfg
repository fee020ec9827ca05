SPECIFICATION LockSpec
CONSTANTS
    Procs = {p1, p2, p3}
    NoOne = NoOne
    Tries = 3
INVARIANTS
    ExclusiveUntilTheft
    NoLockLeftBehind
PROPERTIES
    JudgedRightly
    LastOneLocks
CHECK_DEADLOCK FALSE
