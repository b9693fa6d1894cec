CONSTANTS
    Jobs = {1}
    Sups = {s1, s2}
    Sessions = {r1}
    GPUs = {0, 1}
    Whole = 2
    Cpus = 4
    Assigns <- MCAssigns
    Decision <- MCDecision
    Faults = {"crash"}
    KillOnClose = TRUE
    TimeLimited = {}
    Respawn = TRUE
    Free = Free
    NoJob = NoJob
SYMMETRY SupSymmetry
SPECIFICATION Spec
INVARIANTS NeverRerun
CHECK_DEADLOCK FALSE
