CONSTANTS
    Jobs = {1, 2}
    Sups = {s1, s2}
    Sessions = {r1}
    GPUs = {0, 1}
    Whole = 2
    Cpus = 4
    Assigns <- MCAssigns
    Decision <- MCDecision
    Faults = {"crash", "reboot"}
    KillOnClose = TRUE
    TimeLimited = {2}
    Respawn = FALSE
    Free = Free
    NoJob = NoJob
SPECIFICATION FairSpec
INVARIANTS TypeOK UseDisjoint RunsWithinReservation CancelledIsStopped
PROPERTIES LifecycleHolds EveryJobResolves CancelResolves
CHECK_DEADLOCK FALSE
