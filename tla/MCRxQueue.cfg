CONSTANTS
    Jobs = {1, 2, 3, 4, 5}
    GPUs = {0, 1}
    Cpus = 4
    Whole = 2
    Req <- MixedReq
    Prio <- MixedPrio
SPECIFICATION Spec
INVARIANTS WithinCapacity NeverWedged
PROPERTIES HeadKeepsItsFit HigherKeepsItsPlace TopPriorityServed
