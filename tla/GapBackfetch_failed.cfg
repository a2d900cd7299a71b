SPECIFICATION Spec
CONSTANTS
    u1 = u1
    Units = {u1}
    MaxMessages = 3
    Stamp <- DistinctStamps
    PageSize = 2
    Concurrency = 1
    Events = {"crash", "read_error"}
INVARIANTS
    NoBuriedGap
CHECK_DEADLOCK FALSE
