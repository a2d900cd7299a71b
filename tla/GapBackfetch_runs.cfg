SPECIFICATION RunsSpec
CONSTANTS
    u1 = u1
    Units = {u1}
    MaxMessages = 4
    Stamp <- DistinctStamps
    PageSize = 2
    Concurrency = 1
    Events = {"crash", "drain", "cap", "release", "erase"}
INVARIANTS
    TypeOK
    GapsStayOpen
    DeletionSticks
PROPERTIES
    HistoryKept
    StepsSound
    EverythingSettles
CHECK_DEADLOCK FALSE
