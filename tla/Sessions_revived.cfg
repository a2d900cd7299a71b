SPECIFICATION Spec
CONSTANTS
    t1 = t1
    t2 = t2
    t3 = t3
    t4 = t4
    message = message
    None = None
    Triggers <- FourTriggers
    ReplyTo <- FourReplies
    SentAt <- SameTime
    Media <- Image
    Limit = 1
    MaxQueued = 1
    Window = 1
    Resumable = TRUE
    Revivable = TRUE
    Proactive = {}
    Events = {}
PROPERTIES
    NoTwinOfRevived
CHECK_DEADLOCK FALSE
