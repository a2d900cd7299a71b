SPECIFICATION Spec
CONSTANTS
    t1 = t1
    t2 = t2
    t3 = t3
    t4 = t4
    message = message
    None = None
    Triggers <- FourTriggers
    ReplyTo <- ResumeReplies
    SentAt <- SameTime
    Media = {}
    Limit = 1
    MaxQueued = 2
    Window = 1
    Resumable = TRUE
    Revivable = FALSE
    Proactive = {}
    Events = {"launch_throws"}
INVARIANTS
    NoClaimLeaks
CHECK_DEADLOCK FALSE
