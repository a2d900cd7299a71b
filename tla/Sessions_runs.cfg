SPECIFICATION RunsSpec
CONSTANTS
    t1 = t1
    t2 = t2
    t3 = t3
    t4 = t4
    message = message
    None = None
    m1 = m1
    NoBuffer = NoBuffer
    c1 = c1
    c2 = c2
    withdrawal = withdrawal
    Triggers <- FourTriggers
    ReplyTo <- FourReplies
    SentAt <- SameTime
    Media <- Image
    Limit = 1
    MaxQueued = 1
    Window = 1
    Resumable = TRUE
    Revivable = TRUE
    Proactive = {}
    Events = {}
INVARIANTS
    TypesOK
    SlotAccounting
    QueueMoves
    ClaimsOwned
    ParkedHaveOwner
    ActivationSafe
    CorrectionsKept
    MembersTried
PROPERTIES
    NoTwinEver
    OneRunPerSession
    NoStepBack
    EverythingSettles
CHECK_DEADLOCK FALSE
