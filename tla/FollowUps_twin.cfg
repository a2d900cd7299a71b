SPECIFICATION Spec
CONSTANTS
    Replies = {r1}
    Mentions = {m1}
    Bare = {}
    Media = {m1}
    MaxResumes = 1
    MaxCorrections = 1
INVARIANTS
    StillAnswered
CHECK_DEADLOCK FALSE
