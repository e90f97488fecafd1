SPECIFICATION FairSpec
CONSTANTS
    Null = Null
    MaxAttempts = 3
    MaxWork = 2
    PushTries = 4
    CommentTries = 3
    RestoreMayFail = TRUE
INVARIANTS
    
    ConcludedIsDurable
PROPERTIES
    PublishedWorkStays
    AttemptsEnd
\* nobody has to re-run the job
CHECK_DEADLOCK FALSE
