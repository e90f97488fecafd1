SPECIFICATION Spec
CONSTANTS
    Null = Null
    MaxAttempts = 2
    MaxWork = 2
    PushTries = 4
    CommentTries = 3
    RestoreMayFail = TRUE
INVARIANTS
    NothingLeftIsNothing
\* nobody has to re-run the job
CHECK_DEADLOCK FALSE
