\* Two reconnections load the same row twice.
SPECIFICATION Spec
CONSTANTS
    Total = 1
    Junk = {}
    DecryptsFail = TRUE
    HandlersFail = FALSE
    MaxTimeouts = 0
    WritesFail = FALSE
    MayPause = FALSE
    MaxAttempts = 2
    MaxCrashes = 0
    MaxReconnects = 2
    MaxRetries = 0
\* Once everything is settled the receiver stops.
CHECK_DEADLOCK FALSE
INVARIANTS
    AckedIsDurable
