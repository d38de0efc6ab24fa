\* One reconnection anywhere, so that envelopes are delivered twice.
SPECIFICATION Spec
CONSTANTS
    Total = 2
    Junk = {}
    DecryptsFail = FALSE
    HandlersFail = FALSE
    MaxTimeouts = 0
    WritesFail = FALSE
    MayPause = FALSE
    MaxAttempts = 2
    MaxCrashes = 0
    MaxReconnects = 1
    MaxRetries = 0
\* Once everything is settled the receiver stops.
CHECK_DEADLOCK FALSE
INVARIANTS
    AckedIsDurable
    ArrivalOrder
PROPERTIES
    EmptyMeansDrained
