\* One crash and two timed-out decryptions; the retry timer is fair.
SPECIFICATION FairSpec
CONSTANTS
    Total = 2
    Junk = {1}
    DecryptsFail = FALSE
    HandlersFail = FALSE
    MaxTimeouts = 2
    WritesFail = FALSE
    MayPause = FALSE
    MaxAttempts = 1
    MaxCrashes = 1
    MaxReconnects = 0
    MaxRetries = 4
\* Once everything is settled the receiver stops.
CHECK_DEADLOCK FALSE
PROPERTIES
    EverythingSettles
