\* One crash anywhere; decryptions, handlers and commits may fail.
SPECIFICATION Spec
CONSTANTS
    Total = 2
    Junk = {1}
    DecryptsFail = TRUE
    HandlersFail = TRUE
    MaxTimeouts = 0
    WritesFail = TRUE
    MayPause = TRUE
    MaxAttempts = 2
    MaxCrashes = 1
    MaxReconnects = 0
    MaxRetries = 0
\* Once everything is settled the receiver stops.
CHECK_DEADLOCK FALSE
INVARIANTS
    TypeOK
    DecryptedIsKept
PROPERTIES
    ImplementsInbox
