\* Three jobs, a crash, a pause and a shutdown.
SPECIFICATION Spec
CONSTANTS
    a = a
    b = b
    Jobs = {1, 2, 3}
    Keys = {a, b}
    KeyOf <- MCKeyOf
    Own = {2}
    Bad = {3}
    MaxAttempts = 2
    MaxCrashes = 1
    MaxPauses = 1
    MaxShutdowns = 1
INVARIANTS
    NothingForgotten
    OncePerInsert
    StartsInOrder
    QuietAfterShutdown
PROPERTIES
    RowKept
    EveryJobEnds
CHECK_DEADLOCK FALSE
