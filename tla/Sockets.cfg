\* Two accounts, six calls.
SPECIFICATION Spec
CONSTANTS
    a1 = a1
    a2 = a2
    Accounts = {a1, a2}
    MaxCalls = 6
INVARIANTS
    StatusIsTrue
    NeverSilent
    QuietWithoutAccount
    TimerIsCurrent
PROPERTIES
    OpensInTheEnd
CHECK_DEADLOCK FALSE
