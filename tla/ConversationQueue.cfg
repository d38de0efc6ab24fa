\* One of two conversations gets jobs: two that are put aside, or one of them and
\* one that waits for a captcha.  Two captchas or periods offline.
SPECIFICATION Spec
CONSTANTS
    c1 = c1
    c2 = c2
    Convs = {c1, c2}
    Jobs = {1, 2, 3, 4}
    ConvOf <- MCConvOf
    Silent = {1, 2, 3}
    Offers <- MCOffers
    Stored = {}
    MaxAttempts = 2
    MaxEvents = 2
    MaxBusy = 1
    MaxChallenges = 2
INVARIANTS
    HeldJobsHaveATrigger
    EveryJobOnce
PROPERTIES
    RetriedInTime
    EveryJobEnds
