\* Everything that may happen to jobs, but for a crash.
SPECIFICATION FairSpec
CONSTANTS
    j1 = j1
    j2 = j2
    Jobs = {j1, j2}
    MaxConcurrentJobs = 1
    MaxAttempts = 2
    Updates = TRUE
    Forces = TRUE
    Batches = TRUE
    ReAdds = TRUE
    Cancels = TRUE
    Holds = FALSE
    Idles = FALSE
    MaxAdds = 2
    MaxStops = 1
    MaxStarts = 1
    MaxCrashes = 0
    MaxRateLimits = 1
PROPERTIES
    EveryJobEnds
