\* Three jobs for two slots, a crash, a stop and a start while runs go on.
SPECIFICATION Spec
CONSTANTS
    j1 = j1
    j2 = j2
    j3 = j3
    Jobs = {j1, j2, j3}
    MaxConcurrentJobs = 2
    MaxAttempts = 2
    Updates = TRUE
    Forces = FALSE
    Batches = FALSE
    ReAdds = FALSE
    Cancels = FALSE
    Holds = TRUE
    Idles = TRUE
    MaxAdds = 3
    MaxStops = 1
    MaxStarts = 0
    MaxCrashes = 1
    MaxRateLimits = 0
SYMMETRY JobSymmetry
INVARIANTS
    TypeOK
    NotTooMany
    ActiveRowIsRunning
    WantedIsKept
PROPERTIES
    GivenUpAfterAllAttempts
    FinishedStaysFinished
