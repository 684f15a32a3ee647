\* After the last of the bounded swaps, crashes and calls nothing is left to do.
SPECIFICATION MCSpec
CONSTANTS
    N = 2
    Specs = {"a"}
    RoundRobin = TRUE
    MaxRequests = 5
    MaxTicks = 0
    Replicating = FALSE
    MaxCrashes = 0
INVARIANTS TrackingSound SurvivesMigration
 
CHECK_DEADLOCK FALSE
