CONSTANTS
    Instance = {pi, laptop}
    LastUpdate = 2
    MaxAttempts = 2
    Lease = 2
    MaxFaults = 1
    NoOne = NoOne
SPECIFICATION FairSpec
INVARIANTS TypeOK NoneSkipped OncePerLease
PROPERTIES KeepsFeed UpdatesConsumed
CHECK_DEADLOCK FALSE
