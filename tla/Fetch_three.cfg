CONSTANTS
    daily = daily
    buscar = buscar
    contact = contact
    Client = {daily, buscar, contact}
    Urgent = {contact}
    Attempts <- BulkAttempts
    MinGap = 2
    Hold = 5
    MaxCancels = 1
SPECIFICATION FairSpec
INVARIANTS TypeOK SlotsInUse
PROPERTIES StartsSpaced FetchEnds
