CONSTANTS
    User = {ana, beto}
    LastDay = 2
SPECIFICATION DailyFairSpec
INVARIANTS DailyTypeOK
PROPERTIES NothingLeftBehind DayResumed
