CONSTANTS
    User = {ana, beto}
    Listing = {l1}
    MaxAttempts = 2
    MaxTaps = 3
    MaxFaults = 1
SPECIFICATION Spec
INVARIANTS TypeOK RatedTogether ToldTruthful LikeGetsContact
PROPERTIES FirstTapWins
SYMMETRY Symmetry
CHECK_DEADLOCK FALSE
