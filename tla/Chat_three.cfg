CONSTANTS
    URL = {x1, x2, x3}
    ShortURL = {x1}
    Name = {n1, n2, n3}
    Junk = {junk}
    MaxSearches = 2
    MaxAttempts = 3
    MaxFaults = 1
    None = None
SPECIFICATION Spec
INVARIANTS TypeOK CapHolds AnswersTrue
PROPERTIES RunsSpaced
SYMMETRY Symmetry
CHECK_DEADLOCK FALSE
