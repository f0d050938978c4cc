CONSTANTS
    older = older
    newer = newer
    Process = {older, newer}
    Bucket = {b1}
    MaxRatings = 1
    MaxVersion = 3
    Migration = {1, 2}
    u1 = u1
    u2 = u2
    a = a
    b = b
    Url = {u1, u2}
    NoUrl = NoUrl
    Label = {a, b}
    Environment <- MCEnvironment
    Own <- MCOwn
    NoOne = NoOne
    MaxBoots = 3
    MaxFaults = 2
SPECIFICATION FairSpec
INVARIANTS TypeOK SeededOnce LoadsWhole
PROPERTIES FatalOnlyByFault BootEnds
CHECK_DEADLOCK FALSE
