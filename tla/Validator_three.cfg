CONSTANTS
    Search = {s1, s2, s3}
    MaxAttempts = 2
    BatchSize = 2
    MaxFaults = 1
SPECIFICATION FairSpec
INVARIANTS TypeOK InvalidOnlyAfterAttempts OneVerdict
PROPERTIES Decided
CHECK_DEADLOCK FALSE
