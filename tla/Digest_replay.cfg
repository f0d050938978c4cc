CONSTANTS
    u1 = u1
    s1 = s1
    s2 = s2
    User = {u1}
    Listing = {l1, l2}
    Search = {s1}
    Owner <- SoleOwner
    Proc = {daily}
    MaxPerRun = 0
    MaxFaults = 0
    NoUser = NoUser
    NoProc = NoProc
    NoListing = NoListing
SPECIFICATION Spec
PROPERTIES HistoryNotReplayed
CHECK_DEADLOCK FALSE
