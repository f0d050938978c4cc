CONSTANTS
    u1 = u1
    s1 = s1
    s2 = s2
    User = {u1}
    Listing = {l1, l2}
    Search = {s1, s2}
    Owner <- OneOwner
    Proc = {daily, buscar}
    MaxPerRun = 1
    MaxFaults = 1
    NoUser = NoUser
    NoProc = NoProc
    NoListing = NoListing
SPECIFICATION Spec
INVARIANTS CardsAccounted CandidatesStayFresh NoLeak
PROPERTIES StartNotReplayed KeepsPromise
CHECK_DEADLOCK FALSE
SYMMETRY Symmetry
