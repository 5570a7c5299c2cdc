CONSTANTS
    Copy = Copy
    NoPlan = NoPlan
    NoStorage = NoStorage
    p1 = p1
    p2 = p2
    s1 = s1
    s2 = s2
    SyncThread = {t1, t2}
    Storage = {s1, s2}
    Plan = {p1, p2}
    Ops <- TwoPlans
    TracksLanes = TRUE
    MaxPooled = 1
    MaxSyncCalls = 3
SPECIFICATION SyncSpec
CHECK_DEADLOCK FALSE
INVARIANT HostAccessFenced
