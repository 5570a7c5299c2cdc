CONSTANTS
    ArenaLane = {a1}
    ARENA_BYTES = 12
    ALIGN = 2
    MAX_INFLIGHT = 1
    Requests <- Sizes
    MaxDispatches = 7
    Copy = Copy
    NoPlan = NoPlan
    NoStorage = NoStorage
    p1 = p1
    p2 = p2
    s1 = s1
    s2 = s2
    SyncThread = {u1, u2}
    Thread = {t1, t2}
    Storage = {s1, s2}
    Plan = {p1, p2}
    Ops <- TwoPlans
    TracksLanes = TRUE
    MaxPooled = 1
    MaxSyncCalls = 3
    SegmentSizes = {1, 2, 3}
    Initial = 1
    MaxKernels = 4
    MIN_BLOCK = 2
    L2_BITS = 1
    HeapSize = 16
    HeapRequests = {1, 3, 5}
    Alignments = {1, 4}
    MaxAllocs = 6
    Client = {o1, o2}
    Lane = {l1, l2}
    Nobody = Nobody
    NoThread = NoThread
    NoLane = NoLane
    RING_MAX_INFLIGHT = 1
    WRAP_WATERMARK = 2
    MaxJobs = 3
    MaxCalls = 3
SPECIFICATION DevicesSpec
SYMMETRY Interchangeable
INVARIANTS
    SlotsDisjoint
    ReturnedFenced
    PlansOrdered
    ScratchSuffices
    GrantsDisjoint
    HeapCoalesced
    OwnerOrder
    SynchronizeCovers
    NoCallStuck
    TimelineDense
