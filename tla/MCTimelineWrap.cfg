CONSTANTS
    Client = {o1, o2}
    Lane = {l1, l2}
    Nobody = Nobody
    Thread = {t1, t2}
    NoThread = NoThread
    NoLane = NoLane
    WRAP_WATERMARK = 2
    RING_MAX_INFLIGHT = 1
    MaxJobs = 4
    MaxCalls = 3
SPECIFICATION Spec
SYMMETRY Symm
CHECK_DEADLOCK FALSE
INVARIANT WaitsReachable
