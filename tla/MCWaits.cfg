CONSTANTS
    Thread = {t1, t2, t3}
    Key = {k1}
    Slot = {s1, s2, s3}
    NoSlot = NoSlot
    Buf = {b1, b2, b3}
    NoBuf = NoBuf
    MaxCalls = 1
    Setter = {set1, set2}
    Waiter = {w1, w2}
    MaxValue = 2
    MaxSignalCalls = 1
    FinWaiter = {f1, f2}
    NoWaiter = NoWaiter
    Doorbells = 2
    MaxFinWaits = 2
    Helper = {h1, h2, h3}
    PoolSize = 2
    Candidates = 2
    MaxWaves = 2
    MaxTasks = 2
    MaxCrashes = 1
    MaxHangs = 1
    NoJob = 0
SPECIFICATION WaitsSpec
INVARIANTS
    OneTicketPerKey
    NoStrandedWaiter
    OneLiveStoragePerKey
    DecisionWakes
    WavesAccounted
PROPERTIES
    CallsReturn
    TimedWaitsAnswer
    VerdictsTrue
    FinWaitsEnd
    WavesEnd
