CONSTANTS
    t1 = t1
    t2 = t2
    k1 = k1
    k2 = k2
    Thread = {t1, t2}
    Key = {k1, k2}
    Slot = {s1, s2, s3, s4}
    NoSlot = NoSlot
    Plans <- Opposite
    Modes <- FirstEphemeral
    Cap = 1
    Client = {c1, c2, c3}
    Nobody = Nobody
    Capacity = 2
    MAX_EXPIRIES = 2
    MaxCalls = 2
SPECIFICATION DispatchSpec
INVARIANTS
    FifoMatchesMap
    NoSecondBuild
    FailedBatchPublishes
    LeasedLanesReady
    NoSleeperAfterPoison
PROPERTIES
    PreparesEnd
    ImplementsLeases
    AcquiresReturn
