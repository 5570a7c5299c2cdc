CONSTANTS
    Thread = {t1, t2}
    Key = {k1, k2}
    Modes = {TRUE, FALSE}
    MaxCalls = 2
    Host = "host"
    CopyQueue = "copy"
    Access <- HcqAccess
    Lanes <- HcqLanes
    Plans <- HcqPlans
    Limits <- HcqLimits
    MaxPlanOps = 4
    Operations <- ReplayOperations
    MaxOps = 3
    MaxEpochs = 7
    ROLLOVER = 3
    MIN_BLOCK = 2
    L2_BITS = 1
    Programs <- MCPrograms
    NoTrip = 99
    PlanBuffer = {1, 2, 3, 4, 5, 6}
    Excluded = {6}
    SizeChoices <- MCSizes
    LaneOf <- MCLanes
    PlannerModes = {"arena", "remap", "disabled"}
    Builder = {b1, b2}
    UNode = {1, 2, 3, 4, 5, 6}
    Arity <- ChainOps
    MaxNews = 3
    MaxDepth = 2
    Realizer = {r1, r2}
    Tensor <- TensorNames
    FirstGraph <- Tensors
    Tasks <- SharedGraphs
    Inputs = {1}
    Identity = {1, 2, 3, 4}
    Storage = {1, 2, 3, 4, 5}
    Const = 0
    NoStore = 99
    NoStorage = 98
SPECIFICATION PlansSpec
INVARIANTS
    PublishedAgree
    PublishedBelong
    ProgramOrderData
    NoLaneStuck
    FreshReads
    RetiredMeansDone
    ArgumentsIntact
    PlanKeepsData
    BudgetSuffices
    OneNodePerStructure
    NothingLeaks
    IdentitiesAgree
