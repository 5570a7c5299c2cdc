CONSTANTS
    Builder = {t1}
    UNode = {1, 2, 3, 4, 5, 6}
    Arity <- PairOps
    MaxNews = 5
    MaxDepth = 3
SPECIFICATION InternSpec
CHECK_DEADLOCK FALSE
INVARIANT ShallowTeardown
