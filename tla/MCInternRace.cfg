CONSTANTS
    Builder = {b1, b2, b3}
    UNode = {1, 2, 3, 4}
    Arity <- ChainOps
    MaxNews = 1
    MaxDepth = 2
SPECIFICATION InternSpec
INVARIANT OneNodePerStructure
CHECK_DEADLOCK FALSE
