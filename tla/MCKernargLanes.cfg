CONSTANTS
    ArenaLane = {l1, l2}
    ARENA_BYTES = 13
    ALIGN = 2
    MAX_INFLIGHT = 1
    Requests <- Sizes
    MaxDispatches = 5
SPECIFICATION ArenaSpec
INVARIANT
    SlotsDisjoint
