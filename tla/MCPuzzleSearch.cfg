SPECIFICATION Spec
CONSTANTS
    PoolSize = 4
    Depth = 2
    Outcomes <- MCOutcomes
    MaxPools = 4
INVARIANTS NothingLeaks StackIsLive BestLineKept BlocksInOrder
