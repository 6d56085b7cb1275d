SPECIFICATION FairSpec
CONSTANTS
    MaxTurns = 2
INVARIANTS
    BlocksAgree
    InOrderBySource
PROPERTIES
    PendingEnds
CHECK_DEADLOCK FALSE
