SPECIFICATION FairSpec
CONSTANTS
    Columns = 2
    Linking = 2
    MaxGroups = 2
    MaxChain = 2
    MaxFall = 2
    MaxRoom = 2
    MaxTurns = 1
INVARIANTS TypeOK OneActivity LockEnds CounterPostedOnce
PROPERTIES NoDropUnderAttack TurnEndsUnlessMuted
CHECK_DEADLOCK FALSE
