SPECIFICATION FairSpec
CONSTANTS
    Columns = 2
    Linking = 2
    MaxGroups = 1
    MaxChain = 1
    MaxFall = 1
    MaxRoom = 1
    MaxTurns = 2
PROPERTY TurnEnds
CHECK_DEADLOCK FALSE
