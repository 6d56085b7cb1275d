SPECIFICATION FairSpec
CONSTANTS
    Ordered = TRUE
    MaxLost = 0
    MaxDuplicated = 0
    MaxSent <- MCShortMatch
    MaxAsked = 0
    Loser = "server"
    Promised <- MCAllTypes
PROPERTIES
    SetupEnds
    SentIsProcessed
CHECK_DEADLOCK FALSE
