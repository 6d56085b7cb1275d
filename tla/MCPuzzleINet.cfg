SPECIFICATION Spec
CONSTANTS
    Ordered = TRUE
    MaxLost = 0
    MaxDuplicated = 0
    MaxSent <- MCMatch
    MaxAsked = 1
    Loser = "none"
    Promised <- MCAllTypes
INVARIANTS
    TypeOK
    AllInOrder
    BlocksBeforeGame
    NothingThrown
    UnreadIsAnnounced
PROPERTIES
    ImplementsDelivery
CHECK_DEADLOCK FALSE
