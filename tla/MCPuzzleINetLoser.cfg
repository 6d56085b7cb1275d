SPECIFICATION Spec
CONSTANTS
    Ordered = TRUE
    MaxLost = 0
    MaxDuplicated = 0
    MaxSent <- MCNothing
    MaxAsked = 0
    Loser = "server"
    Promised <- MCInput
INVARIANTS
    OneLoser
CHECK_DEADLOCK FALSE
