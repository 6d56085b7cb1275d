SPECIFICATION Spec
CONSTANTS
    Ordered = FALSE
    MaxLost = 1
    MaxDuplicated = 1
    MaxSent <- MCClientMoves
    MaxAsked = 0
    Loser = "none"
    Promised <- MCInput
INVARIANTS
    InputInOrder
CHECK_DEADLOCK FALSE
