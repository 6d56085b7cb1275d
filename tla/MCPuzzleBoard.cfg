SPECIFICATION Spec
CONSTANTS
    Width = 4
    Height = 4
    Linking = 2
    Colors = {red, blue}
    Ojama = ojama
    Empty = empty
    Marked = marked
    MaxTurns = 3
    MaxOjama = 7
SYMMETRY Symmetry
INVARIANTS NothingPending MapsAgreeWhilePlaying ChainNotShort
CHECK_DEADLOCK FALSE
