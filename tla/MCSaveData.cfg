SPECIFICATION Spec
CONSTANTS
    Location = {l1, l2}
    Bookmark = {b1, b2}
    System = system
    NoLocation = none
    Thumbnails = TRUE
    MaxSaves = 2
    MaxRuns = 3
    MaxFaults = 1
SYMMETRY MCSymmetry
INVARIANTS TypeOK NoSaveLost EntriesLoad MoveCanBeRetried NothingLeft
CHECK_DEADLOCK FALSE
