SPECIFICATION FairSpec
CONSTANTS
    m1 = m1
    Msgs <- MCMsgs
    WaitsForCallbacks = FALSE
    MaxSessions = 2
    MaxSent = 2
    MaxReports = 2
INVARIANTS
    TypeOK
    Announced
    StatusSeen
PROPERTIES
    ReceivedIsRead
    BreakIsSeen
CHECK_DEADLOCK FALSE
