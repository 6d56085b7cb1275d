SPECIFICATION FairSpec
CONSTANTS
    Width = 4
    Height = 4
INVARIANTS TypeOK BoardUntouched PlayedAsPlanned ComputerThrowsNothing
PROPERTIES BlockComesDown
CHECK_DEADLOCK FALSE
