SPECIFICATION FairSpec
CONSTANTS
    MaxWorks = 2
    MaxRolls = 3
INVARIANTS
    AcceptedIsFresh
PROPERTIES
    WatchersEnd
CHECK_DEADLOCK FALSE
