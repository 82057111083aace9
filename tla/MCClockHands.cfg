SPECIFICATION FairSpec
CONSTANTS
    MaxStarts = 2
    MaxRestarts = 1
    Budgets <- OneOfEach
    MaxQueue = 1
INVARIANTS EndOfMatchIsClaimed
PROPERTIES EndScreenHolds FlagIsActedUpon AcknowledgedGameBegins OnePollerRemains
CHECK_DEADLOCK FALSE
