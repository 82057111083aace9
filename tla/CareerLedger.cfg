SPECIFICATION Spec
CONSTANTS
    MaxMatches = 4
    MaxCrashes = 1
    MaxReinstalls = 1
INVARIANTS
    ChainLinks
    EntriesAreFiled
    CleanRecordIsIntact
CHECK_DEADLOCK FALSE
