SPECIFICATION Spec
CONSTANTS
    MaxStarts = 1
    MaxRestarts = 1
    Budgets <- TwoTurns
    MaxQueue = 1
INVARIANT EveryMatchIsCollected
CHECK_DEADLOCK FALSE
