SPECIFICATION Spec
CONSTANTS
    Lengths = {0, 3}
    Men = 2
    MaxCube = 4
    NBeavers = 1
    AutoDoubles = 1
    MaxRecords <- MCMaxRecords
    MaxTurns = 3
INVARIANTS
    TypeOK
    BoardIsOriented
    ReplayAgrees
    CubeProtocol
    CrawfordRule
    HumanOwesNext
    GnubgMovesInTurn
    DrainEnds
PROPERTIES
    ImplementsMatchScore
CHECK_DEADLOCK FALSE
VIEW Live
