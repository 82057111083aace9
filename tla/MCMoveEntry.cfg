SPECIFICATION Spec
CONSTANTS
    NPoints = 4
    NHome = 2
    NChequers = 2
    NFaces = 3
    CrashN = 1
    Databases = {}
    LegalMoves <- get_legal_moves
    FindMove <- find_move
    GiveMove <- CommandMove
    Positions <- MCPositions
    Replies <- MCReplies
    MaxQueue <- MCMaxQueue
    MaxTurns = 2
INVARIANTS TypeOK UndoLeadsHome PreviewCanBeDropped GeneratedAreTheRules TextIsThePlay GnubgTakesPlays EveryPlayCanBeEntered
CHECK_DEADLOCK FALSE
