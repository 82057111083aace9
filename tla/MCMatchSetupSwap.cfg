SPECIFICATION Spec
CONSTANTS
    NPoints = 4
    NHome = 2
    NChequers = 2
    NFaces = 3
    CrashN = 1
    Databases = {}
    InitialBoard <- MCInitialBoard
    MaxScore = 3
    MaxCube = 4
    Pastes <- MCPastes
    XGs <- MCXGs
    Edits <- MCEdits
    Again <- MCAgain
INVARIANT HumanIsPlayerZero
CHECK_DEADLOCK FALSE
