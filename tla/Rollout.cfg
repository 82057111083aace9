SPECIFICATION FairSpec
CONSTANTS
    w1 = w1
    w2 = w2
    service = service
    Workers = {w1, w2}
    Pollers = {service}
    MaxCand = 2
    NTrials = 2
    MaxVerbs = 1
    MaxCancels = 1
INVARIANTS
    NoUseAfterReturn
    ResultsAreLabelled
    LiveLabelNeverOverstates
PROPERTIES
    LaterCandidatesNeverStart
    VerbReturns
