SPECIFICATION Spec
CONSTANTS
    w1 = w1
    service = service
    Workers = {w1}
    Pollers = {service}
    MaxCand = 2
    NTrials = 2
    MaxVerbs = 1
    MaxCancels = 1
PROPERTY
    CancelIsNeverLost
