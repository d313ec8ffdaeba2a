SPECIFICATION Spec
CONSTANTS
    Task <- MCTask
    Contract <- MCContract
    t1 = t1
    k1 = k1
    NoContract = NoContract
    MaxRevision = 5
    MaxStep = 5
    MaxAttempt = 1
    MaxGeneration = 2
INVARIANTS
    ActiveAttemptIsHeld
    
    CanceledJobIsQuiet
PROPERTIES
    HistoryIsImmutable
CHECK_DEADLOCK FALSE
