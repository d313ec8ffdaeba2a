SPECIFICATION Spec
CONSTANTS
    Task <- MCTask
    Contract <- MCContract
    t1 = t1
    k1 = k1
    NoContract = NoContract
    MaxRevision = 3
    MaxStep = 4
    MaxAttempt = 2
    MaxGeneration = 1
INVARIANTS
    ApprovedJobNeverStalls
    StatusAgreement
    
PROPERTIES
    ExclusiveSpec
CHECK_DEADLOCK FALSE
