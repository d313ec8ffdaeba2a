SPECIFICATION Spec
CONSTANTS
    Task <- MCTask
    Contract <- MCContract
    Client <- MCClient
    MaxRevision = 6
    t1 = t1
    t2 = t2
    k1 = k1
    k2 = k2
    c1 = c1
    c2 = c2
    NoContract = NoContract
SYMMETRY Symmetry

INVARIANTS
    RevisionNamesContents
    ApprovedWasSigned
    AcceptedWasDelivered
    ExecutedPlanIsApproved
PROPERTIES
    FreezeApprovesWhatWasShown
    AcceptedWorkIsKept
CHECK_DEADLOCK FALSE
