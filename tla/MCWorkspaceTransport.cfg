SPECIFICATION FairSpec
CONSTANTS
    w1 = w1
    w2 = w2
    x = x
    y = y
    Absent = Absent
    Nobody = Nobody
    Worker = {w1, w2}
    Content = {x}
    MaxPath = 2
    MaxConn = 1
    Plans <- MCPlans
INVARIANTS
    RequestsAreInOrder
    LeaseIsOwned
    WorkspaceIsAsReported
    EvidenceIsDelivered
    MutationIsFenced
PROPERTIES
    CallsReturn
