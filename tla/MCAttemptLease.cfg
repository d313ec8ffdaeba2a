SPECIFICATION FairSpec
CONSTANTS
    Worker <- MCWorker
    w1 = w1
    w2 = w2
    Nobody = Nobody
    Lease = 8
    RenewInterval = 2
    Margin = 2
    Slack = 1
    Delay = 9
INVARIANTS
    ExecutionIsLeased
PROPERTIES
    LostWorkRunsOut
    
