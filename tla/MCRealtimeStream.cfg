SPECIFICATION StreamSpec
CONSTANTS
    Client <- MCClient
    Interest <- MCInterest
    Message <- MCMessage
    c1 = c1
    jobs = jobs
    scrum = scrum
    card = card
    x = x
    y = y
    NoKey = NoKey
    Capacity = 2
    Buffer = 1
    MaxMessage = 5
INVARIANTS
    NoGapNoLoss
    NothingIsSkipped
    StreamStaysInOrder
    DuplicatesAreReplayable
CHECK_DEADLOCK FALSE
