SPECIFICATION FairSpec
CONSTANTS
    Client <- MCClient
    Interest <- MCInterest
    Message <- MCMessage
    Announce <- MCAnnounce
    Session = c1
    c1 = c1
    jobs = jobs
    scrum = scrum
    x = x
    NoKey = NoKey
    Capacity = 1
    Buffer = 1
    MaxMessage = 1
    MaxChange = 2
    MaxUpdate = 2
    MaxRestart = 1
 
PROPERTY SessionCatchesUp
CHECK_DEADLOCK FALSE
