SPECIFICATION FairSpec
CONSTANTS
    p1 = p1
    p2 = p2
    c1 = c1
    c2 = c2
    c3 = c3
    Project = {p1, p2}
    Card = {c1, c2}
    Home <- TwoProjects
    Job = {j1, j2}
    NoJob = NoJob
    NoProject = NoProject
    Columns = {"assigned"}
    SourceSets = {{"assigned"}}
    MaxOrder = 2
    MaxResumed = 0
PROPERTY IdleWorkIsPickedUp
