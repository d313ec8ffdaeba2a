SPECIFICATION Spec
CONSTANTS
    p1 = p1
    p2 = p2
    c1 = c1
    c2 = c2
    c3 = c3
    Project = {p1}
    Card = {c1, c2, c3}
    Home <- OneProject
    Job = {j1, j2}
    NoJob = NoJob
    NoProject = NoProject
    Columns = {"backlog"}
    SourceSets = {{"backlog"}}
    MaxOrder = 3
    MaxResumed = 1
SYMMETRY Symmetry
INVARIANT RunningCardIsLive OpenJobsArePlayed
PROPERTY  ResultsAreShown
