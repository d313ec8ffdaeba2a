SPECIFICATION FairSpec
CONSTANTS
    MaxMessage = 2
    MaxGeneration = 2
    MaxEdited = 3
    MaxTask = 1
    MaxLoss = 1
CHECK_DEADLOCK FALSE
INVARIANTS
    ReviewOwesNothing
    CompletedJobHasNoAmendment
PROPERTIES
    
    BoundInputSurvives
    RedirectionEntersOnce
