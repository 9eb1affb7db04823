SPECIFICATION FairLoopSpec
CONSTANTS
    NumParticipants = 3
    MaxActions = 1
    ChatterKinds <- Notices
    MaxChatter = 1
    MaxSteps = 5
    MaxStepsPerLoop = 3
    MaxMessages = 3
    MaxFailed <- Unlimited
    MaxConsecutive <- Unlimited
    DurationLimited = FALSE
    WaitLimited = TRUE
    Condition = "AnyOfParticipantsCompletedLoop"
    Listed = {2}
    Decisions <- LiveDecisions
    Faults = {}
PROPERTIES
    RunEnds
    RoundRobin
