SPECIFICATION Spec
CONSTANTS
    NumParticipants = 2
    MaxActions = 2
    ChatterKinds <- AllChatter
    MaxChatter = 1
    MaxSteps = 3
    MaxStepsPerLoop = 3
    MaxMessages = 1
    MaxFailed = 2
    MaxConsecutive = 1
    DurationLimited = TRUE
    WaitLimited = TRUE
    Condition = "AnyOfParticipantsFinished"
    Listed = {0}
    Decisions <- WorkDecisions
    Faults <- AllFaults
INVARIANTS
    ReportedOnce
    LimitsHold
    EndsOnCondition
