SPECIFICATION Spec
CONSTANTS
    NumParticipants = 2
    MaxActions = 2
    ChatterKinds = {}
    MaxChatter = 0
    MaxSteps = 5
    MaxStepsPerLoop = 3
    MaxMessages = 2
    MaxFailed <- Unlimited
    MaxConsecutive <- Unlimited
    DurationLimited = FALSE
    WaitLimited = FALSE
    Condition = "AllParticipantsFinished"
    Listed = {}
    Decisions <- AllDecisions
    Faults = {}
INVARIANTS
    IInv
    BlockedIsAnswerable
    NoLostWakeup
    DeadlockIsReal
PROPERTIES
    NoItemDropped
    ReleasedByOwnAnswer
