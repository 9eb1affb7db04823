SPECIFICATION Spec
CONSTANTS
    MaxTurns = 5
    MaxTold = 2
    Edits = {1, 2}
    MaxCutOffs = 2
    MaxCommands = 3
    Order <- EntryOrder
    NamespaceOf <- Namespaces
    MaxBroken = 1
    ServerEvents <- EventsOfServer
    Items <- ItemIds
    MaxEvents = 3
    AgentActions <- ActionsRequested
    CriteriaLists <- Specifications
    JudgeReplies <- RepliesOfJudge
    MaxRequested = 3
    MaxRounds = 2
INVARIANTS
    CallsAreAnswered
    InstallRepairs
    NamesResolveToOwner
    EchoReturns
    AnswerIsWhole
    VerdictIsSound
CHECK_DEADLOCK FALSE
