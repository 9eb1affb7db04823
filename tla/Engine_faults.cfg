SPECIFICATION Spec
CONSTANTS
    r1 = r1
    r2 = r2
    Runs = {r1, r2}
    MaxCalls = 2
    MaxCrashes = 1
    MaxFaults = 1
INVARIANTS
    TypeOK
    OnceInFlight
    ResumedByOwnAction
    NoRunForgotten
    LogTellsTheTruth
    StatusIsCurrent
PROPERTIES
    ClaimedIsWanted
    EventsInOrder
    OverIsFinal
CHECK_DEADLOCK FALSE
