SPECIFICATION FairSpec
CONSTANTS
    r1 = r1
    r2 = r2
    Runs = {r1, r2}
    MaxCalls = 1
    MaxCrashes = 1
    MaxFaults = 1
PROPERTIES
    AcceptedRunsEnd
    SubmittersAreAnswered
CHECK_DEADLOCK FALSE
