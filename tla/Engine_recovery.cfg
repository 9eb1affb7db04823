SPECIFICATION Spec
CONSTANTS
    r1 = r1
    Runs = {r1}
    MaxCalls = 1
    MaxCrashes = 1
    MaxFaults = 0
INVARIANTS
    RecoverySucceeds
CHECK_DEADLOCK FALSE
