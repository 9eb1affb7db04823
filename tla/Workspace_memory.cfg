SPECIFICATION WorkspaceSpec
CONSTANTS
    Runs = {1, 2}
    MaxCalls = 1
    MaxCrashes = 0
    MaxFaults = 0
    NumParticipants = 1
    ChannelSize = 6
    MaxResets = 0
INVARIANTS
    VariablesPersist
CHECK_DEADLOCK FALSE
