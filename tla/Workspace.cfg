SPECIFICATION WorkspaceFairSpec
CONSTANTS
    Runs = {1, 2}
    MaxCalls = 1
    MaxCrashes = 1
    MaxFaults = 0
    NumParticipants = 1
    ChannelSize = 6
    MaxResets = 1
INVARIANTS
    WorkspaceTypeOK
    StateIsOwn
PROPERTIES
    KeepsPromise
    AcceptedIsAnswered
CHECK_DEADLOCK FALSE
