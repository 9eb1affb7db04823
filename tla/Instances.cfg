SPECIFICATION InstancesSpec
CONSTANTS
    Requests = {1, 2, 3, 4}
    Skills <- TwoSkills
    SkillOf <- NotesThenOdd
    Capabilities <- Declared
    Imports <- Imported
    Databases <- OneDatabase
    MaxFaults = 1
INVARIANTS
    InstancesTypeOK
    SpoiledOnce
    DiagnosticsAreOwn
PROPERTIES
    ServesQueue
CHECK_DEADLOCK FALSE
