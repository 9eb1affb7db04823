SPECIFICATION UiSpec
CONSTANTS
    s1 = s1
    s2 = s2
    Shells = {s1, s2}
    Buttons <- TodoButtons
    ActionOf <- TodoActions
    ResultOf <- TodoResults
    ChannelSize = 2
    MaxPosts = 3
    MaxReads = 1
INVARIANTS
    UiTypeOK
    SettledBetweenRuns
    ClickActsOnce
    StreamsAreCurrent
CHECK_DEADLOCK FALSE
SYMMETRY Symmetry
