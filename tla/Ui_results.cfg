SPECIFICATION UiSpec
CONSTANTS
    s1 = s1
    Shells = {s1}
    Buttons <- TodoButtons
    ActionOf <- TodoActions
    ResultOf <- TodoResults
    ChannelSize = 2
    MaxPosts = 4
    MaxReads = 0
INVARIANTS
    ResultsInPlace
CHECK_DEADLOCK FALSE
