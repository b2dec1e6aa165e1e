SPECIFICATION FairSpec
CONSTANTS
    MaxNodes = 12
    PipeSize = 1
    MaxFaults = 1
    Trees <- MCTrees
INVARIANTS
    NoStrayEnds
    RightAfterLeft
    ResultIsRight
    NoChildLeftBehind
PROPERTIES
    NoEarlyEof
    EverythingEnds
