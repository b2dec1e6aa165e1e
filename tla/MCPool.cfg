SPECIFICATION FairPoolSpec
CONSTANTS
    Rounds = 4
    NumCmds <- MCNumCmds
    Requested = 2
    Ends = {"ok", "bad", "killed"}
INVARIANTS AllStarted FullPoolNeedsFailure
PROPERTY ScanEnds
