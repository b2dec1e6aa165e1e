SPECIFICATION PoolSpec
CONSTANTS
    Rounds = 4
    NumCmds <- MCNumCmds
    Requested = 4
    Ends = {"ok", "bad", "killed"}
INVARIANT WithinRequested
