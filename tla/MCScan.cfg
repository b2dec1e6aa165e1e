SPECIFICATION ScanSpec
CONSTANTS
    Rounds = 2
    NumCmds <- MCNumCmds
    Requested = 2
    Ends = {"ok", "bad"}
    Counted = 2
    Output <- MCOutput
INVARIANTS EarlierToolsDetached  CollectsInOrder QuietIsComplete
