SPECIFICATION Spec
CONSTANTS
    BufferSize = 3
    MaxRuns = 1
    MayBeLate = FALSE
    Argvs <- MCArgvs
    Alnum = {"a", "b", "c"}
    Symbols = {"a", "b", "c", "t", "NL", "$scp", "$target", "none"}
    DomainFiles <- MCDomainFiles
    CommandFiles <- MCCommandFiles
    Typed = {}
    Found = {}
INVARIANT MonitoredAreScanned
CHECK_DEADLOCK FALSE
