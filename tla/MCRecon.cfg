SPECIFICATION Spec
CONSTANTS
    BufferSize = 3
    MaxRuns = 2
    MayBeLate = TRUE
    Argvs <- MCArgvs
    Alnum <- MCAlnum
    Symbols <- MCSymbols
    DomainFiles <- MCDomainFiles
    CommandFiles <- MCCommandFiles
    Typed <- MCTyped
    Found <- MCFound
INVARIANTS
    LinesConserved
    SuccessMeansScanned
    OwnCommandsRun
CHECK_DEADLOCK FALSE
