SPECIFICATION ShellSpec
CONSTANTS
    MaxFd = 5
    MaxFaults = 1
    ToolStatuses = {0, 3}
    Uninitialized = {0, 7}
    Letters <- MCLetters
    Digits <- MCDigits
    Dirs <- MCDirs
    Installed <- MCInstalled
    Runnable <- MCRunnable
    Code <- MCCode
    Starts <- MCStarts
    InitialFiles <- MCFiles
INVARIANTS
    TableRestored
    CommandTable
    FailureDamage
    HereFilesAreTyped
    ArgsAreMeant
    OutputIsRight
PROPERTIES
    RedirectSpec
    AssignmentsTakeEffect
    OthersUntouched
