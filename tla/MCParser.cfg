SPECIFICATION Spec
CONSTANTS
    Chars <- MCChars
    MaxFd <- MCMaxFd
    MaxLine = 5
    MaxTokens = 7
INVARIANTS
    RefusedLines
    TokensAreTheLine
    TreeIsReference
CHECK_DEADLOCK FALSE
