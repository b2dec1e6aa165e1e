SPECIFICATION FairSpec
CONSTANTS
    Char <- MCChar
    NL = "nl"
    BufferSize = 2
    Fds = {1, 2}
    Failing = {2}
    Contents <- MCContents
    MaxChanges = 3
INVARIANTS TypeOK NewlineOnlyInLast Conservation
PROPERTIES PartialLineOnlyAtEof CallReturns
