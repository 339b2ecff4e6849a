SPECIFICATION FairSpec
CONSTANTS
    MaxCalls = 3
    MaxLinks = 3
    MaxBreaks = 2
    ClientVersion = 2
    ServerVersions = {1, 2}
    HeaderSize = 2
    PayloadSize = 2
    ResultSize = 2
    SocketBuffer = 2
    Backlog = 1
    Results <- MCResults
    NoResult = NoResult
    NoLink = NoLink
    Garbage = Garbage
INVARIANTS
    InSync
    OnlyWhole
PROPERTIES
    KeepsExchange
    CallReturns
CHECK_DEADLOCK FALSE
