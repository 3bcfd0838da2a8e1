SPECIFICATION FairSpec
CONSTANTS
    r1 = r1
    r2 = r2
    r3 = r3
    Registry <- MCRegistry
    JoinUrl <- MCJoinUrl
    None = None
    Torn = Torn
    MaxTokens = 2
    MaxFaults = 3
    MaxGone = 1
INVARIANTS
    TypeOK
    OneCluster
    SameAuthority
    IInv
PROPERTIES
    TokenKept
    AllJoin
CHECK_DEADLOCK FALSE
