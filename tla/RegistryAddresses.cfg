SPECIFICATION FairSpec
CONSTANTS
    None = None
    peer = peer
    agent = agent
    first = first
    Env <- MCEnv
    Interfaces <- MCInterfaces
    Later <- MCLater
    Provided <- MCProvided
    MaxMoves = 1
    MaxFaults = 2
INVARIANTS
    TypeOK
    BestAddress
    PublishedLeadsHere
    SomeAddressKnown
PROPERTIES
    LearnsRegistries
CHECK_DEADLOCK FALSE
