SPECIFICATION FairSpec
CONSTANTS
    c1 = c1
    c2 = c2
    Ctr <- MCCtr
    Trusted <- MCTrusted
    Labels <- MCLabels
    Stoppable = {}
    Absent = Absent
    None = None
    MaxStarts = 1
    MaxFails = 1
    MaxExits = 1
INVARIANTS
    TypeOK
    SettledRight
PROPERTIES
    SettlesForGood
    UntrustedStopped
CHECK_DEADLOCK FALSE
