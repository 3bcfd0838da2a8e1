SPECIFICATION FairSpec
CONSTANTS
    None = None
    c1 = c1
    c2 = c2
    Container <- MCContainer
    Trust <- MCTrust
    Referrers <- MCReferrers
    Signatures <- MCSignatures
    MaxChanges = 2
    MaxFaults = 1
INVARIANTS
    TypeOK
    AcceptedSigned
    RejectedForAReason
PROPERTIES
    ChecksEnd
CHECK_DEADLOCK FALSE
