SPECIFICATION Spec
CONSTANTS
    Agents <- MCAgents
    Datacenter <- MCDatacenter
    None = None
    Torn = Torn
    MaxIssued = 4
    MaxTime = 4
    MaxFaults = 2
INVARIANTS
    TypeOK
    NewestKept
    StartsAgain
PROPERTIES
    CredentialsLast
CHECK_DEADLOCK FALSE
