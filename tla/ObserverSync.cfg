SPECIFICATION FairSpec
CONSTANTS
    Svc = {s1, s2}
    Port = {p1, p2}
    NoMetrics = NoMetrics
    Absent = Absent
    MaxChanges = 3
    MaxCrashes = 1
INVARIANTS
    TypeOK
    SyncedUnlessRaced
PROPERTIES
    QuietForGood
CHECK_DEADLOCK FALSE
