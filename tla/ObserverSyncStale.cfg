SPECIFICATION Spec
CONSTANTS
    Svc = {s1, s2}
    Port = {p1, p2}
    NoMetrics = NoMetrics
    Absent = Absent
    MaxChanges = 3
    MaxCrashes = 0
SYMMETRY Symmetry
INVARIANTS
    QuietMeansSynced
CHECK_DEADLOCK FALSE
