SPECIFICATION Spec
CONSTANTS
    Node = {n1}
    Svc = {k1}
    ServiceSpec = {s1}
    Call = {c1, c2}
    Lease = {l1, l2}
    MaxAttempts = 2
    RenewMayFail = TRUE
    NoRequest = NoRequest
    NoLease = NoLease
    NoEntry = NoEntry
    Absent = Absent
SYMMETRY Symmetry
INVARIANTS
    ServicesOnRecordedLease
