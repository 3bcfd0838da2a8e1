SPECIFICATION Spec
CONSTANTS
    Node = {n1}
    Svc = {k1, k2}
    ServiceSpec = {s1, s2}
    Call = {c1, c2}
    Lease = {l1, l2, l3}
    MaxAttempts = 2
    RenewMayFail = FALSE
    NoRequest = NoRequest
    NoLease = NoLease
    NoEntry = NoEntry
    Absent = Absent
SYMMETRY Symmetry
INVARIANTS
    TypeOK
    ServicesOnRecordedLease
    IInv
PROPERTIES
    LeaseReplacedOnlyWhenDead
    ImplementsDirectory
