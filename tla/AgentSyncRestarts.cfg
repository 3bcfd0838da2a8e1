SPECIFICATION Spec
CONSTANTS
    c1 = c1
    c2 = c2
    Ctr <- MCTrusted
    Trusted <- MCTrusted
    Labels <- MCAnyLabels
    Stoppable = {c1}
    Absent = Absent
    None = None
    MaxStarts = 3
    MaxFails = 2
    MaxExits = 1
INVARIANTS
    SettledRight
CHECK_DEADLOCK FALSE
