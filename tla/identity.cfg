\* One application, two people, no faults.
SPECIFICATION Spec
CONSTANTS
    Resumes = {r1}
    People = {p1, p2}
    MaxImports = 3
    MaxFaults = 0
CHECK_DEADLOCK FALSE
INVARIANTS
    HistoryKeepsIdentity
