\* Two members who share a demand, two workers, one user change, one fault.
SPECIFICATION Spec
CONSTANTS
    m1 = m1  m2 = m2  d1 = d1  d2 = d2  w1 = w1  w2 = w2
    Members = {m1, m2}
    Demands = {d1, d2}
    Wants <- WantsShared
    Workers = {w1, w2}
    MaxOps = 1
    MaxFaults = 1
SYMMETRY WorkerSymmetry
CHECK_DEADLOCK FALSE
INVARIANTS
    NoLostWakeUp
    LiveLeaseIsOwned
    OnePlanInEffect
PROPERTIES
    ImplementsContract
