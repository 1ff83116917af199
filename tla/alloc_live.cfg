\* One member, two user changes, one fault, and the fairness of the workers.
SPECIFICATION FairSpec
CONSTANTS
    m1 = m1  m2 = m2  d1 = d1  d2 = d2  w1 = w1  w2 = w2
    Members = {m1}
    Demands = {d1}
    Wants <- WantsOne
    Workers = {w1, w2}
    MaxOps = 2
    MaxFaults = 1
CHECK_DEADLOCK FALSE
INVARIANTS
    TypeOK
    QueueIsConsistent
PROPERTIES
    CancelIsNotUndone
    EligibleIsServed
