\* One full run, two workers, crashes at any point, manual changes, cancellation.
SPECIFICATION Spec
CONSTANTS
    r1 = r1  r2 = r2  c1 = c1  c2 = c2  w1 = w1  w2 = w2
    NoRun = NoRun
    Runs = {r1}
    Candidates = {c1}
    Workers = {w1, w2}
    Scope <- FullScope
    Kind <- KindAll
    Forced <- NoForce
    Retry <- NoRetry
    Volunteers = {1, 2}
    Wishes <- BothWishes
    Late <- SecondLate
    Cancellable = {r1}
    Slow = {}
    Verdicts = {"ready", "unadmitted", "unmatched", "misconfigured"}
    MaxAttempts = 3
    MaxFaults = 2
    MaxRevision = 2
SYMMETRY WorkerSymmetry
CHECK_DEADLOCK FALSE
INVARIANTS
    TypeOK
    UnfinishedRunIsClaimable
    SkipOnlyAfterChange
    ResumableItem
PROPERTIES
    DecisionOnExpectedRevision
