\* Liveness of two runs that want the same candidate.
SPECIFICATION FairSpec
CONSTANTS
    r1 = r1  r2 = r2  c1 = c1  c2 = c2  w1 = w1  w2 = w2
    NoRun = NoRun
    Runs = {r1, r2}
    Candidates = {c1}
    Workers = {w1, w2}
    Scope <- FullScope
    Kind <- KindMixed
    Forced <- ForceSecond
    Retry <- NoRetry
    Volunteers = {1}
    Wishes <- BothWishes
    Late <- NoneLate
    Cancellable = {}
    Slow = {}
    Verdicts = {"ready"}
    MaxAttempts = 2
    MaxFaults = 1
    MaxRevision = 0
CHECK_DEADLOCK FALSE
INVARIANTS
    EndedRunHoldsNoClaim
PROPERTIES
    ConflictEnds
