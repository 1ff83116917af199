\* Liveness of one run through a crash, a manual change and a cancellation.
SPECIFICATION FairSpec
CONSTANTS
    r1 = r1  r2 = r2  c1 = c1  c2 = c2  w1 = w1  w2 = w2
    NoRun = NoRun
    Runs = {r1}
    Candidates = {c1}
    Workers = {w1, w2}
    Scope <- FullScope
    Kind <- KindStep4
    Forced <- NoForce
    Retry <- NoRetry
    Volunteers = {1, 2}
    Wishes <- BothWishes
    Late <- NoneLate
    Cancellable = {r1}
    Slow = {}
    Verdicts = {"ready"}
    MaxAttempts = 2
    MaxFaults = 1
    MaxRevision = 1
CHECK_DEADLOCK FALSE
PROPERTIES
    RunEnds
    CancelEnds
