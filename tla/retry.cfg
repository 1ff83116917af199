\* A run, then a retry of what it decided on the first wish; the second wish may come by a
\* later import.  Edits, assignment, the life of an attempt and allocation in between.
SPECIFICATION Spec
CONSTANTS
    r1 = r1  r2 = r2  c1 = c1  c2 = c2  w1 = w1  w2 = w2
    NoRun = NoRun
    Runs = {r1, r2}
    Candidates = {c1}
    Workers = {w1}
    Scope <- FullScope
    Kind <- KindRerun
    Forced <- ForceSecond
    Retry <- RetryFirstWish
    Volunteers = {1, 2}
    Wishes <- BothWishes
    Late <- SecondLate
    Cancellable = {}
    Slow = {}
    Verdicts = {"ready"}
    MaxAttempts = 2
    MaxFaults = 1
    MaxRevision = 4
CHECK_DEADLOCK FALSE
PROPERTIES
    ClosedApplicationsStay
    FinishedCandidatesStay
