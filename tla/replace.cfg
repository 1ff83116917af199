\* One plan, one scheduler and one candidate: a deletion meets the start of a run.
SPECIFICATION Spec
CONSTANTS
    Schedules = {s1}
    Schedulers = {w1}
    Candidates = {c1}
    Period = 2
    MaxTime = 2
    MaxRuns = 1
    MaxDeletions = 1
CHECK_DEADLOCK FALSE
INVARIANTS
    RunIsWhole
