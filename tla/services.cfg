\* Eight services, one at a time.
SPECIFICATION FairSpec
CONSTANTS
    Schedules = {s1}
    Schedulers = {w1, w2}
    Candidates = {c1}
    Period = 2
    MaxTime = 4
    MaxRuns = 1
    MaxDeletions = 1
    Resumes = {r1}
    People = {p1}
    MaxImports = 3
    MaxFaults = 1
    Schools = {s1}
    NewNames = {n1}
    Workers = {w1, w2}
    BatchSize = 1
    Limit = 1
    MaxJobs = 2
    MaxEdits = 1
    Urls = {u1, u2}
    Models = {m1}
    Keys = {k1}
    Unset = unset
    Admins = {admin}
    Testers = {tester}
    Callers = {caller}
    MaxPatches = 2
    Employees = {e1, e2, e3}
    Posts = {p1}
    Emails = {x1, x2, x3}
    Users = {u1, u2}
    Requests = {q1, q2}
    MaxLogins = 2
    MaxTokens = 2
    MaxSwitches = 2
    Standards = {s1}
    Reqs = {blank, a}
    Blank = blank
    Clients = {admin}
    Items = {i1}
    MaxVersion = 4
    Members = {1, 2}
    Demands = {1, 2}
    Tags = {t1}
    MemberOf <- SmallMembers
    DemandOf <- SmallDemands
    NextSequence = 5
CHECK_DEADLOCK FALSE
INVARIANTS
    ServicesTypeOK
    OneRunPerPlan
    
    CallsWithinLimit
    EmailsIdentifyPeople
    GrantsHaveAccounts
    StaleOnlyIfOverlapped
    PlanIsBest
    UsedIsTested
PROPERTIES
    TriggersAreDue
    DueIsServed
    HandsOff
    JobEnds
    LoginIsFresh
    EditsBuildOnWhatTheySaw
