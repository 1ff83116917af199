------------------------------- MODULE Services -------------------------------
(***************************************************************************)
(* The services around the candidate pipeline and the allocation.  They    *)
(* share no state in the model, so nothing is gained by interleaving them: *)
(* a behaviour of this module is a behaviour of one service, chosen at the *)
(* start, in which the others stay as they are.                            *)
(***************************************************************************)
EXTENDS Integers, FiniteSets

CONSTANTS Schedules, Schedulers, Candidates, Period, MaxTime, MaxRuns, MaxDeletions,
          Resumes, People, MaxImports, MaxFaults,
          Schools, NewNames, Workers, BatchSize, Limit, MaxJobs, MaxEdits,
          Urls, Models, Keys, Unset, Admins, Testers, Callers, MaxPatches,
          Employees, Posts, Emails,
          Users, Requests, MaxLogins, MaxTokens, MaxSwitches,
          Standards, Reqs, Blank, Clients, Items, MaxVersion,
          Members, Demands, Tags, MemberOf, DemandOf, NextSequence

(* acquireModelSlot keeps the limit of model calls between 1 and 20. *)
ASSUME LimitAssumption == Limit \in Nat \ {0}

ASSUME ImportsAssumption == MaxImports \in Nat

(* A day is at least one tick of the clock. *)
ASSUME PeriodAssumption == Period \in Nat \ {0}

(* The table of the candidates is finite, and the bounds are numbers. *)
ASSUME BoundsAssumption ==
    /\ IsFiniteSet(Candidates)
    /\ MaxFaults \in Nat /\ MaxLogins \in Nat /\ MaxTokens \in Nat

(* A job may have no responsibilities. *)
ASSUME BlankAssumption == Blank \in Reqs

(* A snapshot has finitely many members and demands, whose ids are the     *)
(* positive numbers the database gives out; supply, priority and sequence  *)
(* are integers.                                                           *)
ASSUME SnapshotAssumption ==
    /\ Members \subseteq Nat \ {0} /\ IsFiniteSet(Members)
    /\ Demands \subseteq Nat \ {0}
    /\ IsFiniteSet(Tags)
    /\ NextSequence \in Nat
    /\ \A r \in MemberOf : r.created \in Int
    /\ \A r \in DemandOf : r.priority \in Int /\ r.supply \in Int /\ r.last \in Int

VARIABLES
    part,
    now, plan, runs, cands, allowed, sess, del, deletions,
    app, importDecisions, disk, rev, importItem, imp, count, dead, lost, importFaults,
    school, job, slots, worker, edits, faults,
    conf, test, mem, patches, passed,
    grants, accounts,
    active, token, made, login, req, switches, completed,
    jobs, policy, version, client, item, member,
    members, demands, supply, last, sequence, todo, left, best, decisions

scheduleVars == <<now, plan, runs, cands, allowed, sess, del, deletions>>
importVars == <<app, importDecisions, disk, rev, importItem, imp, count, dead, lost, importFaults>>
maintenanceVars == <<school, job, slots, worker, edits, faults>>
connectionVars == <<conf, test, mem, patches, passed>>
directoryVars == <<grants, accounts>>
loginVars == <<active, token, made, login, req, switches, completed>>
policyVars == <<jobs, policy, version, client, item, member>>
orderVars == <<members, demands, supply, last, sequence, todo, left, best, decisions>>

T == INSTANCE TaskCenter
I == INSTANCE Imports
        WITH decisions <- importDecisions, item <- importItem, faults <- importFaults
M == INSTANCE Maintenance
C == INSTANCE ModelConnection
D == INSTANCE Directory
L == INSTANCE Login
P == INSTANCE PoolPolicy
A == INSTANCE AllocationPolicy

-----------------------------------------------------------------------------
Parts == {"schedules", "imports", "maintenance", "connection", "directory", "login",
          "policy", "order"}

vars == <<part, scheduleVars, importVars, maintenanceVars, connectionVars, directoryVars,
          loginVars, policyVars, orderVars>>

Init ==
    /\ part \in Parts
    /\ T!Init /\ I!Init /\ M!Init /\ C!Init /\ D!Init /\ L!Init /\ P!Init /\ A!Init

Next ==
    /\ UNCHANGED part
    /\ \/ part = "schedules" /\ T!Next
          /\ UNCHANGED <<importVars, maintenanceVars, connectionVars,
                         directoryVars, loginVars, policyVars, orderVars>>
       \/ part = "imports" /\ I!Next
          /\ UNCHANGED <<scheduleVars, maintenanceVars, connectionVars,
                         directoryVars, loginVars, policyVars, orderVars>>
       \/ part = "maintenance" /\ M!Next
          /\ UNCHANGED <<scheduleVars, importVars, connectionVars, directoryVars,
                         loginVars, policyVars, orderVars>>
       \/ part = "connection" /\ C!Next
          /\ UNCHANGED <<scheduleVars, importVars, maintenanceVars, directoryVars,
                         loginVars, policyVars, orderVars>>
       \/ part = "directory" /\ D!Next
          /\ UNCHANGED <<scheduleVars, importVars, maintenanceVars,
                         connectionVars, loginVars, policyVars, orderVars>>
       \/ part = "login" /\ L!Next
          /\ UNCHANGED <<scheduleVars, importVars, maintenanceVars,
                         connectionVars, directoryVars, policyVars, orderVars>>
       \/ part = "policy" /\ P!Next
          /\ UNCHANGED <<scheduleVars, importVars, maintenanceVars,
                         connectionVars, directoryVars, loginVars, orderVars>>
       \/ part = "order" /\ A!Next
          /\ UNCHANGED <<scheduleVars, importVars, maintenanceVars,
                         connectionVars, directoryVars, loginVars, policyVars>>

Spec == Init /\ [][Next]_vars
FairSpec == Spec /\ T!Fairness /\ M!Fairness

-----------------------------------------------------------------------------
(* The properties of the services, by the names they have there.           *)

(* Every variable of every service has its type. *)
ServicesTypeOK ==
    /\ part \in Parts
    /\ T!TypeOK /\ I!TypeOK /\ M!TypeOK /\ C!TypeOK
    /\ D!TypeOK /\ L!TypeOK /\ P!TypeOK /\ A!TypeOK

(* TaskCenter: a plan never has two runs in progress; a run starts for an  *)
(* occurrence that is due, once; what is due is served. *)
OneRunPerPlan == T!OneRunPerPlan
TriggersAreDue == T!TriggersAreDue
DueIsServed == T!DueIsServed

(* Imports: the files the rows and items refer to are on disk and intact; the  *)
(* others are of the open import, left by a crash, or replaced. *)
FilesMatchRows == I!FilesMatchRows

(* Maintenance: no hand-made change is overwritten, no more calls than the *)
(* limit, every job ends. *)
HandsOff == M!HandsOff
CallsWithinLimit == M!CallsWithinLimit
JobEnds == M!JobEnds

(* ModelConnection: what is used has been tested. *)
UsedIsTested == C!UsedIsTested

(* Directory: an address is a person; every grant has its account. *)
EmailsIdentifyPeople == D!EmailsIdentifyPeople
GrantsHaveAccounts == D!GrantsHaveAccounts

(* Login: a login completes once, with a token that is valid then. *)
LoginIsFresh == L!LoginIsFresh

(* PoolPolicy: edits build on the policy they replace; a pending           *)
(* assessment is stale only if it was saved while the policy changed.      *)
EditsBuildOnWhatTheySaw == P!EditsBuildOnWhatTheySaw
StaleOnlyIfOverlapped == P!StaleOnlyIfOverlapped

(* AllocationPolicy: the plan is the best one, member by member. *)
PlanIsBest == A!PlanIsBest

=============================================================================
