----------------------------- MODULE PoolPolicy -----------------------------
(***************************************************************************)
(* The assessment standards (pools_policy.go, job_configuration.go): one   *)
(* row that clients replace under an optimistic version and that every     *)
(* change of a job rewrites, and the assessments made against it.  An item *)
(* freezes a standard, works for minutes, checks it again, and saves; the  *)
(* check reads the policy without a lock, so a change may still slip in    *)
(* before the save.  All standards are generated from jobs, and none has a *)
(* source job chosen by hand.                                              *)
(***************************************************************************)
EXTENDS Naturals, FiniteSets

CONSTANTS Standards,
          Reqs,           \* requirement texts of a job
          Blank,          \* the one without responsibilities
          Tags,           \* definitions of ability tags
          Clients,
          Items,          \* scope items; each assesses an application of its own
          MaxVersion      \* bound: versions of the policy

VARIABLES
    jobs,       \* the requirements of the active jobs behind each standard
    policy,     \* platform_pool_policy.policy: the standards there are
    version,    \* platform_pool_policy.version
    client,     \* the policy each client has been shown
    item,       \* memory of each item
    member      \* platform_pool_memberships of each item's application

vars == <<jobs, policy, version, client, item, member>>

Nothing == [req |-> Blank, tags |-> {}]
NoMember == [st |-> "none", content |-> Nothing, seen |-> 0, saved |-> 0]

Init ==
    /\ jobs = [s \in Standards |-> {}]
    /\ policy = <<>>
    /\ version = 1
    /\ client = [c \in Clients |-> {}]
    /\ item = [i \in Items |-> [pc |-> "queued", std |-> {}, content |-> Nothing, seen |-> 0]]
    /\ member = [i \in Items |-> NoMember]

-----------------------------------------------------------------------------
(* Helpers.                                                                *)

Issue(group) ==
    CASE group = {} -> "source_job_missing"
      [] Cardinality(group) > 1 -> "source_job_conflict"
      [] group = {Blank} -> "job_responsibility_missing"
      [] OTHER -> ""

Generated == [req |-> Blank, tags |-> {}, active |-> TRUE, issue |-> ""]

(* deriveJobPolicy: a standard takes its requirement from its jobs, as     *)
(* long as they agree on one; it is never removed.                         *)
Derived(p, by) ==
    [s \in DOMAIN p \cup {t \in Standards : by[t] # {}} |->
       LET old == IF s \in DOMAIN p THEN p[s] ELSE Generated
       IN [old EXCEPT !.req = IF Cardinality(by[s]) = 1 THEN CHOOSE q \in by[s] : TRUE ELSE @,
                      !.issue = Issue(by[s])]]

Content(p, s) == [req |-> p[s].req, tags |-> p[s].tags]
Usable(p, s) == s \in DOMAIN p /\ p[s].active /\ p[s].issue = ""

(* Mutant: the definitions of the tags do not count. *)
ChangedReq(p, q, s) == ~Usable(q, s) \/ p[s].req # q[s].req

(* What applyConfigurationImpact and validateLiveJobs compare. *)
Changed(p, q, s) == ~Usable(q, s) \/ Content(p, s) # Content(q, s)

(* applyConfigurationImpact: the assessments it can see are void. *)
Impacted(p, q) ==
    [i \in Items |->
       IF member[i].st = "pending" /\ \E s \in item[i].std \cap DOMAIN p : Changed(p, q, s)
       THEN [member[i] EXCEPT !.st = "needs_reanalysis"] ELSE member[i]]

-----------------------------------------------------------------------------
(* Configuration.  Every writer holds all allocation scopes and the row.   *)

(* GET pool-config *)
Show(c) ==
    /\ client' = [client EXCEPT ![c] = {[policy |-> policy, version |-> version]}]
    /\ UNCHANGED <<jobs, policy, version, item, member>>

(* PUT pool-config: what the client was shown, with one standard edited. *)
Put(c, s, tags, active) ==
    \E shown \in client[c] :
       /\ version < MaxVersion
       /\ shown.version = version
       /\ s \in DOMAIN shown.policy
       /\ policy' = Derived([shown.policy EXCEPT ![s].tags = tags, ![s].active = active], jobs)
       /\ member' = Impacted(policy, policy')
       /\ version' = version + 1
       /\ client' = [client EXCEPT ![c] = {}]
       /\ UNCHANGED <<jobs, item>>

(* 409: the client loads the page again. *)
Conflict(c) ==
    /\ \E shown \in client[c] : shown.version # version
    /\ client' = [client EXCEPT ![c] = {}]
    /\ UNCHANGED <<jobs, policy, version, item, member>>

(* Mutant: rewriting the policy for a job is not a new version. *)
SyncedVersionSame == version

SyncedVersion == version + 1

(* A job is created, changed, disabled or deleted, by hand or by an        *)
(* import, and syncJobPolicy follows in the same transaction.              *)
EditJobs(s, group) ==
    /\ version < MaxVersion
    /\ jobs[s] # group
    /\ jobs' = [jobs EXCEPT ![s] = group]
    /\ policy' = Derived(policy, jobs')
    /\ member' = Impacted(policy, policy')
    /\ version' = IF policy' # policy THEN SyncedVersion ELSE version
    /\ UNCHANGED <<client, item>>

-----------------------------------------------------------------------------
(* Assessment.                                                             *)

(* freezeCase and resolveApplicationStandard *)
Freeze(i, s) ==
    /\ item[i].pc = "queued"
    /\ item' = [item EXCEPT ![i] =
          IF Usable(policy, s)
          THEN [@ EXCEPT !.pc = "frozen", !.std = {s}, !.content = Content(policy, s)]
          ELSE [@ EXCEPT !.pc = "blocked"]]
    /\ UNCHANGED <<jobs, policy, version, client, member>>

(* validateLiveJobs, in the second transaction of processItem, *)
Validate(i) ==
    \E s \in item[i].std :
       /\ item[i].pc = "frozen"
       /\ item' = [item EXCEPT
             ![i].pc = IF Usable(policy, s) /\ Content(policy, s) = item[i].content
                       THEN "validated" ELSE "blocked",
             ![i].seen = version]
       /\ UNCHANGED <<jobs, policy, version, client, member>>

(* and savePoolAssessment with its commit; the candidate is admitted or    *)
(* not, and an earlier membership is closed.                               *)
Save(i, to) ==
    /\ item[i].pc = "validated"
    /\ member' = [member EXCEPT ![i] = [st |-> to, content |-> item[i].content,
                                       seen |-> item[i].seen, saved |-> version]]
    /\ item' = [item EXCEPT ![i].pc = "done"]
    /\ UNCHANGED <<jobs, policy, version, client>>

(* allocationQualificationValid, as far as the standard goes. *)
Valid(i) == \E s \in item[i].std : Usable(policy, s) /\ Content(policy, s) = member[i].content

(* A plan for the member commits; the row of the policy is share-locked. *)
Allocate(i) ==
    /\ member[i].st = "pending"
    /\ Valid(i)
    /\ member' = [member EXCEPT ![i].st = "allocated"]
    /\ UNCHANGED <<jobs, policy, version, client, item>>

(* The allocation snapshot voids what it finds stale. *)
Clean(i) ==
    /\ member[i].st = "pending"
    /\ ~Valid(i)
    /\ member' = [member EXCEPT ![i].st = "needs_reanalysis"]
    /\ UNCHANGED <<jobs, policy, version, client, item>>

(* POST pool-config/reprocess: a run for whoever is blocked or stale. *)
Reprocess ==
    LET again == {i \in Items : item[i].pc = "blocked" \/ (item[i].pc = "done"
                                    /\ member[i].st = "needs_reanalysis")}
    IN /\ again # {}
       /\ item' = [i \in Items |-> IF i \in again THEN [item[i] EXCEPT !.pc = "queued"]
                                   ELSE item[i]]
       /\ UNCHANGED <<jobs, policy, version, client, member>>

-----------------------------------------------------------------------------
Next ==
    \/ \E c \in Clients :
          \/ Show(c) \/ Conflict(c)
          \/ \E s \in Standards, tags \in SUBSET Tags, active \in BOOLEAN :
                Put(c, s, tags, active)
    \/ \E s \in Standards, group \in SUBSET Reqs : EditJobs(s, group)
    \/ \E i \in Items :
          \/ \E s \in Standards : Freeze(i, s)
          \/ \E to \in {"pending", "closed"} : Save(i, to)
          \/ Validate(i) \/ Allocate(i) \/ Clean(i)
    \/ Reprocess

Spec == Init /\ [][Next]_vars

-----------------------------------------------------------------------------
(* Properties.                                                             *)

ContentOf == [req : Reqs, tags : SUBSET Tags]
StandardOf == [req : Reqs, tags : SUBSET Tags, active : BOOLEAN,
               issue : {"", "source_job_missing", "source_job_conflict",
                        "job_responsibility_missing"}]
PolicyOf == UNION {[d -> StandardOf] : d \in SUBSET Standards}

(* Every variable has its type. *)
TypeOK ==
    /\ jobs \in [Standards -> SUBSET Reqs]
    /\ DOMAIN policy \subseteq Standards /\ \A s \in DOMAIN policy : policy[s] \in StandardOf
    /\ version \in Nat
    /\ \A c \in Clients : \A shown \in client[c] :
          shown.version \in Nat /\ DOMAIN shown.policy \subseteq Standards
    /\ item \in [Items -> [pc : {"queued", "frozen", "validated", "blocked", "done"},
                           std : SUBSET Standards, content : ContentOf, seen : Nat]]
    /\ member \in [Items -> [st : {"none", "pending", "closed", "needs_reanalysis",
                                   "allocated"},
                             content : ContentOf, seen : Nat, saved : Nat]]

(* An edit of the configuration that takes effect was made from exactly    *)
(* the policy it replaces: no rewriting for a job and no edit of another   *)
(* client is undone by it ("配置已被修改，请刷新后重试").                      *)
EditsBuildOnWhatTheySaw ==
    [][\A c \in Clients : client'[c] # client[c] /\ policy' # policy
          => \E shown \in client[c] : shown.policy = policy]_vars

(* A pending assessment is one of the current standard, unless the policy  *)
(* changed in the middle of the very transaction that saved it: no edit of *)
(* a standard, a tag or a job misses an assessment made before it, whether *)
(* the work began before or after earlier edits.                           *)
StaleOnlyIfOverlapped ==
    \A i \in Items : member[i].st = "pending" /\ ~Valid(i) => member[i].seen # member[i].saved

=============================================================================
