------------------------------ MODULE Allocation ------------------------------
(***************************************************************************)
(* Candidate allocation in one scope (an entity and a pool): the queue of  *)
(* work items, tasks and their generations, the lease of the scope, the    *)
(* snapshot - kernel - commit protocol of the workers, and what users and  *)
(* other components change meanwhile.  One action per transaction of       *)
(* allocation_tasks.go, allocation_execute.go and allocation_api.go.       *)
(***************************************************************************)
EXTENDS Naturals, Sequences, FiniteSets

CONSTANTS Members,        \* rows of platform_pool_memberships
          Demands,        \* rows of core_job with an active rule for the pool
          Wants,          \* Wants[m]: the demands whose tags m satisfies
          Workers,        \* goroutines of allocationWorker, of all processes
          MaxOps,         \* bound: changes by users and other components
          MaxFaults       \* bound: crashes, stalls, failing calls

ASSUME AllocationAssumption ==
    /\ IsFiniteSet(Members)
    /\ Wants \in [Members -> SUBSET Demands]
    /\ MaxOps \in Nat /\ MaxFaults \in Nat

VARIABLES
    scope,      \* platform_allocation_scopes
    tasks,      \* platform_allocation_tasks, in the order of their ids
    items,      \* platform_allocation_work_items of each member, in id order
    member,     \* status of the membership, its qualification, is it valid
    receiving,  \* demands with reception_state 'receiving'
    targets,    \* platform_assignment_targets of kind 'demand'
    sess,       \* memory of each worker
    ops, faults

vars == <<scope, tasks, items, member, receiving, targets, sess, ops, faults>>

Generations == 1..3
None == <<0, 0>>          \* the empty lease_token

MemberStatus == {"absent", "pending_allocation", "allocated",
                 "needs_reanalysis", "closed"}
ItemStatus == {"pending", "leased", "assigned", "waiting", "failed", "cancelled"}
TaskStatus == {"pending", "running", "completed", "failed", "cancelled"}
PlanStatus == {"none", "proposed", "simulated", "committed", "stale",
               "invalid", "cancelled"}
Modes == {"simulate", "execute"}

NoView == [revision |-> 0, next |-> 0, open |-> {}, quals |-> [m \in Members |-> 0]]

Idle == [pc |-> "idle", task |-> 0, gen |-> 0, view |-> NoView, plan |-> {},
         code |-> ""]

Init ==
    /\ scope = [lease |-> None, live |-> FALSE, paused |-> FALSE,
                revision |-> 1, next |-> 1]
    /\ tasks = <<>>
    /\ items = [m \in Members |-> <<>>]
    /\ member = [m \in Members |-> [status |-> "absent", qual |-> 0, valid |-> TRUE]]
    /\ receiving \in SUBSET Demands
    /\ targets = {}
    /\ sess = [w \in Workers |-> Idle]
    /\ ops = 0
    /\ faults = 0

-----------------------------------------------------------------------------
(* Helpers on the tables.                                                  *)

Rows(its) == UNION {{<<m, n>> : n \in DOMAIN its[m]} : m \in Members}

Active(i) == i.status \in {"pending", "leased"}
Open(i)   == i.status \in {"pending", "leased", "waiting"}

(* Rows of the items of members ms that are open; those leased to task t.  *)
OpenOf(its, ms) == {r \in Rows(its) : r[1] \in ms /\ Open(its[r[1]][r[2]])}
LeasedTo(its, ts) ==
    {r \in Rows(its) : LET i == its[r[1]][r[2]] IN i.status = "leased" /\ i.task \in ts}

(* UPDATE platform_allocation_work_items SET status=... WHERE ...          *)
Mark(its, rows, to) ==
    [m \in Members |->
       [n \in DOMAIN its[m] |->
          IF <<m, n>> \in rows THEN [its[m][n] EXCEPT !.status = to] ELSE its[m][n]]]

NewItem(m, t) == [qual |-> member[m].qual, task |-> t, status |-> "pending", seen |-> 0]

(* Mutant: the items of cancelled tasks are forgotten. *)
FreedNothing(its, rows) == its

(* ... SET status='pending', task_id=NULL *)
Freed(its, rows) ==
    [m \in Members |->
       [n \in DOMAIN its[m] |->
          IF <<m, n>> \in rows
          THEN [its[m][n] EXCEPT !.status = "pending", !.task = 0] ELSE its[m][n]]]

(* The unique index platform_allocation_active_work. *)
HasActive(its, m) ==
    \E n \in DOMAIN its[m] : its[m][n].qual = member[m].qual /\ Active(its[m][n])

(* createAllocationTask: an item for the latest qualification of each      *)
(* member unless an active one exists, and unowned items get the task.     *)
Enqueue(its, ms, t) ==
    [m \in Members |->
       IF m \notin ms THEN its[m]
       ELSE LET all == IF HasActive(its, m) THEN its[m]
                       ELSE Append(its[m], NewItem(m, t))
            IN [n \in DOMAIN all |->
                  IF all[n].status = "pending" /\ all[n].task = 0
                  THEN [all[n] EXCEPT !.task = t] ELSE all[n]]]

NewTask(mode, ms) ==
    [mode |-> mode, members |-> ms, status |-> "pending", gen |-> 1,
     plan |-> [g \in Generations |-> "none"]]

(* Expired workers cannot commit: their tasks start a fresh generation,    *)
(* or fail at the third.                                                   *)
Reclaimed ==
    [t \in DOMAIN tasks |->
       IF tasks[t].status = "running"
       THEN [tasks[t] EXCEPT !.status = IF tasks[t].gen >= 3 THEN "failed" ELSE "pending",
                             !.gen = @ + 1]
       ELSE tasks[t]]

(* Mutant: any item of the qualification will do. *)
LatestOfQualAny(its, m, n) == TRUE

(* ... and the items they had leased go back with them. *)
Reopened(its, tks) ==
    LET Back(st) == {t \in DOMAIN tks : tks[t].status = st}
    IN Mark(Mark(its, LeasedTo(its, Back("pending")), "pending"),
            LeasedTo(its, Back("failed")), "failed")

LatestOfQual(its, m, n) ==
    \A k \in DOMAIN its[m] : its[m][k].qual = its[m][n].qual => k <= n

(* Mutant: nobody is woken. *)
WokenNobody(its) == its

(* Wake waiting qualifications only when inputs changed. *)
MayWake(its, m, n) ==
    /\ its[m][n].status = "waiting" /\ its[m][n].seen < scope.revision
    /\ member[m].status = "pending_allocation"
    /\ LatestOfQual(its, m, n)
    /\ \A k \in DOMAIN its[m] : its[m][k].qual = its[m][n].qual => ~Active(its[m][k])

Woken(its) ==
    [m \in Members |->
       [n \in DOMAIN its[m] |->
          IF MayWake(its, m, n)
          THEN [its[m][n] EXCEPT !.status = "pending", !.task = 0] ELSE its[m][n]]]

(* The members an automatic task would take. *)
Awaiting(its) ==
    {m \in Members : /\ member[m].status = "pending_allocation"
                     /\ \E n \in DOMAIN its[m] : its[m][n].status = "pending"}

Leased(its, ms, t) ==
    [m \in Members |->
       [n \in DOMAIN its[m] |->
          IF m \in ms /\ its[m][n].status = "pending"
          THEN [its[m][n] EXCEPT !.status = "leased", !.task = t] ELSE its[m][n]]]

(* Pending tasks a worker may take; a paused scope only simulates. *)
Claimable(tks) ==
    {t \in DOMAIN tks : /\ tks[t].status = "pending"
                        /\ scope.paused => tks[t].mode = "simulate"}

(* allocationQualificationValid *)
Qualified(m) == member[m].status = "pending_allocation" /\ member[m].valid

(* buildAllocationSnapshot: what the hash covers; 0 for who is left out. *)
Snapshot(t) ==
    [revision |-> scope.revision, next |-> scope.next, open |-> receiving,
     quals |-> [m \in Members |->
                  IF m \in tasks[t].members /\ Qualified(m) THEN member[m].qual ELSE 0]]

Included(view) == {m \in Members : view.quals[m] # 0}

(* Members of a snapshot whom one of its receiving demands suits. *)
Placeable(view) == {m \in Included(view) : view.open \cap Wants[m] # {}}

Choices(view) ==
    {f \in [Placeable(view) -> Demands] : \A m \in Placeable(view) : f[m] \in view.open \cap Wants[m]}

Orders(view) ==
    {f \in [Placeable(view) -> view.next .. (view.next + Cardinality(Placeable(view)) - 1)] :
       \A m, k \in Placeable(view) : f[m] = f[k] => m = k}

(* A plan gives each member of the snapshot one of its receiving demands,  *)
(* or lets it wait if there is none; sequence numbers are consecutive.     *)
PlansFor(view) ==
    { {[member |-> m, demand |-> choice[m], seq |-> order[m]] : m \in Placeable(view)} :
         choice \in Choices(view), order \in Orders(view) }

AssignedBy(plan) == {a.member : a \in plan}

(* Mutant: the last number is used again. *)
AdvancedShort(plan) == IF plan = {} THEN scope.next ELSE scope.next + Cardinality(plan) - 1

(* GREATEST(next_sequence, maxSequence + 1) *)
Advanced(plan) == scope.next + Cardinality(plan)

-----------------------------------------------------------------------------
(* claimAllocation.                                                        *)

(* The scopes the query selects: lease free or expired, and work to do.    *)
ScopeHasWork ==
    /\ scope.lease = None \/ ~scope.live
    /\ \/ \E t \in DOMAIN tasks :
             /\ tasks[t].status \in {"pending", "running"}
             /\ ~scope.paused \/ tasks[t].mode = "simulate"
       \/ /\ ~scope.paused
          /\ \E m \in Members : \E n \in DOMAIN items[m] :
                LET i == items[m][n]
                IN /\ member[m].status = "pending_allocation"
                   /\ LatestOfQual(items, m, n) /\ i.qual = member[m].qual
                   /\ \/ i.status = "pending"
                      \/ i.status = "waiting" /\ i.seen < scope.revision

(* The claimed task starts running under a fresh token and leases its items. *)
Start(w, tks, its, t) ==
    LET gen == tks[t].gen
    IN /\ tasks' = [tks EXCEPT ![t].status = "running"]
       /\ items' = IF tks[t].mode = "simulate" THEN its
                   ELSE Leased(its, tks[t].members, t)
       /\ scope' = [scope EXCEPT !.lease = <<t, gen>>, !.live = TRUE]
       /\ sess' = [sess EXCEPT ![w] = [Idle EXCEPT !.pc = "claimed", !.task = t, !.gen = gen]]

(* The oldest pending task. *)
ClaimTask(w) ==
    LET tks == Reclaimed
        its == Reopened(items, tks)
    IN /\ sess[w].pc = "idle"
       /\ ScopeHasWork
       /\ \E t \in Claimable(tks) :
             /\ \A u \in Claimable(tks) : t <= u
             /\ Start(w, tks, its, t)
       /\ UNCHANGED <<member, receiving, targets, ops, faults>>

(* No pending task: a new automatic one for everybody who awaits allocation. *)
ClaimNew(w) ==
    LET tks == Reclaimed
        its == Woken(Reopened(items, tks))
        ms  == Awaiting(its)
        t   == Len(tks) + 1
    IN /\ sess[w].pc = "idle"
       /\ ScopeHasWork
       /\ Claimable(tks) = {} /\ ~scope.paused
       /\ ms # {}
       /\ Start(w, Append(tks, NewTask("execute", ms)), Enqueue(its, ms, t), t)
       /\ UNCHANGED <<member, receiving, targets, ops, faults>>

(* Nothing to claim after all; the clean-up is committed nevertheless. *)
ClaimNothing(w) ==
    LET tks == Reclaimed
        its == Reopened(items, tks)
    IN /\ sess[w].pc = "idle"
       /\ ScopeHasWork
       /\ Claimable(tks) = {}
       /\ \/ scope.paused /\ items' = its
          \/ ~scope.paused /\ Awaiting(Woken(its)) = {} /\ items' = Woken(its)
       /\ tasks' = tks
       /\ UNCHANGED <<scope, member, receiving, targets, sess, ops, faults>>

-----------------------------------------------------------------------------
(* processAllocation, commitAllocation, finishAllocationFailure.           *)

(* Mutant: somebody holds the lease. *)
HoldsLeaseAnybody(w) ==
    scope.live /\ (~scope.paused \/ tasks[sess[w].task].mode = "simulate")

(* lockAllocationLease: token, expiry, pause, generation and worker. *)
HoldsLease(w) ==
    LET t == sess[w].task
    IN /\ scope.lease = <<t, sess[w].gen>> /\ scope.live
       /\ ~scope.paused \/ tasks[t].mode = "simulate"
       /\ tasks[t].status = "running" /\ tasks[t].gen = sess[w].gen

(* Mutant: the lease is left to expire. *)
ReleasedNever(token) == scope

(* releaseAllocationLease, by its token only. *)
Released(token) ==
    IF scope.lease = token THEN [scope EXCEPT !.lease = None, !.live = FALSE] ELSE scope

Goto(w, pc) == sess' = [sess EXCEPT ![w].pc = pc]

(* Mutant: only the qualifications are compared. *)
SameInputsQuals(w) == Snapshot(sess[w].task).quals = sess[w].view.quals

(* allocationSnapshotHash of the rebuilt snapshot against the frozen one. *)
SameInputs(w) == Snapshot(sess[w].task) = sess[w].view

(* Members of task t that no longer qualify; the snapshot of a real        *)
(* execution cleans them up, and asks for a new analysis of those pending. *)
Stale(t) == {m \in tasks[t].members : ~Qualified(m)}

Cleaned(t) ==
    [m \in Members |->
       IF m \in Stale(t) /\ member[m].status = "pending_allocation"
       THEN [member[m] EXCEPT !.status = "needs_reanalysis"] ELSE member[m]]

CleanedItems(t) == Mark(items, OpenOf(items, Stale(t)), "cancelled")

(* First transaction: freeze the snapshot, or complete an empty task. *)
Process(w) ==
    LET t     == sess[w].task
        clean == tasks[t].mode # "simulate"
        view  == Snapshot(t)
        dirty == clean /\ Cleaned(t) # member
        rev   == IF dirty THEN scope.revision + 1 ELSE scope.revision
    IN /\ sess[w].pc = "claimed" /\ HoldsLease(w)
       /\ member' = IF clean THEN Cleaned(t) ELSE member
       /\ items' = IF clean THEN CleanedItems(t) ELSE items
       /\ IF Included(view) = {}
          THEN /\ tasks' = [tasks EXCEPT ![t].status = "completed"]
               /\ scope' = [Released(<<t, sess[w].gen>>) EXCEPT !.revision = rev]
               /\ sess' = [sess EXCEPT ![w] = Idle]
          ELSE /\ scope' = [scope EXCEPT !.revision = rev]
               /\ \E plan \in PlansFor(view) :
                    sess' = [sess EXCEPT ![w] = [@ EXCEPT !.pc = "computing", !.plan = plan,
                                                   !.view = [view EXCEPT !.revision = rev]]]
               /\ UNCHANGED tasks
       /\ UNCHANGED <<receiving, targets, ops, faults>>

(* recordAllocationPlan: outside any transaction, whoever holds the lease. *)
Recorded(w, status) ==
    [tasks EXCEPT ![sess[w].task].plan[sess[w].gen] = IF @ = "none" THEN status ELSE @]

(* The kernel's plan has passed the recomputation of the platform. *)
Propose(w) ==
    /\ sess[w].pc = "computing"
    /\ tasks' = Recorded(w, "proposed")
    /\ Goto(w, "proposed")
    /\ UNCHANGED <<scope, items, member, receiving, targets, ops, faults>>

(* The lease went to another generation, or the scope was paused: the      *)
(* worker's transaction fails, and so does the one recording its failure.  *)
LeaseLost(w) ==
    /\ sess[w].pc \in {"claimed", "proposed", "failing"} /\ ~HoldsLease(w)
    /\ sess' = [sess EXCEPT ![w] = Idle]
    /\ UNCHANGED <<scope, tasks, items, member, receiving, targets, ops, faults>>

(* The snapshot taken inside the commit differs from the frozen one. *)
SnapshotStale(w) ==
    /\ sess[w].pc = "proposed" /\ HoldsLease(w)
    /\ ~SameInputs(w)
    /\ sess' = [sess EXCEPT ![w].pc = "failing", ![w].code = "stale"]
    /\ UNCHANGED <<scope, tasks, items, member, receiving, targets, ops, faults>>

(* What commitAllocation does to the items of task t. *)
Decided(t, plan, waiters, rev) ==
    LET unmet == {r \in LeasedTo(items, {t}) : r[1] \in waiters}
        its == Mark(Mark(items, unmet, "waiting"), OpenOf(items, AssignedBy(plan)), "assigned")
    IN [m \in Members |->
          [n \in DOMAIN its[m] |->
             IF its[m][n].task = t /\ its[m][n].status = "waiting"
             THEN [its[m][n] EXCEPT !.seen = rev] ELSE its[m][n]]]

Commit(w) ==
    LET t    == sess[w].task
        plan == sess[w].plan
        rev  == IF plan # {} THEN scope.revision + 1 ELSE scope.revision
    IN /\ sess[w].pc = "proposed" /\ HoldsLease(w)
       /\ SameInputs(w)
       /\ tasks[t].mode = "execute"
       /\ items' = Decided(t, plan, Included(sess[w].view) \ AssignedBy(plan), rev)
       /\ member' = [m \in Members |->
                       IF m \in AssignedBy(plan)
                       THEN [member[m] EXCEPT !.status = "allocated"] ELSE member[m]]
       /\ targets' = targets \cup plan
       /\ scope' = [Released(<<t, sess[w].gen>>) EXCEPT
                      !.revision = rev, !.next = Advanced(plan)]
       /\ tasks' = [tasks EXCEPT ![t].status = "completed",
                                 ![t].plan[sess[w].gen] = "committed"]
       /\ sess' = [sess EXCEPT ![w] = Idle]
       /\ UNCHANGED <<receiving, ops, faults>>

(* A simulation keeps its plan and touches nothing else. *)
CommitSimulation(w) ==
    LET t == sess[w].task
    IN /\ sess[w].pc = "proposed" /\ HoldsLease(w)
       /\ SameInputs(w)
       /\ tasks[t].mode = "simulate"
       /\ items' = Freed(items, LeasedTo(items, {t}))
       /\ scope' = Released(<<t, sess[w].gen>>)
       /\ tasks' = [tasks EXCEPT ![t].status = "completed",
                                 ![t].plan[sess[w].gen] = "simulated"]
       /\ sess' = [sess EXCEPT ![w] = Idle]
       /\ UNCHANGED <<member, receiving, targets, ops, faults>>

(* finishAllocationFailure: a stale snapshot is retried twice. *)
Finish(w) ==
    LET t     == sess[w].task
        g     == sess[w].gen
        stale == sess[w].code = "stale"
        again == stale /\ g < 3
    IN /\ sess[w].pc = "failing" /\ HoldsLease(w)
       /\ tasks' = [tasks EXCEPT ![t].status = IF again THEN "pending" ELSE "failed",
                                 ![t].gen = IF again THEN @ + 1 ELSE @,
                                 ![t].plan[g] = IF @ # "proposed" THEN @
                                                ELSE IF stale THEN "stale" ELSE "invalid"]
       /\ items' = Mark(items, LeasedTo(items, {t}), IF again THEN "pending" ELSE "failed")
       /\ scope' = Released(<<t, g>>)
       /\ sess' = [sess EXCEPT ![w] = Idle]
       /\ UNCHANGED <<member, receiving, targets, ops, faults>>

-----------------------------------------------------------------------------
(* Failures.                                                               *)

Fault == faults < MaxFaults /\ faults' = faults + 1

(* A transaction of the worker is refused: serialization failure or a      *)
(* snapshot older than 60 s ("stale"), revoked permission, no pin, ...     *)
TransactionFails(w, code) ==
    /\ Fault
    /\ sess[w].pc \in {"claimed", "proposed"} /\ HoldsLease(w)
    /\ sess' = [sess EXCEPT ![w].pc = "failing", ![w].code = code]
    /\ UNCHANGED <<scope, tasks, items, member, receiving, targets, ops>>

(* The kernel is down, times out, or answers with an invalid plan (which   *)
(* is recorded as such).                                                   *)
KernelFails(w) ==
    /\ Fault
    /\ sess[w].pc = "computing"
    /\ \/ UNCHANGED tasks
       \/ tasks' = Recorded(w, "invalid")
    /\ \E code \in {"error", "stale"} :
          sess' = [sess EXCEPT ![w].pc = "failing", ![w].code = code]
    /\ UNCHANGED <<scope, items, member, receiving, targets, ops>>

(* The process of a worker dies, or cannot even record its failure. *)
Crash(w) ==
    /\ Fault
    /\ sess[w].pc # "idle"
    /\ sess' = [sess EXCEPT ![w] = Idle]
    /\ UNCHANGED <<scope, tasks, items, member, receiving, targets, ops>>

Held == \E w \in Workers : sess[w].pc # "idle" /\ <<sess[w].task, sess[w].gen>> = scope.lease

(* The 90 seconds of a lease pass; while its holder lives, only if it stalls. *)
LeaseLapses ==
    /\ scope.lease # None /\ scope.live
    /\ IF Held THEN Fault ELSE UNCHANGED faults
    /\ scope' = [scope EXCEPT !.live = FALSE]
    /\ UNCHANGED <<tasks, items, member, receiving, targets, sess, ops>>

-----------------------------------------------------------------------------
(* What users and other components change.                                 *)

Op == ops < MaxOps /\ ops' = ops + 1

(* Every relevant change appends to platform_allocation_changes (trigger   *)
(* platform_allocation_changed), which advances the revision of the scope. *)
Changed == scope' = [scope EXCEPT !.revision = @ + 1]

(* savePoolAssessment and saveScreeningQualification: a candidate enters   *)
(* the pool with a qualification and a work item.                          *)
Admit(m) ==
    /\ member[m].status = "absent"
    /\ member' = [member EXCEPT ![m] = [status |-> "pending_allocation", qual |-> 1, valid |-> TRUE]]
    /\ items' = [items EXCEPT ![m] = Append(@, [NewItem(m, 0) EXCEPT !.qual = 1])]
    /\ Changed
    /\ UNCHANGED <<tasks, receiving, targets, sess, ops, faults>>

(* Revision of the tags by hand: a new qualification replaces the old one. *)
ReviseTags(m) ==
    /\ Op
    /\ Qualified(m)
    /\ member' = [member EXCEPT ![m].qual = @ + 1]
    /\ items' = [Mark(items, OpenOf(items, {m}), "cancelled") EXCEPT
                   ![m] = Append(@, [NewItem(m, 0) EXCEPT !.qual = member[m].qual + 1])]
    /\ Changed
    /\ UNCHANGED <<tasks, receiving, targets, sess, faults>>

(* invalidateCandidateInputs: the candidate's own data was edited. *)
EditCandidate(m) ==
    /\ Op
    /\ member[m].status = "pending_allocation"
    /\ member' = [member EXCEPT ![m].status = "needs_reanalysis"]
    /\ items' = Mark(items, OpenOf(items, {m}), "cancelled")
    /\ Changed
    /\ UNCHANGED <<tasks, receiving, targets, sess, faults>>

(* The source file was replaced or tampered with (allocation_integrity.go, *)
(* trigger platform_source_revision); nobody touches the queue.            *)
SourceBreaks(m) ==
    /\ Op
    /\ member[m].status = "pending_allocation" /\ member[m].valid
    /\ member' = [member EXCEPT ![m].valid = FALSE]
    /\ Changed
    /\ UNCHANGED <<tasks, items, receiving, targets, sess, faults>>

(* closePoolMemberships: assigned by hand, archived or reassessed. *)
CloseMember(m) ==
    /\ Op
    /\ member[m].status \in {"pending_allocation", "allocated", "needs_reanalysis"}
    /\ member' = [member EXCEPT ![m].status = "closed"]
    /\ Changed
    /\ UNCHANGED <<tasks, items, receiving, targets, sess, faults>>

(* demandReceptionAPI *)
SetReception(d) ==
    /\ Op
    /\ receiving' = IF d \in receiving THEN receiving \ {d} ELSE receiving \cup {d}
    /\ Changed
    /\ UNCHANGED <<tasks, items, member, targets, sess, faults>>

(* createAllocationTask; a repeated idempotency key returns the first task *)
(* and changes nothing.  A simulation owns only a task, no work items.     *)
Created(mode, ms) ==
    /\ ~scope.paused \/ mode = "simulate"
    /\ tasks' = Append(tasks, NewTask(mode, ms))
    /\ items' = IF mode = "simulate" THEN items ELSE Enqueue(items, ms, Len(tasks) + 1)

CreateTask(mode, ms) ==
    /\ Op
    /\ ms # {} /\ \A m \in ms : member[m].status = "pending_allocation"
    /\ Created(mode, ms)
    /\ UNCHANGED <<scope, member, receiving, targets, sess, faults>>

(* enqueuePoolAllocation, the button of one pool member. *)
AllocateOne(m) ==
    /\ Op
    /\ member[m].status # "absent"
    /\ Created("execute", {m})
    /\ Changed
    /\ UNCHANGED <<member, receiving, targets, sess, faults>>

(* Mutant: a status the table does not know. *)
WithdrawnMisspelt(plan) ==
    [g \in Generations |-> IF plan[g] = "proposed" THEN "canceled" ELSE plan[g]]

RetryTask(t) ==
    /\ Op
    /\ tasks[t].status \in {"failed", "cancelled", "completed"}
    /\ Created(tasks[t].mode, tasks[t].members)
    /\ UNCHANGED <<scope, member, receiving, targets, sess, faults>>

Withdrawn(plan) == [g \in Generations |-> IF plan[g] = "proposed" THEN "cancelled" ELSE plan[g]]

CancelTask(t) ==
    LET own == {r \in Rows(items) : LET i == items[r[1]][r[2]] IN i.task = t /\ Active(i)}
    IN /\ Op
       /\ tasks[t].status # "completed"
       /\ tasks' = [tasks EXCEPT ![t].status = "cancelled", ![t].plan = Withdrawn(@)]
       /\ items' = Mark(items, own, "cancelled")
       /\ scope' = IF tasks[t].status = "running" /\ scope.lease = <<t, tasks[t].gen>>
                   THEN Released(scope.lease) ELSE scope
       /\ UNCHANGED <<member, receiving, targets, sess, faults>>

(* Pausing or resuming the scope voids the running plan and all open tasks *)
(* and keeps the work items.  Resuming waits for the lease to end.         *)
SetPaused(b) ==
    LET ended == [t \in DOMAIN tasks |->
                    IF tasks[t].status \in {"pending", "running"}
                    THEN [tasks[t] EXCEPT !.status = "cancelled"] ELSE tasks[t]]
        freed == {r \in Rows(items) :
                    LET i == items[r[1]][r[2]]
                    IN Active(i) /\ i.task # 0 /\ ended[i.task].status = "cancelled"}
    IN /\ Op
       /\ b \/ scope.lease = None \/ ~scope.live
       /\ scope' = [scope EXCEPT !.paused = b, !.revision = @ + 1, !.lease = None, !.live = FALSE]
       /\ tasks' = [t \in DOMAIN tasks |->
                      IF ended[t].status = "cancelled"
                      THEN [ended[t] EXCEPT !.plan = Withdrawn(@)] ELSE ended[t]]
       /\ items' = Freed(items, freed)
       /\ UNCHANGED <<member, receiving, targets, sess, faults>>

-----------------------------------------------------------------------------

Work(w) ==
    \/ ClaimTask(w) \/ ClaimNew(w) \/ ClaimNothing(w)
    \/ Process(w) \/ Propose(w) \/ LeaseLost(w) \/ SnapshotStale(w)
    \/ Commit(w) \/ CommitSimulation(w) \/ Finish(w)

Failures ==
    \/ \E w \in Workers : KernelFails(w) \/ Crash(w)
    \/ \E w \in Workers, code \in {"error", "stale"} : TransactionFails(w, code)
    \/ LeaseLapses

Users ==
    \/ \E m \in Members : \/ Admit(m) \/ ReviseTags(m) \/ EditCandidate(m)
                           \/ SourceBreaks(m) \/ CloseMember(m) \/ AllocateOne(m)
    \/ \E d \in Demands : SetReception(d)
    \/ \E mode \in Modes, ms \in SUBSET Members : CreateTask(mode, ms)
    \/ \E t \in DOMAIN tasks : RetryTask(t) \/ CancelTask(t)
    \/ \E b \in BOOLEAN : SetPaused(b)

Next == (\E w \in Workers : Work(w)) \/ Failures \/ Users

Spec == Init /\ [][Next]_vars

(* Workers poll every two seconds and a lease that nobody holds expires. *)
Fairness ==
    /\ \A w \in Workers : WF_vars(Work(w))
    /\ WF_vars(LeaseLapses /\ ~Held)

FairSpec == Spec /\ Fairness

-----------------------------------------------------------------------------
(* Properties.                                                             *)

Views == [revision: Nat, next: Nat, open: SUBSET Demands, quals: [Members -> Nat]]

TypeOK ==
    /\ scope \in [lease: Nat \X Nat, live: BOOLEAN, paused: BOOLEAN, revision: Nat, next: Nat]
    /\ tasks \in Seq([mode: Modes, members: SUBSET Members, status: TaskStatus,
                      gen: Nat, plan: [Generations -> PlanStatus]])
    /\ items \in [Members -> Seq([qual: Nat, task: Nat, status: ItemStatus, seen: Nat])]
    /\ member \in [Members -> [status: MemberStatus, qual: Nat, valid: BOOLEAN]]
    /\ receiving \subseteq Demands
    /\ targets \subseteq [member: Members, demand: Demands, seq: Nat]
    /\ sess \in [Workers -> [pc: {"idle", "claimed", "computing", "proposed", "failing"},
                             task: Nat, gen: Nat, view: Views,
                             plan: SUBSET [member: Members, demand: Demands, seq: Nat],
                             code: {"", "error", "stale"}]]
    /\ ops \in Nat /\ faults \in Nat

(* The queue stays consistent.  The unique index on active work items is     *)
(* never hit by an UPDATE: waking, reopening or freeing an item              *)
(* (allocation_tasks.go:95-133) cannot make two active items of one          *)
(* qualification, which would abort the claim for good.  And no item is      *)
(* stranded as leased: whoever ends a task (commit, failure, cancel, pause,  *)
(* expiry) also settles the items it leased.                                 *)
OneActiveItem(m) ==
    \A n, k \in DOMAIN items[m] :
        /\ Active(items[m][n]) /\ Active(items[m][k])
        /\ items[m][n].qual = items[m][k].qual
        => n = k

QueueIsConsistent ==
    \A m \in Members :
        /\ OneActiveItem(m)
        /\ \A n \in DOMAIN items[m] :
              items[m][n].status = "leased" =>
                  /\ items[m][n].task \in DOMAIN tasks
                  /\ tasks[items[m][n].task].status = "running"

(* A live lease belongs to the running generation of a task: a cancelled,    *)
(* failed or replaced generation never blocks the scope for 90 seconds.      *)
LiveLeaseIsOwned ==
    scope.lease # None /\ scope.live =>
        /\ scope.lease[1] \in DOMAIN tasks
        /\ tasks[scope.lease[1]].status = "running"
        /\ tasks[scope.lease[1]].gen = scope.lease[2]

(* A qualification that waits and will not be looked at again before the     *)
(* next change has no receiving demand (observed_revision of                 *)
(* commitAllocation against the wake-up of claimAllocation).                 *)
NoLostWakeUp ==
    \A m \in Members : \A n \in DOMAIN items[m] :
        /\ Qualified(m) /\ items[m][n].qual = member[m].qual
        /\ items[m][n].status = "waiting" /\ items[m][n].seen >= scope.revision
        => receiving \cap Wants[m] = {}

(* A task runs at most three generations (ops/two-agent-allocation.md:       *)
(* snapshot conflicts are handled for at most 3 generations) and ends with   *)
(* at most one plan in effect, and then it is completed: the lease and the   *)
(* generation fence off a worker that was replaced.                          *)
OnePlanInEffect ==
    \A t \in DOMAIN tasks :
        LET done == {g \in Generations : tasks[t].plan[g] \in {"simulated", "committed"}}
        IN /\ tasks[t].status \in {"pending", "running"} => tasks[t].gen \in Generations
           /\ Cardinality(done) <= 1
           /\ done # {} => tasks[t].status = "completed"

(* A member whose allocation a user cancelled is not taken again by the      *)
(* automatic queue (ops/two-agent-allocation.md, cancelling).                *)
CancelIsNotUndone ==
    [][\A w \in Workers : ClaimNew(w) =>
         \A m \in tasks'[Len(tasks')].members :
            items[m][Len(items[m])].status # "cancelled"]_vars

(* The contract: what the detailed protocol adds up to.                      *)
Place(m) ==
    CASE member[m].status = "absent" -> "absent"
      [] member[m].status = "allocated" -> "allocated"
      [] Qualified(m) -> "eligible"
      [] OTHER -> "out"

Contract == INSTANCE AllocationContract WITH
    place <- [m \in Members |-> Place(m)], open <- receiving,
    accepting <- ~scope.paused, ledger <- targets, next <- scope.next

(* Every behaviour of tasks, leases and workers assigns whole plans, each    *)
(* member once, only to what is receiving and only who is qualified at the   *)
(* moment of the commit, and nothing while the scope is paused.              *)
ImplementsContract == Contract!Spec

(* The newest item of the member's qualification. *)
LatestItem(m) == items[m][Len(items[m])]

(* A qualified member for whom a demand is receiving does not wait forever   *)
(* in a scope that runs, unless its work was cancelled by a user or failed.  *)
WaitsInVain(m) ==
    /\ Qualified(m) /\ receiving \cap Wants[m] # {} /\ ~scope.paused
    /\ LatestItem(m).status \notin {"cancelled", "failed"}

EligibleIsServed == \A m \in Members : WaitsInVain(m) ~> ~WaitsInVain(m)

=============================================================================
