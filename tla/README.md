# A TLA+ model of the resume platform

This directory specifies the concurrent parts of the resume platform
(`src/internal/platform`), model-checks it with TLC and proves some of its
properties with TLAPS.  Everything is translated from the Go code; a `file.go:n`
below is a line under `src/internal/platform` unless it says otherwise.

Contents: [inventory](#inventory) · [modules](#modules-and-how-they-correspond-to-the-code)
· [runs](#runs) · [fairness](#fairness) · [proofs](#proofs) · [findings](#findings)
· [remarks](#remarks-on-the-code) · [not modelled](#what-is-not-modelled) · [plan](#plan).

## Inventory

The program is one Go binary: an HTTP API, a pool of worker goroutines and a
scheduler over PostgreSQL, with Redis for wake-ups and for the semaphore of
model calls.  Several processes may run at once.  The components do not call each other
across processes; they meet in database rows.

| component | state | operations | what makes it correct |
|---|---|---|---|
| **Processing runs** (`runs.go`) | `core_processingrun` (status, `cancel_requested_at`, params, counts), `core_processingrunstage`, `core_processingrunscopeitem`, `platform_go_jobs` (status, lease, token, attempts) | createRun, cancelRun, claim (`worker`), heartbeat, executeRun over the stages, stopRun, summarizeRun | a run ends only when all its items have ended; it ends; an unfinished one can always be claimed again; a cancellation wins and nothing is decided after it; one decision per resume |
| **Candidate pipeline** (`processing.go`, `preparation.go`) | `kernel_snapshot` of an item, prepared resume, the claim columns of `core_candidateworkflow`, goroutines per item | freezeCase, prepareItem, analyzeItems, processItem (claim, renew, commit), saveFailure | a manual change wins over a result in flight; a result is committed once, by the holder of the claim; a claim does not outlive its run; a conflict is not waited for forever |
| **Applications and workflow** (`applications.go`, `workflows.go`, `candidate_inputs.go`, `pools.go`) | `platform_applications.status`, workflow revision, current resume, attempts, pool memberships | applicationState, continueAfterAIRejection, talentPool, manualAssign, mutateAttempt, invalidateCandidateInputs | a finished application is immutable; who passed stays; who is in the talent pool leaves it only by a manual assignment of an application imported since |
| **Allocation** (`allocation_*.go`) | scopes (lease, token, revision, pause), tasks (generation, plans), work items, memberships and qualifications | claim with reclaiming and waking, process, record, commit, fail; create, retry, cancel, pause, reception | whole plans, each member once, on the inputs they were computed from; at most one plan of a task in effect; nobody eligible waits forever |
| **Allocation policy** (`allocation_policy.go`) | none | expectedAllocation | every member gets its best demand given the earlier ones, in any order of the demands |
| **Schedules** (`schedules.go`) | next and last run, status | triggerSchedule in three transactions, create, edit, pause, cancel | never two active runs of one plan; an occurrence is served once, missed ones coalesce |
| **Deletion of candidates** (`crud.go`, replace import) | candidates, scope items | deleteCandidate, deleteRow, importFiles with mode=replace | a run in progress keeps its candidates |
| **Model slots** (`runs.go:652`) | a sorted set in Redis | acquireModelSlot, release, expiry | at most the configured number of calls |
| **Imports** (`imports.go`) | staged files, rows | stage, install, commit, restore | files and rows agree; an application with a history keeps its person |
| **Maintenance queue** (`maintenance.go`) | leased jobs, provinces of schools | enqueue, claim, heartbeat, batches, write-back | no manual entry is overwritten; every job ends |
| **Pool policy** (`pools_policy.go`, `job_configuration.go`) | one versioned policy, derived standards, saved assessments | updatePoolPolicy, rewriting after job edits, validateLiveJobs, save | no edit is lost; no pending assessment of a standard that is gone |
| **Model connection** (`config.go`, `kernel.go`) | settings rows, fingerprint of the last test | patch, test, read by every call | only a tested connection is used |
| **Login** (`oauth.go`, `migrate.go`, `http.go`) | one-shot keys in Redis, one token per account | callback, identity, completion, logout, deactivation | a login completes once and with a token valid then |
| **Directory** (`contact_grants.go`, `crud.go`, `imports.go`) | grants (contacts), accounts | save, import, synchronise, rename, delete | an address is one person; a grant has its account |
| HTTP, serialisation, exports, analytics, PDF, migrations | single rows or none | | not concurrent protocols, see the component list in `PROJECT.json` |

How they interact:

* the API, a schedule or a retry *creates* a run; a Redis message is only a
  hint, workers poll `platform_go_jobs` anyway;
* a worker and the users meet in `core_candidateworkflow`: every manual change advances
  the **revision** and voids the **claim**; a run compares both when it claims a
  candidate and again when it commits;
* two workers meet in the job **lease** (20 s, token renewed on each claim), two runs
  of a candidate in the workflow **claim**;
* an accepted candidate enters a pool, from which allocation makes an attempt,
  without advancing the revision of the workflow; members, work items, demands and pauses
  meet in the **revision of the scope**, which a trigger advances;
* workers of allocation meet in the lease of the scope (90 s) and the **generation** of the task;
* schedules, imports and users create runs; deletions of candidates meet them in the scope items;
* all callers of the model share the slots, the connection settings and the policy row.

What is hard here: a worker keeps executing after its lease is gone, because the
heartbeat only *notices*; most writes of a stage do not look at the lease; the model call
takes minutes between two transactions; a restart decides from stage rows and
params what to skip, and nothing counts open items at the end; several
transactions are needed to close a run.  `PROJECT.json` lists each hazard at the
line where it bites, with the properties against it.

## Modules and how they correspond to the code

| module | contents |
|---|---|
| `ProcessingRuns` | the specification: runs, their job queue, the candidate pipeline, and the candidate rows that users and allocation write |
| `MCProcessingRuns` | values of the constants for TLC |
| `ProcessingRunsTypes` | proof that the specification keeps its types |
| `ProcessingRunsProofs` | proofs of the safety theorems, whatever workers stall |
| `ProcessingRunsLeases` | proofs of the safety theorems that need leases to be renewed (`Slow = {}`) |
| `AllocationContract` | what allocation promises for a scope, without tasks, leases, items |
| `Allocation` | the protocol: scope, tasks, items, workers, users; implements the contract |
| `MCAllocation` | values for TLC |
| `AllocationProofs`, `AllocationQueue` | proofs: leases, generations, the contract; the work items and the types |
| `AllocationPolicy` | expectedAllocation as the code walks, and what its plan is |
| `TaskCenter` | schedules and the deletion of candidates |
| `Imports` | the resume import: rows, files, and the items that read them |
| `Maintenance` | the maintenance queue and the model slots |
| `PoolPolicy` | the assessment standards and what is assessed by them |
| `ModelConnection` | the settings of the model and their use |
| `Login` | W3 login, tokens, logout |
| `Directory` | grants, accounts and their addresses |
| `RecordsProofs`, `ServiceProofs` | proofs: policy, imports, schedules and the allocation plan; login, directory, connection and maintenance |
| `ServicesTypes` | proof of the types of all services |
| `Services` | the eight services of `AllocationPolicy` … `Directory` put together |
| `MCServices` | values for TLC |

Every database transaction, or single statement outside one, is one action; what lies
between two of them interleaves with everything else.  `sess[w].pc` (`worker`, `req`,
`item`, `imp`, `del`, `mem` in the services) says between which two an actor is.

### ProcessingRuns

| variable | code |
|---|---|
| `run` | `core_processingrun`: status, `cancel`, params (`init`, `prep`), and "is the count above zero" of the failed and attention counts |
| `stage` | `core_processingrunstage.status`, by step |
| `job` | `platform_go_jobs`: status, `live` (lease not expired), `attempts`. A token is fresh for each claim, so the number of the claim names it |
| `istat`, `item`, `snap` | a scope item: status; revision at submission, prepared resume, attempt count; its frozen kernel snapshot |
| `flow` | a candidate's workflow: revision, current resume, claim (run, token, `live`) and `held`: what `retainApplicationWork` would find |
| `app` | `platform_applications.status` of a volunteer (a resume in one rank of wishes), `absent` before an import brings it |
| `decisions` | number of `core_agentdispatchdecision` rows by run, candidate, resume |
| `sess`, `task` | memory of the worker goroutine and of its `processItem` goroutines |

| code | actions |
|---|---|
| createRun, cancelRun | `CreateRun` (with the retry entry of `actions.go` as `RetryAllowed`), `CancelRun` |
| worker, executeJob, heartbeat | `Claim`, `Heartbeat`, `LeaseLapses`, `CheckLease`, `Decide`, `JobDone`, `Crash` |
| executeRun, beginStage, finishStage | `ReadRun`, `BeginStage`, `MarkStage`, `TestStage`, `FinishStage`, `Initialize`, `ListItems`, `Abort`, `StepFails` |
| prepareRunSnapshots, freezeCase | `LookAtCase`, `SaveCase`, `SnapshotsReady` |
| prepareItem | `PrepareItem`, `PrepareItemFails`, `ItemsPrepared` |
| processItem, first transaction | `StartItem` |
| processItem between its transactions | `RenewClaim`, `ClaimLapses`, `SaveArtifact`, `TaskInterrupted` |
| processItem, second transaction | `DropResult`, `SkipResult`, `CancelItem`, `CommitRefused`, `AcceptItem`, `RejectItem`, `FailItem` |
| analyzeItems, summarizeRun, stopRun | `RoundDone`, `Finalize`, `StopRun`, `Tally` |
| manualAssign, mutateAttempt, invalidateCandidateInputs, import, commitAllocation | `ManualAssign`, `MutateAttempt`, `EditCandidate`, `ImportResumes`, `AllocationAssigns` |

### Allocation

| variable | code |
|---|---|
| `scope` | `platform_allocation_scopes`: lease token (task and generation), `live`, `paused`, `revision`, `next_sequence` |
| `tasks` | `platform_allocation_tasks`, and of each generation the status of its plan |
| `items` | `platform_allocation_work_items` of each member: qualification, task, status, observed revision |
| `member` | membership status, latest qualification, is its source still valid |
| `receiving`, `targets` | demands in reception; `platform_assignment_targets` |
| `sess` | memory of a worker: frozen snapshot, plan of the kernel, error code |

| code | actions |
|---|---|
| claimAllocation | `ClaimTask`, `ClaimNew`, `ClaimNothing` (each with the clean-up of expired tasks) |
| processAllocation, recordAllocationPlan | `Process`, `Propose`, `KernelFails` |
| commitAllocation, lockAllocationLease | `Commit`, `CommitSimulation`, `SnapshotStale`, `LeaseLost` |
| finishAllocationFailure | `Finish` (after `TransactionFails`, `KernelFails` or `SnapshotStale`) |
| createAllocationTask, retry, cancel, pause and resume, enqueuePoolAllocation, demandReceptionAPI | `CreateTask`, `RetryTask`, `CancelTask`, `SetPaused`, `AllocateOne`, `SetReception` |
| savePoolAssessment, tag revision, invalidateCandidateInputs, source triggers, closePoolMemberships | `Admit`, `ReviseTags`, `EditCandidate`, `SourceBreaks`, `CloseMember` |

The kernel's answer is any plan over the frozen snapshot that the platform's recomputation could
accept; *which* plan that is belongs to `AllocationPolicy`.  `AllocationContract` has one
action per thing a user can observe: a member enters or leaves, a demand opens or
closes, the scope is paused, a whole plan is committed.  The refinement maps a member to
`place` (absent, eligible, allocated, out) and everything about tasks, leases, items
and workers to nothing.

### The services

`TaskCenter`: `Claim` (find a due plan and lock it), `Resolve` (creator, previous run, candidates: a
transaction of its own), `FireRun`, `FireNothing`, `Rollback`; users create, edit, pause, resume,
cancel, trigger and submit (`User`); deletions go statement by statement (`Sweep`, `Remove`,
`CommitDeletion`), because deleteRow reads what refers to a row before it deletes the row.
`Imports`: `Begin`, `Install`, `Commit`, `CommitUnheard`, `Fail`, `Crash`, and the life of an item that
reads the file (`Prepare` … `Finish`).
`Maintenance`: `Enqueue`, `Claim`, batches with a slot and a call of the model (`Works`), `Renew`,
`Crash`, edits of schools; the slots are purged as Redis does it.
`PoolPolicy`: `Show`, `Put`, `Conflict` (a client edits what it has seen), `EditJobs` (standards derive
from jobs), `Freeze`, `Validate`, `Save` (an assessment in three steps), `Allocate`, `Clean`, `Reprocess`.
`ModelConnection`: every row is read by a statement of its own (`ReadRow`), by administrators (`Patch`),
by the test (`Probe`, `Record`) and by callers (`Check`, `Call`).
`Login`: `Callback`, `Take`, `Identify`, `SessionToken`, `Pend`, `Complete`, with repeated requests,
`Logout`, `SetActive`, `Expire`.
`Directory`: one action per request, since each runs under one advisory lock.
`AllocationPolicy`: `Consider` holds one member against one demand, `Decide` settles it.

The services share no state with each other in the model: the rows they have in common in the
code are written by one of them and only read, or not touched, by the others.  `Services` therefore
composes them as alternatives: `part` is chosen at the start and only that service
moves.  Its state space is the sum of theirs, not the product, and every behaviour of one service
is one of `Services`.  It exists so that one TLC run and one set of names
covers the eight of them.

### Abstractions

* *Time.*  A lease is valid or not.  It may lapse once its holder is gone, or,
  for a worker in `Slow`, while the holder stalls (a long pause, a database
  that hangs).  `Slow = {}` is the assumption that a live worker heartbeats in time.
* *The model call* is the time between `StartItem` and the end of the task; its
  result is any of acceptance, rejection, failure, interruption.
* *The policy* is the preflight verdict (`ready`, `unadmitted`, `unmatched`,
  `misconfigured`) and the choice of the current volunteer from the frozen wishes.
* A lease of a scope or of a maintenance job works the same way; a tick of `TaskCenter` is the
  unit of its calendar, in which only order and period matter.
* Names, texts and addresses are members of small sets; a file is the number of
  the import that brought it; a school's province is "blank", "by hand", or "the answer for name n".
* Ranks of a demand are the tuple the code compares.
* `held` folds the status of the workflow, attempts and pool memberships into six values, the ones
  retainApplicationWork, manualAssign and the pipeline tell apart.
* `Wishes` are all the wishes a candidate may ever have.  Those in `Late` need not be there from the start:
  `ImportResumes` may bring them in any state of the candidate.
* The legacy application status `review_rejected` has no writer in the
  code and is left out.
* `Crash` and `StepFails` stand for every exit of a process, shutdown, lost
  connection and failing call; they can hit between any two actions.

Operators commented as *Mutant* are not part of the specification.  Each is a definition with a
plausible bug in it, used to test that a property notices the bug.

## Runs

`CHECK_DEADLOCK FALSE` is set throughout: when all runs have ended and every bound is
used up, the system is idle and rightly so.

| run | question | distinct states |
|---|---|---|
| `crash` | a full run of one candidate with two wishes, the second perhaps imported later, two workers, two faults anywhere, two manual changes, a cancellation, all verdicts | 1 662 000 |
| `retry` | a retry of a recorded decision, with a later wish, edits, assignment, allocation and a crash in between: who is finished stays so | 2 308 000 |
| `stall` | a worker sleeps through both leases and wakes up anywhere | 426 000 |
| `progress` | liveness of one run through a fault, a manual change, a cancellation | 31 000 |
| `conflict` | two runs that want the same candidate, with a crash: claims and liveness | 500 000 |
| `alloc` | two members who share a demand, two workers, one user change, one fault: the contract | 418 000 |
| `alloc_live` | one member, two user changes, one fault: queue and liveness | 201 000 |
| `services` | the eight services, each on its own | 181 000 |
| `lostjob`, `falseskip`, `replace`, `identity` | the findings: the expected result is a violation | — |

Safety as long as no live worker loses its lease (`Slow = {}`):
`UnfinishedRunIsClaimable`, `SkipOnlyAfterChange`, `EndedRunHoldsNoClaim`,
`ResumableItem`, `DecisionOnExpectedRevision`.  Safety whatever stalls:
`FinishedRunIsSettled`, `TerminalItemsStay`, `ClosedApplicationsStay`,
`FinishedCandidatesStay`, `WritesOnce`, `OneFreshTask`, `CancelWins`, `NoLateDecision`.
The first group needs its assumption: `lostjob` and `falseskip` break two of
them with one stalled worker.

`EndedRunHoldsNoClaim` makes an exception of the claims a recovered worker leaves alone: retainApplicationWork
settles the item as `success` and keeps the claim.  Allocation may have taken the candidate over; or
the claim lapsed with its crashed worker, another run archived the candidate, and the first run was resumed
and found it archived.  Such a claim is dead, or its candidate is settled, so nobody waits for it.
The second case takes a crash and an unadmitted candidate in two runs; `conflict` has `Verdicts = {"ready"}` to
stay small, and the theorem `EndedRunsHoldUpNobody` covers the rest.

Bounds.

* *One or two runs, candidates, workers, wishes.*  A claim, lease or revision is contested
  by two parties; a third would wait like the second.  A rejection continues with
  the next wish, so two wishes show the step from one to the next and the step after the last.
* `MaxAttempts`, the claims of one job: the code has no limit, and the action `Claim` stops at it.
  In the liveness runs it exceeds `MaxFaults`, so that it never is what stops a run.
* `MaxFaults`, crashes and failing calls: two in `crash`, so that a recovery can fail again; one or
  none where the question is another one.
* `MaxRevision`, the revision up to which users still change a candidate: enough for a change
  during the first assessment and one during the second.  The `retry` run has four: a later
  import, then assign, dispatch, feedback.  Nobody cancels in it, to keep it small; `crash`, `stall` and `progress` have cancellations.
* `Late`: the second wish, in `crash` and `retry`.  So a rejection may end in the talent pool because the second wish
  is not there yet, and the import of it then finds the candidate there.
* *Allocation.*  Two members suffice for a plan that is partly stale and for two tasks that want the same
  member; the generation boundary (3) is the code's and is reached with `MaxFaults` 1, because every user change
  can make a snapshot stale as well.  Liveness uses one member, since members meet only in the plan.
* *Services.*  Two workers, schedulers, requests or identities wherever they compete; one
  schedule, school, resume or item where a second one would only repeat the first.  `MaxTime` 4 with
  `Period` 2 gives an occurrence that is missed while a run is going; `MaxImports` 3 a file
  that is replaced while an item of the first import and one of the second are open; `MaxVersion` 4 two
  edits after the first policy; `MaxTokens` 2 a token that is replaced while a login is under way.
  The snapshots of `AllocationPolicy` are in `MCServices`: confidences on both sides of the threshold,
  demands that differ in one rank each.
* `WorkerSymmetry` is used where workers are interchangeable and no temporal
  formula under fairness is checked (crash, alloc).

## Fairness

`FairSpec` assumes weak fairness of each worker's own steps and of the
end of each `processItem` goroutine (goroutines are scheduled, and every external call has a
timeout), of the expiry of a lease and of a claim whose holder is gone (the
database clock advances), and of *some* worker claiming a claimable job (workers
poll, `runs.go:312`).  The claim is fair per job, not per worker: which worker gets it is
not determined.  Nothing is assumed of users, allocation, faults, heartbeats or renewals.

Liveness of runs is checked with `Slow = {}`; with a stalled worker the lost job below refutes it.

*Allocation*: each worker goes on (`allocationWorker` polls every two seconds) and a lease nobody
holds expires.  *TaskCenter*: `Claim` is weakly fair, the two later transactions of a trigger are
strongly fair, because a rollback takes them back and the next poll tries again: it is assumed that not *every*
attempt fails.  An open transaction of a deletion ends.  *Maintenance*: workers go on, *some* worker claims
what can be claimed, leases of the dead and entries in Redis expire by the clock.  Faults are bounded in all of
them; the other services have no liveness property and no fairness.

## Proofs

All theorems hold for every value of the constants.  Those about `ProcessingRuns` assume
`ConstantsAssumption` (the scopes, kinds, wishes and late wishes are typed; only step2 runs
are forced; a retry is forced), for any number of runs, candidates, workers
and wishes; those in `ProcessingRunsProofs` for any set `Slow`, those in `ProcessingRunsLeases` for `Slow = {}`,
the assumption that a worker which is alive renews its leases in time (`executeJob` and `processItem` do so
every few seconds; crashes, failing statements and shutdowns stay unrestricted).  Those about `Allocation` that use the contract (its two theorems,
and `AllocationTypes`) assume `AllocationAssumption` (finitely many members, a set of demands for each);
`CallsAreLimited` assumes `LimitAssumption` (the configured number of calls is a number) and `FilesAreTheRows`
`ImportsAssumption` (so is the bound of imports).  `RunsStartWhenDue` assumes `PeriodAssumption` (a day is at least one tick)
and `ExpectedPlanIsBest` `SnapshotAssumption` (a snapshot is finite, its ids are positive, what is compared are
integers).  `ServicesAreTyped` assumes these, `BoundsAssumption` (the table of candidates is finite, the bounds of
faults, logins and tokens are numbers) and `BlankAssumption` (a job may have no responsibilities).  The others need no
assumption on the constants.

| theorem | property |
|---|---|
| `TypeCorrect` | `TypeOK` |
| `CancellationWins` | `CancelWins` |
| `SettledInvariant` | `SettledInv`, the inductive invariant below |
| `FinishedRunsAreSettled` | `FinishedRunIsSettled` |
| `TerminalItemsNeverMove` | `TerminalItemsStay` |
| `NoDecisionIsLate` | `NoLateDecision` |
| `ClosedApplicationsAreFinal` | `ClosedApplicationsStay` |
| `DecisionsAreUnique` | `WritesOnce` |
| `FinishedCandidatesAreFinal` | `FinishedCandidatesStay` |
| `FreshTaskIsUnique` | `OneFreshTask` |
| `LeaseInvariant`, `SnapshotInvariant`, `ClaimInvariant` (ProcessingRunsLeases) | `LeaseInv`, `OutcomeInv`, `SnapshotInv`, `ClaimInv`, the inductive invariants below |
| `UnfinishedRunsAreClaimable` (ProcessingRunsLeases) | `UnfinishedRunIsClaimable` |
| `SkippedItemsHaveChanged`, `DecisionsAreOnTime` (ProcessingRunsLeases) | `SkipOnlyAfterChange`, `DecisionOnExpectedRevision` |
| `ResumedItemsAreUsable` (ProcessingRunsLeases) | `ResumableItem` |
| `EndedRunsHoldUpNobody` (ProcessingRunsLeases) | `EndedRunHoldsNoClaim` |
| `LeasesAreOwned`, `OnePlanWins` (AllocationProofs) | `LiveLeaseIsOwned`, `OnePlanInEffect` |
| `AllocationImplementsContract` (AllocationProofs) | `ImplementsContract` |
| `NobodyIsAllocatedTwice` (AllocationProofs) | `OneTargetPerMember`, `SequenceIsTotal` of the contract |
| `QueueStaysConsistent`, `NobodyWaitsUnseen` (AllocationQueue) | `QueueIsConsistent`, `NoLostWakeUp` |
| `CancelledStayOut`, `AllocationTypes` (AllocationQueue) | `CancelIsNotUndone`, `TypeOK` |
| `PlansRunOneAtATime`, `RunsStartWhenDue` (RecordsProofs) | `OneRunPerPlan`, `TriggersAreDue` |
| `UsedConnectionsAreTested` (ServiceProofs) | `UsedIsTested` |
| `HandMadeStays`, `CallsAreLimited` (ServiceProofs) | `HandsOff`, `CallsWithinLimit` |
| `NoEditIsLost`, `NoEditMissesAnAssessment` (RecordsProofs) | `EditsBuildOnWhatTheySaw`, `StaleOnlyIfOverlapped` |
| `FilesAreTheRows` (RecordsProofs) | `FilesMatchRows` |
| `LoginsAreFresh` (ServiceProofs) | `LoginIsFresh` |
| `AddressesArePeople`, `NoGrantIsInherited` (ServiceProofs) | `EmailsIdentifyPeople`, `GrantsHaveAccounts` |
| `ExpectedPlanIsBest` (RecordsProofs) | `PlanIsBest` |
| `ServicesAreTyped` (ServicesTypes) | `ServicesTypeOK` |

*Why FinishedRunIsSettled needs an invariant.*  `summarizeRun(finish=true)`
does not look for open items: that none is left follows from where the worker
that calls it has been, or from the stage rows and params it trusted after a restart.
`SettledInv` says exactly that.

* `Evidence`, of each session: at `finalize`, and at the `finish` of the last
  working step, every item of the run is settled; in a step1 run every item that is
  no longer to do is settled; the remaining clauses tie the program counter to the step.
* `RunEvidence`, of each run: items exist from the submission on and only for the
  frozen candidates; a run with a job was submitted; if it is final, or if the row of its last
  working step says `success`, every item is settled.

It is inductive because settled items stay settled (`ItemMoves`, proved
over every action and reused for `TerminalItemsNeverMove`): evidence that a stalled worker has
collected cannot become false.  No lease is mentioned, so stalls do no harm.
The proof has one step per action, grouped by what the action can disturb
(`WalkEvidence`, `ListEvidence`, `JobEvidence`, `Step4Evidence`, `PrepareEvidence`).

`CancelWins` is inductive by itself given `TypeOK`: the three writers of the status
after a cancellation all look at it.  `NoLateDecision` uses `FinishedRunIsSettled`: a decision needs an open
item, and a final run has none.  `ClosedApplicationsStay` goes through each writer of `app`.

*Three properties that the guards of a commit do not state.*

* `WritesOnce`: a decision settles its item or closes its application (`CommitDecides`); both are final,
  and a later commit needs an open item and an open application (`WrittenInv`).
* `FinishedCandidatesStay`: the commit does not look at what holds the workflow.  `HeldInv`: a finished
  workflow that still carries a claim (the last wish was found closed by another run after the claim
  lapsed) has no open wish left, and an import that opens one voids the claim in the same transaction;
  `PreparedInv`: the resume an item is prepared for is a wish.  The commit of such a claim is therefore
  refused by `applicationState`.  `EntersPool`: each way into the talent pool has just counted the open
  applications and found none.  `LeavesPool`: of all steps only a manual assignment leads out, and that
  needs an open application, hence an import in between; it settles no item and records no decision.
* `OneFreshTask`: the token of a claim is the attempt count of the item, which only grows while a
  goroutine of the item is running (`TriesGrow`; createRun resets it, but nobody works on a run before
  it is created), so that two workers never hold the same one (`TokenInv`).

The three strengthenings held in runs of the instances above before they were proved.

*With leases renewed.*  Three invariants on top of `SettledInv`, each using the ones before it.

* `LeaseInv`: a busy worker holds the lease of its job under its own token, so no two work on one run; the
  heartbeat alone would not say so, because most writes of a stage do not look at the lease.  `OutcomeInv`: a worker that is
  about to mark its job done has closed the run before, and one that executes finds it open, so that
  an unfinished run always has a job to claim.
* `SnapshotInv`.  `Row`: a frozen resume is the prepared one, and every wish nobody can assess (closed, or not imported
  yet) is passed over unless the revision has advanced; an item is skipped only then.  `Goroutine`: what a model call keeps in memory for minutes is
  still the row of the item, at the revision it expects, and the claim is its own and live as long as that is
  the revision; therefore a result that is not fresh is the result of a changed workflow, and the artifact
  saved late overwrites nothing.  `Looks`: the worker that freezes an item reads the applications and saves
  later without a lock; it passes over all that nobody can assess at the save unless the revision has advanced in between.
* `ClaimInv`.  `Walk`: a worker in step *n* has the earlier stage rows at `success`, and works on a row that is not.
  `Claimed`: a run with a claim, live or lapsed, has all rows before step4 at `success`; so a worker that takes
  the run over never prepares those items again, and every way on (commit, cancellation, stop, skip) gives
  the claim up, except the retained items above.

Its proofs rest on one lemma per table of what a step may do to it (`FlowStep`, `HoldStep`, `ClosedStep`, `StatusStep`,
`SnapshotStep`, `TaskStep`, `StageKept`, `JobRowStep`).  The invariants held in runs of `crash`, `conflict` and larger variants
(12.9 million states) before they were proved; the earlier form of `EndedRunHoldsNoClaim`, without the second
exception, did not, and was corrected.

*Allocation.*  `Fenced` is the inductive invariant behind both theorems: the lease, while it is live, names a task
that runs in that generation (`LeaseOwned`); a task that is not completed has no plan in effect and one that
is has one (`OneWins`, of each row); a worker that is not idle remembers a task and a generation that
exist (`OnTask`).  A worker that holds the lease is therefore the only one whose generation runs (`HolderRuns`), and what it
does to its task cannot disturb another lease; each way to end a generation gives the lease back or, for
pause and expiry, leaves none alive.

*The contract.*  The second half of `AllocationProofs` shows that every step maps to a step of the contract or to a stutter
(`NextRefines`, a lemma per group of actions).  The commit is the hard one (`CommitRefines`).  It needs three
things at once: the plan in the worker's memory is a plan for the snapshot it was computed from
(`PlansAreSound`, kept from `Process` to `Commit`); that snapshot equals the present one, so that everybody in it still qualifies
and every demand in it is still receiving (`SameInputs`); and every older target has a smaller
number than the plan's (`LedgerInv`), so that what the commit adds is exactly the plan.  `LedgerInv` is
an invariant of the contract alone (`ContractKeepsLedger`), and the detailed protocol inherits it step by
step; `NobodyIsAllocatedTwice` is what it says.  The clean-up of `Process` is unseen because whom it marks was out already.

*The queue.*  Neither the consistency of the items nor the wake-up is inductive alone: a wake-up opens rows, and what it
opens depends on who leased what.  `Queue` relates the items to the other tables.

* `InLine`: the items of a member that are open have its present qualification, and only the last one is active.
  Therefore waking, enqueueing or leasing never makes a second one, and an item that a user cancelled is never
  followed by an older one that comes back.
* `AllOwned`: what is leased belongs to a task that runs and covers the member; `Current`: a task that may be claimed
  is in a later generation than any worker that remembers it, so a stalled worker cannot settle what the next leased.
* `AllAware`: what waits was decided on by a completed task, at a revision not later than the present one; with the
  same revision nothing suitable is receiving.  Whoever opens a demand or admits a member advances the revision.
* `Covers`: a plan places exactly those of its snapshot who can be placed, and whose items the task leased are in the
  snapshot.  Together with `SameInputs` a commit leaves waiting only those for whom nothing is receiving.

`Typed` then adds that snapshots and plans are of their types, which needs the soundness of plans from the contract.
`Queue` held in the run `alloc` and in 15 million states of a larger instance with one member before it was proved.

*The services.*  The proofs are about `Services!Spec`; a step of another service leaves the invariant alone.

* `LastIsOnly`: only the last run of a plan may be active, and the plan names it.  A trigger checks that
  run under the lock of the plan before it appends the next.
* `Clocked`: what a scheduler has locked stays active and due until its transaction ends, because every other writer
  asks for the lock; the runs of a plan were all due before its next occurrence; and that occurrence is a whole
  number of days after the first, which `nextScheduleTime` keeps whether it coalesces missed ones or not.
* `Tested`: the recorded fingerprint, and whatever an actor is about to record or use, is of a connection
  that has passed a test.  It does not matter how torn the reads were.
* `Shown`: what a client holds with the current version is the current policy, because every change of
  the policy takes a new version.  `Fresh`: an assessment saved without an overlapping change has the content of the policy.
* `NamesReadOnce`: for each school a worker asks by one name only, the one it has read when it began, so that
  comparing the name at the save is comparing it with the name the answer is about.
* `CallsHoldSlots`: whoever calls the model is in the set of slots, under a name nobody else has, and the set is
  never larger than the limit; the purge takes only slots whose owner no longer calls.
* `Filed`: a file on disk has the content of the import that wrote it; an application has it or had it (nothing
  removes a file that a later import replaced), or it belongs to the import in progress, or was left by a crash; no row
  refers to a file of an import that has not committed.
* `Directory`: the two properties of grants and accounts with their types; each writer of an address looks at all
  grants and accounts in its transaction.
* `TakenOnce`: an entry of Redis that somebody has taken is gone for the others, so a login is completed by one request.

*The plan.*  `PlanIsBest` says what `expectedAllocation` returns without following it; `PlanInvariant` is what the walk
keeps true.  `InOrder`: whoever is decided came before whoever is not.  `Tally`: the running supply, last sequence
and next sequence are those of the decisions made so far, so that for the first member they are what the property
ranks it with (`TotalsAreForFirst`).  `BestSoFar`: its decision is the best among the demands held against it so far; one
demand more (`NotTaken`, `TakenOver`, `NotTakenOver`) needs that ranks are totally ordered, which they are because the
last of the five numbers is the id of the demand.  A decision once made is never looked at again, since
it depends on earlier members only (`PlacedStays`).

*The types of the services.*  `Typing` has a part per service, and `OthersStayTyped` says that a service that is not
chosen keeps its own.  Four parts say more than the types: the open import has a number (so the file it leaves behind
after a crash has one), what a client was shown was a policy (so editing it gives one), supply and last sequence are
numbers (so ranks are), and the directory, whose writers keep keys unique only together with addresses, is typed
by `Directory`.  The rows and workers of the maintenance queue are typed by `NamesReadOnce`.

Every invariant and every action property of a passing run is proved.  Only model-checked is what lies outside what the
provers used here support, fairness and ENABLED, hence liveness (`RunEnds`, `CancelEnds`, `ConflictEnds`, `EligibleIsServed`, `DueIsServed`, `JobEnds`).

## Findings

* `lostjob` — `beginStage` (`runs.go:396`) checks the cancellation only, neither lease
  nor status.  A worker that stalls before it, while another one finishes the run,
  sets the finished run back to `running`; its job is `done` and is never claimed again.
* `falseskip` — the commit of `processItem` (`processing.go:432`) records
  `skipped_manual_change` also when only the claim was taken over, so a late result can settle a
  candidate nobody changed.  `docs/需求描述.md:229` and `docs/后端设计.md:446` name a changed
  revision as the cause; `docs/前端设计.md:189` does mention the token.
  These documents are historical (`src/README.md:56`), but the name of the status and the message written with it
  ("分析期间流程已变化，结果未写入", `processing.go:433`) still say that the workflow has changed.

* `replace` — a replace import checks for active runs once (`imports.go:384`) and deletes candidate by
  candidate afterwards; a run submitted in between loses its items while its total still counts them.
* `identity` — an import gives an application without a history to another person (`imports.go:670`), but an item of
  the old person that is already prepared goes on, and its decision lands on the old person's workflow.

The first two need a worker that outlives its lease, the other two no fault at all.  All are
quoted in full in `PROJECT.json`.

## Remarks on the code

Met while modelling.  No property is violated by them.

* Two allocation tasks may list one member.  The item belongs to the first; cancelling that task cancels the item
  although the other task is pending, which then completes without the member.
* commitAllocation does not advance the revision of the workflow: a forced reassessment in flight cancels
  the fresh attempt when it commits.
* On a change of the policy a membership becomes `needs_reanalysis` while the application stays
  `pending_allocation`.
* validateLiveJobs reads the policy without a lock; hence the exception "overlapped" in `StaleOnlyIfOverlapped`.
* A schedule whose scope is a status filter ends as failed with the message about a fixed scope if a
  candidate it resolved is deleted before the count (`schedules.go:345`).
* A candidate in the talent pool whose new application is imported gets a run, but no run, forced or not, ever assesses
  it: the status stays `talent_pool` and retainApplicationWork (`applications.go:135`) settles the item.  Only a manual
  assignment picks the application up (`workflows.go:157` refuses only who has passed).
* A file that a later import of the same application replaces stays in the media directory: `close` (`imports.go:777`) takes
  files back only when the import fails, and nothing else removes one.  `FilesMatchRows` allows for it.
* An ambiguous COMMIT of an import takes back files that committed rows refer to: the exception `lost` of
  `FilesMatchRows`.  The enrichment of schools is queued after the commit (`imports.go:739`) and lost by a crash in between.
* A database error in the heartbeat of a maintenance job fails the job for good.
* PATCH of the model connection reads the current values outside its transaction, so one of two
  concurrent changes of different fields can be undone.  A late failing test of an old connection deletes
  the fingerprint of the newer one, which is safe but needs a new test.
* DeleteUser deletes the displayed contact's grant even if it belongs to another employee; and while an account of another
  name displays a grant of an employee, each synchronisation of that employee fails.
* `ai_concurrency`, which `src/internal/compat/spec.json:8184` presents as the limit shared by all background tasks
  ("所有后台任务共享的模型调用并发上限"), is never read: `runs.go:653` reads `ai_concurrency_limit`.  The model takes the limit as a constant.

## What is not modelled

Of the runs: the validation of a submission, the continuation entry of createRun with an expected
revision, the Redis wake-up, the reuse of earlier analyses.  Of applications: departments, screeners
and time slots of an attempt; attempts appear as far as runs see them (`held`).  Of allocation: the pin of the kernel and
the integrity hashes (a mismatch is a failing transaction), routing filters of the lists.  Of imports: parsing of
spreadsheets and archives, the import of jobs.  Of the directory: groups of an account, department trees, permission
checks of single requests.  Serialisation, filters, pagination, exports and analytics only read; the frontend,
text extraction (an external program), contracts and migrations (run once) keep no protocol.
The unmodelled remainder of `src/internal/platform` is of these kinds, which is why the map stops where it does.
`PROJECT.json` has the reason for each component.

## Plan

Done: `ProcessingRuns`, `Allocation` with its contract, `AllocationPolicy`, schedules and deletions (`TaskCenter`),
model slots and the maintenance queue, imports, policy, connection, login and directory.

Left, in this order:

1. **RunContract**: an abstract run (submitted, items settle once, ended), refined by
   `ProcessingRuns`; its abstraction of an attempt refined by a module of attempts behind `held`.
