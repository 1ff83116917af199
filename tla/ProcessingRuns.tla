---------------------------- MODULE ProcessingRuns ----------------------------
(***************************************************************************)
(* The durable queue of processing runs (internal/platform/runs.go) and    *)
(* the candidate pipeline its workers execute (processing.go,              *)
(* preparation.go, applications.go).                                       *)
(*                                                                         *)
(* A run freezes a set of candidates.  A worker claims the run's job row   *)
(* under a 20 s lease, walks the run's stages and, in step4, claims each   *)
(* candidate's workflow under a second lease, calls the model outside any  *)
(* transaction and commits the result if the claim and the workflow        *)
(* revision are still the ones it claimed.  Every database transaction or  *)
(* autocommitted statement is one action; what happens between two of them *)
(* interleaves with the other worker, with users and with crashes.         *)
(*                                                                         *)
(* Time is abstracted to "the lease is still valid": a lease may lapse     *)
(* once its holder is gone, or while its holder stalls (a worker in Slow). *)
(***************************************************************************)
EXTENDS Integers, FiniteSets

CONSTANTS
    Runs,         \* processing runs that may be submitted
    Candidates,   \* candidates
    Workers,      \* worker goroutines, of any number of processes
    NoRun,        \* "active_processing_scope_item_id IS NULL"
    Scope,        \* [Runs -> SUBSET Candidates], the frozen candidate ids
    Kind,         \* [Runs -> Kinds], the submitted step
    Forced,       \* [Runs -> BOOLEAN], forceReprocess(run)
    Retry,        \* [Runs -> Volunteers \cup {0}], retry_resume_id, 0 for none
    Volunteers,   \* ranks of volunteers (resumes), positive naturals
    Wishes,       \* [Candidates -> SUBSET Volunteers], the ones a candidate may have
    Late,         \* the same, of those that a later import may bring
    Cancellable,  \* the runs somebody may cancel
    Slow,         \* the workers that may stall past a lease
    Verdicts,     \* the preflight statuses that the frozen data may yield
    MaxAttempts,  \* bound: claims of one job
    MaxFaults,    \* bound: crashes, shutdowns, failed calls, lost connections
    MaxRevision   \* bound: workflow revisions reached by manual changes

Kinds == {"all", "step1", "step2", "step3", "step4"}
AllVerdicts == {"ready", "unadmitted", "unmatched", "misconfigured"}

ASSUME ConstantsAssumption ==
    /\ NoRun \notin Runs
    /\ Scope \in [Runs -> SUBSET Candidates]
    /\ Kind \in [Runs -> Kinds]
    /\ Forced \in [Runs -> BOOLEAN]
    /\ Volunteers \subseteq Nat \ {0}
    /\ Retry \in [Runs -> Volunteers \cup {0}]
    \* submitRun takes force_reprocess for step2 only; a retry is such a run.
    /\ \A r \in Runs : /\ Forced[r] => Kind[r] = "step2"
                       /\ Retry[r] # 0 => Forced[r]
    /\ Wishes \in [Candidates -> SUBSET Volunteers]
    /\ Late \in [Candidates -> SUBSET Volunteers]
    /\ Cancellable \subseteq Runs
    /\ Slow \subseteq Workers
    /\ Verdicts \subseteq AllVerdicts
    /\ MaxAttempts \in Nat /\ MaxFaults \in Nat /\ MaxRevision \in Nat

ActiveRun == {"pending", "running", "waiting_conflict", "cancelling"}
FinalRun == {"success", "partial_failed", "needs_attention", "failed", "cancelled"}
TerminalItem == {"success", "needs_attention", "failed",
                 "skipped_manual_change", "cancelled"}
OpenItem == {"pending", "processing", "waiting_conflict"}
ClosedApplication == {"ai_rejected", "department_rejected", "passed"}
\* "absent": no resume of that rank has been imported yet.
Applications == {"absent", "pending", "assessing", "blocked", "pending_allocation",
                 "needs_reanalysis", "pending_dispatch", "department_review",
                 "cancelled"} \cup ClosedApplication

\* What retainApplicationWork finds: an effective attempt ("department"), a
\* pending_allocation membership ("pool"), an archived workflow, or a finished one.
Holds == {"free", "archived", "passed", "talent_pool", "department", "pool"}
Finished == {"passed", "talent_pool"}

Steps == {"queued", "initialize", "preparing",
          "step1", "step2", "step3", "step4", "finalize"}
StageStatus == {"absent", "pending", "running", "success", "partial_failed",
                "needs_attention", "failed", "cancelled", "skipped"}

NoRevision == -1

VARIABLES
    run,        \* core_processingrun: status, cancel_requested_at, params, counts
    stage,      \* core_processingrunstage: status by step
    job,        \* platform_go_jobs: status, lease, attempts (names the token)
    istat,      \* core_processingrunscopeitem.status
    item,       \* its revision at submit, prepared resume, attempt_count
    snap,       \* its kernel_snapshot
    flow,       \* core_candidateworkflow: revision, current resume, claim, what holds it
    app,        \* platform_applications.status
    decisions,  \* rows of core_agentdispatchdecision, by run, candidate, resume
    sess,       \* what each worker goroutine is doing
    task,       \* its processItem goroutines
    faults      \* faults so far

vars == <<run, stage, job, istat, item, snap, flow, app, decisions, sess, task, faults>>
\* The rows a candidate transaction writes.
candidateRows == <<istat, item, snap, flow, app, decisions>>

NoSnapshot == [frozen |-> FALSE, cur |-> 0, rejected |-> {}, verdict |-> "ready",
               cont |-> NoRevision]
NoTask == [on |-> FALSE, token |-> 0, rev |-> 0, snap |-> NoSnapshot]
Idle == [pc |-> "idle", run |-> NoRun, token |-> 0, ctx |-> FALSE, err |-> "none",
         at |-> "queued", todo |-> {}, init |-> FALSE, prep |-> FALSE,
         view |-> {}, cand |-> {}]

-----------------------------------------------------------------------------
(* The stages of a run: stageSteps and the list createRun inserts.         *)

HasStage(r, s) ==
    CASE s \in {"queued", "initialize", "finalize"} -> TRUE
      [] s = "preparing" -> Kind[r] # "step1"
      [] s = "step1" -> Kind[r] \in {"all", "step1"}
      [] s = "step2" -> Kind[r] \in {"all", "step2"}
      [] s = "step3" -> Kind[r] \in {"all", "step2", "step3"}
      [] OTHER -> Kind[r] # "step1"

FirstStep(r) == IF Kind[r] = "all" THEN "step1" ELSE Kind[r]

NextStep(r, s) ==
    CASE s = "queued" -> "initialize"
      [] s = "initialize" -> "preparing"
      [] s = "preparing" -> FirstStep(r)
      [] s = "step1" -> IF Kind[r] = "step1" THEN "finalize" ELSE "step2"
      [] s = "step2" -> "step3"
      [] s = "step3" -> "step4"
      [] OTHER -> "finalize"

\* The step that leaves no item of the run open.
LastStep(r) == IF Kind[r] = "step1" THEN "step1" ELSE "step4"

(* Where executeRun continues when it reaches a step: finished sub-steps   *)
(* recorded in params are skipped, and step1 runs have no preparing row.   *)
EntryPc(s, r, step) ==
    CASE step = "initialize" -> IF s.init THEN "finish" ELSE "begin"
      [] step = "preparing" -> IF Kind[r] = "step1" THEN "list" ELSE "begin"
      [] step = "finalize" -> "begin"
      [] OTHER -> "test"

\* executeRun returns e; what it kept in memory is gone.
Return(s, e) == [Idle EXCEPT !.pc = "own", !.run = s.run, !.token = s.token, !.err = e]

Advance(s) ==
    LET r == s.run
        n == NextStep(r, s.at)
        step == IF n = "preparing" /\ s.prep THEN FirstStep(r) ELSE n
    IN IF s.at = "finalize" THEN Return(s, "none")
       ELSE [s EXCEPT !.at = step, !.pc = EntryPc(s, r, step)]

-----------------------------------------------------------------------------
(* Helpers of the candidate transactions.                                  *)

\* Mutants: an item waiting for a conflict counts as done; a settled item as open.
OpenWithoutWaiting(r, c) == istat[r][c] \in {"pending", "processing"}
OpenAnyItem(r, c) == istat[r][c] # "absent"
Open(r, c) == istat[r][c] \in OpenItem

Expected(r, c) == IF snap[r][c].cont = NoRevision
                  THEN item[r][c].submit ELSE snap[r][c].cont
revisionChanged(r, c) == flow[c].rev # Expected(r, c)

\* Mutant: the rejected volunteers are not passed over.
FirstOpenAny(c, rejected) ==
    IF Wishes[c] = {} THEN 0 ELSE CHOOSE v \in Wishes[c] : \A u \in Wishes[c] : v <= u

\* First volunteer of the frozen order that is not marked rejected, 0 if none.
FirstOpen(c, rejected) ==
    LET first == {v \in Wishes[c] \ rejected : \A u \in Wishes[c] \ rejected : v <= u}
    IN IF first = {} THEN 0 ELSE CHOOSE v \in first : TRUE

\* A retry considers the retried volunteer only.
Current(r, c, rejected) ==
    CASE Retry[r] = 0 -> FirstOpen(c, rejected)
      [] Retry[r] # 0 /\ Retry[r] \in Wishes[c] \ rejected -> Retry[r]
      [] OTHER -> 0

\* Mutant: only a passed application is protected.
IsOpenUnlessPassed(c, v) == app[c][v] \notin {"absent", "passed"}
IsOpen(c, v) == app[c][v] \notin ClosedApplication \cup {"absent"}
Known(c) == {v \in Wishes[c] : app[c][v] # "absent"}
\* Ranks nobody can assess: their application is finished, or not imported yet.
Unavailable(c) == {v \in Wishes[c] : ~IsOpen(c, v)}

\* Mutant: the talent pool is not left alone.
RetainedUnlessTalentPool(r, c) ==
    \/ flow[c].held \in {"passed", "department"}
    \/ flow[c].held \in {"archived", "pool"} /\ ~Forced[r]
\* retainApplicationWork: work that automation must leave alone.
Retained(r, c) ==
    \/ flow[c].held \in Finished \cup {"department"}
    \/ flow[c].held \in {"archived", "pool"} /\ ~Forced[r]

ClaimedByOther(r, c) == flow[c].live /\ flow[c].claim # NoRun /\ flow[c].claim # r
LiveClaim(c) == flow[c].live /\ flow[c].claim # NoRun

\* Mutant: only the expiry is cleared.
UnclaimedKeepsOwner(f) == [f EXCEPT !.live = FALSE]
Unclaimed(f) == [f EXCEPT !.claim = NoRun, !.token = 0, !.live = FALSE]
Invalidated(f) == [Unclaimed(f) EXCEPT !.rev = @ + 1]

SetItem(r, c, status) == istat' = [istat EXCEPT ![r][c] = status]
SetApp(c, v, status) == app' = [app EXCEPT ![c][v] = status]

\* talentPool: a wish imported after the snapshot froze keeps the candidate open.
AfterLastWish(f, c, unavailable) ==
    IF Wishes[c] \subseteq unavailable THEN [f EXCEPT !.held = "talent_pool", !.on = 0]
    ELSE [f EXCEPT !.held = "free", !.on = 0, !.resume = 0]

\* archiveWorkflow, and the end of every membership and attempt.
Archived(f) == [f EXCEPT !.held = "archived", !.on = 0]
Freed(f) == [f EXCEPT !.held = "free", !.on = 0]
\* touchWorkflow: the current resume.
Touched(f, v) == [f EXCEPT !.resume = v]

\* summarizeRun(finish=false): the counts, reduced to "is it above zero".
Summarised(r) ==
    [run EXCEPT ![r].failed = \E c \in Scope[r] : istat[r][c] = "failed",
                ![r].attention = \E c \in Scope[r] : istat[r][c] = "needs_attention"]

Executing == {"read", "begin", "mark", "test", "list", "work", "save", "finish"}
\* A worker that heartbeats: it owns a session that has not returned.
Beating(w) == sess[w].pc \in Executing
Owns(w) == /\ job[sess[w].run].attempts = sess[w].token
           /\ job[sess[w].run].status = "running"
\* Mutant: analyzeItems does not wait for its goroutines.
RunningIgnored(w) == {}
Running(w) == {c \in Candidates : task[w][c].on}
Fail(w, e) == sess' = [sess EXCEPT ![w] = Return(@, e)]
Goto(w, p) == sess' = [sess EXCEPT ![w].pc = p]
At(w, p) == sess[w].pc = p /\ sess[w].ctx

-----------------------------------------------------------------------------
(* Submission, cancellation and the job lease.                             *)

Init ==
    /\ run = [r \in Runs |-> [status |-> "none", cancel |-> FALSE, init |-> FALSE,
                              prep |-> FALSE, failed |-> FALSE, attention |-> FALSE]]
    /\ stage = [r \in Runs |-> [s \in Steps |-> "absent"]]
    /\ job = [r \in Runs |-> [status |-> "absent", live |-> FALSE, attempts |-> 0]]
    /\ istat = [r \in Runs |-> [c \in Candidates |-> "absent"]]
    /\ item = [r \in Runs |-> [c \in Candidates |->
                   [submit |-> 0, prepared |-> 0, tries |-> 0]]]
    /\ snap = [r \in Runs |-> [c \in Candidates |-> NoSnapshot]]
    /\ flow = [c \in Candidates |-> [rev |-> 0, held |-> "free", on |-> 0, resume |-> 0,
                                     claim |-> NoRun, token |-> 0, live |-> FALSE]]
    /\ app \in [Candidates -> [Volunteers -> {"absent", "pending"}]]
    /\ \A c \in Candidates, v \in Volunteers :
         v \notin Wishes[c] \cap Late[c] => (app[c][v] = "pending" <=> v \in Wishes[c])
    /\ decisions = [r \in Runs |-> [c \in Candidates |-> [v \in Volunteers |-> 0]]]
    /\ sess = [w \in Workers |-> Idle]
    /\ task = [w \in Workers |-> [c \in Candidates |-> NoTask]]
    /\ faults = 0

\* A retry is of a recorded decision (of any score: the threshold may have been
\* raised since); it is refused once the volunteer or the workflow has moved on.
RetryAllowed(r) ==
    Retry[r] # 0 => \A c \in Scope[r] : /\ \E q \in Runs : decisions[q][c][Retry[r]] > 0
                                       /\ flow[c].resume = Retry[r]
                                       /\ flow[c].held \notin Finished \cup {"department"}
                                       /\ IsOpen(c, Retry[r])

\* createRun: run, items with the workflow revision of the moment, stages, job.
CreateRun(r) ==
    /\ run[r].status = "none"
    /\ RetryAllowed(r)
    /\ run' = [run EXCEPT ![r].status = "pending"]
    /\ istat' = [istat EXCEPT ![r] =
                    [c \in Candidates |-> IF c \in Scope[r] THEN "pending" ELSE "absent"]]
    /\ item' = [item EXCEPT ![r] = [c \in Candidates |->
                    [submit |-> flow[c].rev, prepared |-> 0, tries |-> 0]]]
    /\ stage' = [stage EXCEPT ![r] = [s \in Steps |->
                    IF s = "queued" THEN "running"
                    ELSE IF HasStage(r, s) THEN "pending" ELSE "absent"]]
    /\ job' = [job EXCEPT ![r].status = "pending"]
    /\ UNCHANGED <<snap, flow, app, decisions, sess, task, faults>>

\* cancelRun, refused once the run has ended.
CancelRun(r) ==
    /\ r \in Cancellable
    /\ run[r].status \in ActiveRun
    /\ ~run[r].cancel
    /\ run' = [run EXCEPT ![r].status = "cancelling", ![r].cancel = TRUE]
    /\ UNCHANGED <<stage, job, candidateRows, sess, task, faults>>

\* Mutant: a running job is never taken over.
ClaimPendingOnly(w, r) ==
    /\ sess[w].pc = "idle"
    /\ job[r].status = "pending"
    /\ job[r].attempts < MaxAttempts
    /\ job' = [job EXCEPT ![r] = [status |-> "running", live |-> TRUE,
                                  attempts |-> @.attempts + 1]]
    /\ sess' = [sess EXCEPT ![w] = [Idle EXCEPT !.pc = "read", !.run = r, !.ctx = TRUE,
                                    !.token = job[r].attempts + 1]]
    /\ UNCHANGED <<run, stage, candidateRows, task, faults>>

\* worker: claim a pending job, or a running one whose lease lapsed, under a
\* fresh token (the attempts counter names it).
Claim(w, r) ==
    /\ sess[w].pc = "idle"
    /\ \/ job[r].status = "pending"
       \/ job[r].status = "running" /\ ~job[r].live
    /\ job[r].attempts < MaxAttempts
    /\ job' = [job EXCEPT ![r] = [status |-> "running", live |-> TRUE,
                                  attempts |-> @.attempts + 1]]
    /\ sess' = [sess EXCEPT ![w] = [Idle EXCEPT !.pc = "read", !.run = r, !.ctx = TRUE,
                                    !.token = job[r].attempts + 1]]
    /\ UNCHANGED <<run, stage, candidateRows, task, faults>>

\* executeJob's heartbeat: renew the lease by token, then look for a cancellation.
Heartbeat(w) ==
    /\ Beating(w) /\ sess[w].ctx
    /\ LET r == sess[w].run IN
       /\ job' = IF Owns(w) THEN [job EXCEPT ![r].live = TRUE] ELSE job
       /\ sess' = [sess EXCEPT ![w].ctx = Owns(w) /\ ~run[r].cancel]
    /\ UNCHANGED <<run, stage, candidateRows, task, faults>>

\* A lease lapses when its holder is gone, or stalls.
LeaseLapses(r) ==
    /\ job[r].status = "running" /\ job[r].live
    /\ \A w \in Workers \ Slow :
           ~(sess[w].pc # "idle" /\ sess[w].run = r /\ sess[w].token = job[r].attempts)
    /\ job' = [job EXCEPT ![r].live = FALSE]
    /\ UNCHANGED <<run, stage, candidateRows, sess, task, faults>>

\* The process exits, is shut down or loses the database: nothing more is written.
Crash(w) ==
    /\ sess[w].pc # "idle"
    /\ faults < MaxFaults
    /\ faults' = faults + 1
    /\ sess' = [sess EXCEPT ![w] = Idle]
    /\ task' = [task EXCEPT ![w] = [c \in Candidates |-> NoTask]]
    /\ UNCHANGED <<run, stage, job, candidateRows>>

-----------------------------------------------------------------------------
(* executeRun: the walk over the stages.                                   *)

\* The run is read once; params of that moment decide what is skipped.
ReadRun(w) ==
    /\ At(w, "read")
    /\ LET r == sess[w].run IN
       sess' = [sess EXCEPT ![w] =
                  IF run[r].status \notin ActiveRun THEN Return(@, "none")
                  ELSE IF run[r].cancel THEN Return(@, "agent_cancelled")
                  ELSE [@ EXCEPT !.pc = "finish", !.at = "queued",
                                 !.init = run[r].init, !.prep = run[r].prep]]
    /\ UNCHANGED <<run, stage, job, candidateRows, task, faults>>

\* Mutant: beginStage does not look at cancel_requested_at.
BeginStageUnguarded(w) ==
    /\ At(w, "begin")
    /\ Goto(w, "mark") /\ run' = [run EXCEPT ![sess[w].run].status = "running"]
    /\ UNCHANGED <<stage, job, candidateRows, task, faults>>

\* beginStage, first statement: guarded by cancel_requested_at only.
BeginStage(w) ==
    /\ At(w, "begin")
    /\ LET r == sess[w].run IN
       IF run[r].cancel
       THEN Fail(w, "agent_cancelled") /\ UNCHANGED run
       ELSE Goto(w, "mark") /\ run' = [run EXCEPT ![r].status = "running"]
    /\ UNCHANGED <<stage, job, candidateRows, task, faults>>

\* beginStage, second statement: the stage row.
MarkStage(w) ==
    /\ At(w, "mark")
    /\ LET r == sess[w].run
           s == sess[w].at IN
       /\ stage' = [stage EXCEPT ![r][s] = IF @ = "success" THEN @ ELSE "running"]
       /\ Goto(w, IF s \in {"initialize", "finalize"} THEN "work" ELSE "list")
    /\ UNCHANGED <<run, job, candidateRows, task, faults>>

\* finishStage, then the next step.
FinishStage(w) ==
    /\ At(w, "finish")
    /\ LET r == sess[w].run
           s == sess[w].at IN
       /\ stage' = [stage EXCEPT ![r][s] =
                      CASE s = "step4" /\ run[r].failed -> "partial_failed"
                        [] s = "step4" /\ ~run[r].failed /\ run[r].attention -> "needs_attention"
                        [] OTHER -> "success"]
       /\ sess' = [sess EXCEPT ![w] = Advance(@)]
    /\ UNCHANGED <<run, job, candidateRows, task, faults>>

\* A step whose stage row already says success is skipped.
TestStage(w) ==
    /\ At(w, "test")
    /\ sess' = [sess EXCEPT ![w] =
                  IF stage[@.run][@.at] = "success" THEN Advance(@)
                  ELSE [@ EXCEPT !.pc = "begin"]]
    /\ UNCHANGED <<run, stage, job, candidateRows, task, faults>>

\* The initialize stage pins the runtime and saves the in-memory params.
Initialize(w) ==
    /\ At(w, "work") /\ sess[w].at = "initialize"
    /\ LET r == sess[w].run IN
       run' = [run EXCEPT ![r].init = TRUE, ![r].prep = sess[w].prep]
    /\ sess' = [sess EXCEPT ![w].pc = "finish", ![w].init = TRUE]
    /\ UNCHANGED <<stage, job, candidateRows, task, faults>>

\* Any statement or external call of executeRun may fail for another reason.
StepFails(w) ==
    /\ sess[w].pc \in Executing /\ sess[w].ctx
    /\ Running(w) = {}
    /\ faults < MaxFaults
    /\ faults' = faults + 1
    /\ Fail(w, IF sess[w].err = "none" THEN "failed" ELSE sess[w].err)
    /\ UNCHANGED <<run, stage, job, candidateRows, task>>

\* The context is cancelled: the next database call returns its error.
Abort(w) ==
    /\ sess[w].pc \in Executing /\ ~sess[w].ctx
    /\ Running(w) = {}
    /\ Fail(w, IF sess[w].err = "none" THEN "ctx" ELSE sess[w].err)
    /\ UNCHANGED <<run, stage, job, candidateRows, task, faults>>

\* The list of items a stage works on, read outside any transaction.
ListItems(w) ==
    /\ At(w, "list")
    /\ LET r == sess[w].run
           s == sess[w].at
           open == {c \in Scope[r] : Open(r, c)}
           todo == CASE s = "preparing" -> {c \in open : ~snap[r][c].frozen}
                     [] s = "step4" -> open
                     [] OTHER -> Scope[r]
       IN sess' = [sess EXCEPT ![w].todo = todo,
                     ![w].pc = IF s = "step4" /\ todo = {} THEN "finish" ELSE "work"]
    /\ UNCHANGED <<run, stage, job, candidateRows, task, faults>>

-----------------------------------------------------------------------------
(* prepareRunSnapshots: freeze one item after another.  Neither the reads  *)
(* nor the save lock anything.                                             *)

LookAtCase(w) ==
    /\ At(w, "work") /\ sess[w].at = "preparing"
    /\ \E c \in sess[w].todo :
         sess' = [sess EXCEPT ![w].pc = "save", ![w].cand = {c}, ![w].view = Unavailable(c)]
    /\ UNCHANGED <<run, stage, job, candidateRows, task, faults>>

SaveCase(w) ==
    /\ At(w, "save")
    /\ \E c \in sess[w].cand, verdict \in Verdicts :
         LET r == sess[w].run
             cur == Current(r, c, sess[w].view)
         IN /\ snap' = [snap EXCEPT ![r][c] =
                          [frozen |-> TRUE, cur |-> cur, rejected |-> sess[w].view,
                           verdict |-> verdict, cont |-> NoRevision]]
            /\ item' = [item EXCEPT ![r][c].prepared = cur]
            /\ sess' = [sess EXCEPT ![w].pc = "work", ![w].todo = @ \ {c},
                                    ![w].cand = {}, ![w].view = {}]
    /\ UNCHANGED <<run, stage, job, istat, flow, app, decisions, task, faults>>

SnapshotsReady(w) ==
    /\ At(w, "work") /\ sess[w].at = "preparing" /\ sess[w].todo = {}
    /\ LET r == sess[w].run IN
       /\ run' = [run EXCEPT ![r].init = TRUE, ![r].prep = TRUE]
       /\ sess' = [sess EXCEPT ![w] =
                     IF HasStage(r, "preparing")
                     THEN [@ EXCEPT !.prep = TRUE, !.pc = "finish"]
                     ELSE Advance([@ EXCEPT !.prep = TRUE])]
    /\ UNCHANGED <<stage, job, candidateRows, task, faults>>

-----------------------------------------------------------------------------
(* prepareItem: one transaction per item for step1, step2 and step3.       *)

Settle(w, c) == sess' = [sess EXCEPT ![w].todo = @ \ {c}]
Preparing(w) == At(w, "work") /\ sess[w].at \in {"step1", "step2", "step3"}

\* The transaction ends in an error: the run is cancelled, or the application of
\* a misconfigured volunteer was closed meanwhile.
PrepareError(r, s, c) ==
    CASE run[r].cancel -> "agent_cancelled"
      [] /\ ~run[r].cancel /\ Open(r, c) /\ ~revisionChanged(r, c)
         /\ ~ClaimedByOther(r, c) /\ ~Retained(r, c)
         /\ s = "step3" /\ snap[r][c].cur # 0 /\ snap[r][c].verdict = "misconfigured"
         /\ ~IsOpen(c, snap[r][c].cur) -> "failed"
      [] OTHER -> "none"

PrepareItem(w, c) ==
    /\ Preparing(w) /\ c \in sess[w].todo
    /\ PrepareError(sess[w].run, sess[w].at, c) = "none"
    /\ LET r == sess[w].run
           s == sess[w].at
           p == snap[r][c].cur
           v == snap[r][c].verdict
       IN
       \/ /\ ~Open(r, c)
          /\ UNCHANGED <<istat, flow, app>>
       \/ /\ Open(r, c) /\ revisionChanged(r, c)
          /\ SetItem(r, c, "skipped_manual_change")
          /\ UNCHANGED <<flow, app>>
       \/ /\ Open(r, c) /\ ~revisionChanged(r, c) /\ ~ClaimedByOther(r, c)
          /\ \/ /\ Retained(r, c)
                /\ SetItem(r, c, "success")
                /\ flow' = [flow EXCEPT ![c] = IF @.held = "pool" THEN Invalidated(@) ELSE @]
                /\ UNCHANGED app
             \/ /\ ~Retained(r, c) /\ s = "step1"
                /\ IF Kind[r] = "step1" THEN SetItem(r, c, "success") ELSE UNCHANGED istat
                /\ UNCHANGED <<flow, app>>
             \/ /\ ~Retained(r, c) /\ s # "step1" /\ p = 0
                /\ SetItem(r, c, IF Known(c) = {} THEN "needs_attention" ELSE "success")
                /\ flow' = IF Known(c) = {} THEN flow
                           ELSE [flow EXCEPT ![c] = AfterLastWish(@, c, Unavailable(c))]
                /\ UNCHANGED app
             \/ /\ ~Retained(r, c) /\ s = "step2" /\ p # 0 /\ v = "unadmitted"
                /\ SetItem(r, c, "success")
                /\ flow' = [flow EXCEPT ![c] = Archived(Touched(@, p))]
                /\ UNCHANGED app
             \/ /\ ~Retained(r, c) /\ s = "step2" /\ p # 0 /\ v # "unadmitted"
                /\ flow' = [flow EXCEPT ![c] =
                              IF Forced[r] /\ @.held = "archived" THEN Freed(@) ELSE @]
                /\ UNCHANGED <<istat, app>>
             \/ /\ ~Retained(r, c) /\ s = "step3" /\ p # 0 /\ v = "misconfigured"
                /\ SetItem(r, c, "needs_attention")
                /\ flow' = [flow EXCEPT ![c] = Freed(Touched(@, p))]
                /\ SetApp(c, p, "blocked")
             \/ /\ ~Retained(r, c) /\ s = "step3" /\ p # 0 /\ v \in {"unadmitted", "unmatched"}
                /\ SetItem(r, c, "needs_attention")
                /\ flow' = [flow EXCEPT ![c] = Archived(Touched(@, p))]
                /\ UNCHANGED app
             \/ /\ ~Retained(r, c) /\ s = "step3" /\ p # 0 /\ v = "ready"
                /\ UNCHANGED <<istat, flow, app>>
    /\ Settle(w, c)
    /\ UNCHANGED <<run, stage, job, item, snap, decisions, task, faults>>

\* The error of prepareItem ends executeRun.
PrepareItemFails(w, c) ==
    /\ Preparing(w) /\ c \in sess[w].todo
    /\ LET e == PrepareError(sess[w].run, sess[w].at, c) IN e # "none" /\ Fail(w, e)
    /\ UNCHANGED <<run, stage, job, candidateRows, task, faults>>

\* All items prepared: summarizeRun, then finishStage.
ItemsPrepared(w) ==
    /\ Preparing(w) /\ sess[w].todo = {}
    /\ run' = Summarised(sess[w].run)
    /\ Goto(w, "finish")
    /\ UNCHANGED <<stage, job, candidateRows, task, faults>>

-----------------------------------------------------------------------------
(* processItem, first transaction: claim the candidate's workflow.         *)

\* Mutant: the revision is not compared when the candidate is claimed.
DueAtAnyRevision(r, c) == ~run[r].cancel /\ Open(r, c)
\* The claim is attempted: not cancelled, still open, at the expected revision.
Due(r, c) == ~run[r].cancel /\ Open(r, c) /\ ~revisionChanged(r, c)
\* applicationState accepts "assessing" for the prepared resume.
Assessable(r, c) == item[r][c].prepared # 0 /\ IsOpen(c, item[r][c].prepared)
\* The goroutine of c returns e; analyzeItems keeps the first error.
Report(w, c, e) ==
    sess' = [sess EXCEPT ![w].todo = @ \ {c}, ![w].err = IF @ = "none" THEN e ELSE @]

StartItem(w, c) ==
    /\ At(w, "work") /\ sess[w].at = "step4" /\ c \in sess[w].todo
    /\ LET r == sess[w].run
           n == item[r][c].tries + 1
       IN
       \/ /\ run[r].cancel
          /\ Report(w, c, "agent_cancelled")
          /\ UNCHANGED <<istat, item, flow, app, task>>
       \/ /\ ~run[r].cancel /\ ~Open(r, c)
          /\ Settle(w, c)
          /\ UNCHANGED <<istat, item, flow, app, task>>
       \/ /\ ~run[r].cancel /\ Open(r, c) /\ revisionChanged(r, c)
          /\ SetItem(r, c, "skipped_manual_change") /\ Settle(w, c)
          /\ UNCHANGED <<item, flow, app, task>>
       \/ /\ Due(r, c) /\ Retained(r, c)
          /\ SetItem(r, c, "success") /\ Settle(w, c)
          /\ flow' = [flow EXCEPT ![c] = IF @.held = "pool" THEN Invalidated(@) ELSE @]
          /\ UNCHANGED <<item, app, task>>
       \/ /\ Due(r, c) /\ ~Retained(r, c) /\ LiveClaim(c)
          /\ SetItem(r, c, "waiting_conflict") /\ Settle(w, c)
          /\ UNCHANGED <<item, flow, app, task>>
       \/ /\ Due(r, c) /\ ~Retained(r, c) /\ ~LiveClaim(c) /\ ~Assessable(r, c)
          /\ Report(w, c, "failed")
          /\ UNCHANGED <<istat, item, flow, app, task>>
       \/ /\ Due(r, c) /\ ~Retained(r, c) /\ ~LiveClaim(c) /\ Assessable(r, c)
          /\ SetApp(c, item[r][c].prepared, "assessing")
          /\ flow' = [flow EXCEPT ![c].claim = r, ![c].token = n, ![c].live = TRUE]
          /\ SetItem(r, c, "processing") /\ Settle(w, c)
          /\ item' = [item EXCEPT ![r][c].tries = n]
          /\ task' = [task EXCEPT ![w][c] = [on |-> TRUE, token |-> n, rev |-> flow[c].rev,
                                             snap |-> snap[r][c]]]
    /\ UNCHANGED <<run, stage, job, snap, decisions, faults>>

-----------------------------------------------------------------------------
(* processItem outside its transactions.                                   *)

\* Mutant: the claim is recognised by its run, whatever the token.
ClaimantOfRun(w, c) == task[w][c].on /\ flow[c].claim = sess[w].run
Claimant(w, c) ==
    /\ task[w][c].on
    /\ flow[c].claim = sess[w].run /\ flow[c].token = task[w][c].token
\* The test of the second transaction and of the renewal.
Fresh(w, c) == Claimant(w, c) /\ flow[c].rev = task[w][c].rev

\* Mutant: a renewal issues a new token.
RenewClaimRotates(w, c) ==
    /\ Fresh(w, c) /\ sess[w].ctx
    /\ flow' = [flow EXCEPT ![c].token = @ + 1, ![c].live = TRUE]
    /\ UNCHANGED <<run, stage, job, istat, item, snap, app, decisions, sess, task, faults>>

\* The renewal every 2 s; one that finds another claim changes nothing.
RenewClaim(w, c) ==
    /\ Fresh(w, c) /\ sess[w].ctx
    /\ flow' = [flow EXCEPT ![c].live = TRUE]
    /\ UNCHANGED <<run, stage, job, istat, item, snap, app, decisions, sess, task, faults>>

\* A claim lapses when its holder is gone, or stalls.
ClaimLapses(c) ==
    /\ LiveClaim(c)
    /\ \A w \in Workers \ Slow : ~Claimant(w, c)
    /\ flow' = [flow EXCEPT ![c].live = FALSE]
    /\ UNCHANGED <<run, stage, job, istat, item, snap, app, decisions, sess, task, faults>>

\* The extracted text is recorded in the snapshot held in memory, and that
\* snapshot is saved, whatever the row holds by now.
SaveArtifact(w, c) ==
    /\ task[w][c].on /\ sess[w].ctx /\ task[w][c].snap.verdict = "ready"
    /\ snap' = [snap EXCEPT ![sess[w].run][c] = task[w][c].snap]
    /\ UNCHANGED <<run, stage, job, istat, item, flow, app, decisions, sess, task, faults>>

-----------------------------------------------------------------------------
(* processItem, second transaction: commit what the assessment found.      *)

EndTask(w, c) == task' = [task EXCEPT ![w][c] = NoTask]
Silently(w, c) == EndTask(w, c) /\ UNCHANGED <<sess, faults>>
Ending(w, c) == task[w][c].on /\ sess[w].ctx

\* The context is gone, or (a fault) a renewal or the commit loses the database.
TaskInterrupted(w, c) ==
    /\ task[w][c].on
    /\ EndTask(w, c)
    /\ \/ /\ ~sess[w].ctx
          /\ Report(w, c, "ctx")
          /\ UNCHANGED faults
       \/ /\ sess[w].ctx /\ faults < MaxFaults
          /\ \E e \in {"ctx", "failed"} : Report(w, c, e)
          /\ faults' = faults + 1
    /\ UNCHANGED <<run, stage, job, candidateRows>>

\* The item was settled by somebody else: nothing is written.
DropResult(w, c) ==
    /\ Ending(w, c) /\ ~Open(sess[w].run, c)
    /\ Silently(w, c)
    /\ UNCHANGED <<run, stage, job, candidateRows>>

\* Another claim or another revision: the result is not written.
SkipResult(w, c) ==
    /\ Ending(w, c) /\ Open(sess[w].run, c) /\ ~Fresh(w, c)
    /\ SetItem(sess[w].run, c, "skipped_manual_change")
    /\ Silently(w, c)
    /\ UNCHANGED <<run, stage, job, item, snap, flow, app, decisions>>

\* applicationState refuses a closed application: the transaction is rolled back.
Refused(w, c, matching) ==
    LET p == item[sess[w].run][c].prepared IN
    \/ p = 0 \/ ~IsOpen(c, p)
    \/ matching /\ p # task[w][c].snap.cur
    \/ ~run[sess[w].run].cancel /\ flow[c].held = "department" /\ ~IsOpen(c, flow[c].on)

\* Mutants: the commit does not look for a cancellation; it checks nothing else.
CommittingLate(w, c, cancelled) ==
    Ending(w, c) /\ Open(sess[w].run, c) /\ Fresh(w, c) /\ ~cancelled
CommittingUnchecked(w, c, cancelled) == Ending(w, c) /\ run[sess[w].run].cancel = cancelled
Committing(w, c, cancelled) ==
    /\ Ending(w, c) /\ Open(sess[w].run, c) /\ Fresh(w, c)
    /\ run[sess[w].run].cancel = cancelled

CancelItem(w, c) ==
    /\ Committing(w, c, TRUE) /\ ~Refused(w, c, FALSE)
    /\ LET r == sess[w].run IN
       /\ flow' = [flow EXCEPT ![c] = Unclaimed(@)]
       /\ SetItem(r, c, "cancelled")
       /\ SetApp(c, item[r][c].prepared, "blocked")
    /\ Silently(w, c)
    /\ UNCHANGED <<run, stage, job, item, snap, decisions>>

\* The transaction fails on the application, or on a resume that is not the one
\* the snapshot was assessed for.
CommitRefused(w, c) ==
    /\ \E cancelled \in BOOLEAN : Committing(w, c, cancelled)
    /\ Refused(w, c, ~run[sess[w].run].cancel /\ task[w][c].snap.verdict = "ready")
    /\ EndTask(w, c)
    /\ Report(w, c, "failed")
    /\ UNCHANGED <<run, stage, job, candidateRows, faults>>

\* cancelOpenAttempts(ai, rule): only allocation can have made an attempt while
\* the claim and the revision stayed the same.
AttemptCancelled(c) ==
    IF flow[c].held = "department"
    THEN [app[c] EXCEPT ![flow[c].on] = "cancelled"] ELSE app[c]
Decided(r, c, p) == decisions' = [decisions EXCEPT ![r][c][p] = @ + 1]
Committed(f, p) == [Unclaimed(Touched(f, p)) EXCEPT !.rev = @ + 1]

\* savePoolAssessment, recommendation "dispatch".
AcceptItem(w, c) ==
    /\ Committing(w, c, FALSE) /\ ~Refused(w, c, TRUE)
    /\ task[w][c].snap.verdict = "ready"
    /\ LET r == sess[w].run
           p == item[r][c].prepared
       IN /\ app' = [app EXCEPT ![c] = [AttemptCancelled(c) EXCEPT ![p] = "pending_allocation"]]
          /\ flow' = [flow EXCEPT ![c] = [Committed(@, p) EXCEPT !.held = "pool", !.on = p]]
          /\ SetItem(r, c, "success")
          /\ Decided(r, c, p)
    /\ Silently(w, c)
    /\ UNCHANGED <<run, stage, job, item, snap>>

\* savePoolAssessment, recommendation "archive", and continueAfterAIRejection.
RejectItem(w, c) ==
    /\ Committing(w, c, FALSE) /\ ~Refused(w, c, TRUE)
    /\ task[w][c].snap.verdict = "ready"
    /\ LET r == sess[w].run
           p == item[r][c].prepared
           rejected == task[w][c].snap.rejected \cup {p}
           next == FirstOpen(c, rejected)
           f == Committed(flow[c], p)
       IN /\ app' = [app EXCEPT ![c] = [AttemptCancelled(c) EXCEPT ![p] = "ai_rejected"]]
          /\ Decided(r, c, p)
          /\ \/ /\ next = 0
                /\ flow' = [flow EXCEPT ![c] = AfterLastWish(f, c, Unavailable(c) \cup {p})]
                /\ SetItem(r, c, "success")
                /\ UNCHANGED <<item, snap>>
             \/ /\ next # 0
                /\ flow' = [flow EXCEPT ![c] = Freed(Touched(f, next))]
                /\ SetItem(r, c, "pending")
                /\ item' = [item EXCEPT ![r][c].prepared = next]
                /\ \E verdict \in Verdicts :
                     snap' = [snap EXCEPT ![r][c] =
                                [frozen |-> TRUE, cur |-> next, rejected |-> rejected,
                                 verdict |-> verdict, cont |-> f.rev]]
    /\ Silently(w, c)
    /\ UNCHANGED <<run, stage, job>>

\* saveFailure: extraction, model, evidence or reference check failed.
FailItem(w, c) ==
    /\ Committing(w, c, FALSE) /\ ~Refused(w, c, FALSE)
    /\ LET r == sess[w].run
           p == item[r][c].prepared
       IN /\ app' = [app EXCEPT ![c] = [AttemptCancelled(c) EXCEPT ![p] = "blocked"]]
          /\ flow' = [flow EXCEPT ![c] =
                        IF @.held = "pool" /\ @.on = p THEN Committed(@, p)
                        ELSE Freed(Committed(@, p))]
          /\ \E status \in IF task[w][c].snap.verdict = "ready"
                           THEN {"needs_attention", "failed"} ELSE {"needs_attention"} :
               SetItem(r, c, status)
          /\ Decided(r, c, p)
    /\ Silently(w, c)
    /\ UNCHANGED <<run, stage, job, item, snap>>

\* analyzeItems: every goroutine of the round has returned.
RoundDone(w) ==
    /\ At(w, "work") /\ sess[w].at = "step4" /\ sess[w].todo = {} /\ Running(w) = {}
    /\ IF sess[w].err # "none"
       THEN Fail(w, sess[w].err) /\ UNCHANGED run
       ELSE Goto(w, "list") /\ run' = Summarised(sess[w].run)
    /\ UNCHANGED <<stage, job, candidateRows, task, faults>>

\* summarizeRun(finish=true): the run ends, unless it was cancelled meanwhile.
Finalize(w) ==
    /\ At(w, "work") /\ sess[w].at = "finalize"
    /\ LET r == sess[w].run
           sum == Summarised(r)
       IN IF run[r].cancel
          THEN Fail(w, "agent_cancelled") /\ UNCHANGED run
          ELSE /\ Goto(w, "finish")
               /\ run' = [sum EXCEPT ![r].status =
                            CASE sum[r].failed -> "partial_failed"
                              [] ~sum[r].failed /\ sum[r].attention -> "needs_attention"
                              [] OTHER -> "success"]
    /\ UNCHANGED <<stage, job, candidateRows, task, faults>>

-----------------------------------------------------------------------------
(* executeJob after executeRun has returned; the heartbeat has stopped.    *)

CheckLease(w) ==
    /\ sess[w].pc = "own"
    /\ LET j == job[sess[w].run] IN
       sess' = [sess EXCEPT ![w] = IF j.attempts = @.token /\ j.live
                                   THEN [@ EXCEPT !.pc = "decide"] ELSE Idle]
    /\ UNCHANGED <<run, stage, job, candidateRows, task, faults>>

\* Mutant: an interrupted run is recorded as done.
DecideInterruptedIsDone(w) ==
    /\ sess[w].pc = "decide"
    /\ LET cancel == run[sess[w].run].cancel
           err == IF cancel THEN "agent_cancelled" ELSE sess[w].err
       IN sess' = [sess EXCEPT ![w] =
                     IF err \in {"none", "ctx"} THEN [@ EXCEPT !.pc = "done"]
                     ELSE [@ EXCEPT !.pc = "stop", !.err = err]]
    /\ UNCHANGED <<run, stage, job, candidateRows, task, faults>>

\* A cancellation overrides the error; an interrupted run is left to the next claim.
Decide(w) ==
    /\ sess[w].pc = "decide"
    /\ LET cancel == run[sess[w].run].cancel
           err == IF cancel THEN "agent_cancelled" ELSE sess[w].err
       IN sess' = [sess EXCEPT ![w] =
                     CASE err = "ctx" -> Idle
                       [] err = "none" -> [@ EXCEPT !.pc = "done"]
                       [] OTHER -> [@ EXCEPT !.pc = "stop", !.err = err]]
    /\ UNCHANGED <<run, stage, job, candidateRows, task, faults>>

\* stopRun: one transaction over the run, its stages, items and claims.
StopRun(w) ==
    /\ sess[w].pc = "stop"
    /\ LET r == sess[w].run
           status == IF sess[w].err = "agent_cancelled" THEN "cancelled" ELSE "failed"
       IN /\ run' = [run EXCEPT ![r].status = status]
          /\ stage' = [stage EXCEPT ![r] = [s \in Steps |->
                          CASE stage[r][s] = "running" -> status
                            [] stage[r][s] = "pending" -> "skipped"
                            [] OTHER -> stage[r][s]]]
          /\ istat' = [istat EXCEPT ![r] = [c \in Candidates |->
                          IF Open(r, c) THEN status ELSE istat[r][c]]]
          /\ app' = [c \in Candidates |-> [v \in Volunteers |->
                       IF /\ flow[c].claim = r /\ v = item[r][c].prepared
                          /\ app[c][v] = "assessing"
                       THEN "blocked" ELSE app[c][v]]]
          /\ flow' = [c \in Candidates |-> IF flow[c].claim = r THEN Unclaimed(flow[c])
                                           ELSE flow[c]]
    /\ Goto(w, "tally")
    /\ UNCHANGED <<job, item, snap, decisions, task, faults>>

\* stopRun ends with summarizeRun(finish=false).
Tally(w) ==
    /\ sess[w].pc = "tally"
    /\ run' = Summarised(sess[w].run)
    /\ Goto(w, "done")
    /\ UNCHANGED <<stage, job, candidateRows, task, faults>>

JobDone(w) ==
    /\ sess[w].pc = "done"
    /\ LET r == sess[w].run IN
       job' = IF job[r].attempts = sess[w].token
              THEN [job EXCEPT ![r].status = "done", ![r].live = FALSE] ELSE job
    /\ sess' = [sess EXCEPT ![w] = Idle]
    /\ UNCHANGED <<run, stage, candidateRows, task, faults>>

-----------------------------------------------------------------------------
(* What users and the other workers do to a candidate.  All but allocation *)
(* void the claim and advance the revision.                                *)

Outside == UNCHANGED <<run, stage, job, istat, item, snap, decisions, sess, task, faults>>
Manual(c) == flow[c].rev < MaxRevision /\ Outside

\* manualAssign: replaces any attempt or membership.  Only a candidate who passed is
\* refused; one in the talent pool needs an application that is not finished.
ManualAssign(c, v) ==
    /\ v \in Wishes[c] /\ IsOpen(c, v)
    /\ flow[c].held # "passed"
    /\ flow[c].held = "department" => IsOpen(c, flow[c].on)
    /\ app' = [app EXCEPT ![c] = [AttemptCancelled(c) EXCEPT ![v] = "pending_dispatch"]]
    /\ flow' = [flow EXCEPT ![c] = [Invalidated(Touched(@, v)) EXCEPT !.held = "department",
                                                                       !.on = v]]
    /\ Manual(c)

\* mutateAttempt: dispatch or transfer, cancel, feedback.
MutateAttempt(c) ==
    /\ flow[c].held = "department"
    /\ LET v == flow[c].on
           f == Invalidated(flow[c])
       IN \/ /\ app[c][v] \in {"pending_dispatch", "department_review"}
             /\ SetApp(c, v, "department_review")
             /\ flow' = [flow EXCEPT ![c] = f]
          \/ /\ app[c][v] = "pending_dispatch"
             /\ SetApp(c, v, "cancelled")
             /\ flow' = [flow EXCEPT ![c] = Archived(f)]
          \/ /\ app[c][v] = "department_review"
             /\ SetApp(c, v, "passed")
             /\ flow' = [flow EXCEPT ![c] = [f EXCEPT !.held = "passed", !.on = 0]]
          \/ /\ app[c][v] = "department_review"
             /\ SetApp(c, v, "department_rejected")
             /\ flow' = [flow EXCEPT ![c] = AfterLastWish(f, c, Unavailable(c) \cup {v})]
    /\ Manual(c)

\* invalidateCandidateInputs: an edit of what the assessment was based on.
EditCandidate(c) ==
    /\ flow[c].held = "pool" => IsOpen(c, flow[c].on)
    /\ LET blocked == [v \in Volunteers |->
                         IF app[c][v] = "assessing" THEN "blocked" ELSE app[c][v]]
           f == Invalidated(flow[c])
       IN IF f.held = "pool"
          THEN /\ app' = [app EXCEPT ![c] = [blocked EXCEPT ![f.on] = "needs_reanalysis"]]
               /\ flow' = [flow EXCEPT ![c] = Freed(f)]
          ELSE /\ app' = [app EXCEPT ![c] = blocked]
               /\ flow' = [flow EXCEPT ![c] = f]
    /\ Manual(c)

\* An import of resumes of the candidate, which may bring new wishes.  The status of
\* the workflow stays, whatever it was.
ImportResumes(c) ==
    /\ \E new \in SUBSET (Wishes[c] \ Known(c)) :
         app' = [app EXCEPT ![c] = [v \in Volunteers |->
                    IF v \in new THEN "pending" ELSE app[c][v]]]
    /\ flow' = [flow EXCEPT ![c] = Invalidated(@)]
    /\ Manual(c)

\* commitAllocation: the pool member becomes an attempt; the revision stays.
AllocationAssigns(c) ==
    /\ flow[c].held = "pool" /\ flow[c].on = flow[c].resume /\ IsOpen(c, flow[c].on)
    /\ SetApp(c, flow[c].on, "pending_dispatch")
    /\ flow' = [flow EXCEPT ![c].held = "department"]
    /\ Outside

-----------------------------------------------------------------------------

\* What the goroutine of a worker does by itself.
WorkerStep(w) ==
    \/ ReadRun(w) \/ BeginStage(w) \/ MarkStage(w) \/ FinishStage(w) \/ TestStage(w)
    \/ Initialize(w) \/ Abort(w) \/ ListItems(w)
    \/ LookAtCase(w) \/ SaveCase(w) \/ SnapshotsReady(w)
    \/ ItemsPrepared(w) \/ RoundDone(w) \/ Finalize(w)
    \/ CheckLease(w) \/ Decide(w) \/ StopRun(w) \/ Tally(w) \/ JobDone(w)
    \/ \E c \in Candidates : PrepareItem(w, c) \/ PrepareItemFails(w, c) \/ StartItem(w, c)

\* What a processItem goroutine does to end.
TaskEnds(w, c) ==
    \/ DropResult(w, c) \/ SkipResult(w, c) \/ CancelItem(w, c) \/ CommitRefused(w, c)
    \/ AcceptItem(w, c) \/ RejectItem(w, c) \/ FailItem(w, c) \/ TaskInterrupted(w, c)

Environment ==
    \/ \E r \in Runs : CreateRun(r) \/ CancelRun(r)
    \/ \E c \in Candidates :
         \/ \E v \in Volunteers : ManualAssign(c, v)
         \/ MutateAttempt(c) \/ EditCandidate(c) \/ ImportResumes(c) \/ AllocationAssigns(c)

Next ==
    \/ \E w \in Workers :
         \/ WorkerStep(w) \/ StepFails(w) \/ Heartbeat(w) \/ Crash(w)
         \/ \E r \in Runs : Claim(w, r)
         \/ \E c \in Candidates : TaskEnds(w, c) \/ RenewClaim(w, c) \/ SaveArtifact(w, c)
    \/ \E r \in Runs : LeaseLapses(r)
    \/ \E c \in Candidates : ClaimLapses(c)
    \/ Environment

Spec == Init /\ [][Next]_vars

\* Goroutines keep running, leases run out, a free worker polls the queue.
\* Nothing obliges users, allocation or faults to act.
Fairness ==
    /\ \A w \in Workers : WF_vars(WorkerStep(w))
    /\ \A w \in Workers, c \in Candidates : WF_vars(TaskEnds(w, c))
    /\ \A r \in Runs : WF_vars(LeaseLapses(r)) /\ WF_vars(\E w \in Workers : Claim(w, r))
    /\ \A c \in Candidates : WF_vars(ClaimLapses(c))

FairSpec == Spec /\ Fairness

-----------------------------------------------------------------------------
(* Types.                                                                  *)

Pcs == Executing \cup {"idle", "own", "decide", "stop", "tally", "done"}
Errors == {"none", "ctx", "failed", "agent_cancelled"}
Ranks == Volunteers \cup {0}
RunRows == [status : ActiveRun \cup FinalRun \cup {"none"}, cancel : BOOLEAN, init : BOOLEAN,
            prep : BOOLEAN, failed : BOOLEAN, attention : BOOLEAN]
JobRows == [status : {"absent", "pending", "running", "done"}, live : BOOLEAN, attempts : Nat]
ItemStatus == OpenItem \cup TerminalItem \cup {"absent"}
ItemRows == [submit : Nat, prepared : Ranks, tries : Nat]
Snapshots == [frozen : BOOLEAN, cur : Ranks, rejected : SUBSET Volunteers,
              verdict : AllVerdicts, cont : Nat \cup {NoRevision}]
Workflows == [rev : Nat, held : Holds, on : Ranks, resume : Ranks, claim : Runs \cup {NoRun},
              token : Nat, live : BOOLEAN]
Sessions == [pc : Pcs, run : Runs \cup {NoRun}, token : Nat, ctx : BOOLEAN, err : Errors,
             at : Steps, todo : SUBSET Candidates, init : BOOLEAN, prep : BOOLEAN,
             view : SUBSET Volunteers, cand : SUBSET Candidates]
Tasks == [on : BOOLEAN, token : Nat, rev : Nat, snap : Snapshots]

\* Every row holds a value of its columns, in particular a status the code knows,
\* and every busy worker works on a run.
TypeOK ==
    /\ run \in [Runs -> RunRows]
    /\ stage \in [Runs -> [Steps -> StageStatus]]
    /\ job \in [Runs -> JobRows]
    /\ istat \in [Runs -> [Candidates -> ItemStatus]]
    /\ item \in [Runs -> [Candidates -> ItemRows]]
    /\ snap \in [Runs -> [Candidates -> Snapshots]]
    /\ flow \in [Candidates -> Workflows]
    /\ app \in [Candidates -> [Volunteers -> Applications]]
    /\ decisions \in [Runs -> [Candidates -> [Volunteers -> Nat]]]
    /\ sess \in [Workers -> Sessions]
    /\ task \in [Workers -> [Candidates -> Tasks]]
    /\ faults \in Nat
    /\ \A w \in Workers : sess[w].pc # "idle" => sess[w].run \in Runs
    /\ \A w \in Workers, c \in Candidates :
         task[w][c].on => sess[w].pc = "work" /\ sess[w].at = "step4"

-----------------------------------------------------------------------------
(* Safety, whatever workers stall.                                         *)

Settled(r) == \A c \in Scope[r] : istat[r][c] \in TerminalItem

\* A run is closed only when every item of it has reached a final status
\* (docs/后端设计.md:448), although summarizeRun does not look at open items.
FinishedRunIsSettled ==
    \A r \in Runs : run[r].status \in FinalRun => Settled(r)

\* A settled item is never reopened or settled again, by a late result, a
\* recovered worker or the end of the run.
TerminalItemsStay ==
    [][\A r \in Runs, c \in Candidates :
         istat[r][c] \in TerminalItem => istat'[r][c] = istat[r][c]]_vars

\* A finished application is never reopened or judged again: not by a retry of an
\* old decision, a manual assignment, an edit, nor a worker that started before
\* ("Terminal applications are immutable", applications.go:56; "已终止志愿不能通过旧
\* AI 决策重试或手工分配入口恢复", ops/task-center.md:62).
ClosedApplicationsStay ==
    [][\A c \in Candidates, v \in Volunteers :
         app[c][v] \in ClosedApplication => app'[c][v] = app[c][v]]_vars

\* A candidate is put into the talent pool only when no application is left open
\* (applications.go:98), and stays there, as one who has passed does: no batch, forced
\* run, retry, edit or late result takes either back ("普通批处理、固定 ID 定时任务和
\* 强制重处理参数均不会覆盖人才库或已通过结果", ops/task-center.md:61).  The one way out
\* is HR's, out of the talent pool only: the manual assignment of an application that
\* an import brought since.
FinishedCandidatesStay ==
    [][\A c \in Candidates :
         /\ flow[c].held = "passed" => flow'[c].held = "passed"
         /\ flow[c].held # "talent_pool" /\ flow'[c].held = "talent_pool" =>
              Unavailable(c)' = Wishes[c]
         /\ flow[c].held = "talent_pool" /\ flow'[c].held # "talent_pool" =>
              /\ flow'[c].held = "department" /\ IsOpen(c, flow'[c].on)
              /\ UNCHANGED <<istat, decisions>>]_vars

\* One run records at most one decision for a resume, however often the job is
\* claimed again and the assessment repeated.
WritesOnce ==
    \A r \in Runs, c \in Candidates, v \in Volunteers : decisions[r][c][v] <= 1

\* At most one processItem goroutine can still commit a result for a candidate.
OneFreshTask ==
    \A c \in Candidates, w1, w2 \in Workers : Fresh(w1, c) /\ Fresh(w2, c) => w1 = w2

\* A run whose cancellation was accepted never ends as processed, and never goes
\* back to running.
CancelWins ==
    \A r \in Runs : run[r].cancel => run[r].status \in {"cancelling", "cancelled", "failed"}

\* Once a cancellation is accepted ("取消后续写入") or the run has ended, the run
\* records no decision: not from a model call that was in flight, nor from a
\* worker that lost its lease.
NoLateDecision ==
    [][\A r \in Runs : run[r].cancel \/ run[r].status \in FinalRun =>
         decisions'[r] = decisions[r]]_vars

-----------------------------------------------------------------------------
(* Safety as long as a live worker renews its leases in time.              *)

\* An unfinished run still has a job some worker will claim or is working on.
UnfinishedRunIsClaimable ==
    \A r \in Runs : run[r].status \in ActiveRun => job[r].status \in {"pending", "running"}

\* An item is skipped only because its candidate's workflow really moved on.
SkipOnlyAfterChange ==
    \A r \in Runs, c \in Candidates :
        istat[r][c] = "skipped_manual_change" => revisionChanged(r, c)

\* A run that has ended holds up nobody: neither a way out of processItem nor a
\* crash leaves its claim behind.  The one claim it may leave is that of a candidate
\* its recovered worker left alone (retainApplicationWork settles the item and keeps
\* the claim): allocation has taken the candidate over, or another run archived it
\* once the claim had lapsed.
EndedRunHoldsNoClaim ==
    \A r \in Runs, c \in Candidates :
        run[r].status \in FinalRun /\ flow[c].claim = r =>
            istat[r][c] = "success" /\ (flow[c].held = "department" \/ ~flow[c].live)

\* What a restart resumes from is usable: the frozen resume is the one the item
\* names and its application is still open, unless the workflow moved on.
ResumableItem ==
    \A r \in Runs : \A c \in Scope[r] :
        Open(r, c) /\ snap[r][c].frozen /\ ~revisionChanged(r, c) =>
            /\ item[r][c].prepared = snap[r][c].cur
            /\ snap[r][c].cur # 0 => IsOpen(c, snap[r][c].cur)

\* A decision is recorded only for the revision the item was submitted or
\* continued at: a manual change in between always wins.
DecisionOnExpectedRevision ==
    [][\A r \in Runs, c \in Candidates :
         decisions'[r][c] # decisions[r][c] => ~revisionChanged(r, c)]_vars

-----------------------------------------------------------------------------
(* Liveness under FairSpec.                                                *)

\* Every submitted run ends, through crashes, conflicts and manual changes.
RunEnds == \A r \in Runs : run[r].status = "pending" ~> run[r].status \in FinalRun

\* An accepted cancellation takes effect.
CancelEnds == \A r \in Runs : run[r].cancel ~> run[r].status \in {"cancelled", "failed"}

\* A conflict is not waited for forever.
ConflictEnds ==
    \A r \in Runs, c \in Candidates :
        istat[r][c] = "waiting_conflict" ~> istat[r][c] # "waiting_conflict"

=============================================================================
