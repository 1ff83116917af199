------------------------------ MODULE TaskCenter ------------------------------
(***************************************************************************)
(* Scheduled processing (schedules.go): the rows of                        *)
(* platform_processing_schedules, the users who change them, the           *)
(* scheduler loops of all processes that turn a due occurrence into a run, *)
(* and the two operations that delete candidates under the feet of a run   *)
(* (replace import, candidate deletion).  One action per transaction, and  *)
(* a step of its own for every statement whose answer may be stale when it *)
(* is used.  What happens inside a run is in ProcessingRuns.               *)
(***************************************************************************)
EXTENDS Naturals, Sequences, FiniteSets

CONSTANTS Schedules,      \* rows that may be created
          Schedulers,     \* scheduler goroutines, of all processes
          Candidates,     \* rows of core_candidate
          Period,         \* ticks between two occurrences of a repeating plan
          MaxTime,        \* bound: last tick of the clock
          MaxRuns,        \* bound: runs there may be when a user starts one
          MaxDeletions    \* bound: deletions and replace imports attempted

VARIABLES
    now,        \* the clock
    plan,       \* platform_processing_schedules
    runs,       \* core_processingrun, in the order of their ids
    cands,      \* the candidates that exist
    allowed,    \* the creator is active and may process resumes
    sess,       \* memory of each scheduler goroutine
    del,        \* the open transaction that deletes candidates
    deletions

vars == <<now, plan, runs, cands, allowed, sess, del, deletions>>

Never == 0                \* next_run_at IS NULL; the clock starts at 1
Repeats == {"once", "daily"}
PlanStatus == {"none", "active", "paused", "cancelled", "completed", "failed"}

NoPlan == [status |-> "none", repeat |-> "once", at |-> Never, next |-> Never,
           scope |-> {}, last |-> 0]

Idle == [pc |-> "idle", plan |-> {}, t |-> 0, verdict |-> "", ids |-> {}]
NoDel == [pc |-> "idle", todo |-> {}, swept |-> {}, gone |-> {}, cut |-> {}]

Init ==
    /\ now = 1
    /\ plan = [s \in Schedules |-> NoPlan]
    /\ runs = <<>>
    /\ cands = Candidates
    /\ allowed = TRUE
    /\ sess = [w \in Schedulers |-> Idle]
    /\ del = NoDel
    /\ deletions = 0

-----------------------------------------------------------------------------
(* Helpers.                                                                *)

(* nextScheduleTime: missed occurrences coalesce into one trigger, and the *)
(* following one stays on the wall clock of the first.                     *)
NextTime(previous, repeat, t) ==
    IF repeat = "once" THEN Never
    ELSE LET intervals == IF t > previous THEN (t - previous) \div Period ELSE 0
         IN previous + (intervals + 1) * Period

(* Mutant: a row lock nobody waits for. *)
UnlockedAlways(s) == TRUE

(* The row lock of triggerSchedule. *)
Unlocked(s) == \A w \in Schedulers : s \notin sess[w].plan

Due(s) == plan[s].status = "active" /\ plan[s].next <= now

(* Rows deleted by the open transaction are locked until it ends. *)
Doomed(ids) == ids \cap del.gone # {}

(* createRun for the candidates ids; the foreign key of the items fails    *)
(* when one of them is gone.                                               *)
NewRun(s, due, ids) ==
    [plan |-> s, due |-> due, items |-> ids, total |-> Cardinality(ids), active |-> TRUE]

MayCreate(ids) == ids # {} /\ ids \subseteq cands /\ ~Doomed(ids)

-----------------------------------------------------------------------------
(* Users.                                                                  *)

(* POST pipeline/schedules.  The scope is a set of chosen candidates, who  *)
(* must exist, or (the empty set) whoever has a given status when the time *)
(* comes.                                                                  *)
Create(s, repeat, at, scope) ==
    /\ plan[s].status = "none" /\ allowed
    /\ at > now /\ at <= MaxTime
    /\ scope \subseteq cands
    /\ plan' = [plan EXCEPT ![s] = [status |-> "active", repeat |-> repeat, at |-> at,
                                    next |-> at, scope |-> scope, last |-> 0]]
    /\ UNCHANGED <<now, runs, cands, allowed, sess, del, deletions>>

Cancel(s) ==
    /\ plan[s].status \in {"active", "paused"}
    /\ Unlocked(s)
    /\ plan' = [plan EXCEPT ![s].status = "cancelled", ![s].next = Never]
    /\ UNCHANGED <<now, runs, cands, allowed, sess, del, deletions>>

Pause(s) ==
    /\ plan[s].status = "active"
    /\ Unlocked(s)
    /\ plan' = [plan EXCEPT ![s].status = "paused"]
    /\ UNCHANGED <<now, runs, cands, allowed, sess, del, deletions>>

(* A plan that missed its time while paused runs now, or at the next       *)
(* occurrence of its wall clock.                                           *)
Resume(s) ==
    LET p == plan[s]
    IN /\ p.status = "paused" /\ allowed
       /\ Unlocked(s)
       /\ plan' = [plan EXCEPT
             ![s].status = "active",
             ![s].next = IF p.next > now THEN @
                         ELSE IF p.repeat = "once" THEN now
                         ELSE NextTime(p.next, p.repeat, now)]
       /\ UNCHANGED <<now, runs, cands, allowed, sess, del, deletions>>

(* POST pipeline/runs. *)
StartRun(ids) ==
    /\ allowed /\ Len(runs) < MaxRuns
    /\ MayCreate(ids)
    /\ runs' = Append(runs, NewRun(0, 0, ids))
    /\ UNCHANGED <<now, plan, cands, allowed, sess, del, deletions>>

(* A run ends or is cancelled. *)
EndRun(r) ==
    /\ runs[r].active
    /\ runs' = [runs EXCEPT ![r].active = FALSE]
    /\ UNCHANGED <<now, plan, cands, allowed, sess, del, deletions>>

(* An administrator disables or enables the creator's account or role. *)
SetAllowed ==
    /\ allowed' = ~allowed
    /\ UNCHANGED <<now, plan, runs, cands, sess, del, deletions>>

Tick ==
    /\ now < MaxTime
    /\ now' = now + 1
    /\ UNCHANGED <<plan, runs, cands, allowed, sess, del, deletions>>

-----------------------------------------------------------------------------
(* The scheduler: triggerSchedule, one transaction that holds the row.     *)

(* SELECT ... ORDER BY next_run_at, id FOR UPDATE SKIP LOCKED LIMIT 1      *)
Claim(w, s) ==
    /\ sess[w].pc = "idle"
    /\ Due(s) /\ Unlocked(s)
    /\ \A o \in Schedules : Due(o) /\ Unlocked(o) => plan[s].next <= plan[o].next
    /\ sess' = [sess EXCEPT ![w] = [Idle EXCEPT !.pc = "claimed", !.plan = {s}, !.t = now]]
    /\ UNCHANGED <<now, plan, runs, cands, allowed, del, deletions>>

(* Mutant: the previous run is not looked at. *)
StillRunningNever(s) == FALSE

StillRunning(s) == plan[s].last # 0 /\ runs[plan[s].last].active

(* Authorization is rebuilt now, the previous run is looked up, and the    *)
(* candidates are resolved on a connection of their own.                   *)
Resolve(w) ==
    \E s \in sess[w].plan :
       /\ sess[w].pc = "claimed"
       /\ LET verdict == IF ~allowed THEN "failed"
                         ELSE IF StillRunning(s) THEN "skipped" ELSE "go"
          IN \E ids \in IF plan[s].scope # {} THEN {plan[s].scope} ELSE SUBSET cands :
                sess' = [sess EXCEPT ![w].pc = "resolved", ![w].verdict = verdict,
                                     ![w].ids = IF verdict = "go" THEN ids ELSE {}]
       /\ UNCHANGED <<now, plan, runs, cands, allowed, del, deletions>>

(* Mutant: a plan that starts no run is left as it is, to be tried again. *)
SettledByRuns(s, w, failed, last) ==
    IF last = plan[s].last THEN plan
    ELSE [plan EXCEPT ![s] =
            [@ EXCEPT !.status = IF plan[s].repeat = "once" THEN "completed" ELSE "active",
                      !.next = NextTime(plan[s].next, plan[s].repeat, sess[w].t),
                      !.last = last]]

Settled(s, w, failed, last) ==
    [plan EXCEPT ![s] =
       [@ EXCEPT !.status = IF failed THEN "failed"
                            ELSE IF plan[s].repeat = "once" THEN "completed" ELSE "active",
                 !.next = IF failed THEN Never
                          ELSE NextTime(plan[s].next, plan[s].repeat, sess[w].t),
                 !.last = last]]

(* No run: the creator may not, the previous run is still going, nobody is *)
(* in scope, or somebody resolved a moment ago is gone.                    *)
FireNothing(w) ==
    \E s \in sess[w].plan :
       /\ sess[w].pc = "resolved"
       /\ sess[w].verdict # "go" \/ sess[w].ids = {} \/ ~(sess[w].ids \subseteq cands)
       /\ LET lost == sess[w].verdict = "go" /\ ~(sess[w].ids \subseteq cands)
          IN plan' = Settled(s, w, lost \/ sess[w].verdict = "failed", plan[s].last)
       /\ sess' = [sess EXCEPT ![w] = Idle]
       /\ UNCHANGED <<now, runs, cands, allowed, del, deletions>>

(* The run, the next occurrence and the last run in one commit. *)
FireRun(w) ==
    \E s \in sess[w].plan :
       /\ sess[w].pc = "resolved" /\ sess[w].verdict = "go"
       /\ MayCreate(sess[w].ids)
       /\ runs' = Append(runs, NewRun(s, plan[s].next, sess[w].ids))
       /\ plan' = Settled(s, w, FALSE, Len(runs'))
       /\ sess' = [sess EXCEPT ![w] = Idle]
       /\ UNCHANGED <<now, cands, allowed, del, deletions>>

(* Error, the 30 s of one trigger, or a crash: everything rolls back. *)
Rollback(w) ==
    /\ sess[w].pc # "idle"
    /\ sess' = [sess EXCEPT ![w] = Idle]
    /\ UNCHANGED <<now, plan, runs, cands, allowed, del, deletions>>

-----------------------------------------------------------------------------
(* Deleting candidates, statement by statement.                            *)

ItemsOf(c) == {<<r, c>> : r \in {q \in DOMAIN runs : c \in runs[q].items}}

(* importFiles with mode=replace: refused while any run is active. *)
BeginReplace ==
    /\ del.pc = "idle" /\ deletions < MaxDeletions
    /\ \A r \in DOMAIN runs : ~runs[r].active
    /\ cands # {}
    /\ del' = [NoDel EXCEPT !.pc = "deleting", !.todo = cands]
    /\ deletions' = deletions + 1
    /\ UNCHANGED <<now, plan, runs, cands, allowed, sess>>

(* deleteCandidate: refused while an item of the candidate is open. *)
BeginDelete(c) ==
    /\ del.pc = "idle" /\ deletions < MaxDeletions
    /\ c \in cands
    /\ \A r \in DOMAIN runs : runs[r].active => c \notin runs[r].items
    /\ del' = [NoDel EXCEPT !.pc = "deleting", !.todo = {c}]
    /\ deletions' = deletions + 1
    /\ UNCHANGED <<now, plan, runs, cands, allowed, sess>>

(* deleteRow: the rows that point at the candidate are read and deleted,   *)
Sweep(c) ==
    /\ del.pc = "deleting" /\ c \in del.todo \ del.swept
    /\ del' = [del EXCEPT !.swept = @ \cup {c}, !.cut = @ \cup ItemsOf(c)]
    /\ UNCHANGED <<now, plan, runs, cands, allowed, sess, deletions>>

(* then the candidate itself. *)
Remove(c) ==
    /\ del.pc = "deleting" /\ c \in del.swept \ del.gone
    /\ del' = [del EXCEPT !.gone = @ \cup {c}]
    /\ UNCHANGED <<now, plan, runs, cands, allowed, sess, deletions>>

Left(r) == {c \in runs[r].items : <<r, c>> \notin del.cut}

(* The deferred foreign key is checked at the commit. *)
Dangling == \E r \in DOMAIN runs : Left(r) \cap del.gone # {}

CommitDeletion ==
    /\ del.pc = "deleting" /\ del.gone = del.todo
    /\ ~Dangling
    /\ cands' = cands \ del.gone
    /\ runs' = [r \in DOMAIN runs |-> [runs[r] EXCEPT !.items = Left(r)]]
    /\ del' = NoDel
    /\ UNCHANGED <<now, plan, allowed, sess, deletions>>

AbortDeletion ==
    /\ del.pc = "deleting"
    /\ del' = NoDel
    /\ UNCHANGED <<now, plan, runs, cands, allowed, sess, deletions>>

-----------------------------------------------------------------------------
User ==
    \/ \E s \in Schedules, repeat \in Repeats, at \in 1..MaxTime, scope \in SUBSET cands :
          Create(s, repeat, at, scope)
    \/ \E s \in Schedules : Cancel(s) \/ Pause(s) \/ Resume(s)
    \/ \E ids \in SUBSET cands : StartRun(ids)
    \/ SetAllowed

Deletion ==
    \/ BeginReplace
    \/ \E c \in Candidates : BeginDelete(c) \/ Sweep(c) \/ Remove(c)
    \/ CommitDeletion
    \/ AbortDeletion

Trigger(w) ==
    \/ \E s \in Schedules : Claim(w, s)
    \/ Resolve(w)
    \/ FireNothing(w)
    \/ FireRun(w)

Next ==
    \/ User
    \/ Deletion
    \/ Tick
    \/ \E r \in DOMAIN runs : EndRun(r)
    \/ \E w \in Schedulers : Trigger(w) \/ Rollback(w)

Spec == Init /\ [][Next]_vars

(* The loops go on, an error or a timeout does not meet every attempt, and *)
(* an open transaction ends.                                               *)
Fairness ==
    /\ \A w \in Schedulers : /\ WF_vars(\E s \in Schedules : Claim(w, s))
                            /\ SF_vars(Resolve(w))
                            /\ SF_vars(FireNothing(w) \/ FireRun(w))
    /\ WF_vars(CommitDeletion \/ AbortDeletion)

FairSpec == Spec /\ Fairness

-----------------------------------------------------------------------------
(* Properties.                                                             *)

RunOf == [plan : Schedules \cup {0}, due : Nat, items : SUBSET Candidates,
          total : Nat, active : BOOLEAN]

(* Every variable has its type; the type invariant of the module. *)
TypeOK ==
    /\ now \in Nat /\ allowed \in BOOLEAN /\ deletions \in Nat
    /\ plan \in [Schedules -> [status : PlanStatus, repeat : Repeats, at : Nat,
                               next : Nat, scope : SUBSET Candidates, last : Nat]]
    /\ runs \in Seq(RunOf)
    /\ cands \subseteq Candidates
    /\ sess \in [Schedulers -> [pc : {"idle", "claimed", "resolved"},
                                plan : SUBSET Schedules, t : Nat,
                                verdict : {"", "failed", "skipped", "go"},
                                ids : SUBSET Candidates]]
    /\ del \in [pc : {"idle", "deleting"}, todo : SUBSET Candidates,
                swept : SUBSET Candidates, gone : SUBSET Candidates,
                cut : SUBSET (Nat \X Candidates)]

(* However many scheduler loops work on a plan, however often its time     *)
(* passes while a run is going, a plan never has two runs in progress.     *)
OneRunPerPlan ==
    \A r, q \in DOMAIN runs :
       runs[r].active /\ runs[q].active /\ runs[r].plan = runs[q].plan
          /\ runs[r].plan # 0 => r = q

(* A plan starts a run only while it is active and due, for the occurrence *)
(* it was due for and never twice for the same one; and what it is due for *)
(* next lies in the future of that trigger, on its original wall clock     *)
(* (the comment of nextScheduleTime).  No pause, cancellation or trigger   *)
(* that happens meanwhile gets in between.                                 *)
Triggered(s) ==
    /\ plan[s].status = "active" /\ plan[s].next <= now
    /\ runs'[Len(runs')].due = plan[s].next
    /\ \A r \in DOMAIN runs : runs[r].plan = s => runs[r].due < plan[s].next
    /\ plan'[s].next # Never =>
          /\ plan'[s].next > plan[s].next
          /\ (plan'[s].next - plan[s].at) % Period = 0

TriggersAreDue ==
    [][Len(runs') > Len(runs) /\ runs'[Len(runs')].plan # 0
          => Triggered(runs'[Len(runs')].plan)]_vars

(* A due plan does not stay due: it is triggered, skipped, failed, paused  *)
(* or cancelled.                                                           *)
DueIsServed == \A s \in Schedules : Due(s) ~> ~Due(s)

(* A run that is being processed still has all the candidates it was       *)
(* submitted with.                                                         *)
RunIsWhole ==
    \A r \in DOMAIN runs : runs[r].active => Cardinality(runs[r].items) = runs[r].total

=============================================================================
