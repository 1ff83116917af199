--------------------------- MODULE AllocationProofs ----------------------------
(***************************************************************************)
(* Allocation, for any members, demands and workers and any number of      *)
(* changes and failures.  Leases and generations: a live lease belongs to  *)
(* the running generation of a task, and a task ends with at most one plan *)
(* in effect.  The contract: Allocation implements AllocationContract, and *)
(* what the contract entails holds of it: nobody is allocated twice, and   *)
(* no two targets share a place in the order.                              *)
(***************************************************************************)
EXTENDS Allocation, SequenceTheorems, FiniteSetTheorems, TLAPS

-----------------------------------------------------------------------------
(* The invariant.                                                          *)

TaskRows == [mode : Modes, members : SUBSET Members, status : TaskStatus,
             gen : Nat, plan : [Generations -> PlanStatus]]

Pcs == {"idle", "claimed", "computing", "proposed", "failing"}

\* The scope and a session, as far as the argument goes.
ScopeRow(x) == x \in [lease : Nat \X Nat, live : BOOLEAN, paused : BOOLEAN,
                      revision : {x.revision}, next : {x.next}]
Session(x) == x \in [pc : Pcs, task : Nat, gen : Nat, view : {x.view},
                     plan : {x.plan}, code : {x.code}]

InEffect(st) == st \in {"simulated", "committed"}

\* A task that is not completed has no plan in effect, and one that is has
\* at most one.
OneWins(k) ==
    /\ k.status \in {"pending", "running"} => k.gen \in Generations
    /\ \A g \in Generations : InEffect(k.plan[g]) =>
          /\ k.status = "completed"
          /\ \A h \in Generations : InEffect(k.plan[h]) => g = h

\* The table of tasks.
GoodTasks(tks) == tks \in Seq(TaskRows) /\ \A t \in 1..Len(tks) : OneWins(tks[t])

LeaseOwned(sc, tks) ==
    sc.lease # None /\ sc.live =>
        /\ sc.lease[1] \in 1..Len(tks)
        /\ tks[sc.lease[1]].status = "running"
        /\ tks[sc.lease[1]].gen = sc.lease[2]

\* A busy worker works on a generation of a task.
OnTask(x, tks) == Session(x) /\ (x.pc # "idle" => x.task \in 1..Len(tks) /\ x.gen \in Generations)

Fenced ==
    /\ GoodTasks(tasks)
    /\ ScopeRow(scope) /\ LeaseOwned(scope, tasks)
    /\ sess = [w \in Workers |-> sess[w]]
    /\ \A w \in Workers : OnTask(sess[w], tasks)

-----------------------------------------------------------------------------
(* The table of tasks.                                                     *)

LEMMA TaskAt ==
    ASSUME NEW tks, GoodTasks(tks)
    PROVE  /\ Len(tks) \in Nat /\ DOMAIN tks = 1..Len(tks)
           /\ \A t \in 1..Len(tks) : tks[t] \in TaskRows
  BY LenProperties, ElementOfSeq DEF GoodTasks

\* UPDATE of one row.
LEMMA OneRow ==
    ASSUME GoodTasks(tasks), NEW t, t \in 1..Len(tasks), NEW k, k \in TaskRows, OneWins(k),
           tasks' = [tasks EXCEPT ![t] = k]
    PROVE  /\ GoodTasks(tasks') /\ Len(tasks') = Len(tasks) /\ tasks'[t] = k
           /\ \A u \in 1..Len(tasks) \ {t} : tasks'[u] = tasks[u]
  BY ExceptSeq DEF GoodTasks

\* INSERT of a row.
LEMMA OneTaskMore ==
    ASSUME NEW tks, GoodTasks(tks), NEW mode \in Modes, NEW ms \in SUBSET Members
    PROVE  /\ GoodTasks(Append(tks, NewTask(mode, ms)))
           /\ Len(Append(tks, NewTask(mode, ms))) = Len(tks) + 1
           /\ \A u \in 1..Len(tks) : Append(tks, NewTask(mode, ms))[u] = tks[u]
           /\ Append(tks, NewTask(mode, ms))[Len(tks) + 1].status = "pending"
  <1> DEFINE k == NewTask(mode, ms)
  <1>1. k \in TaskRows /\ OneWins(k) /\ k.status = "pending"
    BY DEF NewTask, TaskRows, TaskStatus, PlanStatus, Generations, OneWins, InEffect
  <1> HIDE DEF k
  <1>2. Len(tks) \in Nat
    BY TaskAt
  <1>3. /\ Append(tks, k) \in Seq(TaskRows) /\ Len(Append(tks, k)) = Len(tks) + 1
        /\ \A u \in 1..Len(tks) : Append(tks, k)[u] = tks[u]
        /\ Append(tks, k)[Len(tks) + 1] = k
    BY <1>1, AppendProperties DEF GoodTasks
  <1>4. \A u \in 1..Len(tks) + 1 : OneWins(Append(tks, k)[u])
    BY <1>1, <1>2, <1>3 DEF GoodTasks
  <1> QED BY <1>1, <1>3, <1>4 DEF GoodTasks, k

\* UPDATE of all rows.
LEMMA AllTasksChange ==
    ASSUME GoodTasks(tasks), NEW f, DOMAIN f = DOMAIN tasks, f = [t \in DOMAIN tasks |-> f[t]],
           \A t \in DOMAIN tasks : f[t] \in TaskRows /\ OneWins(f[t])
    PROVE  GoodTasks(f) /\ Len(f) = Len(tasks)
  <1>1. Len(tasks) \in Nat /\ DOMAIN tasks = 1..Len(tasks)
    BY TaskAt
  <1>2. f \in [1..Len(tasks) -> TaskRows]
    BY <1>1
  <1> QED BY <1>1, <1>2 DEF GoodTasks

\* What the claim does to the tasks of expired workers: none runs on.
LEMMA ReclaimedTasks ==
    ASSUME GoodTasks(tasks)
    PROVE  /\ GoodTasks(Reclaimed) /\ Len(Reclaimed) = Len(tasks)
           /\ \A t \in 1..Len(tasks) : Reclaimed[t].status # "running"
  <1> DEFINE to(k) == [k EXCEPT !.status = IF k.gen >= 3 THEN "failed" ELSE "pending",
                                !.gen = @ + 1]
  <1>1. \A t \in DOMAIN tasks :
           Reclaimed[t] = IF tasks[t].status = "running" THEN to(tasks[t]) ELSE tasks[t]
    BY DEF Reclaimed
  <1>2. ASSUME NEW t \in DOMAIN tasks
        PROVE  Reclaimed[t] \in TaskRows /\ OneWins(Reclaimed[t])
                 /\ Reclaimed[t].status # "running"
    <2>1. tasks[t] \in TaskRows /\ OneWins(tasks[t])
      BY TaskAt DEF GoodTasks
    <2>2. CASE tasks[t].status = "running"
      <3> DEFINE st == IF tasks[t].gen >= 3 THEN "failed" ELSE "pending"
                 g == tasks[t].gen + 1
                 k == [tasks[t] EXCEPT !.status = st, !.gen = g]
      <3>1. Reclaimed[t] = k
        BY <1>1, <2>2
      <3>2. tasks[t].gen \in Nat /\ tasks[t].gen \in Generations
               /\ \A h \in Generations : ~InEffect(tasks[t].plan[h])
        BY <2>1, <2>2 DEF TaskRows, OneWins
      <3>3. st \in {"failed", "pending"} /\ g \in Nat /\ (st = "pending" => g \in Generations)
        BY <3>2 DEF Generations
      <3> HIDE DEF st, g
      <3>4. k \in TaskRows /\ k.status = st /\ k.gen = g /\ k.plan = tasks[t].plan
        BY <2>1, <3>3 DEF TaskRows, TaskStatus
      <3> HIDE DEF k
      <3>5. OneWins(k) /\ k.status # "running"
        BY <3>2, <3>3, <3>4 DEF OneWins
      <3> QED BY <3>1, <3>4, <3>5
    <2>3. CASE tasks[t].status # "running"
      BY <1>1, <2>1, <2>3
    <2> QED BY <2>2, <2>3
  <1>3. DOMAIN Reclaimed = DOMAIN tasks /\ Reclaimed = [t \in DOMAIN tasks |-> Reclaimed[t]]
    BY DEF Reclaimed
  <1> QED BY <1>2, <1>3, AllTasksChange, TaskAt

-----------------------------------------------------------------------------
(* Frames.                                                                 *)

\* A step keeps the invariant if its tasks, its lease and the session it
\* touches are as they should be.
LEMMA FencedFrom ==
    ASSUME Fenced, GoodTasks(tasks'), Len(tasks) <= Len(tasks'),
           ScopeRow(scope'), LeaseOwned(scope', tasks'),
           \/ sess' = sess
           \/ \E w \in Workers : \E x : sess' = [sess EXCEPT ![w] = x] /\ OnTask(x, tasks')
    PROVE  Fenced'
  <1>1. Len(tasks) \in Nat /\ Len(tasks') \in Nat
    BY TaskAt DEF Fenced
  <1>2. \A w \in Workers : OnTask(sess[w], tasks')
    BY <1>1 DEF Fenced, OnTask
  <1>3. CASE sess' = sess
    BY <1>2, <1>3 DEF Fenced
  <1>4. ASSUME NEW w \in Workers, NEW x, sess' = [sess EXCEPT ![w] = x], OnTask(x, tasks')
        PROVE  Fenced'
    BY <1>2, <1>4 DEF Fenced
  <1> QED BY <1>3, <1>4

\* Only a session changes.
LEMMA OnlySession ==
    ASSUME Fenced, UNCHANGED <<scope, tasks>>, NEW w \in Workers, NEW x,
           sess' = [sess EXCEPT ![w] = x], OnTask(x, tasks)
    PROVE  Fenced'
  <1>1. Len(tasks) \in Nat
    BY TaskAt DEF Fenced
  <1> QED BY <1>1, FencedFrom DEF Fenced

\* An idle worker is on no task.
LEMMA IdleOnTask == \A tks : OnTask(Idle, tks)
  BY DEF Idle, OnTask, Session, Pcs

\* A worker goes on with the generation it has.
LEMMA GoesOn ==
    ASSUME NEW tks, NEW y, OnTask(y, tks), y.pc # "idle", NEW x, Session(x),
           x.task = y.task, x.gen = y.gen
    PROVE  OnTask(x, tks)
  BY DEF OnTask

\* The lease stays with its owner while no status and no generation changes.
LEMMA LeaseStays ==
    ASSUME Fenced, NEW tks, GoodTasks(tks), Len(tasks) <= Len(tks), NEW sc,
           sc.lease = scope.lease, sc.live = scope.live,
           \A u \in 1..Len(tasks) : tks[u].status = tasks[u].status /\ tks[u].gen = tasks[u].gen
    PROVE  LeaseOwned(sc, tks)
  <1>1. Len(tasks) \in Nat /\ Len(tks) \in Nat
    BY TaskAt DEF Fenced
  <1> QED BY <1>1 DEF Fenced, LeaseOwned

\* The other columns of the scope do not matter.
LEMMA OnlyScope ==
    ASSUME Fenced, UNCHANGED <<tasks, sess>>, ScopeRow(scope'), LeaseOwned(scope', tasks)
    PROVE  Fenced'
  <1>1. Len(tasks) \in Nat
    BY TaskAt DEF Fenced
  <1> QED BY <1>1, FencedFrom DEF Fenced

LEMMA ChangedKeepsFenced ==
    ASSUME Fenced, Changed, UNCHANGED <<tasks, sess>>
    PROVE  Fenced'
  <1>1. ScopeRow(scope') /\ scope'.lease = scope.lease /\ scope'.live = scope.live
    BY DEF Changed, Fenced, ScopeRow
  <1> QED BY <1>1, OnlyScope DEF Fenced, LeaseOwned

\* A holder's release ends the lease.
LEMMA ReleaseByHolder ==
    ASSUME Fenced, NEW w \in Workers, HoldsLease(w)
    PROVE  /\ sess[w].task \in Nat /\ sess[w].gen \in Nat
           /\ ScopeRow(Released(<<sess[w].task, sess[w].gen>>))
           /\ Released(<<sess[w].task, sess[w].gen>>).lease = None
  BY DEF Fenced, HoldsLease, Released, ScopeRow, None, OnTask, Session

\* The generation of the holder runs.
LEMMA HolderRuns ==
    ASSUME Fenced, NEW w \in Workers, HoldsLease(w), sess[w].pc # "idle"
    PROVE  /\ sess[w].task \in 1..Len(tasks) /\ sess[w].gen \in Generations
           /\ tasks[sess[w].task] \in TaskRows
           /\ tasks[sess[w].task].status = "running"
           /\ tasks[sess[w].task].gen = sess[w].gen
           /\ \A g \in Generations : ~InEffect(tasks[sess[w].task].plan[g])
  BY TaskAt DEF Fenced, HoldsLease, OnTask, GoodTasks, OneWins

\* The holder ends its generation: it leaves the lease and its session.
LEMMA HolderEnds ==
    ASSUME Fenced, NEW w \in Workers, HoldsLease(w), sess[w].pc # "idle",
           NEW k \in TaskRows, OneWins(k),
           tasks' = [tasks EXCEPT ![sess[w].task] = k],
           ScopeRow(scope'), scope'.lease = None,
           sess' = [sess EXCEPT ![w] = Idle]
    PROVE  Fenced'
  <1>1. sess[w].task \in 1..Len(tasks) /\ GoodTasks(tasks) /\ Len(tasks) \in Nat
    BY HolderRuns, TaskAt DEF Fenced
  <1>2. GoodTasks(tasks') /\ Len(tasks') = Len(tasks)
    BY <1>1, OneRow
  <1>3. LeaseOwned(scope', tasks') /\ Len(tasks) <= Len(tasks') /\ OnTask(Idle, tasks')
    BY <1>1, <1>2, IdleOnTask DEF LeaseOwned
  <1>4. \E v \in Workers : \E x : sess' = [sess EXCEPT ![v] = x] /\ OnTask(x, tasks')
    BY <1>3
  <1> QED BY <1>2, <1>3, <1>4, FencedFrom

-----------------------------------------------------------------------------
(* claimAllocation.                                                        *)

LEMMA StartKeepsFenced ==
    ASSUME Fenced, NEW w \in Workers, NEW tks, GoodTasks(tks), Len(tasks) <= Len(tks),
           NEW its, NEW t, t \in 1..Len(tks), tks[t].status = "pending",
           Start(w, tks, its, t)
    PROVE  Fenced'
  <1> DEFINE k == [tks[t] EXCEPT !.status = "running"]
             x == [Idle EXCEPT !.pc = "claimed", !.task = t, !.gen = tks[t].gen]
  <1>1. tks[t] \in TaskRows /\ OneWins(tks[t]) /\ tks[t].gen \in Generations /\ t \in Nat
          /\ Len(tks) \in Nat /\ tks[t].gen \in Nat
    BY TaskAt DEF GoodTasks, OneWins, Generations
  <1>2. k \in TaskRows /\ OneWins(k) /\ k.status = "running" /\ k.gen = tks[t].gen
    BY <1>1 DEF TaskRows, TaskStatus, OneWins
  <1>3. tasks' = [tks EXCEPT ![t] = k]
    BY DEF Start
  <1>4. /\ Session(x) /\ x.task = t /\ x.gen = tks[t].gen
        /\ sess' = [sess EXCEPT ![w] = x]
    <2>1. Session(x) /\ x.task = t /\ x.gen = tks[t].gen
      BY <1>1 DEF Idle, Session, Pcs
    <2>2. sess' = [sess EXCEPT ![w] = x]
      BY DEF Start
    <2> QED BY <2>1, <2>2
  <1>5. ScopeRow(scope') /\ scope'.lease = <<t, tks[t].gen>>
    <2>1. scope' = [scope EXCEPT !.lease = <<t, tks[t].gen>>, !.live = TRUE]
      BY DEF Start
    <2>2. ScopeRow(scope) /\ <<t, tks[t].gen>> \in Nat \X Nat
      BY <1>1 DEF Fenced
    <2> DEFINE token == <<t, tks[t].gen>>
    <2>3. scope' = [scope EXCEPT !.lease = token, !.live = TRUE] /\ token \in Nat \X Nat
      BY <2>1, <2>2
    <2> HIDE DEF token
    <2>4. ScopeRow(scope') /\ scope'.lease = token
      BY <2>2, <2>3 DEF ScopeRow
    <2> QED BY <2>4 DEF token
  <1> HIDE DEF k, x
  <1>6. GoodTasks(tasks') /\ Len(tasks') = Len(tks) /\ tasks'[t] = k
    BY <1>1, <1>2, <1>3, ExceptSeq DEF GoodTasks
  <1>7. LeaseOwned(scope', tasks')
    BY <1>2, <1>5, <1>6 DEF LeaseOwned
  <1>8. OnTask(x, tasks') /\ Len(tasks) <= Len(tasks')
    BY <1>1, <1>4, <1>6 DEF OnTask
  <1> QED BY <1>4, <1>5, <1>6, <1>7, <1>8, FencedFrom

LEMMA ClaimTaskKeepsFenced ==
    ASSUME Fenced, NEW w \in Workers, ClaimTask(w)
    PROVE  Fenced'
  <1>1. GoodTasks(Reclaimed) /\ Len(Reclaimed) = Len(tasks) /\ Len(tasks) \in Nat
    BY ReclaimedTasks, TaskAt DEF Fenced
  <1>2. PICK t \in Claimable(Reclaimed) : Start(w, Reclaimed, Reopened(items, Reclaimed), t)
    BY DEF ClaimTask
  <1>3. t \in 1..Len(Reclaimed) /\ Reclaimed[t].status = "pending"
    BY <1>1, TaskAt DEF Claimable
  <1> QED BY <1>1, <1>2, <1>3, StartKeepsFenced

LEMMA ClaimNewKeepsFenced ==
    ASSUME Fenced, NEW w \in Workers, ClaimNew(w)
    PROVE  Fenced'
  <1> DEFINE ms == Awaiting(Woken(Reopened(items, Reclaimed)))
             tks == Append(Reclaimed, NewTask("execute", ms))
             its == Enqueue(Woken(Reopened(items, Reclaimed)), ms, Len(Reclaimed) + 1)
  <1>1. GoodTasks(Reclaimed) /\ Len(Reclaimed) = Len(tasks) /\ Len(tasks) \in Nat
    BY ReclaimedTasks, TaskAt DEF Fenced
  <1>2. ms \in SUBSET Members /\ "execute" \in Modes
    BY DEF Awaiting, Modes
  <1>3. Start(w, tks, its, Len(Reclaimed) + 1)
    BY DEF ClaimNew
  <1> HIDE DEF ms, its
  <1>4. GoodTasks(tks) /\ Len(tks) = Len(tasks) + 1 /\ tks[Len(tasks) + 1].status = "pending"
    BY <1>1, <1>2, OneTaskMore
  <1> HIDE DEF tks
  <1>5. Len(tasks) + 1 \in 1..Len(tks) /\ Len(tasks) <= Len(tks)
    BY <1>1, <1>4
  <1> QED BY <1>1, <1>3, <1>4, <1>5, StartKeepsFenced

LEMMA ClaimNothingKeepsFenced ==
    ASSUME Fenced, NEW w \in Workers, ClaimNothing(w)
    PROVE  Fenced'
  <1>1. GoodTasks(tasks') /\ Len(tasks') = Len(tasks) /\ Len(tasks) \in Nat
    BY ReclaimedTasks, TaskAt DEF Fenced, ClaimNothing
  <1>2. LeaseOwned(scope', tasks')
    BY DEF ClaimNothing, ScopeHasWork, LeaseOwned
  <1>3. ScopeRow(scope') /\ sess' = sess
    BY DEF ClaimNothing, Fenced, ScopeRow
  <1> QED BY <1>1, <1>2, <1>3, FencedFrom

-----------------------------------------------------------------------------
(* The transactions of a worker.                                           *)

LEMMA ProcessKeepsFenced ==
    ASSUME Fenced, NEW w \in Workers, Process(w)
    PROVE  Fenced'
  <1> DEFINE t == sess[w].task
             view == Snapshot(t)
             k == [tasks[t] EXCEPT !.status = "completed"]
  <1>1. HoldsLease(w) /\ sess[w].pc = "claimed"
    BY DEF Process
  <1>2. /\ t \in 1..Len(tasks) /\ sess[w].gen \in Generations
        /\ tasks[t] \in TaskRows /\ \A g \in Generations : ~InEffect(tasks[t].plan[g])
    BY <1>1, HolderRuns
  <1>3. CASE Included(view) = {}
    <2>1. PICK rev : scope' = [Released(<<t, sess[w].gen>>) EXCEPT !.revision = rev]
      BY <1>3 DEF Process
    <2>2. ScopeRow(scope') /\ scope'.lease = None
      BY <1>1, <2>1, ReleaseByHolder DEF ScopeRow
    <2>3. tasks' = [tasks EXCEPT ![t] = k] /\ sess' = [sess EXCEPT ![w] = Idle]
      BY <1>3 DEF Process
    <2>4. k \in TaskRows /\ OneWins(k)
      BY <1>2 DEF TaskRows, TaskStatus, OneWins
    <2> HIDE DEF k
    <2> QED BY <1>1, <2>2, <2>3, <2>4, HolderEnds
  <1>4. CASE Included(view) # {}
    <2>1. PICK plan, v :
             sess' = [sess EXCEPT ![w] = [@ EXCEPT !.pc = "computing", !.plan = plan,
                                                   !.view = v]]
      BY <1>4 DEF Process
    <2>2. PICK rev : scope' = [scope EXCEPT !.revision = rev]
      BY <1>4 DEF Process
    <2>3. tasks' = tasks
      BY <1>4 DEF Process
    <2> DEFINE x == [sess[w] EXCEPT !.pc = "computing", !.plan = plan, !.view = v]
    <2>4. OnTask(sess[w], tasks) /\ w \in DOMAIN sess
      BY DEF Fenced
    <2>5. Session(x) /\ x.task = t /\ x.gen = sess[w].gen
      BY <2>4 DEF OnTask, Session, Pcs
    <2>6. sess' = [sess EXCEPT ![w] = x]
      BY <2>1, <2>4
    <2>7. ScopeRow(scope') /\ scope'.lease = scope.lease /\ scope'.live = scope.live
      BY <2>2 DEF Fenced, ScopeRow
    <2> HIDE DEF x
    <2>8. OnTask(x, tasks)
      BY <1>1, <2>4, <2>5, GoesOn
    <2>9. LeaseOwned(scope', tasks')
      BY <2>3, <2>7 DEF Fenced, LeaseOwned
    <2>10. Len(tasks) \in Nat /\ GoodTasks(tasks)
      BY TaskAt DEF Fenced
    <2>11. \E u \in Workers : \E y : sess' = [sess EXCEPT ![u] = y] /\ OnTask(y, tasks')
      BY <2>3, <2>6, <2>8
    <2>12. Len(tasks) <= Len(tasks') /\ GoodTasks(tasks')
      BY <2>3, <2>10
    <2> QED BY <2>7, <2>9, <2>11, <2>12, FencedFrom
  <1> QED BY <1>3, <1>4

\* What the kernel answered is written down once, and is no plan in effect.
LEMMA RecordedTasks ==
    ASSUME Fenced, NEW w \in Workers, sess[w].pc # "idle",
           NEW to \in {"proposed", "invalid"}, tasks' = Recorded(w, to)
    PROVE  /\ GoodTasks(tasks') /\ Len(tasks') = Len(tasks)
           /\ LeaseOwned(scope, tasks')
  <1> DEFINE t == sess[w].task
             g == sess[w].gen
             p == IF tasks[t].plan[g] = "none" THEN to ELSE tasks[t].plan[g]
             k == [tasks[t] EXCEPT !.plan[g] = p]
  <1>1. /\ t \in 1..Len(tasks) /\ g \in Generations /\ DOMAIN tasks = 1..Len(tasks)
        /\ Len(tasks) \in Nat /\ tasks[t] \in TaskRows /\ OneWins(tasks[t])
    BY TaskAt DEF Fenced, OnTask, GoodTasks
  <1>2. p \in PlanStatus /\ (InEffect(p) => p = tasks[t].plan[g])
    BY <1>1 DEF TaskRows, PlanStatus, InEffect
  <1>3. tasks' = [tasks EXCEPT ![t] = k]
    BY DEF Recorded
  <1> HIDE DEF p
  <1>4. /\ k \in TaskRows /\ k.status = tasks[t].status /\ k.gen = tasks[t].gen
        /\ k.plan = [tasks[t].plan EXCEPT ![g] = p]
    BY <1>1, <1>2 DEF TaskRows
  <1>5. \A h \in Generations : InEffect(k.plan[h]) => InEffect(tasks[t].plan[h])
    BY <1>1, <1>2, <1>4 DEF TaskRows
  <1> HIDE DEF k
  <1>6. OneWins(k)
    BY <1>1, <1>4, <1>5 DEF OneWins
  <1> HIDE DEF t
  <1>7. /\ GoodTasks(tasks') /\ Len(tasks') = Len(tasks) /\ tasks'[t] = k
        /\ \A u \in 1..Len(tasks) \ {t} : tasks'[u] = tasks[u]
    BY <1>1, <1>3, <1>4, <1>6, OneRow DEF Fenced
  <1>8. \A u \in 1..Len(tasks) : /\ tasks'[u].status = tasks[u].status
                                 /\ tasks'[u].gen = tasks[u].gen
    BY <1>4, <1>7
  <1>9. LeaseOwned(scope, tasks')
    BY <1>7, <1>8 DEF Fenced, LeaseOwned
  <1> QED BY <1>7, <1>9

\* A worker moves on, maybe with a failure.
LEMMA SessionMoves ==
    ASSUME Fenced, NEW w \in Workers, sess[w].pc # "idle", NEW to \in Pcs, NEW code
    PROVE  /\ \A tks : Len(tks) = Len(tasks) =>
                 OnTask([sess[w] EXCEPT !.pc = to, !.code = code], tks)
           /\ \A tks : Len(tks) = Len(tasks) => OnTask([sess[w] EXCEPT !.pc = to], tks)
  BY DEF Fenced, OnTask, Session

LEMMA ProposeKeepsFenced ==
    ASSUME Fenced, NEW w \in Workers, Propose(w)
    PROVE  Fenced'
  <1> DEFINE x == [sess[w] EXCEPT !.pc = "proposed"]
  <1>1. tasks' = Recorded(w, "proposed") /\ sess[w].pc # "idle" /\ scope' = scope
    BY DEF Propose
  <1>2. /\ GoodTasks(tasks') /\ Len(tasks') = Len(tasks) /\ LeaseOwned(scope, tasks')
        /\ Len(tasks) \in Nat
    BY <1>1, RecordedTasks, TaskAt DEF Fenced
  <1>3. sess' = [sess EXCEPT ![w] = x]
    BY DEF Propose, Goto
  <1>4. OnTask(x, tasks')
    BY <1>1, <1>2, SessionMoves DEF Pcs
  <1> HIDE DEF x
  <1>5. ScopeRow(scope') /\ LeaseOwned(scope', tasks')
    BY <1>1, <1>2 DEF Fenced
  <1>6. \E u \in Workers : \E y : sess' = [sess EXCEPT ![u] = y] /\ OnTask(y, tasks')
    BY <1>3, <1>4
  <1>7. Len(tasks) <= Len(tasks')
    BY <1>2
  <1> QED BY <1>2, <1>5, <1>6, <1>7, FencedFrom

LEMMA KernelFailsKeepsFenced ==
    ASSUME Fenced, NEW w \in Workers, KernelFails(w)
    PROVE  Fenced'
  <1>1. /\ tasks' = tasks \/ tasks' = Recorded(w, "invalid")
        /\ sess[w].pc # "idle" /\ scope' = scope
    BY DEF KernelFails
  <1>2. /\ GoodTasks(tasks') /\ Len(tasks') = Len(tasks) /\ LeaseOwned(scope, tasks')
        /\ Len(tasks) \in Nat
    BY <1>1, RecordedTasks, TaskAt DEF Fenced
  <1>3. PICK code : sess' = [sess EXCEPT ![w] = [sess[w] EXCEPT !.pc = "failing", !.code = code]]
    BY DEF KernelFails, Fenced
  <1> DEFINE x == [sess[w] EXCEPT !.pc = "failing", !.code = code]
  <1>4. OnTask(x, tasks')
    BY <1>1, <1>2, SessionMoves DEF Pcs
  <1> HIDE DEF x
  <1>5. ScopeRow(scope') /\ LeaseOwned(scope', tasks')
    BY <1>1, <1>2 DEF Fenced
  <1>6. sess' = [sess EXCEPT ![w] = x]
    BY <1>3 DEF x
  <1>7. \E u \in Workers : \E y : sess' = [sess EXCEPT ![u] = y] /\ OnTask(y, tasks')
    BY <1>4, <1>6
  <1>8. Len(tasks) <= Len(tasks')
    BY <1>2
  <1> QED BY <1>2, <1>5, <1>7, <1>8, FencedFrom

\* The worker stops, or notes that it failed.
LEMMA OnlySessionMoves ==
    ASSUME Fenced, UNCHANGED <<scope, tasks>>, NEW w \in Workers, sess[w].pc # "idle",
           \/ sess' = [sess EXCEPT ![w] = Idle]
           \/ \E code : sess' = [sess EXCEPT ![w].pc = "failing", ![w].code = code]
    PROVE  Fenced'
  <1>1. CASE sess' = [sess EXCEPT ![w] = Idle]
    BY <1>1, IdleOnTask, OnlySession
  <1>2. ASSUME NEW code, sess' = [sess EXCEPT ![w].pc = "failing", ![w].code = code]
        PROVE  Fenced'
    <2> DEFINE x == [sess[w] EXCEPT !.pc = "failing", !.code = code]
    <2>1. sess' = [sess EXCEPT ![w] = x]
      BY <1>2 DEF Fenced
    <2>2. OnTask(x, tasks)
      BY SessionMoves DEF Pcs
    <2> HIDE DEF x
    <2> QED BY <2>1, <2>2, OnlySession
  <1> QED BY <1>1, <1>2

LEMMA CommitKeepsFenced ==
    ASSUME Fenced, NEW w \in Workers, Commit(w) \/ CommitSimulation(w)
    PROVE  Fenced'
  <1> DEFINE t == sess[w].task
             g == sess[w].gen
  <1>1. HoldsLease(w) /\ sess[w].pc # "idle" /\ sess' = [sess EXCEPT ![w] = Idle]
    BY DEF Commit, CommitSimulation
  <1>2. /\ t \in 1..Len(tasks) /\ g \in Generations
        /\ tasks[t] \in TaskRows /\ \A h \in Generations : ~InEffect(tasks[t].plan[h])
    BY <1>1, HolderRuns
  <1>3. ScopeRow(scope') /\ scope'.lease = None
    <2>1. /\ ScopeRow(Released(<<t, g>>)) /\ Released(<<t, g>>).lease = None
      BY <1>1, ReleaseByHolder
    <2>2. CASE CommitSimulation(w)
      BY <2>1, <2>2 DEF CommitSimulation
    <2>3. CASE Commit(w)
      <3>1. PICK rev, next :
               scope' = [Released(<<t, g>>) EXCEPT !.revision = rev, !.next = next]
        BY <2>3 DEF Commit
      <3> QED BY <2>1, <3>1 DEF ScopeRow
    <2> QED BY <2>2, <2>3
  <1>4. PICK to \in {"committed", "simulated"} :
           tasks' = [tasks EXCEPT ![t] = [@ EXCEPT !.status = "completed", !.plan[g] = to]]
    <2>1. t \in DOMAIN tasks
      BY <1>2, TaskAt DEF Fenced
    <2> QED BY <2>1 DEF Commit, CommitSimulation
  <1> DEFINE k == [tasks[t] EXCEPT !.status = "completed", !.plan[g] = to]
  <1>5. k \in TaskRows /\ k.status = "completed" /\ k.plan = [tasks[t].plan EXCEPT ![g] = to]
    BY <1>2 DEF TaskRows, TaskStatus, PlanStatus
  <1>6. tasks' = [tasks EXCEPT ![t] = k]
    BY <1>4
  <1> HIDE DEF k
  <1>7. OneWins(k)
    BY <1>2, <1>5 DEF OneWins, TaskRows
  <1> QED BY <1>1, <1>3, <1>5, <1>6, <1>7, HolderEnds

LEMMA FinishKeepsFenced ==
    ASSUME Fenced, NEW w \in Workers, Finish(w)
    PROVE  Fenced'
  <1> DEFINE t == sess[w].task
             g == sess[w].gen
             again == sess[w].code = "stale" /\ g < 3
             st == IF again THEN "pending" ELSE "failed"
             p == IF tasks[t].plan[g] # "proposed" THEN tasks[t].plan[g]
                  ELSE IF sess[w].code = "stale" THEN "stale" ELSE "invalid"
             n == IF again THEN tasks[t].gen + 1 ELSE tasks[t].gen
             k == [tasks[t] EXCEPT !.status = st, !.gen = n, !.plan[g] = p]
  <1>1. HoldsLease(w) /\ sess[w].pc # "idle" /\ sess' = [sess EXCEPT ![w] = Idle]
    BY DEF Finish
  <1>2. /\ t \in 1..Len(tasks) /\ g \in Generations /\ tasks[t].gen = g
        /\ tasks[t] \in TaskRows /\ \A h \in Generations : ~InEffect(tasks[t].plan[h])
    BY <1>1, HolderRuns
  <1>3. ScopeRow(scope') /\ scope'.lease = None
    BY <1>1, ReleaseByHolder DEF Finish
  <1>4. tasks' = [tasks EXCEPT ![t] = k]
    <2>1. t \in DOMAIN tasks
      BY <1>2, TaskAt DEF Fenced
    <2> QED BY <2>1 DEF Finish
  <1>5. /\ st \in {"pending", "failed"} /\ n \in Nat /\ (st = "pending" => n \in Generations)
        /\ p \in PlanStatus /\ ~InEffect(p)
    BY <1>2 DEF Generations, TaskRows, PlanStatus, InEffect
  <1> HIDE DEF st, n, p
  <1>6. /\ k \in TaskRows /\ k.status = st /\ k.gen = n
        /\ k.plan = [tasks[t].plan EXCEPT ![g] = p]
    BY <1>2, <1>5 DEF TaskRows, TaskStatus
  <1> HIDE DEF k
  <1>7. OneWins(k)
    BY <1>2, <1>5, <1>6 DEF OneWins, TaskRows
  <1> QED BY <1>1, <1>3, <1>4, <1>6, <1>7, HolderEnds

LEMMA LeaseLapsesKeepsFenced ==
    ASSUME Fenced, LeaseLapses
    PROVE  Fenced'
  <1>1. ScopeRow(scope') /\ scope'.live = FALSE /\ UNCHANGED <<tasks, sess>>
    BY DEF LeaseLapses, Fenced, ScopeRow
  <1> QED BY <1>1, OnlyScope DEF LeaseOwned

-----------------------------------------------------------------------------
(* Users.                                                                  *)

LEMMA CreatedKeepsFenced ==
    ASSUME Fenced, NEW mode \in Modes, NEW ms \in SUBSET Members, Created(mode, ms),
           scope' = scope \/ Changed, sess' = sess
    PROVE  Fenced'
  <1> DEFINE tks == Append(tasks, NewTask(mode, ms))
  <1>1. tasks' = tks
    BY DEF Created
  <1>2. /\ GoodTasks(tks) /\ Len(tks) = Len(tasks) + 1 /\ Len(tasks) \in Nat
        /\ \A u \in 1..Len(tasks) : tks[u] = tasks[u]
    BY OneTaskMore, TaskAt DEF Fenced
  <1> HIDE DEF tks
  <1>3. ScopeRow(scope') /\ scope'.lease = scope.lease /\ scope'.live = scope.live
    BY DEF Changed, Fenced, ScopeRow
  <1>4. LeaseOwned(scope', tasks') /\ Len(tasks) <= Len(tasks') /\ GoodTasks(tasks')
    BY <1>1, <1>2, <1>3, LeaseStays
  <1> QED BY <1>3, <1>4, FencedFrom

LEMMA CancelTaskKeepsFenced ==
    ASSUME Fenced, NEW t \in DOMAIN tasks, CancelTask(t)
    PROVE  Fenced'
  <1> DEFINE k == [tasks[t] EXCEPT !.status = "cancelled", !.plan = Withdrawn(tasks[t].plan)]
  <1>1. /\ t \in 1..Len(tasks) /\ Len(tasks) \in Nat
        /\ tasks[t] \in TaskRows /\ OneWins(tasks[t]) /\ tasks[t].status # "completed"
    BY TaskAt DEF Fenced, GoodTasks, CancelTask
  <1>2. tasks' = [tasks EXCEPT ![t] = k] /\ sess' = sess
    BY DEF CancelTask
  <1>3. /\ k \in TaskRows /\ k.status = "cancelled"
        /\ \A g \in Generations : ~InEffect(k.plan[g])
    BY <1>1 DEF TaskRows, TaskStatus, PlanStatus, Withdrawn, InEffect, OneWins
  <1> HIDE DEF k
  <1>4. OneWins(k)
    BY <1>3 DEF OneWins
  <1>5. /\ GoodTasks(tasks') /\ Len(tasks') = Len(tasks)
        /\ \A u \in 1..Len(tasks) \ {t} : tasks'[u] = tasks[u]
    BY <1>1, <1>2, <1>3, <1>4, OneRow DEF Fenced
  <1>6. ScopeRow(scope') /\ LeaseOwned(scope', tasks')
    <2>1. CASE tasks[t].status = "running" /\ scope.lease = <<t, tasks[t].gen>>
      BY <2>1 DEF CancelTask, Released, Fenced, ScopeRow, LeaseOwned, None
    <2>2. CASE ~(tasks[t].status = "running" /\ scope.lease = <<t, tasks[t].gen>>)
      <3>1. scope' = scope
        BY <2>2 DEF CancelTask
      <3>2. ScopeRow(scope) /\ scope.lease = <<scope.lease[1], scope.lease[2]>>
        BY DEF Fenced, ScopeRow
      <3>3. scope.lease # None /\ scope.live => scope.lease[1] # t
        BY <2>2, <3>2 DEF Fenced, LeaseOwned
      <3> QED BY <1>5, <3>1, <3>2, <3>3 DEF Fenced, LeaseOwned
    <2> QED BY <2>1, <2>2
  <1> QED BY <1>1, <1>2, <1>5, <1>6, FencedFrom

LEMMA SetPausedKeepsFenced ==
    ASSUME Fenced, NEW b \in BOOLEAN, SetPaused(b)
    PROVE  Fenced'
  <1> DEFINE end(k) == IF k.status \in {"pending", "running"}
                       THEN [k EXCEPT !.status = "cancelled"] ELSE k
             to(k) == IF end(k).status = "cancelled"
                      THEN [end(k) EXCEPT !.plan = Withdrawn(@)] ELSE end(k)
             f == [t \in DOMAIN tasks |-> to(tasks[t])]
  <1>1. tasks' = f /\ sess' = sess
    BY DEF SetPaused
  <1>2. ASSUME NEW t \in DOMAIN tasks
        PROVE  f[t] \in TaskRows /\ OneWins(f[t])
    <2>1. tasks[t] \in TaskRows /\ OneWins(tasks[t])
      BY TaskAt DEF Fenced, GoodTasks
    <2>2. /\ end(tasks[t]) \in TaskRows /\ OneWins(end(tasks[t]))
          /\ end(tasks[t]).status \notin {"pending", "running"}
      BY <2>1 DEF TaskRows, TaskStatus, OneWins
    <2> DEFINE e == end(tasks[t])
    <2> HIDE DEF end
    <2>3. CASE e.status = "cancelled"
      <3> DEFINE k == [e EXCEPT !.plan = Withdrawn(e.plan)]
      <3>1. /\ k \in TaskRows /\ k.status = "cancelled"
            /\ \A g \in Generations : ~InEffect(k.plan[g])
        BY <2>2, <2>3 DEF TaskRows, TaskStatus, PlanStatus, Withdrawn, InEffect, OneWins
      <3>2. f[t] = k
        BY <2>3
      <3> HIDE DEF k, f
      <3> QED BY <3>1, <3>2 DEF OneWins
    <2>4. CASE e.status # "cancelled"
      BY <2>2, <2>4
    <2> QED BY <2>3, <2>4
  <1>3. DOMAIN f = DOMAIN tasks /\ f = [t \in DOMAIN tasks |-> f[t]]
    OBVIOUS
  <1> HIDE DEF f
  <1>4. GoodTasks(f) /\ Len(f) = Len(tasks) /\ Len(tasks) \in Nat
    BY <1>2, <1>3, AllTasksChange, TaskAt DEF Fenced
  <1>5. ScopeRow(scope') /\ scope'.lease = None
    BY DEF SetPaused, Fenced, ScopeRow, None
  <1> QED BY <1>1, <1>4, <1>5, FencedFrom DEF LeaseOwned

-----------------------------------------------------------------------------
(* All steps.                                                              *)

LEMMA WorkKeepsFenced ==
    ASSUME Fenced, NEW w \in Workers, Work(w)
    PROVE  Fenced'
  <1>1. CASE ClaimTask(w) \/ ClaimNew(w) \/ ClaimNothing(w)
    BY <1>1, ClaimTaskKeepsFenced, ClaimNewKeepsFenced, ClaimNothingKeepsFenced
  <1>2. CASE Process(w) \/ Propose(w) \/ Finish(w)
    BY <1>2, ProcessKeepsFenced, ProposeKeepsFenced, FinishKeepsFenced
  <1>3. CASE Commit(w) \/ CommitSimulation(w)
    BY <1>3, CommitKeepsFenced
  <1>4. CASE LeaseLost(w) \/ SnapshotStale(w)
    BY <1>4, OnlySessionMoves DEF LeaseLost, SnapshotStale
  <1> QED BY <1>1, <1>2, <1>3, <1>4 DEF Work

LEMMA FailuresKeepFenced ==
    ASSUME Fenced, Failures
    PROVE  Fenced'
  <1>1. ASSUME NEW w \in Workers, Crash(w)
        PROVE  Fenced'
    BY <1>1, OnlySessionMoves DEF Crash
  <1>2. ASSUME NEW w \in Workers, NEW code, TransactionFails(w, code)
        PROVE  Fenced'
    BY <1>2, OnlySessionMoves DEF TransactionFails
  <1> QED BY <1>1, <1>2, KernelFailsKeepsFenced, LeaseLapsesKeepsFenced DEF Failures

LEMMA UsersKeepFenced ==
    ASSUME Fenced, Users
    PROVE  Fenced'
  <1>1. ASSUME NEW m \in Members,
               \/ Admit(m) \/ ReviseTags(m) \/ EditCandidate(m)
               \/ SourceBreaks(m) \/ CloseMember(m)
        PROVE  Fenced'
    BY <1>1, ChangedKeepsFenced
       DEF Admit, ReviseTags, EditCandidate, SourceBreaks, CloseMember
  <1>2. ASSUME NEW d \in Demands, SetReception(d)
        PROVE  Fenced'
    BY <1>2, ChangedKeepsFenced DEF SetReception
  <1>3. ASSUME NEW m \in Members, AllocateOne(m)
        PROVE  Fenced'
    BY <1>3, CreatedKeepsFenced DEF AllocateOne, Modes
  <1>4. ASSUME NEW mode \in Modes, NEW ms \in SUBSET Members, CreateTask(mode, ms)
        PROVE  Fenced'
    BY <1>4, CreatedKeepsFenced DEF CreateTask
  <1>5. ASSUME NEW t \in DOMAIN tasks, RetryTask(t)
        PROVE  Fenced'
    <2>1. tasks[t].mode \in Modes /\ tasks[t].members \in SUBSET Members
      BY TaskAt DEF Fenced, TaskRows
    <2> QED BY <1>5, <2>1, CreatedKeepsFenced DEF RetryTask
  <1> QED BY <1>1, <1>2, <1>3, <1>4, <1>5, CancelTaskKeepsFenced, SetPausedKeepsFenced DEF Users

LEMMA FencedInit == Init => Fenced
  <1> SUFFICES ASSUME Init PROVE Fenced
    OBVIOUS
  <1>1. GoodTasks(tasks)
    BY EmptySeq DEF Init, GoodTasks
  <1>2. ScopeRow(scope) /\ LeaseOwned(scope, tasks)
    BY DEF Init, ScopeRow, LeaseOwned, None
  <1>3. sess = [w \in Workers |-> sess[w]] /\ \A w \in Workers : OnTask(sess[w], tasks)
    BY IdleOnTask DEF Init
  <1> QED BY <1>1, <1>2, <1>3 DEF Fenced

LEMMA NextKeepsFenced == Fenced /\ [Next]_vars => Fenced'
  <1> SUFFICES ASSUME Fenced, [Next]_vars PROVE Fenced'
    OBVIOUS
  <1>1. CASE Next
    BY <1>1, WorkKeepsFenced, FailuresKeepFenced, UsersKeepFenced DEF Next
  <1>2. CASE UNCHANGED vars
    BY <1>2 DEF vars, Fenced
  <1> QED BY <1>1, <1>2

LEMMA AlwaysFenced == Spec => []Fenced
  BY FencedInit, NextKeepsFenced, PTL DEF Spec

-----------------------------------------------------------------------------

LEMMA LiveLeaseWhenFenced == Fenced => LiveLeaseIsOwned
  <1> SUFFICES ASSUME Fenced PROVE LiveLeaseIsOwned
    OBVIOUS
  <1>1. DOMAIN tasks = 1..Len(tasks)
    BY TaskAt DEF Fenced
  <1> QED BY <1>1 DEF Fenced, LeaseOwned, LiveLeaseIsOwned

LEMMA OnePlanWhenFenced == Fenced => OnePlanInEffect
  <1> SUFFICES ASSUME Fenced, NEW t \in DOMAIN tasks
               PROVE  LET done == {g \in Generations :
                                     tasks[t].plan[g] \in {"simulated", "committed"}}
                      IN /\ tasks[t].status \in {"pending", "running"} =>
                                tasks[t].gen \in Generations
                         /\ Cardinality(done) <= 1
                         /\ done # {} => tasks[t].status = "completed"
    BY DEF OnePlanInEffect
  <1> DEFINE done == {g \in Generations : tasks[t].plan[g] \in {"simulated", "committed"}}
  <1>1. OneWins(tasks[t])
    BY TaskAt DEF Fenced, GoodTasks
  <1>2. done # {} => tasks[t].status = "completed"
    BY <1>1 DEF OneWins, InEffect
  <1>3. Cardinality(done) <= 1
    <2>1. CASE done = {}
      BY <2>1, FS_EmptySet
    <2>2. CASE done # {}
      <3>1. PICK g : done = {g}
        BY <1>1, <2>2 DEF OneWins, InEffect
      <3>2. Cardinality({g}) = 1
        BY FS_Singleton
      <3> QED BY <3>1, <3>2
    <2> QED BY <2>1, <2>2
  <1> QED BY <1>1, <1>2, <1>3 DEF OneWins

(* A live lease always belongs to the running generation of a task            *)
(* (claimAllocation, lockAllocationLease and every way a task ends).          *)
THEOREM LeasesAreOwned == Spec => []LiveLeaseIsOwned
  BY AlwaysFenced, LiveLeaseWhenFenced, PTL

(* A task runs at most three generations, and the lease and the generation    *)
(* let at most one of its plans take effect (commitAllocation,                *)
(* finishAllocationFailure, claimAllocation of an expired lease).             *)
THEOREM OnePlanWins == Spec => []OnePlanInEffect
  BY AlwaysFenced, OnePlanWhenFenced, PTL

-----------------------------------------------------------------------------
(* The contract.                                                           *)

LedgerInv ==
    /\ [m \in Members |-> Place(m)] \in [Members -> Contract!Places]
    /\ scope.next \in Nat
    /\ \A e \in targets : /\ e.member \in Members /\ Place(e.member) \in {"allocated", "out"}
                          /\ e.seq \in Nat /\ e.seq < scope.next
    /\ \A e, f \in targets : e.member = f.member \/ e.seq = f.seq => e = f

LEMMA AllocateKeepsLedger ==
    ASSUME LedgerInv, Contract!Allocate
    PROVE  LedgerInv'
  <1> DEFINE batch == targets' \ targets
  <1>1. /\ targets \subseteq targets' /\ batch \subseteq Contract!Entry
        /\ \A e \in batch : Place(e.member) = "eligible" /\ scope.next <= e.seq /\ e.seq < scope.next'
        /\ \A e, f \in batch : e.member = f.member \/ e.seq = f.seq => e = f
        /\ batch # {} /\ scope.next' \in Nat
    BY DEF Contract!Allocate, Contract!Batch, Contract!Entry
  <1>2. \A m \in Members :
           Place(m)' = IF \E e \in batch : e.member = m THEN "allocated" ELSE Place(m)
    BY DEF Contract!Allocate, Contract!Batch
  <1>3. scope.next < scope.next'
    BY <1>1 DEF LedgerInv, Contract!Entry
  <1>4. \A e \in targets' : /\ e.member \in Members /\ Place(e.member)' \in {"allocated", "out"}
                            /\ e.seq \in Nat /\ e.seq < scope.next'
    BY <1>1, <1>2, <1>3 DEF LedgerInv, Contract!Entry
  <1>5. \A e \in targets : \A f \in batch : e.member # f.member /\ e.seq # f.seq
    BY <1>1 DEF LedgerInv, Contract!Entry
  <1>6. \A e, f \in targets' : e.member = f.member \/ e.seq = f.seq => e = f
    BY <1>1, <1>5 DEF LedgerInv
  <1>7. [m \in Members |-> Place(m)'] \in [Members -> Contract!Places]
    BY <1>2 DEF LedgerInv, Contract!Places
  <1> QED BY <1>1, <1>4, <1>6, <1>7 DEF LedgerInv, Contract!Places

LEMMA ContractKeepsLedger ==
    ASSUME LedgerInv, [Contract!Next]_Contract!cvars
    PROVE  LedgerInv'
  <1>1. ASSUME NEW m \in Members, Contract!Enter(m)
        PROVE  LedgerInv'
    <2>1. \A e \in targets : e.member # m
      BY <1>1 DEF LedgerInv, Contract!Enter
    <2>2. \A k \in Members : Place(k)' = IF k = m THEN "eligible" ELSE Place(k)
      BY <1>1 DEF Contract!Enter
    <2>3. [k \in Members |-> Place(k)'] \in [Members -> Contract!Places]
      BY <2>2 DEF LedgerInv, Contract!Places
    <2> QED BY <1>1, <2>1, <2>2, <2>3 DEF LedgerInv, Contract!Enter, Contract!Places
  <1>2. ASSUME NEW gone \in SUBSET Members, Contract!Leave(gone)
        PROVE  LedgerInv'
    <2>1. \A k \in Members : Place(k)' = IF k \in gone THEN "out" ELSE Place(k)
      BY <1>2 DEF Contract!Leave
    <2>2. [k \in Members |-> Place(k)'] \in [Members -> Contract!Places]
      BY <2>1 DEF LedgerInv, Contract!Places
    <2> QED BY <1>2, <2>1, <2>2 DEF LedgerInv, Contract!Leave, Contract!Places
  <1>3. ASSUME UNCHANGED <<[m \in Members |-> Place(m)], targets, scope.next>>
        PROVE  LedgerInv'
    <2>1. \A k \in Members : Place(k)' = Place(k)
      BY <1>3
    <2>2. [k \in Members |-> Place(k)'] \in [Members -> Contract!Places]
      BY <2>1 DEF LedgerInv, Contract!Places
    <2> QED BY <1>3, <2>1, <2>2 DEF LedgerInv, Contract!Places
  <1> QED BY <1>1, <1>2, <1>3, AllocateKeepsLedger
          DEF Contract!Next, Contract!SetOpen, Contract!SetAccepting, Contract!cvars


-----------------------------------------------------------------------------
(* Plans.                                                                  *)

MemberRows == [status : MemberStatus, qual : Nat, valid : BOOLEAN]

\* What validateAllocationPlan has established of a plan for its snapshot.
IsPlan(plan, view) ==
    /\ Cardinality(plan) \in Nat
    /\ \A a \in plan :
          /\ a \in [member : Members, demand : Demands, seq : Nat]
          /\ a.member \in Included(view) /\ a.demand \in view.open \cap Wants[a.member]
          /\ view.next <= a.seq /\ a.seq < view.next + Cardinality(plan)
    /\ \A a, b \in plan : a.member = b.member \/ a.seq = b.seq => a = b

PlansAreSound ==
    \A w \in Workers : sess[w].pc \in {"computing", "proposed"} =>
                          IsPlan(sess[w].plan, sess[w].view)

Sound == member \in [Members -> MemberRows] /\ PlansAreSound

Refines == [Contract!Next]_(Contract!cvars)

LEMMA PlansForArePlans ==
    ASSUME NEW view, view.next \in Nat, NEW plan \in PlansFor(view)
    PROVE  IsPlan(plan, view)
  <1> DEFINE placed == Placeable(view)
             size == Cardinality(placed)
             numbers == view.next .. (view.next + size - 1)
  <1>1. PICK choice \in Choices(view), order \in Orders(view) :
           plan = {[member |-> m, demand |-> choice[m], seq |-> order[m]] : m \in placed}
    BY DEF PlansFor
  <1>2. placed \in SUBSET Members /\ placed \subseteq Included(view)
    BY DEF Included, Placeable
  <1>3. IsFiniteSet(placed)
    BY <1>2, FS_Subset, AllocationAssumption
  <1>4. size \in Nat
    BY <1>3, FS_CardinalityType
  <1> DEFINE entry == [m \in placed |-> [member |-> m, demand |-> choice[m], seq |-> order[m]]]
  <1>5. entry \in Bijection(placed, plan)
    BY <1>1 DEF Bijection, Injection, Surjection, IsInjective
  <1>6. Cardinality(plan) = size
    BY <1>3, <1>5, FS_Bijection DEF ExistsBijection
  <1>7. \A m \in placed : /\ choice[m] \in Demands /\ choice[m] \in view.open \cap Wants[m]
                          /\ order[m] \in numbers
                          /\ \A k \in placed : order[m] = order[k] => m = k
    BY <1>1 DEF Choices, Orders
  <1> HIDE DEF size
  <1>8. ASSUME NEW m \in placed
        PROVE  /\ order[m] \in Nat /\ view.next <= order[m]
               /\ order[m] < view.next + Cardinality(plan)
    BY <1>4, <1>6, <1>7
  <1>9. \A m \in placed : m \in Members /\ m \in Included(view)
    BY <1>2
  <1> HIDE DEF placed, numbers
  <1>10. \A a \in plan : \E m \in placed :
            a = [member |-> m, demand |-> choice[m], seq |-> order[m]]
    BY <1>1
  <1>11. ASSUME NEW a \in plan
         PROVE  /\ a \in [member : Members, demand : Demands, seq : Nat]
                /\ a.member \in Included(view) /\ a.demand \in view.open \cap Wants[a.member]
                /\ view.next <= a.seq /\ a.seq < view.next + Cardinality(plan)
    BY <1>7, <1>8, <1>9, <1>10
  <1>12. ASSUME NEW a \in plan, NEW b \in plan, a.member = b.member \/ a.seq = b.seq
         PROVE  a = b
    BY <1>7, <1>10, <1>12
  <1> QED BY <1>4, <1>6, <1>11, <1>12 DEF IsPlan


-----------------------------------------------------------------------------
(* Frames.                                                                 *)

\* A session changes.
LEMMA OneSession ==
    ASSUME Fenced, PlansAreSound, NEW w \in Workers, NEW x, sess' = [sess EXCEPT ![w] = x],
           x.pc \in {"computing", "proposed"} => IsPlan(x.plan, x.view)
    PROVE  PlansAreSound'
  BY DEF Fenced, PlansAreSound

\* A session changes, but not into one that trusts a plan.
LEMMA OneSessionLess ==
    ASSUME Fenced, PlansAreSound, NEW w \in Workers, NEW x, sess' = [sess EXCEPT ![w] = x],
           x.pc \notin {"computing", "proposed"}
    PROVE  PlansAreSound'
  BY OneSession

LEMMA IdleTrustsNothing == Idle.pc \notin {"computing", "proposed"}
  BY DEF Idle

\* The contract does not see the queue, the tasks, the lease and the workers.
LEMMA Unseen ==
    ASSUME Sound, UNCHANGED <<member, receiving, targets>>, PlansAreSound',
           scope'.paused = scope.paused, scope'.next = scope.next
    PROVE  Refines /\ Sound'
  BY DEF Refines, Contract!cvars, Place, Qualified, Sound

LEMMA ScopeKept ==
    ASSUME Fenced
    PROVE  /\ \A lease, live : LET sc == [scope EXCEPT !.lease = lease, !.live = live]
                               IN sc.paused = scope.paused /\ sc.next = scope.next
           /\ \A token, rev : LET sc == [Released(token) EXCEPT !.revision = rev]
                              IN sc.paused = scope.paused /\ sc.next = scope.next
           /\ \A token : /\ Released(token).paused = scope.paused
                         /\ Released(token).next = scope.next
           /\ \A rev : LET sc == [scope EXCEPT !.revision = rev]
                       IN sc.paused = scope.paused /\ sc.next = scope.next
  BY DEF Fenced, ScopeRow, Released

\* UPDATE of one membership.
LEMMA OneMember ==
    ASSUME Fenced, Sound, NEW m \in Members, NEW k \in MemberRows,
           member' = [member EXCEPT ![m] = k], UNCHANGED <<receiving, targets, sess>>,
           scope'.paused = scope.paused, scope'.next = scope.next
    PROVE  /\ Sound'
           /\ \A n \in Members \ {m} : Place(n)' = Place(n)
           /\ member'[m] = k
  BY DEF Sound, PlansAreSound, Place, Qualified

\* A member leaves, if it was not out already.
LEMMA OneLeaves ==
    ASSUME NEW m \in Members, \A n \in Members \ {m} : Place(n)' = Place(n),
           Place(m)' = "out", Place(m) \in {"eligible", "allocated", "out"},
           UNCHANGED <<receiving, targets>>,
           scope'.paused = scope.paused, scope'.next = scope.next
    PROVE  Refines
  <1> DEFINE gone == {m} \cap {n \in Members : Place(n) \in {"eligible", "allocated"}}
  <1>1. [n \in Members |-> Place(n)'] =
           [n \in Members |-> IF n \in gone THEN "out" ELSE Place(n)]
    OBVIOUS
  <1>2. Contract!Leave(gone) /\ gone \in SUBSET Members
    BY <1>1 DEF Contract!Leave
  <1> QED BY <1>2 DEF Refines, Contract!Next


-----------------------------------------------------------------------------
(* Workers.                                                                *)

LEMMA StartRefines ==
    ASSUME Fenced, Sound, NEW w \in Workers, NEW tks, NEW its, NEW t, Start(w, tks, its, t),
           UNCHANGED <<member, receiving, targets>>
    PROVE  Refines /\ Sound'
  <1> DEFINE x == [Idle EXCEPT !.pc = "claimed", !.task = t, !.gen = tks[t].gen]
  <1>1. sess' = [sess EXCEPT ![w] = x] /\ x.pc \notin {"computing", "proposed"}
    BY DEF Start, Idle
  <1> HIDE DEF x
  <1>2. PlansAreSound'
    BY <1>1, OneSessionLess DEF Sound
  <1>3. scope'.paused = scope.paused /\ scope'.next = scope.next
    BY ScopeKept DEF Start
  <1> QED BY <1>2, <1>3, Unseen

LEMMA ClaimsRefine ==
    ASSUME Fenced, Sound, NEW w \in Workers, ClaimTask(w) \/ ClaimNew(w) \/ ClaimNothing(w)
    PROVE  Refines /\ Sound'
  <1>1. CASE ClaimTask(w)
    BY <1>1, StartRefines DEF ClaimTask
  <1>2. CASE ClaimNew(w)
    BY <1>2, StartRefines DEF ClaimNew
  <1>3. CASE ClaimNothing(w)
    <2>1. UNCHANGED <<scope, member, receiving, targets, sess>>
      BY <1>3 DEF ClaimNothing
    <2> QED BY <2>1, Unseen DEF Sound, PlansAreSound
  <1> QED BY <1>1, <1>2, <1>3

\* A worker stops, gives up or reports; the scope only loses its lease.
LEMMA WorkerLeaves ==
    ASSUME Fenced, Sound, NEW w \in Workers, UNCHANGED <<member, receiving, targets>>,
           \/ sess' = [sess EXCEPT ![w] = Idle]
           \/ \E code : sess' = [sess EXCEPT ![w].pc = "failing", ![w].code = code],
           scope' = scope \/ \E token : scope' = Released(token)
    PROVE  Refines /\ Sound'
  <1>1. CASE sess' = [sess EXCEPT ![w] = Idle]
    <2>1. PlansAreSound'
      BY <1>1, IdleTrustsNothing, OneSessionLess DEF Sound
    <2> QED BY <2>1, ScopeKept, Unseen
  <1>2. ASSUME NEW code, sess' = [sess EXCEPT ![w].pc = "failing", ![w].code = code]
        PROVE  Refines /\ Sound'
    <2> DEFINE x == [sess[w] EXCEPT !.pc = "failing", !.code = code]
    <2>1. sess' = [sess EXCEPT ![w] = x]
      BY <1>2 DEF Fenced
    <2>2. x.pc \notin {"computing", "proposed"}
      BY DEF Fenced, OnTask, Session
    <2> HIDE DEF x
    <2>3. PlansAreSound'
      BY <2>1, <2>2, OneSessionLess DEF Sound
    <2> QED BY <2>3, ScopeKept, Unseen
  <1> QED BY <1>1, <1>2

LEMMA LeavesRefine ==
    ASSUME Fenced, Sound, NEW w \in Workers,
           \/ LeaseLost(w) \/ SnapshotStale(w) \/ CommitSimulation(w) \/ Finish(w)
           \/ Crash(w) \/ KernelFails(w) \/ \E code : TransactionFails(w, code)
    PROVE  Refines /\ Sound'
  <1>1. /\ UNCHANGED <<member, receiving, targets>>
        /\ \/ sess' = [sess EXCEPT ![w] = Idle]
           \/ \E code : sess' = [sess EXCEPT ![w].pc = "failing", ![w].code = code]
        /\ scope' = scope \/ \E token : scope' = Released(token)
    <2>1. CASE LeaseLost(w) \/ SnapshotStale(w)
      BY <2>1 DEF LeaseLost, SnapshotStale
    <2>2. CASE CommitSimulation(w)
      BY <2>2 DEF CommitSimulation
    <2>3. CASE Finish(w)
      BY <2>3 DEF Finish
    <2>4. CASE Crash(w) \/ KernelFails(w)
      BY <2>4 DEF Crash, KernelFails
    <2>5. CASE \E code : TransactionFails(w, code)
      BY <2>5 DEF TransactionFails
    <2> QED BY <2>1, <2>2, <2>3, <2>4, <2>5
  <1> QED BY <1>1, WorkerLeaves

LEMMA ProposeRefines ==
    ASSUME Fenced, Sound, NEW w \in Workers, Propose(w)
    PROVE  Refines /\ Sound'
  <1> DEFINE x == [sess[w] EXCEPT !.pc = "proposed"]
  <1>1. sess' = [sess EXCEPT ![w] = x]
    BY DEF Propose, Goto, Fenced
  <1>2. x.plan = sess[w].plan /\ x.view = sess[w].view
    BY DEF Fenced, OnTask, Session
  <1>3. IsPlan(x.plan, x.view)
    BY <1>2 DEF Propose, Sound, PlansAreSound
  <1> HIDE DEF x
  <1>4. PlansAreSound'
    BY <1>1, <1>3, OneSession DEF Sound
  <1> QED BY <1>4, Unseen DEF Propose

\* A clean-up asks for a new analysis of those who no longer qualify, and
\* they were out already.
LEMMA CleaningIsUnseen ==
    ASSUME Sound, NEW t, member' = member \/ member' = Cleaned(t)
    PROVE  /\ member' \in [Members -> MemberRows]
           /\ \A m \in Members : Place(m)' = Place(m)
  <1>1. CASE member' = member
    BY <1>1 DEF Sound, Place, Qualified
  <1>2. CASE member' = Cleaned(t)
    <2>1. ASSUME NEW m \in Members
          PROVE  member'[m] \in MemberRows /\ Place(m)' = Place(m)
      <3>1. member[m] \in MemberRows
        BY DEF Sound
      <3>2. CASE m \in Stale(t) /\ member[m].status = "pending_allocation"
        <4>1. member'[m] = [member[m] EXCEPT !.status = "needs_reanalysis"] /\ ~Qualified(m)
          BY <1>2, <3>2 DEF Cleaned, Stale
        <4> QED BY <3>1, <3>2, <4>1 DEF MemberRows, MemberStatus, Place, Qualified
      <3>3. CASE ~(m \in Stale(t) /\ member[m].status = "pending_allocation")
        BY <1>2, <3>1, <3>3 DEF Cleaned, Place, Qualified
      <3> QED BY <3>2, <3>3
    <2> QED BY <1>2, <2>1 DEF Cleaned
  <1> QED BY <1>1, <1>2

LEMMA ProcessRefines ==
    ASSUME Fenced, Sound, scope.next \in Nat, NEW w \in Workers, Process(w)
    PROVE  Refines /\ Sound'
  <1> DEFINE t == sess[w].task
             view == Snapshot(t)
  <1>1. UNCHANGED <<receiving, targets>> /\ (member' = member \/ member' = Cleaned(t))
    BY DEF Process
  <1>2. ASSUME Included(view) = {}
        PROVE  PlansAreSound' /\ scope'.paused = scope.paused /\ scope'.next = scope.next
    <2>1. PICK rev : scope' = [Released(<<t, sess[w].gen>>) EXCEPT !.revision = rev]
      BY <1>2 DEF Process
    <2>2. sess' = [sess EXCEPT ![w] = Idle]
      BY <1>2 DEF Process
    <2>3. PlansAreSound'
      BY <2>2, IdleTrustsNothing, OneSessionLess DEF Sound
    <2>4. scope'.paused = scope.paused /\ scope'.next = scope.next
      BY <2>1, ScopeKept
    <2> QED BY <2>3, <2>4
  <1>3. ASSUME Included(view) # {}
        PROVE  PlansAreSound' /\ scope'.paused = scope.paused /\ scope'.next = scope.next
    <2>1. PICK rev : scope' = [scope EXCEPT !.revision = rev]
      BY <1>3 DEF Process
    <2>2. PICK plan \in PlansFor(view) : \E r :
             sess' = [sess EXCEPT ![w] = [@ EXCEPT !.pc = "computing", !.plan = plan,
                                             !.view = [view EXCEPT !.revision = r]]]
      BY <1>3 DEF Process
    <2>3. PICK r : sess' = [sess EXCEPT ![w] = [@ EXCEPT !.pc = "computing", !.plan = plan,
                                                     !.view = [view EXCEPT !.revision = r]]]
      BY <2>2
    <2> DEFINE v == [view EXCEPT !.revision = r]
               x == [sess[w] EXCEPT !.pc = "computing", !.plan = plan, !.view = v]
    <2>4. v.next = view.next /\ v.open = view.open /\ v.quals = view.quals
      BY DEF Snapshot
    <2>5. IsPlan(plan, view)
      BY PlansForArePlans DEF Snapshot
    <2> HIDE DEF view
    <2>6. IsPlan(plan, v)
      BY <2>4, <2>5 DEF IsPlan, Included
    <2>7. sess' = [sess EXCEPT ![w] = x]
      BY <2>3 DEF Fenced
    <2> HIDE DEF v
    <2>8. x.plan = plan /\ x.view = v
      BY DEF Fenced, OnTask, Session
    <2> HIDE DEF x
    <2>9. PlansAreSound'
      BY <2>6, <2>7, <2>8, OneSession DEF Sound
    <2>10. scope'.paused = scope.paused /\ scope'.next = scope.next
      BY <2>1, ScopeKept
    <2> QED BY <2>9, <2>10
  <1>4. member' \in [Members -> MemberRows] /\ \A m \in Members : Place(m)' = Place(m)
    BY <1>1, CleaningIsUnseen
  <1> QED BY <1>1, <1>2, <1>3, <1>4 DEF Refines, Sound, Contract!cvars


\* The commit is the contract's Allocate, or nothing for an empty plan.
LEMMA CommitRefines ==
    ASSUME Fenced, Sound, LedgerInv, NEW w \in Workers, Commit(w)
    PROVE  Refines /\ Sound'
  <1> DEFINE t == sess[w].task
             view == sess[w].view
             plan == sess[w].plan
  <1>1. HoldsLease(w) /\ SameInputs(w) /\ tasks[t].mode = "execute" /\ IsPlan(plan, view)
    BY DEF Commit, Sound, PlansAreSound
  <1>2. ~scope.paused
    BY <1>1 DEF HoldsLease
  <1>3. /\ view.next = scope.next /\ view.open = receiving
        /\ \A m \in Included(view) : m \in Members /\ Qualified(m)
    BY <1>1 DEF SameInputs, Snapshot, Included
  <1>4. /\ sess' = [sess EXCEPT ![w] = Idle] /\ targets' = targets \cup plan
        /\ receiving' = receiving
        /\ member' = [m \in Members |-> IF m \in AssignedBy(plan)
                                        THEN [member[m] EXCEPT !.status = "allocated"]
                                        ELSE member[m]]
    BY DEF Commit
  <1>5. PICK rev : scope' = [Released(<<t, sess[w].gen>>) EXCEPT
                               !.revision = rev, !.next = Advanced(plan)]
    BY DEF Commit
  <1>6. scope'.paused = scope.paused /\ scope'.next = scope.next + Cardinality(plan)
    BY <1>5 DEF Fenced, ScopeRow, Released, Advanced
  <1>7. PlansAreSound'
    BY <1>4, IdleTrustsNothing, OneSessionLess DEF Sound
  <1> HIDE DEF plan, view
  <1>8. \A a \in plan : /\ a \in Contract!Entry
                        /\ Qualified(a.member) /\ a.demand \in receiving \cap Wants[a.member]
                        /\ scope.next <= a.seq /\ a.seq < scope'.next
    BY <1>1, <1>3, <1>6 DEF IsPlan, Contract!Entry
  <1>9. ASSUME NEW m \in Members
        PROVE  /\ member'[m] \in MemberRows
               /\ Place(m)' = IF \E a \in plan : a.member = m THEN "allocated" ELSE Place(m)
    <2>1. member[m] \in MemberRows
      BY DEF Sound
    <2>2. CASE m \in AssignedBy(plan)
      <3>1. member'[m] = [member[m] EXCEPT !.status = "allocated"]
        BY <1>4, <2>2
      <3>2. \E a \in plan : a.member = m
        BY <2>2 DEF AssignedBy
      <3>3. member'[m] \in MemberRows /\ member'[m].status = "allocated"
        BY <2>1, <3>1 DEF MemberRows, MemberStatus
      <3>4. Place(m)' = "allocated"
        BY <3>3 DEF Place, Qualified
      <3> QED BY <3>2, <3>3, <3>4
    <2>3. CASE m \notin AssignedBy(plan)
      <3>1. member'[m] = member[m] /\ ~(\E a \in plan : a.member = m)
        BY <1>4, <2>3 DEF AssignedBy
      <3> QED BY <2>1, <3>1 DEF Place, Qualified
    <2> QED BY <2>2, <2>3
  <1>10. Sound'
    BY <1>4, <1>7, <1>9 DEF Sound
  <1>11. CASE plan = {}
    <2>1. Cardinality(plan) = 0 /\ scope.next \in Nat
      BY <1>11, FS_EmptySet DEF LedgerInv
    <2>2. UNCHANGED <<receiving, targets>> /\ scope'.next = scope.next
      BY <1>4, <1>6, <1>11, <2>1
    <2>3. \A m \in Members : Place(m)' = Place(m)
      BY <1>9, <1>11
    <2> QED BY <1>6, <1>10, <2>2, <2>3 DEF Refines, Contract!cvars
  <1>12. CASE plan # {}
    <2>1. targets' \ targets = plan
      BY <1>4, <1>8 DEF LedgerInv, Contract!Entry
    <2>2. scope'.next \in Nat
      BY <1>1, <1>6 DEF IsPlan, LedgerInv
    <2>3. \A a \in plan : Place(a.member) = "eligible" /\ a.member \in Members
      BY <1>8 DEF Place, Qualified, Contract!Entry
    <2>4. \A a, b \in plan : a.member = b.member \/ a.seq = b.seq => a = b
      BY <1>1 DEF IsPlan
    <2>5. Contract!Allocate
      BY <1>2, <1>4, <1>6, <1>8, <1>9, <1>12, <2>1, <2>2, <2>3, <2>4
         DEF Contract!Allocate, Contract!Batch
    <2> QED BY <1>10, <2>5 DEF Refines, Contract!Next
  <1> QED BY <1>11, <1>12

-----------------------------------------------------------------------------
(* Users and other components.                                             *)

LEMMA ChangedScope ==
    ASSUME Fenced, Changed
    PROVE  scope'.paused = scope.paused /\ scope'.next = scope.next
  BY DEF Changed, Fenced, ScopeRow

LEMMA AdmitRefines ==
    ASSUME Fenced, Sound, NEW m \in Members, Admit(m)
    PROVE  Refines /\ Sound'
  <1> DEFINE k == [status |-> "pending_allocation", qual |-> 1, valid |-> TRUE]
  <1>1. /\ member' = [member EXCEPT ![m] = k] /\ UNCHANGED <<receiving, targets, sess>>
        /\ member[m].status = "absent"
    BY DEF Admit
  <1>2. k \in MemberRows
    BY DEF MemberRows, MemberStatus
  <1>3. scope'.paused = scope.paused /\ scope'.next = scope.next
    BY ChangedScope DEF Admit
  <1>4. Sound' /\ (\A n \in Members \ {m} : Place(n)' = Place(n)) /\ member'[m] = k
    BY <1>1, <1>2, <1>3, OneMember
  <1>5. Place(m) = "absent" /\ Place(m)' = "eligible"
    BY <1>1, <1>4 DEF Place, Qualified
  <1>6. [n \in Members |-> Place(n)'] =
           [[n \in Members |-> Place(n)] EXCEPT ![m] = "eligible"]
    BY <1>4, <1>5
  <1>7. Contract!Enter(m)
    BY <1>1, <1>3, <1>5, <1>6 DEF Contract!Enter
  <1> QED BY <1>4, <1>7 DEF Refines, Contract!Next

LEMMA ReviseTagsRefines ==
    ASSUME Fenced, Sound, NEW m \in Members, ReviseTags(m)
    PROVE  Refines /\ Sound'
  <1> DEFINE k == [member[m] EXCEPT !.qual = @ + 1]
  <1>1. /\ member' = [member EXCEPT ![m] = k] /\ UNCHANGED <<receiving, targets, sess>>
        /\ Qualified(m)
    BY DEF ReviseTags
  <1>2. k \in MemberRows /\ k.status = member[m].status /\ k.valid = member[m].valid
    BY DEF Sound, MemberRows
  <1>3. scope'.paused = scope.paused /\ scope'.next = scope.next
    BY ChangedScope DEF ReviseTags
  <1> HIDE DEF k
  <1>4. Sound' /\ (\A n \in Members \ {m} : Place(n)' = Place(n)) /\ member'[m] = k
    BY <1>1, <1>2, <1>3, OneMember
  <1>5. Place(m)' = Place(m)
    BY <1>2, <1>4 DEF Place, Qualified
  <1>6. \A n \in Members : Place(n)' = Place(n)
    BY <1>4, <1>5
  <1> QED BY <1>1, <1>3, <1>4, <1>6 DEF Refines, Contract!cvars

LEMMA DeparturesRefine ==
    ASSUME Fenced, Sound, NEW m \in Members,
           EditCandidate(m) \/ SourceBreaks(m) \/ CloseMember(m)
    PROVE  Refines /\ Sound'
  <1>1. PICK k \in MemberRows :
           /\ member' = [member EXCEPT ![m] = k]
           /\ k.status \in {"pending_allocation", "needs_reanalysis", "closed"}
           /\ k.status = "pending_allocation" => ~k.valid
    <2>1. member[m] \in MemberRows
      BY DEF Sound
    <2>2. CASE EditCandidate(m)
      <3> DEFINE k == [member[m] EXCEPT !.status = "needs_reanalysis"]
      <3>1. member' = [member EXCEPT ![m] = k] /\ k \in MemberRows /\ k.status = "needs_reanalysis"
        BY <2>1, <2>2 DEF EditCandidate, MemberRows, MemberStatus
      <3> QED BY <3>1
    <2>3. CASE SourceBreaks(m)
      <3> DEFINE k == [member[m] EXCEPT !.valid = FALSE]
      <3>1. /\ member' = [member EXCEPT ![m] = k] /\ k \in MemberRows
            /\ k.status = "pending_allocation" /\ ~k.valid
        BY <2>1, <2>3 DEF SourceBreaks, MemberRows
      <3> QED BY <3>1
    <2>4. CASE CloseMember(m)
      <3> DEFINE k == [member[m] EXCEPT !.status = "closed"]
      <3>1. member' = [member EXCEPT ![m] = k] /\ k \in MemberRows /\ k.status = "closed"
        BY <2>1, <2>4 DEF CloseMember, MemberRows, MemberStatus
      <3> QED BY <3>1
    <2> QED BY <2>2, <2>3, <2>4
  <1>2. /\ UNCHANGED <<receiving, targets, sess>> /\ Changed
        /\ member[m].status \in {"pending_allocation", "allocated", "needs_reanalysis"}
    BY DEF EditCandidate, SourceBreaks, CloseMember
  <1>3. scope'.paused = scope.paused /\ scope'.next = scope.next
    BY <1>2, ChangedScope
  <1>4. Sound' /\ (\A n \in Members \ {m} : Place(n)' = Place(n)) /\ member'[m] = k
    BY <1>1, <1>2, <1>3, OneMember
  <1>5. Place(m)' = "out"
    BY <1>1, <1>4 DEF Place, Qualified
  <1>6. Place(m) \in {"eligible", "allocated", "out"}
    BY <1>2 DEF Place, Qualified
  <1> QED BY <1>2, <1>3, <1>4, <1>5, <1>6, OneLeaves

LEMMA SetReceptionRefines ==
    ASSUME Fenced, Sound, NEW d \in Demands, SetReception(d)
    PROVE  Refines /\ Sound'
  <1>1. /\ UNCHANGED <<member, targets, sess>>
        /\ receiving' = receiving \cup {d} \/ receiving' = receiving \ {d}
    BY DEF SetReception
  <1>2. scope'.paused = scope.paused /\ scope'.next = scope.next
    BY ChangedScope DEF SetReception
  <1>3. Sound'
    BY <1>1 DEF Sound, PlansAreSound
  <1>4. \A m \in Members : Place(m)' = Place(m)
    BY <1>1 DEF Place, Qualified
  <1>5. Contract!SetOpen(d)
    BY <1>1, <1>2, <1>4 DEF Contract!SetOpen
  <1> QED BY <1>3, <1>5 DEF Refines, Contract!Next

LEMMA SetPausedRefines ==
    ASSUME Fenced, Sound, NEW b \in BOOLEAN, SetPaused(b)
    PROVE  Refines /\ Sound'
  <1>1. /\ UNCHANGED <<member, receiving, targets, sess>>
        /\ scope' = [scope EXCEPT !.paused = b, !.revision = @ + 1, !.lease = None, !.live = FALSE]
    BY DEF SetPaused
  <1>2. scope'.paused = b /\ scope'.next = scope.next
    BY <1>1 DEF Fenced, ScopeRow
  <1>3. Sound'
    BY <1>1 DEF Sound, PlansAreSound
  <1>4. \A m \in Members : Place(m)' = Place(m)
    BY <1>1 DEF Place, Qualified
  <1>5. Contract!SetAccepting(~b)
    BY <1>1, <1>2, <1>4 DEF Contract!SetAccepting
  <1> QED BY <1>3, <1>5 DEF Refines, Contract!Next

LEMMA QueueRefines ==
    ASSUME Fenced, Sound,
           \/ \E mode, ms : CreateTask(mode, ms)
           \/ \E m : AllocateOne(m)
           \/ \E t : RetryTask(t) \/ CancelTask(t)
           \/ LeaseLapses
    PROVE  Refines /\ Sound'
  <1>1. /\ UNCHANGED <<member, receiving, targets, sess>>
        /\ scope'.paused = scope.paused /\ scope'.next = scope.next
    <2>1. CASE \E mode, ms : CreateTask(mode, ms)
      BY <2>1 DEF CreateTask
    <2>2. CASE \E m : AllocateOne(m)
      BY <2>2, ChangedScope DEF AllocateOne
    <2>3. CASE \E t : RetryTask(t)
      BY <2>3 DEF RetryTask
    <2>4. CASE \E t : CancelTask(t)
      <3>1. UNCHANGED <<member, receiving, targets, sess>>
        BY <2>4 DEF CancelTask
      <3>2. scope' = scope \/ scope' = Released(scope.lease)
        BY <2>4 DEF CancelTask
      <3> QED BY <3>1, <3>2, ScopeKept
    <2>5. CASE LeaseLapses
      BY <2>5 DEF LeaseLapses, Fenced, ScopeRow
    <2> QED BY <2>1, <2>2, <2>3, <2>4, <2>5
  <1> QED BY <1>1, Unseen DEF Sound, PlansAreSound

-----------------------------------------------------------------------------
(* Every step.                                                             *)

LEMMA InitRefines == Init => Sound /\ LedgerInv /\ Contract!Init
  <1> SUFFICES ASSUME Init PROVE Sound /\ LedgerInv /\ Contract!Init
    OBVIOUS
  <1>1. Sound
    BY DEF Init, Sound, PlansAreSound, MemberRows, MemberStatus, Idle
  <1>2. ASSUME NEW m \in Members
        PROVE  Place(m) = "absent"
    <2>1. member[m].status = "absent"
      BY DEF Init
    <2> QED BY <2>1 DEF Place, Qualified
  <1>3. scope.next = 1 /\ ~scope.paused /\ targets = {} /\ receiving \in SUBSET Demands
    BY DEF Init
  <1> QED BY <1>1, <1>2, <1>3 DEF LedgerInv, Contract!Init, Contract!Places

LEMMA NextRefines ==
    ASSUME Fenced, Sound, LedgerInv, [Next]_vars
    PROVE  Refines /\ Sound' /\ LedgerInv'
  <1>1. Refines /\ Sound'
    <2>1. CASE \E w \in Workers : Work(w)
      BY <2>1, ClaimsRefine, ProcessRefines, ProposeRefines, LeavesRefine, CommitRefines
         DEF Work, LedgerInv
    <2>2. CASE Failures
      BY <2>2, LeavesRefine, QueueRefines DEF Failures
    <2>3. CASE Users
      BY <2>3, AdmitRefines, ReviseTagsRefines, DeparturesRefine, SetReceptionRefines,
         SetPausedRefines, QueueRefines DEF Users
    <2>4. CASE UNCHANGED vars
      <3>1. UNCHANGED <<scope, member, receiving, targets, sess>>
        BY <2>4 DEF vars
      <3> QED BY <3>1, Unseen DEF Sound, PlansAreSound
    <2> QED BY <2>1, <2>2, <2>3, <2>4 DEF Next
  <1> QED BY <1>1, ContractKeepsLedger DEF Refines

LEMMA AlwaysSound == Spec => []Sound /\ []LedgerInv /\ [][Refines]_vars
  <1>1. Sound /\ LedgerInv /\ Fenced /\ [Next]_vars => Sound' /\ LedgerInv' /\ Refines
    BY NextRefines
  <1> QED BY <1>1, InitRefines, AlwaysFenced, PTL DEF Spec

(* The protocol of tasks, generations, leases and workers implements the      *)
(* contract: every step of it is a step of the contract or unseen by it       *)
(* (commitAllocation under lockAllocationLease and the frozen snapshot).      *)
THEOREM AllocationImplementsContract == Spec => ImplementsContract
  <1>1. Init => Contract!Init
    BY InitRefines
  <1>2. Fenced /\ Sound /\ LedgerInv /\ [Next]_vars => [Contract!Next]_(Contract!cvars)
    BY NextRefines DEF Refines
  <1> QED BY <1>1, <1>2, AlwaysFenced, AlwaysSound, PTL DEF Spec, ImplementsContract, Contract!Spec

(* No two targets give away one membership or share a place in the order,     *)
(* whatever tasks overlap (commitAllocation, next_sequence of the scope).     *)
THEOREM NobodyIsAllocatedTwice ==
    Spec => [](Contract!OneTargetPerMember /\ Contract!SequenceIsTotal)
  <1>1. LedgerInv => Contract!OneTargetPerMember /\ Contract!SequenceIsTotal
    BY DEF LedgerInv, Contract!OneTargetPerMember, Contract!SequenceIsTotal
  <1> QED BY <1>1, AlwaysSound, PTL

=============================================================================
