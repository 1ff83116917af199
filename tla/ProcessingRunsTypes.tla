------------------------- MODULE ProcessingRunsTypes --------------------------
(***************************************************************************)
(* Proofs about ProcessingRuns, for any number of runs, candidates,        *)
(* workers and volunteers, any subset of workers that stall, any bounds.   *)
(***************************************************************************)
EXTENDS ProcessingRuns, TLAPS

-----------------------------------------------------------------------------
(* The helpers of the model return rows of the right type.                 *)

\* A worker without a job is in a well-typed session.
LEMMA IdleIsSession == Idle \in Sessions
  BY DEF Idle, Sessions, Pcs, Errors, Steps

\* Leaving executeRun keeps the run and goes to the ownership check.
LEMMA ReturnIsSession ==
    ASSUME NEW s \in Sessions, NEW e \in Errors
    PROVE  Return(s, e) \in Sessions /\ Return(s, e).run = s.run /\ Return(s, e).pc = "own"
  BY DEF Return, Idle, Sessions, Pcs, Errors, Steps

\* The next step of a run is a step, of the same run.
LEMMA AdvanceIsSession ==
    ASSUME ConstantsAssumption, NEW s \in Sessions, s.run \in Runs
    PROVE  Advance(s) \in Sessions /\ Advance(s).run = s.run
  <1>1. NextStep(s.run, s.at) \in Steps /\ FirstStep(s.run) \in Steps
    BY DEF NextStep, FirstStep, Steps, ConstantsAssumption, Kinds, Sessions
  <1>2. ASSUME NEW t \in Steps PROVE EntryPc(s, s.run, t) \in Pcs
    BY DEF EntryPc, Pcs, Executing
  <1>3. Return(s, "none") \in Sessions /\ Return(s, "none").run = s.run
    BY ReturnIsSession DEF Errors
  <1> QED BY <1>1, <1>2, <1>3 DEF Advance, Sessions

\* The absent goroutine is well typed.
LEMMA NoTaskIsTask == NoTask \in Tasks /\ ~NoTask.on
  BY DEF Tasks, NoTask, NoSnapshot, Snapshots, AllVerdicts, Ranks, NoRevision

\* prepareSnapshot chooses a volunteer, or none.
LEMMA FirstOpenIsRank ==
    ASSUME ConstantsAssumption, NEW c \in Candidates, NEW rejected
    PROVE  FirstOpen(c, rejected) \in Ranks
  <1> DEFINE first == {v \in Wishes[c] \ rejected : \A u \in Wishes[c] \ rejected : v <= u}
  <1>1. first \subseteq Volunteers
    BY DEF ConstantsAssumption
  <1>2. CASE first = {}
    BY <1>2 DEF FirstOpen, Ranks
  <1>3. CASE first # {}
    <2>1. (CHOOSE v \in first : TRUE) \in first
      BY <1>3
    <2> QED BY <2>1, <1>1, <1>3 DEF FirstOpen, Ranks
  <1> QED BY <1>2, <1>3

\* So does it for a retry.
LEMMA CurrentIsRank ==
    ASSUME ConstantsAssumption, NEW r \in Runs, NEW c \in Candidates, NEW rejected
    PROVE  Current(r, c, rejected) \in Ranks
  <1>1. FirstOpen(c, rejected) \in Ranks
    BY FirstOpenIsRank
  <1>2. Retry[r] \in Ranks
    BY DEF ConstantsAssumption, Ranks
  <1> QED BY <1>1, <1>2 DEF Current, Ranks

\* Releasing, invalidating, re-holding and committing a workflow.
LEMMA WorkflowUpdates ==
    ASSUME NEW f \in Workflows
    PROVE  /\ Unclaimed(f) \in Workflows
           /\ Invalidated(f) \in Workflows
           /\ Archived(f) \in Workflows
           /\ Freed(f) \in Workflows
           /\ \A h \in Holds, v \in Ranks : [f EXCEPT !.held = h, !.on = v] \in Workflows
  <1>1. Unclaimed(f) \in Workflows
    BY DEF Unclaimed, Workflows
  <1>2. Unclaimed(f).rev + 1 \in Nat
    BY <1>1 DEF Workflows
  <1>3. Invalidated(f) \in Workflows
    BY <1>1, <1>2 DEF Invalidated, Workflows
  <1>4. \A h \in Holds, v \in Ranks : [f EXCEPT !.held = h, !.on = v] \in Workflows
    BY DEF Workflows
  <1> QED BY <1>1, <1>3, <1>4 DEF Archived, Freed, Holds, Ranks

\* Another current resume.
LEMMA WorkflowMoves ==
    ASSUME NEW f \in Workflows, NEW p \in Ranks
    PROVE  Touched(f, p) \in Workflows /\ Committed(f, p) \in Workflows
  <1>1. Touched(f, p) \in Workflows
    BY DEF Touched, Workflows
  <1>2. Unclaimed(Touched(f, p)) \in Workflows
    BY <1>1, WorkflowUpdates
  <1>3. Unclaimed(Touched(f, p)).rev + 1 \in Nat
    BY <1>2 DEF Workflows
  <1> QED BY <1>1, <1>2, <1>3 DEF Committed, Workflows

\* talentPool leaves a well-typed workflow.
LEMMA AfterLastWishIsWorkflow ==
    ASSUME NEW f \in Workflows, NEW c \in Candidates, NEW closed
    PROVE  AfterLastWish(f, c, closed) \in Workflows
  <1>1. [f EXCEPT !.held = "talent_pool", !.on = 0] \in Workflows
    BY WorkflowUpdates DEF Holds, Ranks
  <1>2. [f EXCEPT !.held = "free", !.on = 0, !.resume = 0] \in Workflows
    BY DEF Workflows, Holds, Ranks
  <1> QED BY <1>1, <1>2 DEF AfterLastWish

\* summarizeRun writes booleans for counts and leaves the other columns.
LEMMA SummarisedType ==
    ASSUME run \in [Runs -> RunRows], NEW r \in Runs
    PROVE  /\ Summarised(r) \in [Runs -> RunRows]
           /\ \A q \in Runs : /\ Summarised(r)[q].status = run[q].status
                              /\ Summarised(r)[q].cancel = run[q].cancel
  <1> DEFINE failed == \E c \in Scope[r] : istat[r][c] = "failed"
             attention == \E c \in Scope[r] : istat[r][c] = "needs_attention"
             row == [run[r] EXCEPT !.failed = failed, !.attention = attention]
  <1>1. row \in RunRows /\ row.status = run[r].status /\ row.cancel = run[r].cancel
    <2>1. failed \in BOOLEAN /\ attention \in BOOLEAN
      OBVIOUS
    <2> HIDE DEF failed, attention
    <2> QED BY <2>1 DEF RunRows
  <1>2. Summarised(r) = [run EXCEPT ![r] = row]
    BY DEF Summarised
  <1> HIDE DEF row
  <1> QED BY <1>1, <1>2

-----------------------------------------------------------------------------
(* Steps of one worker.                                                    *)

\* A busy worker works on a run.
LEMMA Busy ==
    ASSUME TypeOK, NEW w \in Workers, sess[w].pc # "idle"
    PROVE  /\ sess[w] \in Sessions /\ sess[w].run \in Runs
           /\ run[sess[w].run] \in RunRows /\ job[sess[w].run] \in JobRows
  BY DEF TypeOK

\* The part of TypeOK about who works on what survives a step of w.
LEMMA SessionStep ==
    ASSUME TypeOK, NEW w \in Workers,
           \A u \in Workers \ {w} : sess'[u] = sess[u],
           sess'[w].pc # "idle" => sess'[w].run \in Runs,
           \A u \in Workers \ {w}, c \in Candidates : task'[u][c].on => task[u][c].on,
           \A c \in Candidates : task'[w][c].on =>
                                   sess'[w].pc = "work" /\ sess'[w].at = "step4"
    PROVE  /\ \A u \in Workers : sess'[u].pc # "idle" => sess'[u].run \in Runs
           /\ \A u \in Workers, c \in Candidates :
                task'[u][c].on => sess'[u].pc = "work" /\ sess'[u].at = "step4"
  BY DEF TypeOK

\* A worker may move to any point of the walk.
LEMMA TypeGoto ==
    ASSUME TypeOK, NEW w \in Workers, NEW p \in Pcs, Goto(w, p)
    PROVE  /\ sess' \in [Workers -> Sessions]
           /\ \A u \in Workers \ {w} : sess'[u] = sess[u]
           /\ sess'[w].run = sess[w].run /\ sess'[w].at = sess[w].at /\ sess'[w].pc = p
  <1> DEFINE s == [sess[w] EXCEPT !.pc = p]
  <1>1. s \in Sessions /\ s.run = sess[w].run /\ s.at = sess[w].at /\ s.pc = p
    BY DEF Sessions, TypeOK
  <1>2. sess' = [sess EXCEPT ![w] = s]
    BY DEF Goto
  <1> HIDE DEF s
  <1> QED BY <1>1, <1>2 DEF TypeOK

\* executeRun may return with any known error.
LEMMA TypeFail ==
    ASSUME TypeOK, NEW w \in Workers, NEW e \in Errors, Fail(w, e)
    PROVE  /\ sess' \in [Workers -> Sessions]
           /\ \A u \in Workers \ {w} : sess'[u] = sess[u]
           /\ sess'[w].run = sess[w].run /\ sess'[w].pc = "own"
  BY ReturnIsSession DEF Fail, TypeOK

\* analyzeItems takes c off its list, with or without an error.
LEMMA TypeReport ==
    ASSUME TypeOK, NEW w \in Workers, NEW c \in Candidates, NEW e \in Errors,
           Report(w, c, e) \/ Settle(w, c) \/ UNCHANGED sess
    PROVE  /\ sess' \in [Workers -> Sessions]
           /\ \A u \in Workers \ {w} : sess'[u] = sess[u]
           /\ sess'[w].run = sess[w].run /\ sess'[w].at = sess[w].at
           /\ sess'[w].pc = sess[w].pc
  <1> DEFINE err == IF Report(w, c, e) /\ sess[w].err = "none" THEN e ELSE sess[w].err
             todo == sess[w].todo \ {c}
             s == [sess[w] EXCEPT !.todo = todo, !.err = err]
  <1>1. sess[w] \in Sessions /\ todo \in SUBSET Candidates /\ err \in Errors
    BY DEF Sessions, TypeOK
  <1>2. CASE UNCHANGED sess
    BY <1>2 DEF TypeOK
  <1>3. CASE Settle(w, c) \/ Report(w, c, e)
    <2>1. sess' = [sess EXCEPT ![w] = s]
      <3>1. CASE Report(w, c, e)
        BY <3>1 DEF Report
      <3>2. CASE ~Report(w, c, e)
        <4>1. sess' = [sess EXCEPT ![w].todo = todo]
          BY <1>3, <3>2 DEF Settle
        <4>2. s = [sess[w] EXCEPT !.todo = todo]
          BY <1>1, <3>2 DEF Sessions
        <4> QED BY <4>1, <4>2
      <3> QED BY <3>1, <3>2
    <2>2. s \in Sessions /\ s.run = sess[w].run /\ s.at = sess[w].at /\ s.pc = sess[w].pc
      <3> HIDE DEF err, todo
      <3> QED BY <1>1 DEF Sessions
    <2> HIDE DEF s
    <2> QED BY <2>1, <2>2 DEF TypeOK
  <1> QED BY <1>2, <1>3

\* A goroutine may end at any time.
LEMMA TypeEndTask ==
    ASSUME TypeOK, NEW w \in Workers, NEW c \in Candidates, EndTask(w, c)
    PROVE  /\ task' \in [Workers -> [Candidates -> Tasks]]
           /\ \A u \in Workers, d \in Candidates : task'[u][d].on => task[u][d].on
  BY NoTaskIsTask DEF EndTask, TypeOK

\* itemOutcome writes a status of an item.
LEMMA TypeSetItem ==
    ASSUME TypeOK, NEW r \in Runs, NEW c \in Candidates, NEW status \in ItemStatus,
           SetItem(r, c, status)
    PROVE  istat' \in [Runs -> [Candidates -> ItemStatus]]
  BY DEF SetItem, TypeOK

\* applicationState writes a status of an application.
LEMMA TypeSetApp ==
    ASSUME TypeOK, NEW c \in Candidates, NEW v, NEW status \in Applications,
           SetApp(c, v, status)
    PROVE  app' \in [Candidates -> [Volunteers -> Applications]]
  BY DEF SetApp, TypeOK

\* All parts of TypeOK together, for a step in which only w may change its session.
LEMMA TypeStep ==
    ASSUME TypeOK, NEW w \in Workers,
           run' \in [Runs -> RunRows],
           stage' \in [Runs -> [Steps -> StageStatus]],
           job' \in [Runs -> JobRows],
           istat' \in [Runs -> [Candidates -> ItemStatus]],
           item' \in [Runs -> [Candidates -> ItemRows]],
           snap' \in [Runs -> [Candidates -> Snapshots]],
           flow' \in [Candidates -> Workflows],
           app' \in [Candidates -> [Volunteers -> Applications]],
           decisions' \in [Runs -> [Candidates -> [Volunteers -> Nat]]],
           sess' \in [Workers -> Sessions],
           task' \in [Workers -> [Candidates -> Tasks]],
           faults' \in Nat,
           \A u \in Workers \ {w} : sess'[u] = sess[u],
           sess'[w].pc # "idle" => sess'[w].run \in Runs,
           \A u \in Workers \ {w}, c \in Candidates : task'[u][c].on => task[u][c].on,
           \A c \in Candidates : task'[w][c].on =>
                                   sess'[w].pc = "work" /\ sess'[w].at = "step4"
    PROVE  TypeOK'
  <1>1. /\ \A u \in Workers : sess'[u].pc # "idle" => sess'[u].run \in Runs
        /\ \A u \in Workers, c \in Candidates :
             task'[u][c].on => sess'[u].pc = "work" /\ sess'[u].at = "step4"
    BY SessionStep
  <1> QED BY <1>1 DEF TypeOK

\* The same for a step that leaves the sessions and the goroutines alone.
LEMMA TypeRest ==
    ASSUME TypeOK,
           run' \in [Runs -> RunRows],
           stage' \in [Runs -> [Steps -> StageStatus]],
           job' \in [Runs -> JobRows],
           istat' \in [Runs -> [Candidates -> ItemStatus]],
           item' \in [Runs -> [Candidates -> ItemRows]],
           snap' \in [Runs -> [Candidates -> Snapshots]],
           flow' \in [Candidates -> Workflows],
           app' \in [Candidates -> [Volunteers -> Applications]],
           UNCHANGED <<decisions, sess, task, faults>>
    PROVE  TypeOK'
  BY DEF TypeOK

\* The whole row of one session is replaced.
LEMMA SessionUpdate ==
    ASSUME TypeOK, NEW w \in Workers, NEW s \in Sessions,
           sess' = [sess EXCEPT ![w] = s], s.pc # "idle" => s.run \in Runs
    PROVE  /\ sess' \in [Workers -> Sessions] /\ sess'[w] = s
           /\ \A u \in Workers \ {w} : sess'[u] = sess[u]
           /\ sess'[w].pc # "idle" => sess'[w].run \in Runs
  BY DEF TypeOK

\* The whole row of one run is replaced.
LEMMA RunUpdate ==
    ASSUME TypeOK, NEW r \in Runs, NEW row \in RunRows, run' = [run EXCEPT ![r] = row]
    PROVE  run' \in [Runs -> RunRows]
  BY DEF TypeOK

\* A session outside step4's work has no goroutine.
LEMMA NoGoroutine ==
    ASSUME TypeOK, NEW w \in Workers, sess[w].pc # "work" \/ sess[w].at # "step4"
    PROVE  \A c \in Candidates : ~task[w][c].on
  BY DEF TypeOK

\* A step of w that writes no table.
LEMMA TypeSessionOnly ==
    ASSUME TypeOK, NEW w \in Workers, NEW s \in Sessions,
           sess' = [sess EXCEPT ![w] = s], s.pc # "idle" => s.run \in Runs,
           \A c \in Candidates : task[w][c].on => s.pc = "work" /\ s.at = "step4",
           UNCHANGED <<run, stage, job, candidateRows, task>>, faults' \in Nat
    PROVE  TypeOK'
  <1>1. /\ sess' \in [Workers -> Sessions] /\ sess'[w] = s
        /\ \A u \in Workers \ {w} : sess'[u] = sess[u]
        /\ sess'[w].pc # "idle" => sess'[w].run \in Runs
    BY SessionUpdate
  <1>2. UNCHANGED <<run, stage, job, istat, item, snap, flow, app, decisions, task>>
    BY DEF candidateRows
  <1> QED BY <1>1, <1>2, TypeStep DEF TypeOK

\* ReadRun keeps every row well typed.
LEMMA TypeReadRun ==
    ASSUME TypeOK, NEW w \in Workers, ReadRun(w)
    PROVE  TypeOK'
  <1> DEFINE r == sess[w].run
             s == IF run[r].status \notin ActiveRun THEN Return(sess[w], "none")
                  ELSE IF run[r].cancel THEN Return(sess[w], "agent_cancelled")
                  ELSE [sess[w] EXCEPT !.pc = "finish", !.at = "queued",
                                       !.init = run[r].init, !.prep = run[r].prep]
  <1>1. sess[w].pc = "read"
    BY DEF ReadRun, At
  <1>2. sess[w] \in Sessions /\ r \in Runs /\ run[r] \in RunRows
    BY <1>1, Busy
  <1>3. /\ Return(sess[w], "none") \in Sessions /\ Return(sess[w], "none").run = r
        /\ Return(sess[w], "agent_cancelled") \in Sessions
        /\ Return(sess[w], "agent_cancelled").run = r
    BY <1>2, ReturnIsSession DEF Errors
  <1> DEFINE t(i, p) == [sess[w] EXCEPT !.pc = "finish", !.at = "queued",
                                        !.init = i, !.prep = p]
  <1>4. s \in Sessions /\ s.run = r
    <2>1. ASSUME NEW i \in BOOLEAN, NEW p \in BOOLEAN
          PROVE  t(i, p) \in Sessions /\ t(i, p).run = r
      BY <1>2, <2>1 DEF Sessions, Pcs, Executing, Steps
    <2>2. run[r].init \in BOOLEAN /\ run[r].prep \in BOOLEAN
      BY <1>2 DEF RunRows
    <2>3. t(run[r].init, run[r].prep) \in Sessions /\ t(run[r].init, run[r].prep).run = r
      BY <2>1, <2>2
    <2> QED BY <2>3, <1>3
  <1>5. sess' = [sess EXCEPT ![w] = s]
    BY DEF ReadRun
  <1> HIDE DEF s
  <1>6. UNCHANGED <<run, stage, job, candidateRows, task>> /\ faults' \in Nat
    BY DEF ReadRun, TypeOK
  <1>7. \A c \in Candidates : ~task[w][c].on
    BY <1>1, NoGoroutine
  <1> QED BY <1>2, <1>4, <1>5, <1>6, <1>7, TypeSessionOnly

\* Moving on to another pc, while the tables change only in run, stage and job.
LEMMA TypeGotoStep ==
    ASSUME TypeOK, NEW w \in Workers, NEW p \in Pcs, Goto(w, p), sess[w].pc # "idle",
           \A c \in Candidates : ~task[w][c].on,
           run' \in [Runs -> RunRows],
           stage' \in [Runs -> [Steps -> StageStatus]],
           job' \in [Runs -> JobRows],
           UNCHANGED <<candidateRows, task, faults>>
    PROVE  TypeOK'
  <1>1. /\ sess' \in [Workers -> Sessions]
        /\ \A u \in Workers \ {w} : sess'[u] = sess[u]
        /\ sess'[w].run \in Runs
    BY TypeGoto, Busy
  <1>2. UNCHANGED <<istat, item, snap, flow, app, decisions, task, faults>>
    BY DEF candidateRows
  <1> QED BY <1>1, <1>2, TypeStep DEF TypeOK

\* executeRun returns an error.
LEMMA TypeFailStep ==
    ASSUME TypeOK, NEW w \in Workers, NEW e \in Errors, Fail(w, e), sess[w].pc # "idle",
           \A c \in Candidates : ~task[w][c].on,
           UNCHANGED <<run, stage, job, candidateRows, task>>, faults' \in Nat
    PROVE  TypeOK'
  <1>1. /\ sess' \in [Workers -> Sessions]
        /\ \A u \in Workers \ {w} : sess'[u] = sess[u]
        /\ sess'[w].run \in Runs
    BY TypeFail, Busy
  <1>2. UNCHANGED <<run, stage, job, istat, item, snap, flow, app, decisions, task>>
    BY DEF candidateRows
  <1> QED BY <1>1, <1>2, TypeStep DEF TypeOK

\* BeginStage keeps every row well typed.
LEMMA TypeBeginStage ==
    ASSUME TypeOK, NEW w \in Workers, BeginStage(w)
    PROVE  TypeOK'
  <1> DEFINE r == sess[w].run
  <1>1. sess[w].pc = "begin" /\ UNCHANGED <<stage, job, candidateRows, task, faults>>
    BY DEF BeginStage, At
  <1>2. r \in Runs /\ run[r] \in RunRows
    BY <1>1, Busy
  <1>3. \A c \in Candidates : ~task[w][c].on
    BY <1>1, NoGoroutine
  <1>4. CASE run[r].cancel
    <2>1. Fail(w, "agent_cancelled") /\ UNCHANGED run
      BY <1>4 DEF BeginStage
    <2>2. faults' \in Nat
      BY <1>1 DEF TypeOK
    <2> QED BY <1>1, <1>3, <2>1, <2>2, TypeFailStep DEF Errors
  <1>5. CASE ~run[r].cancel
    <2>1. Goto(w, "mark") /\ run' = [run EXCEPT ![r].status = "running"]
      BY <1>5 DEF BeginStage
    <2>2. [run[r] EXCEPT !.status = "running"] \in RunRows
      BY <1>2 DEF RunRows, ActiveRun
    <2>3. run' \in [Runs -> RunRows]
      BY <2>1, <2>2, <1>2, RunUpdate
    <2>4. stage' \in [Runs -> [Steps -> StageStatus]] /\ job' \in [Runs -> JobRows]
      BY <1>1 DEF TypeOK
    <2> QED BY <1>1, <1>3, <2>1, <2>3, <2>4, TypeGotoStep DEF Pcs, Executing
  <1> QED BY <1>4, <1>5

\* MarkStage keeps every row well typed.
LEMMA TypeMarkStage ==
    ASSUME TypeOK, NEW w \in Workers, MarkStage(w)
    PROVE  TypeOK'
  <1> DEFINE r == sess[w].run
             at == sess[w].at
             p == IF at \in {"initialize", "finalize"} THEN "work" ELSE "list"
  <1>1. sess[w].pc = "mark" /\ UNCHANGED <<run, job, candidateRows, task, faults>>
    BY DEF MarkStage, At
  <1>2. r \in Runs /\ at \in Steps
    BY <1>1, Busy DEF Sessions
  <1>3. \A c \in Candidates : ~task[w][c].on
    BY <1>1, NoGoroutine
  <1>4. stage' = [stage EXCEPT ![r][at] = IF @ = "success" THEN @ ELSE "running"] /\ Goto(w, p)
    BY DEF MarkStage
  <1>5. stage' \in [Runs -> [Steps -> StageStatus]]
    BY <1>2, <1>4 DEF TypeOK, StageStatus
  <1>6. p \in Pcs
    BY DEF Pcs, Executing
  <1>7. run' \in [Runs -> RunRows] /\ job' \in [Runs -> JobRows]
    BY <1>1 DEF TypeOK
  <1> HIDE DEF p
  <1> QED BY <1>1, <1>3, <1>4, <1>5, <1>6, <1>7, TypeGotoStep

\* FinishStage keeps every row well typed.
LEMMA TypeFinishStage ==
    ASSUME TypeOK, ConstantsAssumption, NEW w \in Workers, FinishStage(w)
    PROVE  TypeOK'
  <1> DEFINE r == sess[w].run
             at == sess[w].at
  <1>1. sess[w].pc = "finish" /\ UNCHANGED <<run, job, candidateRows, task, faults>>
    BY DEF FinishStage, At
  <1>2. sess[w] \in Sessions /\ r \in Runs /\ at \in Steps
    BY <1>1, Busy DEF Sessions
  <1>3. \A c \in Candidates : ~task[w][c].on
    BY <1>1, NoGoroutine
  <1>4. sess' = [sess EXCEPT ![w] = Advance(sess[w])]
    BY DEF FinishStage
  <1>5. Advance(sess[w]) \in Sessions /\ Advance(sess[w]).run = r
    BY <1>2, AdvanceIsSession
  <1>6. stage' \in [Runs -> [Steps -> StageStatus]]
    BY <1>2 DEF FinishStage, TypeOK, StageStatus
  <1>7. /\ sess' \in [Workers -> Sessions] /\ sess'[w] = Advance(sess[w])
        /\ \A u \in Workers \ {w} : sess'[u] = sess[u]
        /\ sess'[w].pc # "idle" => sess'[w].run \in Runs
    BY <1>2, <1>4, <1>5, SessionUpdate
  <1>8. UNCHANGED <<istat, item, snap, flow, app, decisions>>
    BY <1>1 DEF candidateRows
  <1> QED BY <1>1, <1>3, <1>6, <1>7, <1>8, TypeStep DEF TypeOK

\* TestStage keeps every row well typed.
LEMMA TypeTestStage ==
    ASSUME TypeOK, ConstantsAssumption, NEW w \in Workers, TestStage(w)
    PROVE  TypeOK'
  <1> DEFINE s == IF stage[sess[w].run][sess[w].at] = "success" THEN Advance(sess[w])
                  ELSE [sess[w] EXCEPT !.pc = "begin"]
  <1>1. sess[w].pc = "test" /\ UNCHANGED <<run, stage, job, candidateRows, task, faults>>
    BY DEF TestStage, At
  <1>2. sess[w] \in Sessions /\ sess[w].run \in Runs
    BY <1>1, Busy
  <1>3. \A c \in Candidates : ~task[w][c].on
    BY <1>1, NoGoroutine
  <1>4. Advance(sess[w]) \in Sessions /\ Advance(sess[w]).run = sess[w].run
    BY <1>2, AdvanceIsSession
  <1>5. s \in Sessions /\ s.run \in Runs
    BY <1>2, <1>4 DEF Sessions, Pcs, Executing
  <1>6. sess' = [sess EXCEPT ![w] = s]
    BY DEF TestStage
  <1>7. faults' \in Nat
    BY <1>1 DEF TypeOK
  <1> HIDE DEF s
  <1> QED BY <1>1, <1>3, <1>5, <1>6, <1>7, TypeSessionOnly

\* Initialize keeps every row well typed.
LEMMA TypeInitialize ==
    ASSUME TypeOK, NEW w \in Workers, Initialize(w)
    PROVE  TypeOK'
  <1> DEFINE r == sess[w].run
             prep == sess[w].prep
             s == [sess[w] EXCEPT !.pc = "finish", !.init = TRUE]
             row == [run[r] EXCEPT !.init = TRUE, !.prep = prep]
  <1>1. /\ sess[w].pc = "work" /\ sess[w].at = "initialize"
        /\ UNCHANGED <<stage, job, candidateRows, task, faults>>
    BY DEF Initialize, At
  <1>2. sess[w] \in Sessions /\ r \in Runs /\ run[r] \in RunRows
    BY <1>1, Busy
  <1>3. \A c \in Candidates : ~task[w][c].on
    BY <1>1, NoGoroutine
  <1>4. s \in Sessions /\ s.run = r
    BY <1>2 DEF Sessions, Pcs, Executing
  <1>5. row \in RunRows
    <2>1. prep \in BOOLEAN
      BY <1>2 DEF Sessions
    <2> HIDE DEF prep
    <2> QED BY <2>1, <1>2 DEF RunRows
  <1>6. sess' = [sess EXCEPT ![w] = s] /\ run' = [run EXCEPT ![r] = row]
    BY DEF Initialize
  <1> HIDE DEF s, row
  <1>7. /\ sess' \in [Workers -> Sessions] /\ sess'[w] = s
        /\ \A u \in Workers \ {w} : sess'[u] = sess[u]
        /\ sess'[w].pc # "idle" => sess'[w].run \in Runs
    BY <1>2, <1>4, <1>6, SessionUpdate
  <1>8. run' \in [Runs -> RunRows]
    BY <1>2, <1>5, <1>6, RunUpdate
  <1>9. UNCHANGED <<istat, item, snap, flow, app, decisions>>
    BY <1>1 DEF candidateRows
  <1> QED BY <1>1, <1>3, <1>7, <1>8, <1>9, TypeStep DEF TypeOK

\* StepFailsAbort keeps every row well typed.
LEMMA TypeStepFailsAbort ==
    ASSUME TypeOK, NEW w \in Workers, StepFails(w) \/ Abort(w)
    PROVE  TypeOK'
  <1> DEFINE e == IF sess[w].err # "none" THEN sess[w].err
                  ELSE IF StepFails(w) THEN "failed" ELSE "ctx"
  <1>1. /\ sess[w].pc \in Executing
        /\ UNCHANGED <<run, stage, job, candidateRows, task>>
    BY DEF StepFails, Abort
  <1>2. faults' \in Nat
    BY DEF StepFails, Abort, TypeOK
  <1>3. \A c \in Candidates : ~task[w][c].on
    BY DEF StepFails, Abort, Running
  <1>4. Fail(w, e)
    BY DEF StepFails, Abort
  <1>5. e \in Errors
    BY DEF TypeOK, Sessions, Errors
  <1>6. sess[w].pc # "idle"
    BY <1>1 DEF Executing
  <1> HIDE DEF e
  <1> QED BY <1>1, <1>2, <1>3, <1>4, <1>5, <1>6, TypeFailStep

\* ListItems keeps every row well typed.
LEMMA TypeListItems ==
    ASSUME TypeOK, ConstantsAssumption, NEW w \in Workers, ListItems(w)
    PROVE  TypeOK'
  <1> DEFINE r == sess[w].run
             at == sess[w].at
             open == {c \in Scope[r] : Open(r, c)}
             todo == CASE at = "preparing" -> {c \in open : ~snap[r][c].frozen}
                       [] at = "step4" -> open
                       [] OTHER -> Scope[r]
             p == IF at = "step4" /\ todo = {} THEN "finish" ELSE "work"
             s == [sess[w] EXCEPT !.todo = todo, !.pc = p]
  <1>1. sess[w].pc = "list" /\ UNCHANGED <<run, stage, job, candidateRows, task, faults>>
    BY DEF ListItems, At
  <1>2. sess[w] \in Sessions /\ r \in Runs
    BY <1>1, Busy
  <1>3. \A c \in Candidates : ~task[w][c].on
    BY <1>1, NoGoroutine
  <1>4. todo \in SUBSET Candidates
    BY <1>2 DEF ConstantsAssumption
  <1>5. p \in Pcs
    BY DEF Pcs, Executing
  <1>6. sess' = [sess EXCEPT ![w] = s]
    BY DEF ListItems
  <1>7. s \in Sessions /\ s.run = r
    <2> HIDE DEF todo, p
    <2> QED BY <1>2, <1>4, <1>5 DEF Sessions
  <1>8. faults' \in Nat
    BY <1>1 DEF TypeOK
  <1> HIDE DEF s
  <1> QED BY <1>1, <1>2, <1>3, <1>6, <1>7, <1>8, TypeSessionOnly

\* LookAtCase keeps every row well typed.
LEMMA TypeLookAtCase ==
    ASSUME TypeOK, ConstantsAssumption, NEW w \in Workers, LookAtCase(w)
    PROVE  TypeOK'
  <1>1. /\ sess[w].pc = "work" /\ sess[w].at = "preparing"
        /\ UNCHANGED <<run, stage, job, candidateRows, task, faults>>
    BY DEF LookAtCase, At
  <1>2. sess[w] \in Sessions /\ sess[w].run \in Runs
    BY <1>1, Busy
  <1>3. \A c \in Candidates : ~task[w][c].on
    BY <1>1, NoGoroutine
  <1>4. PICK c \in sess[w].todo :
          sess' = [sess EXCEPT ![w].pc = "save", ![w].cand = {c}, ![w].view = Unavailable(c)]
    BY DEF LookAtCase
  <1>5. c \in Candidates
    BY <1>2, <1>4 DEF Sessions
  <1>6. Unavailable(c) \in SUBSET Volunteers
    BY <1>5 DEF Unavailable, ConstantsAssumption
  <1> DEFINE s == [sess[w] EXCEPT !.pc = "save", !.cand = {c}, !.view = Unavailable(c)]
  <1>7. s \in Sessions /\ s.run \in Runs
    BY <1>2, <1>5, <1>6 DEF Sessions, Pcs, Executing
  <1>8. sess' = [sess EXCEPT ![w] = s]
    BY <1>4
  <1>9. faults' \in Nat
    BY <1>1 DEF TypeOK
  <1> HIDE DEF s
  <1> QED BY <1>1, <1>3, <1>7, <1>8, <1>9, TypeSessionOnly

\* SaveCase keeps every row well typed.
LEMMA TypeSaveCase ==
    ASSUME TypeOK, ConstantsAssumption, NEW w \in Workers, SaveCase(w)
    PROVE  TypeOK'
  <1> DEFINE r == sess[w].run
             view == sess[w].view
  <1>1. sess[w].pc = "save" /\ UNCHANGED <<run, stage, job, istat, flow, app, decisions, task, faults>>
    BY DEF SaveCase, At
  <1>2. sess[w] \in Sessions /\ r \in Runs /\ view \in SUBSET Volunteers
    BY <1>1, Busy DEF Sessions
  <1>3. \A c \in Candidates : ~task[w][c].on
    BY <1>1, NoGoroutine
  <1>4. PICK c \in sess[w].cand, verdict \in Verdicts :
          LET cur == Current(r, c, view)
          IN /\ snap' = [snap EXCEPT ![r][c] =
                          [frozen |-> TRUE, cur |-> cur, rejected |-> view,
                           verdict |-> verdict, cont |-> NoRevision]]
             /\ item' = [item EXCEPT ![r][c].prepared = cur]
             /\ sess' = [sess EXCEPT ![w].pc = "work", ![w].todo = @ \ {c},
                                     ![w].cand = {}, ![w].view = {}]
    BY DEF SaveCase
  <1>5. c \in Candidates /\ verdict \in AllVerdicts
    BY <1>2 DEF Sessions, ConstantsAssumption
  <1> DEFINE cur == Current(r, c, view)
             new == [frozen |-> TRUE, cur |-> cur, rejected |-> view,
                     verdict |-> verdict, cont |-> NoRevision]
             row == [item[r][c] EXCEPT !.prepared = cur]
             todo == sess[w].todo \ {c}
             s == [sess[w] EXCEPT !.pc = "work", !.todo = todo, !.cand = {}, !.view = {}]
  <1>6. cur \in Ranks
    BY <1>2, <1>5, CurrentIsRank
  <1>7. /\ snap' = [snap EXCEPT ![r][c] = new] /\ item' = [item EXCEPT ![r][c] = row]
        /\ sess' = [sess EXCEPT ![w] = s]
    BY <1>4
  <1> HIDE DEF cur
  <1>8. new \in Snapshots
    BY <1>2, <1>5, <1>6 DEF Snapshots
  <1>9. row \in ItemRows
    <2>1. item[r][c] \in ItemRows
      BY <1>2, <1>5 DEF TypeOK
    <2> QED BY <2>1, <1>6 DEF ItemRows
  <1>10. s \in Sessions /\ s.run = r
    <2>1. todo \in SUBSET Candidates
      BY <1>2 DEF Sessions
    <2> HIDE DEF todo
    <2> QED BY <1>2, <2>1 DEF Sessions, Pcs, Executing
  <1> HIDE DEF new, row, s
  <1>11. /\ snap' \in [Runs -> [Candidates -> Snapshots]]
         /\ item' \in [Runs -> [Candidates -> ItemRows]]
    BY <1>2, <1>5, <1>7, <1>8, <1>9 DEF TypeOK
  <1>12. /\ sess' \in [Workers -> Sessions] /\ sess'[w] = s
         /\ \A u \in Workers \ {w} : sess'[u] = sess[u]
         /\ sess'[w].pc # "idle" => sess'[w].run \in Runs
    BY <1>2, <1>7, <1>10, SessionUpdate
  <1> QED BY <1>1, <1>3, <1>11, <1>12, TypeStep DEF TypeOK

\* SnapshotsReady keeps every row well typed.
LEMMA TypeSnapshotsReady ==
    ASSUME TypeOK, ConstantsAssumption, NEW w \in Workers, SnapshotsReady(w)
    PROVE  TypeOK'
  <1> DEFINE r == sess[w].run
             t == [sess[w] EXCEPT !.prep = TRUE]
             s == IF HasStage(r, "preparing") THEN [sess[w] EXCEPT !.prep = TRUE, !.pc = "finish"]
                  ELSE Advance(t)
             row == [run[r] EXCEPT !.init = TRUE, !.prep = TRUE]
  <1>1. /\ sess[w].pc = "work" /\ sess[w].at = "preparing"
        /\ UNCHANGED <<stage, job, candidateRows, task, faults>>
    BY DEF SnapshotsReady, At
  <1>2. sess[w] \in Sessions /\ r \in Runs /\ run[r] \in RunRows
    BY <1>1, Busy
  <1>3. \A c \in Candidates : ~task[w][c].on
    BY <1>1, NoGoroutine
  <1>4. t \in Sessions /\ t.run = r
    BY <1>2 DEF Sessions
  <1>5. Advance(t) \in Sessions /\ Advance(t).run = r
    BY <1>2, <1>4, AdvanceIsSession
  <1>6. s \in Sessions /\ s.run = r
    <2>1. [sess[w] EXCEPT !.prep = TRUE, !.pc = "finish"] \in Sessions
      BY <1>2 DEF Sessions, Pcs, Executing
    <2>2. [sess[w] EXCEPT !.prep = TRUE, !.pc = "finish"].run = r
      BY <1>2 DEF Sessions
    <2> QED BY <2>1, <2>2, <1>5
  <1>7. row \in RunRows
    BY <1>2 DEF RunRows
  <1>8. sess' = [sess EXCEPT ![w] = s] /\ run' = [run EXCEPT ![r] = row]
    BY DEF SnapshotsReady
  <1> HIDE DEF s, row
  <1>9. /\ sess' \in [Workers -> Sessions] /\ sess'[w] = s
        /\ \A u \in Workers \ {w} : sess'[u] = sess[u]
        /\ sess'[w].pc # "idle" => sess'[w].run \in Runs
    BY <1>2, <1>6, <1>8, SessionUpdate
  <1>10. run' \in [Runs -> RunRows]
    BY <1>2, <1>7, <1>8, RunUpdate
  <1>11. UNCHANGED <<istat, item, snap, flow, app, decisions>>
    BY <1>1 DEF candidateRows
  <1> QED BY <1>1, <1>3, <1>9, <1>10, <1>11, TypeStep DEF TypeOK

\* A workflow row is replaced, or none is.
LEMMA FlowUpdate ==
    ASSUME TypeOK, NEW c \in Candidates, NEW f \in Workflows, flow' = [flow EXCEPT ![c] = f]
    PROVE  flow' \in [Candidates -> Workflows]
  BY DEF TypeOK

\* Writing one item row keeps the type of all of them.
LEMMA ItemUpdate ==
    ASSUME TypeOK, NEW r \in Runs, NEW c \in Candidates, NEW row \in ItemRows,
           item' = [item EXCEPT ![r][c] = row]
    PROVE  item' \in [Runs -> [Candidates -> ItemRows]]
  BY DEF TypeOK

\* Writing one snapshot keeps the type of all of them.
LEMMA SnapUpdate ==
    ASSUME TypeOK, NEW r \in Runs, NEW c \in Candidates, NEW row \in Snapshots,
           snap' = [snap EXCEPT ![r][c] = row]
    PROVE  snap' \in [Runs -> [Candidates -> Snapshots]]
  BY DEF TypeOK

\* Starting one goroutine keeps the type of all of them.
LEMMA TaskUpdate ==
    ASSUME TypeOK, NEW w \in Workers, NEW c \in Candidates, NEW t \in Tasks,
           task' = [task EXCEPT ![w][c] = t]
    PROVE  /\ task' \in [Workers -> [Candidates -> Tasks]]
           /\ \A u \in Workers \ {w} : task'[u] = task[u]
  BY DEF TypeOK

\* A transaction of w on c takes c off the list and settles tables by type.
LEMMA TypeItemStep ==
    ASSUME TypeOK, NEW w \in Workers, NEW c \in Candidates, NEW e \in Errors,
           Report(w, c, e) \/ Settle(w, c), sess[w].pc # "idle",
           istat' \in [Runs -> [Candidates -> ItemStatus]],
           item' \in [Runs -> [Candidates -> ItemRows]],
           flow' \in [Candidates -> Workflows],
           app' \in [Candidates -> [Volunteers -> Applications]],
           task' \in [Workers -> [Candidates -> Tasks]],
           \A u \in Workers \ {w}, d \in Candidates : task'[u][d].on => task[u][d].on,
           \A d \in Candidates : task'[w][d].on => sess[w].pc = "work" /\ sess[w].at = "step4",
           UNCHANGED <<run, stage, job, snap, decisions, faults>>
    PROVE  TypeOK'
  <1>1. /\ sess' \in [Workers -> Sessions]
        /\ \A u \in Workers \ {w} : sess'[u] = sess[u]
        /\ sess'[w].run = sess[w].run /\ sess'[w].at = sess[w].at /\ sess'[w].pc = sess[w].pc
    BY TypeReport
  <1>2. sess'[w].run \in Runs
    BY <1>1, Busy
  <1>3. \A d \in Candidates : task'[w][d].on => sess'[w].pc = "work" /\ sess'[w].at = "step4"
    BY <1>1
  <1>4. /\ run' \in [Runs -> RunRows] /\ stage' \in [Runs -> [Steps -> StageStatus]]
        /\ job' \in [Runs -> JobRows] /\ snap' \in [Runs -> [Candidates -> Snapshots]]
        /\ decisions' \in [Runs -> [Candidates -> [Volunteers -> Nat]]] /\ faults' \in Nat
    BY DEF TypeOK
  <1> QED BY <1>1, <1>2, <1>3, <1>4, TypeStep

\* PrepareItem keeps every row well typed.
LEMMA TypePrepareItem ==
    ASSUME TypeOK, NEW w \in Workers, NEW c \in Candidates, PrepareItem(w, c)
    PROVE  TypeOK'
  <1> DEFINE r == sess[w].run
  <1>1. /\ sess[w].pc = "work" /\ sess[w].at # "step4" /\ Settle(w, c)
        /\ UNCHANGED <<run, stage, job, item, snap, decisions, task, faults>>
    BY DEF PrepareItem, Preparing, At
  <1>2. r \in Runs
    BY <1>1, Busy
  <1>3. flow[c] \in Workflows
    BY DEF TypeOK
  <1> DEFINE f == Touched(flow[c], snap[r][c].cur)
  <1>4. /\ Invalidated(flow[c]) \in Workflows /\ Archived(f) \in Workflows
        /\ Freed(f) \in Workflows /\ Freed(flow[c]) \in Workflows
        /\ AfterLastWish(flow[c], c, Unavailable(c)) \in Workflows
    <2>1. snap[r][c].cur \in Ranks
      BY <1>2 DEF TypeOK, Snapshots
    <2>2. f \in Workflows
      BY <1>3, <2>1, WorkflowMoves
    <2> QED BY <1>3, <2>2, WorkflowUpdates, AfterLastWishIsWorkflow
  <1>5. flow' \in [Candidates -> Workflows]
    <2>1. \/ flow' = flow
          \/ \E g \in {Invalidated(flow[c]), Archived(f), Freed(f), Freed(flow[c]),
                       AfterLastWish(flow[c], c, Unavailable(c)), flow[c]} :
               flow' = [flow EXCEPT ![c] = g]
      BY DEF PrepareItem
    <2>2. CASE flow' = flow
      BY <2>2 DEF TypeOK
    <2>3. ASSUME NEW g \in {Invalidated(flow[c]), Archived(f), Freed(f), Freed(flow[c]),
                            AfterLastWish(flow[c], c, Unavailable(c)), flow[c]},
                 flow' = [flow EXCEPT ![c] = g]
          PROVE  flow' \in [Candidates -> Workflows]
      <3>1. g \in Workflows
        BY <1>3, <1>4
      <3> QED BY <3>1, <2>3, FlowUpdate
    <2> QED BY <2>1, <2>2, <2>3
  <1>6. istat' \in [Runs -> [Candidates -> ItemStatus]]
    <2>1. \/ istat' = istat
          \/ \E x \in {"skipped_manual_change", "success", "needs_attention"} : SetItem(r, c, x)
      BY DEF PrepareItem
    <2>2. \A x \in {"skipped_manual_change", "success", "needs_attention"} : x \in ItemStatus
      BY DEF ItemStatus, TerminalItem
    <2> QED BY <1>2, <2>1, <2>2, TypeSetItem DEF TypeOK
  <1>7. app' \in [Candidates -> [Volunteers -> Applications]]
    <2>1. app' = app \/ SetApp(c, snap[r][c].cur, "blocked")
      BY DEF PrepareItem
    <2>2. "blocked" \in Applications
      BY DEF Applications
    <2> QED BY <2>1, <2>2, TypeSetApp DEF TypeOK
  <1>8. \A d \in Candidates : ~task[w][d].on
    BY <1>1, NoGoroutine
  <1>9. item' \in [Runs -> [Candidates -> ItemRows]] /\ task' \in [Workers -> [Candidates -> Tasks]]
    BY <1>1 DEF TypeOK
  <1> QED BY <1>1, <1>5, <1>6, <1>7, <1>8, <1>9, TypeItemStep DEF Errors

\* PrepareItemFails keeps every row well typed.
LEMMA TypePrepareItemFails ==
    ASSUME TypeOK, NEW w \in Workers, NEW c \in Candidates, PrepareItemFails(w, c)
    PROVE  TypeOK'
  <1> DEFINE e == PrepareError(sess[w].run, sess[w].at, c)
  <1>1. /\ sess[w].pc = "work" /\ sess[w].at # "step4" /\ Fail(w, e)
        /\ UNCHANGED <<run, stage, job, candidateRows, task, faults>>
    BY DEF PrepareItemFails, Preparing, At
  <1>2. e \in Errors
    BY DEF PrepareError, Errors
  <1>3. \A d \in Candidates : ~task[w][d].on
    BY <1>1, NoGoroutine
  <1>4. faults' \in Nat
    BY <1>1 DEF TypeOK
  <1> HIDE DEF e
  <1> QED BY <1>1, <1>2, <1>3, <1>4, TypeFailStep

\* ItemsPrepared keeps every row well typed.
LEMMA TypeItemsPrepared ==
    ASSUME TypeOK, NEW w \in Workers, ItemsPrepared(w)
    PROVE  TypeOK'
  <1>1. /\ sess[w].pc = "work" /\ sess[w].at # "step4" /\ Goto(w, "finish")
        /\ run' = Summarised(sess[w].run)
        /\ UNCHANGED <<stage, job, candidateRows, task, faults>>
    BY DEF ItemsPrepared, Preparing, At
  <1>2. \A d \in Candidates : ~task[w][d].on
    BY <1>1, NoGoroutine
  <1>3. run' \in [Runs -> RunRows]
    BY <1>1, Busy, SummarisedType DEF TypeOK
  <1>4. stage' \in [Runs -> [Steps -> StageStatus]] /\ job' \in [Runs -> JobRows]
    BY <1>1 DEF TypeOK
  <1> QED BY <1>1, <1>2, <1>3, <1>4, TypeGotoStep DEF Pcs, Executing

\* RoundDone keeps every row well typed.
LEMMA TypeRoundDone ==
    ASSUME TypeOK, NEW w \in Workers, RoundDone(w)
    PROVE  TypeOK'
  <1>1. sess[w].pc = "work" /\ UNCHANGED <<stage, job, candidateRows, task, faults>>
    BY DEF RoundDone, At
  <1>2. \A d \in Candidates : ~task[w][d].on
    BY DEF RoundDone, Running
  <1>3. CASE sess[w].err # "none"
    <2>1. Fail(w, sess[w].err) /\ UNCHANGED run
      BY <1>3 DEF RoundDone
    <2>2. sess[w].err \in Errors /\ faults' \in Nat
      BY <1>1 DEF TypeOK, Sessions
    <2> QED BY <1>1, <1>2, <2>1, <2>2, TypeFailStep
  <1>4. CASE sess[w].err = "none"
    <2>1. Goto(w, "list") /\ run' = Summarised(sess[w].run)
      BY <1>4 DEF RoundDone
    <2>2. run' \in [Runs -> RunRows]
      BY <1>1, <2>1, Busy, SummarisedType DEF TypeOK
    <2>3. stage' \in [Runs -> [Steps -> StageStatus]] /\ job' \in [Runs -> JobRows]
      BY <1>1 DEF TypeOK
    <2> QED BY <1>1, <1>2, <2>1, <2>2, <2>3, TypeGotoStep DEF Pcs, Executing
  <1> QED BY <1>3, <1>4

\* Finalize keeps every row well typed.
LEMMA TypeFinalize ==
    ASSUME TypeOK, NEW w \in Workers, Finalize(w)
    PROVE  TypeOK'
  <1> DEFINE r == sess[w].run
             sum == Summarised(r)
             status == CASE sum[r].failed -> "partial_failed"
                         [] ~sum[r].failed /\ sum[r].attention -> "needs_attention"
                         [] OTHER -> "success"
  <1>1. /\ sess[w].pc = "work" /\ sess[w].at # "step4"
        /\ UNCHANGED <<stage, job, candidateRows, task, faults>>
    BY DEF Finalize, At
  <1>2. \A d \in Candidates : ~task[w][d].on
    BY <1>1, NoGoroutine
  <1>3. CASE run[r].cancel
    <2>1. Fail(w, "agent_cancelled") /\ UNCHANGED run
      BY <1>3 DEF Finalize
    <2>2. faults' \in Nat
      BY <1>1 DEF TypeOK
    <2> QED BY <1>1, <1>2, <2>1, <2>2, TypeFailStep DEF Errors
  <1>4. CASE ~run[r].cancel
    <2>1. Goto(w, "finish") /\ run' = [sum EXCEPT ![r].status = status]
      BY <1>4 DEF Finalize
    <2>2. r \in Runs /\ sum \in [Runs -> RunRows]
      BY <1>1, Busy, SummarisedType DEF TypeOK
    <2>3. status \in FinalRun
      BY DEF FinalRun
    <2>4. run' \in [Runs -> RunRows]
      <3> HIDE DEF status, sum
      <3>1. sum[r] \in RunRows
        BY <2>2
      <3>2. [sum[r] EXCEPT !.status = status] \in RunRows
        BY <3>1, <2>3 DEF RunRows
      <3>3. run' = [sum EXCEPT ![r] = [sum[r] EXCEPT !.status = status]]
        BY <2>1
      <3> QED BY <2>2, <3>2, <3>3
    <2>5. stage' \in [Runs -> [Steps -> StageStatus]] /\ job' \in [Runs -> JobRows]
      BY <1>1 DEF TypeOK
    <2> QED BY <1>1, <1>2, <2>1, <2>4, <2>5, TypeGotoStep DEF Pcs, Executing
  <1> QED BY <1>3, <1>4

-----------------------------------------------------------------------------
(* Claiming a candidate, and what its goroutine does.                      *)

\* StartItem keeps every row well typed.
LEMMA TypeStartItem ==
    ASSUME TypeOK, NEW w \in Workers, NEW c \in Candidates, StartItem(w, c)
    PROVE  TypeOK'
  <1> DEFINE r == sess[w].run
             n == item[r][c].tries + 1
             f == [flow[c] EXCEPT !.claim = r, !.token = n, !.live = TRUE]
             row == [item[r][c] EXCEPT !.tries = n]
             t == [on |-> TRUE, token |-> n, rev |-> flow[c].rev, snap |-> snap[r][c]]
  <1>1. /\ sess[w].pc = "work" /\ sess[w].at = "step4"
        /\ UNCHANGED <<run, stage, job, snap, decisions, faults>>
    BY DEF StartItem, At
  <1>2. r \in Runs
    BY <1>1, Busy
  <1>3. /\ flow[c] \in Workflows /\ item[r][c] \in ItemRows /\ snap[r][c] \in Snapshots
    BY <1>2 DEF TypeOK
  <1>4. n \in Nat /\ flow[c].rev \in Nat
    BY <1>3 DEF ItemRows, Workflows
  <1>5. f \in Workflows /\ row \in ItemRows /\ t \in Tasks
    <2> HIDE DEF n
    <2>1. f \in Workflows
      BY <1>2, <1>3, <1>4 DEF Workflows
    <2>2. row \in ItemRows
      BY <1>3, <1>4 DEF ItemRows
    <2>3. t \in Tasks
      BY <1>3, <1>4 DEF Tasks
    <2> QED BY <2>1, <2>2, <2>3
  <1>6. Invalidated(flow[c]) \in Workflows
    BY <1>3, WorkflowUpdates
  <1>7. \E e \in Errors : Report(w, c, e) \/ Settle(w, c)
    BY DEF StartItem, Errors
  <1>8. istat' \in [Runs -> [Candidates -> ItemStatus]]
    <2>1. \/ istat' = istat
          \/ \E x \in {"skipped_manual_change", "success", "waiting_conflict", "processing"} :
               SetItem(r, c, x)
      BY DEF StartItem
    <2>2. \A x \in {"skipped_manual_change", "success", "waiting_conflict", "processing"} :
            x \in ItemStatus
      BY DEF ItemStatus, TerminalItem, OpenItem
    <2> QED BY <1>2, <2>1, <2>2, TypeSetItem DEF TypeOK
  <1>9. app' \in [Candidates -> [Volunteers -> Applications]]
    <2>1. app' = app \/ SetApp(c, item[r][c].prepared, "assessing")
      BY DEF StartItem
    <2>2. "assessing" \in Applications
      BY DEF Applications
    <2> QED BY <2>1, <2>2, TypeSetApp DEF TypeOK
  <1>10. flow' \in [Candidates -> Workflows]
    <2>1. flow' = flow \/ \E g \in {f, Invalidated(flow[c]), flow[c]} : flow' = [flow EXCEPT ![c] = g]
      BY DEF StartItem
    <2>2. \A g \in {f, Invalidated(flow[c]), flow[c]} : g \in Workflows
      BY <1>3, <1>5, <1>6
    <2> HIDE DEF f
    <2> QED BY <2>1, <2>2, FlowUpdate DEF TypeOK
  <1>11. item' \in [Runs -> [Candidates -> ItemRows]]
    <2>1. item' = item \/ item' = [item EXCEPT ![r][c] = row]
      BY DEF StartItem
    <2> HIDE DEF row
    <2> QED BY <1>2, <1>5, <2>1, ItemUpdate DEF TypeOK
  <1>12. /\ task' \in [Workers -> [Candidates -> Tasks]]
         /\ \A u \in Workers \ {w}, d \in Candidates : task'[u][d].on => task[u][d].on
    <2>1. task' = task \/ task' = [task EXCEPT ![w][c] = t]
      BY DEF StartItem
    <2> HIDE DEF t
    <2>2. CASE task' = task
      BY <2>2 DEF TypeOK
    <2>3. CASE task' = [task EXCEPT ![w][c] = t]
      BY <1>5, <2>3, TaskUpdate
    <2> QED BY <2>1, <2>2, <2>3
  <1> QED BY <1>1, <1>7, <1>8, <1>9, <1>10, <1>11, <1>12, TypeItemStep

\* A step that only changes one workflow row, one snapshot or an application.
LEMMA TypeRenewClaim ==
    ASSUME TypeOK, NEW w \in Workers, NEW c \in Candidates, RenewClaim(w, c)
    PROVE  TypeOK'
  <1> DEFINE f == [flow[c] EXCEPT !.live = TRUE]
  <1>1. f \in Workflows
    BY DEF TypeOK, Workflows
  <1>2. flow' = [flow EXCEPT ![c] = f]
    BY DEF RenewClaim
  <1> HIDE DEF f
  <1>3. flow' \in [Candidates -> Workflows]
    BY <1>1, <1>2, FlowUpdate
  <1> QED BY <1>3, TypeRest DEF RenewClaim, TypeOK

\* ClaimLapses keeps every row well typed.
LEMMA TypeClaimLapses ==
    ASSUME TypeOK, NEW c \in Candidates, ClaimLapses(c)
    PROVE  TypeOK'
  <1> DEFINE f == [flow[c] EXCEPT !.live = FALSE]
  <1>1. f \in Workflows
    BY DEF TypeOK, Workflows
  <1>2. flow' = [flow EXCEPT ![c] = f]
    BY DEF ClaimLapses
  <1> HIDE DEF f
  <1>3. flow' \in [Candidates -> Workflows]
    BY <1>1, <1>2, FlowUpdate
  <1> QED BY <1>3, TypeRest DEF ClaimLapses, TypeOK

\* A goroutine belongs to a busy worker.
LEMMA TaskBusy ==
    ASSUME TypeOK, NEW w \in Workers, NEW c \in Candidates, task[w][c].on
    PROVE  /\ sess[w].pc = "work" /\ sess[w].at = "step4" /\ sess[w].run \in Runs
           /\ task[w][c] \in Tasks /\ task[w][c].snap \in Snapshots
           /\ flow[c] \in Workflows /\ item[sess[w].run][c] \in ItemRows
           /\ item[sess[w].run][c].prepared \in Ranks
  <1>1. sess[w].pc = "work" /\ sess[w].at = "step4"
    BY DEF TypeOK
  <1>2. sess[w].run \in Runs
    BY <1>1, Busy
  <1>3. task[w][c] \in Tasks /\ flow[c] \in Workflows /\ item[sess[w].run][c] \in ItemRows
    BY <1>2 DEF TypeOK
  <1> QED BY <1>1, <1>2, <1>3 DEF Tasks, ItemRows

\* SaveArtifact keeps every row well typed.
LEMMA TypeSaveArtifact ==
    ASSUME TypeOK, NEW w \in Workers, NEW c \in Candidates, SaveArtifact(w, c)
    PROVE  TypeOK'
  <1>1. sess[w].run \in Runs /\ task[w][c].snap \in Snapshots
    BY TaskBusy DEF SaveArtifact
  <1>2. snap' = [snap EXCEPT ![sess[w].run][c] = task[w][c].snap]
    BY DEF SaveArtifact
  <1>3. snap' \in [Runs -> [Candidates -> Snapshots]]
    BY <1>1, <1>2 DEF TypeOK
  <1> QED BY <1>3, TypeRest DEF SaveArtifact, TypeOK

\* A goroutine ends, with or without an error, and commits rows of the right type.
LEMMA TypeTaskEnd ==
    ASSUME TypeOK, NEW w \in Workers, NEW c \in Candidates, task[w][c].on,
           EndTask(w, c), NEW e \in Errors, Report(w, c, e) \/ UNCHANGED sess,
           istat' \in [Runs -> [Candidates -> ItemStatus]],
           item' \in [Runs -> [Candidates -> ItemRows]],
           snap' \in [Runs -> [Candidates -> Snapshots]],
           flow' \in [Candidates -> Workflows],
           app' \in [Candidates -> [Volunteers -> Applications]],
           decisions' \in [Runs -> [Candidates -> [Volunteers -> Nat]]],
           UNCHANGED <<run, stage, job>>, faults' \in Nat
    PROVE  TypeOK'
  <1>1. /\ sess' \in [Workers -> Sessions]
        /\ \A u \in Workers \ {w} : sess'[u] = sess[u]
        /\ sess'[w].run = sess[w].run /\ sess'[w].at = sess[w].at /\ sess'[w].pc = sess[w].pc
    BY TypeReport
  <1>2. sess'[w].run \in Runs /\ sess'[w].pc = "work" /\ sess'[w].at = "step4"
    BY <1>1, TaskBusy
  <1>3. /\ task' \in [Workers -> [Candidates -> Tasks]]
        /\ \A u \in Workers, d \in Candidates : task'[u][d].on => task[u][d].on
    BY TypeEndTask
  <1>4. /\ run' \in [Runs -> RunRows] /\ stage' \in [Runs -> [Steps -> StageStatus]]
        /\ job' \in [Runs -> JobRows]
    BY DEF TypeOK
  <1> QED BY <1>1, <1>2, <1>3, <1>4, TypeStep

\* TaskInterrupted keeps every row well typed.
LEMMA TypeTaskInterrupted ==
    ASSUME TypeOK, NEW w \in Workers, NEW c \in Candidates,
           TaskInterrupted(w, c) \/ DropResult(w, c) \/ CommitRefused(w, c)
    PROVE  TypeOK'
  <1>1. /\ task[w][c].on /\ EndTask(w, c)
        /\ UNCHANGED <<run, stage, job, istat, item, snap, flow, app, decisions>>
    BY DEF TaskInterrupted, DropResult, CommitRefused, Ending, Silently, Committing, candidateRows
  <1>2. \E e \in Errors : Report(w, c, e) \/ UNCHANGED sess
    BY DEF TaskInterrupted, DropResult, CommitRefused, Silently, Errors
  <1>3. faults' \in Nat
    BY DEF TaskInterrupted, DropResult, CommitRefused, Silently, TypeOK
  <1> QED BY <1>1, <1>2, <1>3, TypeTaskEnd DEF TypeOK

\* SkipResult keeps every row well typed.
LEMMA TypeSkipResult ==
    ASSUME TypeOK, NEW w \in Workers, NEW c \in Candidates, SkipResult(w, c)
    PROVE  TypeOK'
  <1>1. /\ task[w][c].on /\ EndTask(w, c) /\ SetItem(sess[w].run, c, "skipped_manual_change")
        /\ UNCHANGED <<run, stage, job, item, snap, flow, app, decisions, sess, faults>>
    BY DEF SkipResult, Ending, Silently
  <1>2. "skipped_manual_change" \in ItemStatus
    BY DEF ItemStatus, TerminalItem
  <1>3. istat' \in [Runs -> [Candidates -> ItemStatus]]
    BY <1>1, <1>2, TaskBusy, TypeSetItem
  <1> QED BY <1>1, <1>3, TypeTaskEnd DEF TypeOK, Errors

\* CancelItem keeps every row well typed.
LEMMA TypeCancelItem ==
    ASSUME TypeOK, NEW w \in Workers, NEW c \in Candidates, CancelItem(w, c)
    PROVE  TypeOK'
  <1> DEFINE r == sess[w].run
  <1>1. /\ task[w][c].on /\ EndTask(w, c) /\ SetItem(r, c, "cancelled")
        /\ SetApp(c, item[r][c].prepared, "blocked")
        /\ flow' = [flow EXCEPT ![c] = Unclaimed(flow[c])]
        /\ UNCHANGED <<run, stage, job, item, snap, decisions, sess, faults>>
    BY DEF CancelItem, Committing, Ending, Silently
  <1>2. "cancelled" \in ItemStatus /\ "blocked" \in Applications
    BY DEF ItemStatus, TerminalItem, Applications
  <1>3. /\ istat' \in [Runs -> [Candidates -> ItemStatus]]
        /\ app' \in [Candidates -> [Volunteers -> Applications]]
    BY <1>1, <1>2, TaskBusy, TypeSetItem, TypeSetApp
  <1>4. flow' \in [Candidates -> Workflows]
    BY <1>1, WorkflowUpdates, FlowUpdate DEF TypeOK
  <1> QED BY <1>1, <1>3, <1>4, TypeTaskEnd DEF TypeOK, Errors

\* Closing the attempt of a cancelled task leaves a well-typed table of jobs.
LEMMA AttemptCancelledType ==
    ASSUME TypeOK, NEW c \in Candidates
    PROVE  AttemptCancelled(c) \in [Volunteers -> Applications]
  BY DEF AttemptCancelled, TypeOK, Applications

\* The applications of c after a commit on volunteer p.
LEMMA TypeCommitApp ==
    ASSUME TypeOK, NEW c \in Candidates, NEW p, NEW status \in Applications,
           app' = [app EXCEPT ![c] = [AttemptCancelled(c) EXCEPT ![p] = status]]
    PROVE  app' \in [Candidates -> [Volunteers -> Applications]]
  <1> DEFINE row == [AttemptCancelled(c) EXCEPT ![p] = status]
  <1>1. row \in [Volunteers -> Applications]
    BY AttemptCancelledType
  <1>2. app' = [app EXCEPT ![c] = row]
    OBVIOUS
  <1> HIDE DEF row
  <1> QED BY <1>1, <1>2 DEF TypeOK

\* Decided keeps every row well typed.
LEMMA TypeDecided ==
    ASSUME TypeOK, NEW r \in Runs, NEW c \in Candidates, NEW p, Decided(r, c, p)
    PROVE  decisions' \in [Runs -> [Candidates -> [Volunteers -> Nat]]]
  <1> DEFINE row == [decisions[r][c] EXCEPT ![p] = @ + 1]
  <1>1. decisions[r][c] \in [Volunteers -> Nat]
    BY DEF TypeOK
  <1>2. row \in [Volunteers -> Nat]
    <2> DEFINE f == decisions[r][c]
    <2>1. \A v \in Volunteers : f[v] + 1 \in Nat
      BY <1>1
    <2>2. row = [v \in Volunteers |-> IF v = p THEN f[v] + 1 ELSE f[v]]
      BY <1>1
    <2> QED BY <1>1, <2>1, <2>2
  <1>3. decisions' = [decisions EXCEPT ![r][c] = row]
    BY DEF Decided
  <1> HIDE DEF row
  <1> QED BY <1>2, <1>3 DEF TypeOK

\* AcceptItem keeps every row well typed.
LEMMA TypeAcceptItem ==
    ASSUME TypeOK, NEW w \in Workers, NEW c \in Candidates, AcceptItem(w, c)
    PROVE  TypeOK'
  <1> DEFINE r == sess[w].run
             p == item[r][c].prepared
             f == [Committed(flow[c], p) EXCEPT !.held = "pool", !.on = p]
  <1>1. /\ task[w][c].on /\ EndTask(w, c) /\ SetItem(r, c, "success") /\ Decided(r, c, p)
        /\ app' = [app EXCEPT ![c] = [AttemptCancelled(c) EXCEPT ![p] = "pending_allocation"]]
        /\ flow' = [flow EXCEPT ![c] = f]
        /\ UNCHANGED <<run, stage, job, item, snap, sess, faults>>
    BY DEF AcceptItem, Committing, Ending, Silently
  <1>2. "success" \in ItemStatus /\ "pending_allocation" \in Applications /\ "pool" \in Holds
    BY DEF ItemStatus, TerminalItem, Applications, Holds
  <1>3. r \in Runs /\ p \in Ranks /\ flow[c] \in Workflows
    BY <1>1, TaskBusy
  <1>4. f \in Workflows
    BY <1>2, <1>3, WorkflowMoves, WorkflowUpdates
  <1>5. flow' \in [Candidates -> Workflows]
    BY <1>1, <1>4, FlowUpdate
  <1>6. /\ istat' \in [Runs -> [Candidates -> ItemStatus]]
        /\ decisions' \in [Runs -> [Candidates -> [Volunteers -> Nat]]]
    BY <1>1, <1>2, <1>3, TypeSetItem, TypeDecided
  <1>7. app' \in [Candidates -> [Volunteers -> Applications]]
    BY <1>1, <1>2, TypeCommitApp
  <1> QED BY <1>1, <1>5, <1>6, <1>7, TypeTaskEnd DEF TypeOK, Errors

\* RejectItem keeps every row well typed.
LEMMA TypeRejectItem ==
    ASSUME TypeOK, ConstantsAssumption, NEW w \in Workers, NEW c \in Candidates, RejectItem(w, c)
    PROVE  TypeOK'
  <1> DEFINE r == sess[w].run
             p == item[r][c].prepared
             rejected == task[w][c].snap.rejected \cup {p}
             next == FirstOpen(c, rejected)
             f == Committed(flow[c], p)
             row == [item[r][c] EXCEPT !.prepared = next]
             new(v) == [frozen |-> TRUE, cur |-> next, rejected |-> rejected,
                        verdict |-> v, cont |-> f.rev]
  <1>1. /\ task[w][c].on /\ EndTask(w, c) /\ Decided(r, c, p) /\ ~Refused(w, c, TRUE)
        /\ app' = [app EXCEPT ![c] = [AttemptCancelled(c) EXCEPT ![p] = "ai_rejected"]]
        /\ UNCHANGED <<run, stage, job, sess, faults>>
    BY DEF RejectItem, Committing, Ending, Silently
  <1>2. /\ "success" \in ItemStatus /\ "pending" \in ItemStatus
        /\ "ai_rejected" \in Applications
    BY DEF ItemStatus, TerminalItem, OpenItem, Applications, ClosedApplication
  <1>3. /\ r \in Runs /\ p \in Ranks /\ flow[c] \in Workflows
        /\ task[w][c].snap \in Snapshots /\ item[r][c] \in ItemRows
    BY <1>1, TaskBusy
  <1>4. rejected \in SUBSET Volunteers
    <2>1. p # 0
      BY <1>1 DEF Refused
    <2> QED BY <1>3, <2>1 DEF Snapshots, Ranks
  <1>5. next \in Ranks
    BY FirstOpenIsRank
  <1>6. f \in Workflows /\ f.rev \in Nat /\ Freed(Touched(f, next)) \in Workflows
        /\ AfterLastWish(f, c, Unavailable(c) \cup {p}) \in Workflows
    <2>1. f \in Workflows
      BY <1>3, WorkflowMoves
    <2> HIDE DEF f, next
    <2>2. Touched(f, next) \in Workflows
      BY <1>5, <2>1, WorkflowMoves
    <2> QED BY <2>1, <2>2, WorkflowUpdates, AfterLastWishIsWorkflow DEF Workflows
  <1>7. /\ app' \in [Candidates -> [Volunteers -> Applications]]
        /\ decisions' \in [Runs -> [Candidates -> [Volunteers -> Nat]]]
    BY <1>1, <1>2, <1>3, TypeCommitApp, TypeDecided
  <1>8. istat' \in [Runs -> [Candidates -> ItemStatus]]
    <2>1. SetItem(r, c, "success") \/ SetItem(r, c, "pending")
      BY DEF RejectItem
    <2> QED BY <1>2, <1>3, <2>1, TypeSetItem
  <1>9. flow' \in [Candidates -> Workflows]
    <2>1. \/ flow' = [flow EXCEPT ![c] = AfterLastWish(f, c, Unavailable(c) \cup {p})]
          \/ flow' = [flow EXCEPT ![c] = Freed(Touched(f, next))]
      BY DEF RejectItem
    <2> QED BY <1>6, <2>1, FlowUpdate
  <1>10. item' \in [Runs -> [Candidates -> ItemRows]]
    <2>1. item' = item \/ item' = [item EXCEPT ![r][c] = row]
      BY DEF RejectItem
    <2>2. row \in ItemRows
      <3> HIDE DEF next
      <3> QED BY <1>3, <1>5 DEF ItemRows
    <2>3. item \in [Runs -> [Candidates -> ItemRows]]
      BY DEF TypeOK
    <2> HIDE DEF row, next, f, p
    <2> QED BY <1>3, <2>1, <2>2, <2>3, ItemUpdate
  <1>11. snap' \in [Runs -> [Candidates -> Snapshots]]
    <2>1. snap' = snap \/ \E v \in Verdicts : snap' = [snap EXCEPT ![r][c] = new(v)]
      BY DEF RejectItem
    <2>2. ASSUME NEW v \in Verdicts PROVE new(v) \in Snapshots
      <3> HIDE DEF next, f, rejected
      <3> QED BY <1>4, <1>5, <1>6 DEF Snapshots, ConstantsAssumption
    <2>3. snap \in [Runs -> [Candidates -> Snapshots]]
      BY DEF TypeOK
    <2> HIDE DEF new, next, f, p, rejected
    <2> QED BY <1>3, <2>1, <2>2, <2>3, SnapUpdate
  <1>12. faults' \in Nat /\ "none" \in Errors
    BY <1>1 DEF TypeOK, Errors
  <1> QED BY <1>1, <1>7, <1>8, <1>9, <1>10, <1>11, <1>12, TypeTaskEnd

\* FailItem keeps every row well typed.
LEMMA TypeFailItem ==
    ASSUME TypeOK, NEW w \in Workers, NEW c \in Candidates, FailItem(w, c)
    PROVE  TypeOK'
  <1> DEFINE r == sess[w].run
             p == item[r][c].prepared
             f == Committed(flow[c], p)
  <1>1. /\ task[w][c].on /\ EndTask(w, c) /\ Decided(r, c, p)
        /\ app' = [app EXCEPT ![c] = [AttemptCancelled(c) EXCEPT ![p] = "blocked"]]
        /\ UNCHANGED <<run, stage, job, item, snap, sess, faults>>
    BY DEF FailItem, Committing, Ending, Silently
  <1>2. \E x \in {"needs_attention", "failed"} : SetItem(r, c, x)
    BY DEF FailItem
  <1>3. /\ "blocked" \in Applications
        /\ \A x \in {"needs_attention", "failed"} : x \in ItemStatus
    BY DEF ItemStatus, TerminalItem, Applications
  <1>4. r \in Runs /\ p \in Ranks /\ flow[c] \in Workflows
    BY <1>1, TaskBusy
  <1>5. f \in Workflows /\ Freed(f) \in Workflows
    <2>1. f \in Workflows
      BY <1>4, WorkflowMoves
    <2> QED BY <2>1, WorkflowUpdates
  <1>6. flow' \in [Candidates -> Workflows]
    <2>1. flow' = [flow EXCEPT ![c] = f] \/ flow' = [flow EXCEPT ![c] = Freed(f)]
      BY DEF FailItem
    <2> HIDE DEF f
    <2> QED BY <1>5, <2>1, FlowUpdate
  <1>7. /\ istat' \in [Runs -> [Candidates -> ItemStatus]]
        /\ decisions' \in [Runs -> [Candidates -> [Volunteers -> Nat]]]
        /\ app' \in [Candidates -> [Volunteers -> Applications]]
    BY <1>1, <1>2, <1>3, <1>4, TypeSetItem, TypeDecided, TypeCommitApp
  <1> QED BY <1>1, <1>6, <1>7, TypeTaskEnd DEF TypeOK, Errors

-----------------------------------------------------------------------------
(* The queue, the end of a job, and the environment.                       *)

\* CheckLeaseDecide keeps every row well typed.
LEMMA TypeCheckLeaseDecide ==
    ASSUME TypeOK, NEW w \in Workers, CheckLease(w) \/ Decide(w)
    PROVE  TypeOK'
  <1> DEFINE cancel == run[sess[w].run].cancel
             err == IF cancel THEN "agent_cancelled" ELSE sess[w].err
             s1 == [sess[w] EXCEPT !.pc = "decide"]
             s2 == [sess[w] EXCEPT !.pc = "done"]
             s3 == [sess[w] EXCEPT !.pc = "stop", !.err = err]
  <1>1. /\ sess[w].pc \in {"own", "decide"}
        /\ UNCHANGED <<run, stage, job, candidateRows, task, faults>>
    BY DEF CheckLease, Decide
  <1>2. sess[w] \in Sessions /\ sess[w].run \in Runs
    BY <1>1, Busy
  <1>3. \A c \in Candidates : ~task[w][c].on
    BY <1>1, NoGoroutine
  <1>4. err \in Errors
    BY <1>2 DEF Sessions, Errors
  <1>5. \E s \in {Idle, s1, s2, s3} : sess' = [sess EXCEPT ![w] = s]
    BY DEF CheckLease, Decide
  <1>6. /\ s1 \in Sessions /\ s1.run \in Runs /\ s2 \in Sessions /\ s2.run \in Runs
        /\ s3 \in Sessions /\ s3.run \in Runs
    <2> HIDE DEF err
    <2> QED BY <1>2, <1>4 DEF Sessions, Pcs
  <1>7. Idle \in Sessions /\ Idle.pc = "idle"
    BY IdleIsSession DEF Idle
  <1>8. faults' \in Nat
    BY <1>1 DEF TypeOK
  <1> HIDE DEF s1, s2, s3
  <1> QED BY <1>1, <1>3, <1>5, <1>6, <1>7, <1>8, TypeSessionOnly

\* StopRun keeps every row well typed.
LEMMA TypeStopRun ==
    ASSUME TypeOK, NEW w \in Workers, StopRun(w)
    PROVE  TypeOK'
  <1> DEFINE r == sess[w].run
             status == IF sess[w].err = "agent_cancelled" THEN "cancelled" ELSE "failed"
             row == [run[r] EXCEPT !.status = status]
  <1>1. /\ sess[w].pc = "stop" /\ Goto(w, "tally")
        /\ UNCHANGED <<job, item, snap, decisions, task, faults>>
    BY DEF StopRun
  <1>2. r \in Runs /\ run[r] \in RunRows
    BY <1>1, Busy
  <1>3. status \in FinalRun /\ status \in StageStatus /\ status \in ItemStatus
    BY DEF FinalRun, StageStatus, ItemStatus, TerminalItem
  <1>4. run' \in [Runs -> RunRows]
    <2>1. run' = [run EXCEPT ![r] = row]
      BY DEF StopRun
    <2>2. row \in RunRows
      <3> HIDE DEF status
      <3> QED BY <1>2, <1>3 DEF RunRows
    <2> HIDE DEF row
    <2> QED BY <1>2, <2>1, <2>2, RunUpdate
  <1>5. stage' \in [Runs -> [Steps -> StageStatus]]
    <2> DEFINE g == [x \in Steps |-> CASE stage[r][x] = "running" -> status
                                       [] stage[r][x] = "pending" -> "skipped"
                                       [] OTHER -> stage[r][x]]
    <2>1. stage' = [stage EXCEPT ![r] = g]
      BY DEF StopRun
    <2>2. g \in [Steps -> StageStatus]
      <3>1. "skipped" \in StageStatus
        BY DEF StageStatus
      <3> HIDE DEF status
      <3> QED BY <1>2, <1>3, <3>1 DEF TypeOK
    <2> HIDE DEF g
    <2> QED BY <1>2, <2>1, <2>2 DEF TypeOK
  <1>6. istat' \in [Runs -> [Candidates -> ItemStatus]]
    <2> DEFINE g == [c \in Candidates |-> IF Open(r, c) THEN status ELSE istat[r][c]]
    <2>1. istat' = [istat EXCEPT ![r] = g]
      BY DEF StopRun
    <2>2. g \in [Candidates -> ItemStatus]
      <3> HIDE DEF status
      <3> QED BY <1>2, <1>3 DEF TypeOK
    <2> HIDE DEF g
    <2> QED BY <1>2, <2>1, <2>2 DEF TypeOK
  <1>7. app' \in [Candidates -> [Volunteers -> Applications]]
    <2> DEFINE g(c, v) == IF /\ flow[c].claim = r /\ v = item[r][c].prepared
                             /\ app[c][v] = "assessing"
                          THEN "blocked" ELSE app[c][v]
    <2>1. app' = [c \in Candidates |-> [v \in Volunteers |-> g(c, v)]]
      BY DEF StopRun
    <2>2. \A c \in Candidates, v \in Volunteers : g(c, v) \in Applications
      BY DEF TypeOK, Applications
    <2> HIDE DEF g
    <2> QED BY <2>1, <2>2
  <1>8. flow' \in [Candidates -> Workflows]
    <2> DEFINE g(c) == IF flow[c].claim = r THEN Unclaimed(flow[c]) ELSE flow[c]
    <2>1. flow' = [c \in Candidates |-> g(c)]
      BY DEF StopRun
    <2>2. \A c \in Candidates : g(c) \in Workflows
      BY WorkflowUpdates DEF TypeOK
    <2> HIDE DEF g
    <2> QED BY <2>1, <2>2
  <1>9. /\ sess' \in [Workers -> Sessions]
        /\ \A u \in Workers \ {w} : sess'[u] = sess[u]
        /\ sess'[w].run \in Runs
    BY <1>1, <1>2, TypeGoto DEF Pcs
  <1>10. \A c \in Candidates : ~task'[w][c].on
    BY <1>1, NoGoroutine
  <1> QED BY <1>1, <1>4, <1>5, <1>6, <1>7, <1>8, <1>9, <1>10, TypeStep DEF TypeOK

\* Tally keeps every row well typed.
LEMMA TypeTally ==
    ASSUME TypeOK, NEW w \in Workers, Tally(w)
    PROVE  TypeOK'
  <1>1. /\ sess[w].pc = "tally" /\ Goto(w, "done") /\ run' = Summarised(sess[w].run)
        /\ UNCHANGED <<stage, job, candidateRows, task, faults>>
    BY DEF Tally
  <1>2. \A d \in Candidates : ~task[w][d].on
    BY <1>1, NoGoroutine
  <1>3. run' \in [Runs -> RunRows]
    BY <1>1, Busy, SummarisedType DEF TypeOK
  <1>4. stage' \in [Runs -> [Steps -> StageStatus]] /\ job' \in [Runs -> JobRows]
    BY <1>1 DEF TypeOK
  <1> QED BY <1>1, <1>2, <1>3, <1>4, TypeGotoStep DEF Pcs

\* Overwriting one row of a table of jobs with a well-typed job keeps the table well typed.
LEMMA JobUpdate ==
    ASSUME TypeOK, NEW r \in Runs, NEW row \in JobRows, job' = [job EXCEPT ![r] = row]
    PROVE  job' \in [Runs -> JobRows]
  BY DEF TypeOK

\* JobDone keeps every row well typed.
LEMMA TypeJobDone ==
    ASSUME TypeOK, NEW w \in Workers, JobDone(w)
    PROVE  TypeOK'
  <1> DEFINE r == sess[w].run
             row == [job[r] EXCEPT !.status = "done", !.live = FALSE]
  <1>1. /\ sess[w].pc = "done" /\ sess' = [sess EXCEPT ![w] = Idle]
        /\ UNCHANGED <<run, stage, istat, item, snap, flow, app, decisions, task, faults>>
    BY DEF JobDone, candidateRows
  <1>2. r \in Runs /\ job[r] \in JobRows
    BY <1>1, Busy
  <1>3. row \in JobRows
    BY <1>2 DEF JobRows
  <1>4. job' = job \/ job' = [job EXCEPT ![r] = row]
    BY DEF JobDone
  <1> HIDE DEF row
  <1>5. job' \in [Runs -> JobRows]
    BY <1>2, <1>3, <1>4, JobUpdate DEF TypeOK
  <1>6. /\ sess' \in [Workers -> Sessions]
        /\ \A u \in Workers \ {w} : sess'[u] = sess[u]
        /\ sess'[w].pc # "idle" => sess'[w].run \in Runs
    <2>1. Idle \in Sessions /\ Idle.pc = "idle"
      BY IdleIsSession DEF Idle
    <2> QED BY <1>1, <2>1, SessionUpdate
  <1>7. \A c \in Candidates : ~task'[w][c].on
    BY <1>1, NoGoroutine
  <1> QED BY <1>1, <1>5, <1>6, <1>7, TypeStep DEF TypeOK

\* CreateRun keeps every row well typed.
LEMMA TypeCreateRun ==
    ASSUME TypeOK, NEW r \in Runs, CreateRun(r)
    PROVE  TypeOK'
  <1> DEFINE row == [run[r] EXCEPT !.status = "pending"]
             jrow == [job[r] EXCEPT !.status = "pending"]
             stages == [x \in Steps |-> IF x = "queued" THEN "running"
                                        ELSE IF HasStage(r, x) THEN "pending" ELSE "absent"]
             stats == [c \in Candidates |-> IF c \in Scope[r] THEN "pending" ELSE "absent"]
             items == [c \in Candidates |-> [submit |-> flow[c].rev, prepared |-> 0, tries |-> 0]]
  <1>1. /\ run' = [run EXCEPT ![r] = row] /\ job' = [job EXCEPT ![r] = jrow]
        /\ stage' = [stage EXCEPT ![r] = stages] /\ istat' = [istat EXCEPT ![r] = stats]
        /\ item' = [item EXCEPT ![r] = items]
        /\ UNCHANGED <<snap, flow, app, decisions, sess, task, faults>>
    BY DEF CreateRun
  <1>2. run[r] \in RunRows /\ job[r] \in JobRows /\ \A c \in Candidates : flow[c].rev \in Nat
    BY DEF TypeOK, Workflows
  <1>3. row \in RunRows /\ jrow \in JobRows
    BY <1>2 DEF RunRows, JobRows, ActiveRun
  <1>4. stages \in [Steps -> StageStatus]
    BY DEF StageStatus
  <1>5. stats \in [Candidates -> ItemStatus]
    BY DEF ItemStatus, OpenItem
  <1>6. items \in [Candidates -> ItemRows]
    BY <1>2 DEF ItemRows, Ranks
  <1> HIDE DEF row, jrow, stages, stats, items
  <1>7. run' \in [Runs -> RunRows] /\ job' \in [Runs -> JobRows]
    BY <1>1, <1>3, RunUpdate, JobUpdate
  <1>8. /\ stage' \in [Runs -> [Steps -> StageStatus]]
        /\ istat' \in [Runs -> [Candidates -> ItemStatus]]
        /\ item' \in [Runs -> [Candidates -> ItemRows]]
    BY <1>1, <1>4, <1>5, <1>6 DEF TypeOK
  <1> QED BY <1>1, <1>7, <1>8, TypeRest DEF TypeOK

\* CancelRun keeps every row well typed.
LEMMA TypeCancelRun ==
    ASSUME TypeOK, NEW r \in Runs, CancelRun(r)
    PROVE  TypeOK'
  <1> DEFINE row == [run[r] EXCEPT !.status = "cancelling", !.cancel = TRUE]
  <1>1. run' = [run EXCEPT ![r] = row]
        /\ UNCHANGED <<stage, job, istat, item, snap, flow, app, decisions, sess, task, faults>>
    BY DEF CancelRun, candidateRows
  <1>2. run[r] \in RunRows
    BY DEF TypeOK
  <1>3. row \in RunRows
    BY <1>2 DEF RunRows, ActiveRun
  <1> HIDE DEF row
  <1>4. run' \in [Runs -> RunRows]
    BY <1>1, <1>3, RunUpdate
  <1> QED BY <1>1, <1>4, TypeRest DEF TypeOK

\* Claim keeps every row well typed.
LEMMA TypeClaim ==
    ASSUME TypeOK, NEW w \in Workers, NEW r \in Runs, Claim(w, r)
    PROVE  TypeOK'
  <1> DEFINE n == job[r].attempts + 1
             row == [status |-> "running", live |-> TRUE, attempts |-> n]
             s == [Idle EXCEPT !.pc = "read", !.run = r, !.ctx = TRUE, !.token = n]
  <1>1. /\ sess[w].pc = "idle" /\ sess' = [sess EXCEPT ![w] = s] /\ job' = [job EXCEPT ![r] = row]
        /\ UNCHANGED <<run, stage, istat, item, snap, flow, app, decisions, task, faults>>
    BY DEF Claim, candidateRows
  <1>2. n \in Nat
    BY DEF TypeOK, JobRows
  <1> HIDE DEF n
  <1>3. row \in JobRows
    BY <1>2 DEF JobRows
  <1>4. s \in Sessions /\ s.run = r
    BY <1>2 DEF Idle, Sessions, Pcs, Executing, Errors, Steps
  <1> HIDE DEF row, s
  <1>5. job' \in [Runs -> JobRows]
    BY <1>1, <1>3, JobUpdate
  <1>6. /\ sess' \in [Workers -> Sessions]
        /\ \A u \in Workers \ {w} : sess'[u] = sess[u]
        /\ sess'[w].pc # "idle" => sess'[w].run \in Runs
    BY <1>1, <1>4, SessionUpdate
  <1>7. \A c \in Candidates : ~task'[w][c].on
    BY <1>1, NoGoroutine
  <1> QED BY <1>1, <1>5, <1>6, <1>7, TypeStep DEF TypeOK

\* Heartbeat keeps every row well typed.
LEMMA TypeHeartbeat ==
    ASSUME TypeOK, NEW w \in Workers, Heartbeat(w)
    PROVE  TypeOK'
  <1> DEFINE r == sess[w].run
             b == Owns(w) /\ ~run[r].cancel
             s == [sess[w] EXCEPT !.ctx = b]
             row == [job[r] EXCEPT !.live = TRUE]
  <1>1. /\ sess' = [sess EXCEPT ![w] = s] /\ (job' = job \/ job' = [job EXCEPT ![r] = row])
        /\ UNCHANGED <<run, stage, istat, item, snap, flow, app, decisions, task, faults>>
    BY DEF Heartbeat, candidateRows
  <1>2. sess[w].pc # "idle"
    BY DEF Heartbeat, Beating, Executing
  <1>3. sess[w] \in Sessions /\ r \in Runs /\ job[r] \in JobRows
    BY <1>2, Busy
  <1>4. row \in JobRows
    BY <1>3 DEF JobRows
  <1>5. s \in Sessions /\ s.run = r /\ s.pc = sess[w].pc /\ s.at = sess[w].at
    <2>1. b \in BOOLEAN
      OBVIOUS
    <2> HIDE DEF b
    <2> QED BY <1>3, <2>1 DEF Sessions
  <1> HIDE DEF s, row
  <1>6. job' \in [Runs -> JobRows]
    BY <1>1, <1>3, <1>4, JobUpdate DEF TypeOK
  <1>7. /\ sess' \in [Workers -> Sessions] /\ sess'[w] = s
        /\ \A u \in Workers \ {w} : sess'[u] = sess[u]
        /\ sess'[w].pc # "idle" => sess'[w].run \in Runs
    BY <1>1, <1>3, <1>5, SessionUpdate
  <1>8. \A c \in Candidates : task'[w][c].on => sess'[w].pc = "work" /\ sess'[w].at = "step4"
    BY <1>1, <1>5, <1>7, TaskBusy
  <1> QED BY <1>1, <1>6, <1>7, <1>8, TypeStep DEF TypeOK

\* LeaseLapses keeps every row well typed.
LEMMA TypeLeaseLapses ==
    ASSUME TypeOK, NEW r \in Runs, LeaseLapses(r)
    PROVE  TypeOK'
  <1> DEFINE row == [job[r] EXCEPT !.live = FALSE]
  <1>1. /\ job' = [job EXCEPT ![r] = row]
        /\ UNCHANGED <<run, stage, istat, item, snap, flow, app, decisions, sess, task, faults>>
    BY DEF LeaseLapses, candidateRows
  <1>2. row \in JobRows
    BY DEF TypeOK, JobRows
  <1> HIDE DEF row
  <1>3. job' \in [Runs -> JobRows]
    BY <1>1, <1>2, JobUpdate
  <1> QED BY <1>1, <1>3, TypeRest DEF TypeOK

\* Crash keeps every row well typed.
LEMMA TypeCrash ==
    ASSUME TypeOK, NEW w \in Workers, Crash(w)
    PROVE  TypeOK'
  <1> DEFINE none == [c \in Candidates |-> NoTask]
  <1>1. /\ sess' = [sess EXCEPT ![w] = Idle] /\ task' = [task EXCEPT ![w] = none]
        /\ faults' = faults + 1
        /\ UNCHANGED <<run, stage, job, istat, item, snap, flow, app, decisions>>
    BY DEF Crash, candidateRows
  <1>2. /\ sess' \in [Workers -> Sessions]
        /\ \A u \in Workers \ {w} : sess'[u] = sess[u]
        /\ sess'[w].pc # "idle" => sess'[w].run \in Runs
    <2>1. Idle \in Sessions /\ Idle.pc = "idle"
      BY IdleIsSession DEF Idle
    <2> QED BY <1>1, <2>1, SessionUpdate
  <1>3. /\ none \in [Candidates -> Tasks] /\ \A c \in Candidates : ~none[c].on
    BY NoTaskIsTask
  <1> HIDE DEF none
  <1>4. /\ task' \in [Workers -> [Candidates -> Tasks]]
        /\ \A u \in Workers \ {w}, c \in Candidates : task'[u][c].on => task[u][c].on
        /\ \A c \in Candidates : ~task'[w][c].on
    BY <1>1, <1>3 DEF TypeOK
  <1>5. faults' \in Nat
    BY <1>1 DEF TypeOK
  <1> QED BY <1>1, <1>2, <1>4, <1>5, TypeStep DEF TypeOK

\* A change of a candidate from outside the workers.
LEMMA TypeOutside ==
    ASSUME TypeOK, NEW c \in Candidates, Outside,
           flow' \in [Candidates -> Workflows],
           app' \in [Candidates -> [Volunteers -> Applications]]
    PROVE  TypeOK'
  BY TypeRest DEF Outside, TypeOK

\* CandidateChanges keeps every row well typed.
LEMMA TypeCandidateChanges ==
    ASSUME TypeOK, NEW c \in Candidates,
           \/ \E v \in Volunteers : ManualAssign(c, v)
           \/ MutateAttempt(c) \/ EditCandidate(c) \/ ImportResumes(c) \/ AllocationAssigns(c)
    PROVE  TypeOK'
  <1> DEFINE f == Invalidated(flow[c])
  <1>1. flow[c] \in Workflows /\ f \in Workflows
    BY WorkflowUpdates DEF TypeOK
  <1>2. /\ Archived(f) \in Workflows /\ Freed(f) \in Workflows
        /\ \A v \in Ranks : [f EXCEPT !.held = "department", !.on = v] \in Workflows
        /\ [f EXCEPT !.held = "passed", !.on = 0] \in Workflows
        /\ \A x : AfterLastWish(f, c, x) \in Workflows
    BY <1>1, WorkflowUpdates, AfterLastWishIsWorkflow DEF Holds, Ranks
  <1>3. ASSUME NEW v \in Volunteers, ManualAssign(c, v) PROVE TypeOK'
    <2> DEFINE g == [Invalidated(Touched(flow[c], v)) EXCEPT !.held = "department", !.on = v]
    <2>1. /\ flow' = [flow EXCEPT ![c] = g] /\ Outside
          /\ app' = [app EXCEPT ![c] = [AttemptCancelled(c) EXCEPT ![v] = "pending_dispatch"]]
      BY <1>3 DEF ManualAssign, Manual
    <2>2. g \in Workflows
      <3>1. Touched(flow[c], v) \in Workflows
        BY <1>1, WorkflowMoves DEF Ranks
      <3>2. Invalidated(Touched(flow[c], v)) \in Workflows
        BY <3>1, WorkflowUpdates
      <3> QED BY <3>2, WorkflowUpdates DEF Ranks, Holds
    <2> HIDE DEF g
    <2>3. flow' \in [Candidates -> Workflows]
      BY <2>1, <2>2, FlowUpdate
    <2>4. app' \in [Candidates -> [Volunteers -> Applications]]
      BY <2>1, TypeCommitApp DEF Applications
    <2> QED BY <2>1, <2>3, <2>4, TypeOutside
  <1>4. ASSUME MutateAttempt(c) PROVE TypeOK'
    <2> DEFINE v == flow[c].on
    <2>1. \E g \in {f, Archived(f), [f EXCEPT !.held = "passed", !.on = 0],
                    AfterLastWish(f, c, Unavailable(c) \cup {v})} : flow' = [flow EXCEPT ![c] = g]
      BY <1>4 DEF MutateAttempt
    <2>2. flow' \in [Candidates -> Workflows]
      <3> HIDE DEF f
      <3> QED BY <2>1, <1>1, <1>2, FlowUpdate
    <2>3. \E x \in {"department_review", "cancelled", "passed", "department_rejected"} :
            SetApp(c, v, x)
      BY <1>4 DEF MutateAttempt
    <2>4. app' \in [Candidates -> [Volunteers -> Applications]]
      BY <2>3, TypeSetApp DEF Applications, ClosedApplication
    <2>5. Outside
      BY <1>4 DEF MutateAttempt, Manual
    <2> QED BY <2>2, <2>4, <2>5, TypeOutside
  <1>5. ASSUME EditCandidate(c) PROVE TypeOK'
    <2> DEFINE blocked == [v \in Volunteers |->
                             IF app[c][v] = "assessing" THEN "blocked" ELSE app[c][v]]
               moved == [blocked EXCEPT ![f.on] = "needs_reanalysis"]
    <2>1. blocked \in [Volunteers -> Applications]
      BY DEF TypeOK, Applications
    <2>2. moved \in [Volunteers -> Applications]
      <3> HIDE DEF blocked
      <3>1. "needs_reanalysis" \in Applications
        BY DEF Applications
      <3> QED BY <2>1, <3>1
    <2>3. /\ \E g \in {f, Freed(f)} : flow' = [flow EXCEPT ![c] = g]
          /\ \E x \in {blocked, moved} : app' = [app EXCEPT ![c] = x]
          /\ Outside
      BY <1>5 DEF EditCandidate, Manual
    <2> HIDE DEF blocked, moved, f
    <2>4. flow' \in [Candidates -> Workflows]
      BY <2>3, <1>1, <1>2, FlowUpdate
    <2>5. app' \in [Candidates -> [Volunteers -> Applications]]
      BY <2>1, <2>2, <2>3 DEF TypeOK
    <2> QED BY <2>3, <2>4, <2>5, TypeOutside
  <1>6. ASSUME ImportResumes(c) PROVE TypeOK'
    <2>1. /\ flow' = [flow EXCEPT ![c] = f] /\ Outside
          /\ \E new \in SUBSET (Wishes[c] \ Known(c)) :
               app' = [app EXCEPT ![c] = [v \in Volunteers |->
                          IF v \in new THEN "pending" ELSE app[c][v]]]
      BY <1>6 DEF ImportResumes, Manual
    <2>2. flow' \in [Candidates -> Workflows]
      BY <2>1, <1>1, FlowUpdate
    <2>3. \A new : [v \in Volunteers |-> IF v \in new THEN "pending" ELSE app[c][v]]
                     \in [Volunteers -> Applications]
      BY DEF TypeOK, Applications
    <2>4. app' \in [Candidates -> [Volunteers -> Applications]]
      BY <2>1, <2>3 DEF TypeOK
    <2> QED BY <2>1, <2>2, <2>4, TypeOutside
  <1>7. ASSUME AllocationAssigns(c) PROVE TypeOK'
    <2> DEFINE g == [flow[c] EXCEPT !.held = "department"]
    <2>1. /\ flow' = [flow EXCEPT ![c] = g] /\ SetApp(c, flow[c].on, "pending_dispatch")
          /\ Outside
      BY <1>7 DEF AllocationAssigns
    <2>2. g \in Workflows
      BY <1>1 DEF Workflows, Holds
    <2> HIDE DEF g
    <2>3. flow' \in [Candidates -> Workflows]
      BY <2>1, <2>2, FlowUpdate
    <2>4. app' \in [Candidates -> [Volunteers -> Applications]]
      BY <2>1, TypeSetApp DEF Applications
    <2> QED BY <2>1, <2>3, <2>4, TypeOutside
  <1> QED BY <1>3, <1>4, <1>5, <1>6, <1>7

-----------------------------------------------------------------------------

\* Init keeps every row well typed.
LEMMA TypeInit ==
    ASSUME Init PROVE TypeOK
  <1>1. NoSnapshot \in Snapshots /\ NoTask \in Tasks /\ Idle \in Sessions
    BY IdleIsSession, NoTaskIsTask DEF NoSnapshot, Snapshots, AllVerdicts, Ranks, NoRevision
  <1>2. ~NoTask.on /\ Idle.pc = "idle"
    BY DEF NoTask, Idle
  <1>3. run \in [Runs -> RunRows] /\ job \in [Runs -> JobRows]
    BY DEF Init, RunRows, JobRows
  <1>4. stage \in [Runs -> [Steps -> StageStatus]] /\ istat \in [Runs -> [Candidates -> ItemStatus]]
    BY DEF Init, StageStatus, ItemStatus
  <1>5. item \in [Runs -> [Candidates -> ItemRows]] /\ flow \in [Candidates -> Workflows]
    BY DEF Init, ItemRows, Workflows, Ranks, Holds
  <1>6. app \in [Candidates -> [Volunteers -> Applications]]
    BY DEF Init, Applications
  <1>7. decisions \in [Runs -> [Candidates -> [Volunteers -> Nat]]] /\ faults \in Nat
    BY DEF Init
  <1>8. /\ snap \in [Runs -> [Candidates -> Snapshots]]
        /\ sess \in [Workers -> Sessions]
        /\ task \in [Workers -> [Candidates -> Tasks]]
    BY <1>1 DEF Init
  <1>9. /\ \A w \in Workers : sess[w].pc = "idle"
        /\ \A w \in Workers, c \in Candidates : ~task[w][c].on
    BY <1>2 DEF Init
  <1> QED BY <1>3, <1>4, <1>5, <1>6, <1>7, <1>8, <1>9 DEF TypeOK

\* Next keeps every row well typed.
LEMMA TypeNext ==
    ASSUME ConstantsAssumption, TypeOK, [Next]_vars
    PROVE  TypeOK'
  <1>1. CASE UNCHANGED vars
    BY <1>1 DEF TypeOK, vars
  <1>2. ASSUME NEW w \in Workers, WorkerStep(w) PROVE TypeOK'
    BY <1>2, TypeReadRun, TypeBeginStage, TypeMarkStage, TypeFinishStage, TypeTestStage,
       TypeInitialize, TypeStepFailsAbort, TypeListItems, TypeLookAtCase, TypeSaveCase,
       TypeSnapshotsReady, TypeItemsPrepared, TypeRoundDone, TypeFinalize,
       TypeCheckLeaseDecide, TypeStopRun, TypeTally, TypeJobDone, TypePrepareItem,
       TypePrepareItemFails, TypeStartItem DEF WorkerStep
  <1>3. ASSUME NEW w \in Workers, StepFails(w) \/ Heartbeat(w) \/ Crash(w) PROVE TypeOK'
    BY <1>3, TypeStepFailsAbort, TypeHeartbeat, TypeCrash
  <1>4. ASSUME NEW w \in Workers, NEW r \in Runs, Claim(w, r) PROVE TypeOK'
    BY <1>4, TypeClaim
  <1>5. ASSUME NEW w \in Workers, NEW c \in Candidates,
               TaskEnds(w, c) \/ RenewClaim(w, c) \/ SaveArtifact(w, c)
        PROVE  TypeOK'
    BY <1>5, TypeRenewClaim, TypeSaveArtifact, TypeTaskInterrupted, TypeSkipResult,
       TypeCancelItem, TypeAcceptItem, TypeRejectItem, TypeFailItem DEF TaskEnds
  <1>6. ASSUME NEW r \in Runs, LeaseLapses(r) \/ CreateRun(r) \/ CancelRun(r) PROVE TypeOK'
    BY <1>6, TypeLeaseLapses, TypeCreateRun, TypeCancelRun
  <1>7. ASSUME NEW c \in Candidates, ClaimLapses(c) PROVE TypeOK'
    BY <1>7, TypeClaimLapses
  <1>8. CASE Environment
    BY <1>8, <1>6, TypeCandidateChanges DEF Environment
  <1> QED BY <1>1, <1>2, <1>3, <1>4, <1>5, <1>6, <1>7, <1>8 DEF Next

\* Every reachable row is well formed, whatever the runs, candidates, workers, bounds.
THEOREM TypeCorrect == Spec => []TypeOK
  <1>1. Init => TypeOK
    BY TypeInit
  <1>2. TypeOK /\ [Next]_vars => TypeOK'
    BY TypeNext, ConstantsAssumption
  <1> QED BY <1>1, <1>2, PTL DEF Spec

=============================================================================
