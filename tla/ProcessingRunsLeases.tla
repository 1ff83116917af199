------------------------- MODULE ProcessingRunsLeases -------------------------
(***************************************************************************)
(* Safety of ProcessingRuns as long as no worker stalls past its lease     *)
(* (Slow = {}), for any number of runs, candidates, workers and volunteers *)
(* and any number of crashes and failures: one worker executes a run, its  *)
(* outcome is recorded before its job is done, it resumes from usable      *)
(* snapshots, skips only what has changed, decides at the expected         *)
(* revision, and leaves no claim that holds anybody up.                    *)
(***************************************************************************)
EXTENDS ProcessingRunsProofs

-----------------------------------------------------------------------------
(* One worker executes a run, and its outcome is recorded.                 *)

\* A busy worker holds the lease of its job, and nobody else works on its run.
Leased(w) ==
    LET s == sess[w] IN
    s.pc # "idle" => /\ job[s.run].status = "running" /\ job[s.run].live
                     /\ job[s.run].attempts = s.token
LeaseInv ==
    /\ \A w \in Workers : Leased(w)
    /\ \A w, u \in Workers : /\ sess[w].pc # "idle" /\ sess[u].pc # "idle"
                             /\ sess[w].run = sess[u].run
                             => w = u

\* What the position s of a worker tells about the status of its run, where rn
\* holds the rows of run.
Outcome(s, rn) ==
    /\ s.pc \in {"own", "decide"} /\ s.err = "none" => rn[s.run].status \in FinalRun
    /\ s.pc \in {"tally", "done"} => rn[s.run].status \in FinalRun
    /\ s.pc = "finish" /\ s.at = "finalize" => rn[s.run].status \in FinalRun
    /\ s.pc = "test" => s.at # "finalize"
    /\ s.pc \in Executing \ {"read"} /\ ~(s.pc = "finish" /\ s.at = "finalize") =>
         rn[s.run].status \in ActiveRun
JobOutcome(r) ==
    /\ job[r].status = "absent" => run[r].status = "none"
    /\ job[r].status = "done" => run[r].status \in FinalRun
OutcomeInv ==
    /\ \A w \in Workers : Outcome(sess[w], run)
    /\ \A r \in Runs : JobOutcome(r)

\* The session of w goes on with the same run under the same token, or ends.
Follows(w) ==
    /\ Outcome(sess'[w], run')
    /\ \/ sess'[w].pc = "idle"
       \/ /\ sess[w].pc # "idle"
          /\ sess'[w].run = sess[w].run /\ sess'[w].token = sess[w].token

\* Goto keeps all of a session but its position.
LEMMA GotoFollows ==
    ASSUME TypeOK, NEW w \in Workers, NEW p, Goto(w, p)
    PROVE  /\ sess'[w].pc = p /\ sess'[w].at = sess[w].at /\ sess'[w].run = sess[w].run
           /\ sess'[w].token = sess[w].token /\ sess'[w].err = sess[w].err
           /\ sess'[w].todo = sess[w].todo /\ sess'[w].view = sess[w].view
           /\ sess'[w].cand = sess[w].cand /\ sess'[w].init = sess[w].init
           /\ sess'[w].prep = sess[w].prep
  BY DEF Goto, TypeOK, Sessions

\* An error ends executeRun.
LEMMA FailFollows ==
    ASSUME TypeOK, NEW w \in Workers, sess[w].pc # "idle", NEW e, e # "none",
           sess'[w] = Return(sess[w], e) \/ Fail(w, e)
    PROVE  Follows(w) /\ sess'[w].pc = "own"
  <1>1. sess'[w] = Return(sess[w], e)
    BY DEF Fail, TypeOK
  <1>2. /\ Return(sess[w], e).pc = "own" /\ Return(sess[w], e).err = e
        /\ Return(sess[w], e).run = sess[w].run /\ Return(sess[w], e).token = sess[w].token
    BY DEF Return, Idle
  <1> QED BY <1>1, <1>2 DEF Follows, Outcome, Executing

\* The next step of the walk: where it continues, and that the rest is kept.
LEMMA AdvanceFollows ==
    ASSUME NEW s \in Sessions, s.at # "finalize"
    PROVE  /\ Advance(s).run = s.run /\ Advance(s).token = s.token
           /\ Advance(s).pc \in {"finish", "begin", "list", "test"}
           /\ Advance(s).at = IF NextStep(s.run, s.at) = "preparing" /\ s.prep
                              THEN FirstStep(s.run) ELSE NextStep(s.run, s.at)
           /\ Advance(s).pc = EntryPc(s, s.run, Advance(s).at)
  <1> DEFINE n == NextStep(s.run, s.at)
             step == IF n = "preparing" /\ s.prep THEN FirstStep(s.run) ELSE n
             q == EntryPc(s, s.run, step)
  <1>1. Advance(s) = [s EXCEPT !.at = step, !.pc = q]
    BY DEF Advance
  <1>2. q \in {"finish", "begin", "list", "test"}
    <2> HIDE DEF step
    <2> QED BY DEF EntryPc
  <1> HIDE DEF q, step
  <1>3. /\ Advance(s).run = s.run /\ Advance(s).token = s.token
        /\ Advance(s).pc = q /\ Advance(s).at = step
    BY <1>1 DEF Sessions
  <1> QED BY <1>2, <1>3 DEF q, step, n

\* The walk from one step to the next needs an active run.
LEMMA AdvanceOutcome ==
    ASSUME NEW s \in Sessions, NEW rn, rn[s.run].status \in ActiveRun, s.at # "finalize",
           s.pc \in Executing
    PROVE  Outcome(Advance(s), rn)
  <1> DEFINE t == Advance(s)
  <1>1. /\ t.run = s.run /\ t.pc \in {"finish", "begin", "list", "test"}
        /\ t.pc = EntryPc(s, s.run, t.at)
    BY AdvanceFollows
  <1>2. t.at = "finalize" => t.pc = "begin"
    BY <1>1 DEF EntryPc
  <1>3. ActiveRun \cap FinalRun = {}
    BY DEF ActiveRun, FinalRun
  <1> SUFFICES Outcome(t, rn)
    OBVIOUS
  <1> HIDE DEF t
  <1> QED BY <1>1, <1>2, <1>3 DEF Outcome

\* A worker that goes on executing an active run.
LEMMA ActiveOutcome ==
    ASSUME NEW t, NEW rn, rn[t.run].status \in ActiveRun, t.pc \in Executing \ {"test"},
           ~(t.pc = "finish" /\ t.at = "finalize")
    PROVE  Outcome(t, rn)
  BY DEF Outcome, Executing

\* A worker that executes a stage executes an active run.
LEMMA ActiveWorker ==
    ASSUME OutcomeInv, NEW w \in Workers,
           sess[w].pc \in {"begin", "mark", "test", "list", "work", "save"}
               \/ (sess[w].pc = "finish" /\ sess[w].at # "finalize")
    PROVE  run[sess[w].run].status \in ActiveRun
  BY DEF OutcomeInv, Outcome, Executing

\* executeRun: reading the run and the stages of a step.
LEMMA WalkFollows ==
    ASSUME ConstantsAssumption, TypeOK, SettledInv, OutcomeInv, NEW w \in Workers,
           ReadRun(w) \/ BeginStage(w) \/ MarkStage(w) \/ FinishStage(w) \/ TestStage(w)
    PROVE  Follows(w)
  <1> DEFINE s == sess[w]
             r == sess[w].run
  <1>1. s.pc \in {"read", "begin", "mark", "finish", "test"}
    BY DEF ReadRun, BeginStage, MarkStage, FinishStage, TestStage, At
  <1>2. s \in Sessions /\ r \in Runs /\ sess \in [Workers -> Sessions] /\ s.pc # "idle"
    BY <1>1, Busy DEF TypeOK
  <1>3. run[r].status # "none" /\ Outcome(s, run)
    BY <1>2 DEF SettledInv, Evidence, OutcomeInv
  <1>4. CASE ReadRun(w)
    <2> DEFINE u == [s EXCEPT !.pc = "finish", !.at = "queued",
                              !.init = run[r].init, !.prep = run[r].prep]
    <2>1. \/ sess'[w] = Return(s, "none") /\ run[r].status \notin ActiveRun
          \/ sess'[w] = Return(s, "agent_cancelled")
          \/ sess'[w] = u /\ run[r].status \in ActiveRun
      BY <1>2, <1>4 DEF ReadRun
    <2>2. u.pc = "finish" /\ u.at = "queued" /\ u.run = r /\ u.token = s.token
      BY <1>2 DEF Sessions
    <2>3. /\ Return(s, "none").pc = "own" /\ Return(s, "none").run = r
          /\ Return(s, "none").token = s.token
      BY DEF Return, Idle
    <2>4. run[r].status \notin ActiveRun => run[r].status \in FinalRun
      BY <1>2, <1>3 DEF TypeOK, RunRows
    <2>5. run' = run
      BY <1>4 DEF ReadRun
    <2> HIDE DEF u
    <2>6. CASE sess'[w] = Return(s, "none") /\ run[r].status \notin ActiveRun
      BY <1>2, <2>3, <2>4, <2>5, <2>6 DEF Follows, Outcome, Executing
    <2>7. CASE sess'[w] = Return(s, "agent_cancelled")
      BY <1>2, <2>7, FailFollows
    <2>8. CASE sess'[w] = u /\ run[r].status \in ActiveRun
      BY <1>2, <2>2, <2>5, <2>8, ActiveOutcome DEF Follows, Executing
    <2> QED BY <2>1, <2>6, <2>7, <2>8
  <1>5. CASE BeginStage(w)
    <2>1. Fail(w, "agent_cancelled")
            \/ (Goto(w, "mark") /\ run' = [run EXCEPT ![r].status = "running"])
      BY <1>5 DEF BeginStage
    <2>2. CASE Goto(w, "mark") /\ run' = [run EXCEPT ![r].status = "running"]
      <3>1. run'[r].status \in ActiveRun
        BY <1>2, <2>2 DEF TypeOK, RunRows, ActiveRun
      <3>2. /\ sess'[w].pc = "mark" /\ sess'[w].at = s.at /\ sess'[w].run = r
            /\ sess'[w].token = s.token
        BY <2>2, GotoFollows
      <3>3. Outcome(sess'[w], run')
        BY <3>1, <3>2, ActiveOutcome DEF Executing
      <3> QED BY <1>2, <3>2, <3>3 DEF Follows
    <2> QED BY <1>2, <2>1, <2>2, FailFollows
  <1>6. CASE MarkStage(w)
    <2>1. Goto(w, "work") \/ Goto(w, "list")
      BY <1>6 DEF MarkStage
    <2>2. run' = run /\ run[r].status \in ActiveRun
      BY <1>6, ActiveWorker DEF MarkStage, At
    <2> QED BY <1>2, <2>1, <2>2, GotoFollows, ActiveOutcome DEF Follows, Executing
  <1>7. CASE FinishStage(w)
    <2>1. sess'[w] = Advance(s) /\ run' = run /\ s.pc = "finish"
      BY <1>2, <1>7 DEF FinishStage, At
    <2>2. CASE s.at = "finalize"
      <3>1. sess'[w] = Return(s, "none")
        BY <2>1, <2>2 DEF Advance
      <3>2. /\ Return(s, "none").pc = "own" /\ Return(s, "none").run = r
            /\ Return(s, "none").token = s.token
        BY DEF Return, Idle
      <3>3. run[r].status \in FinalRun
        BY <1>3, <2>1, <2>2 DEF Outcome
      <3> QED BY <1>2, <2>1, <3>1, <3>2, <3>3 DEF Follows, Outcome, Executing
    <2>3. CASE s.at # "finalize"
      <3>1. run[r].status \in ActiveRun
        BY <2>1, <2>3, ActiveWorker
      <3> QED BY <1>2, <2>1, <2>3, <3>1, AdvanceFollows, AdvanceOutcome DEF Follows, Executing
    <2> QED BY <2>2, <2>3
  <1>8. CASE TestStage(w)
    <2> DEFINE u == [s EXCEPT !.pc = "begin"]
    <2>1. (sess'[w] = Advance(s) \/ sess'[w] = u) /\ run' = run /\ s.pc = "test"
      BY <1>2, <1>8 DEF TestStage, At
    <2>2. u.pc = "begin" /\ u.at = s.at /\ u.run = r /\ u.token = s.token
      BY <1>2 DEF Sessions
    <2>3. s.at # "finalize" /\ run[r].status \in ActiveRun
      BY <1>3, <2>1, ActiveWorker DEF Outcome
    <2> HIDE DEF u
    <2>4. CASE sess'[w] = u
      BY <1>2, <2>1, <2>2, <2>3, <2>4, ActiveOutcome DEF Follows, Executing
    <2>5. CASE sess'[w] = Advance(s)
      BY <1>2, <2>1, <2>3, <2>5, AdvanceFollows, AdvanceOutcome DEF Follows, Executing
    <2> QED BY <2>1, <2>4, <2>5
  <1> QED BY <1>4, <1>5, <1>6, <1>7, <1>8

\* executeRun: the work of the stages.
LEMMA StageFollows ==
    ASSUME ConstantsAssumption, TypeOK, SettledInv, OutcomeInv, NEW w \in Workers,
           \/ Initialize(w) \/ SnapshotsReady(w) \/ ListItems(w) \/ LookAtCase(w) \/ SaveCase(w)
           \/ ItemsPrepared(w) \/ RoundDone(w) \/ Finalize(w)
    PROVE  Follows(w)
  <1> DEFINE s == sess[w]
             r == sess[w].run
  <1>1. s.pc \in {"work", "list", "save"}
    BY DEF Initialize, SnapshotsReady, ListItems, LookAtCase, SaveCase, ItemsPrepared, RoundDone,
       Finalize, Preparing, At
  <1>2. s \in Sessions /\ r \in Runs /\ sess \in [Workers -> Sessions] /\ s.pc # "idle"
    BY <1>1, Busy DEF TypeOK
  <1>3. run[r].status \in ActiveRun
    BY <1>1, ActiveWorker
  <1>4. ASSUME sess'[w].pc \in {"work", "list", "save", "finish"}, sess'[w].run = r,
               sess'[w].token = s.token, run'[r].status = run[r].status,
               sess'[w].pc = "finish" => sess'[w].at # "finalize"
        PROVE  Follows(w)
    <2>1. Outcome(sess'[w], run')
      BY <1>3, <1>4, ActiveOutcome DEF Executing
    <2> QED BY <1>2, <1>4, <2>1 DEF Follows
  <1>5. CASE Initialize(w)
    <2> DEFINE t == [s EXCEPT !.pc = "finish", !.init = TRUE]
    <2>1. sess'[w] = t /\ s.at = "initialize"
      BY <1>2, <1>5 DEF Initialize
    <2>2. t.pc = "finish" /\ t.run = r /\ t.token = s.token /\ t.at = s.at
      BY <1>2 DEF Sessions
    <2>3. run'[r].status = run[r].status
      BY <1>2, <1>5, RunInitialize DEF SameRun
    <2> HIDE DEF t
    <2> QED BY <1>4, <2>1, <2>2, <2>3
  <1>6. CASE SnapshotsReady(w)
    <2> DEFINE t == [s EXCEPT !.prep = TRUE, !.pc = "finish"]
               u == [s EXCEPT !.prep = TRUE]
    <2>1. (sess'[w] = t \/ sess'[w] = Advance(u)) /\ s.at = "preparing" /\ s.pc = "work"
      BY <1>2, <1>6 DEF SnapshotsReady, At
    <2>2. /\ t.pc = "finish" /\ t.run = r /\ t.token = s.token /\ t.at = s.at
          /\ u \in Sessions /\ u.run = r /\ u.token = s.token /\ u.at = s.at /\ u.pc = s.pc
      BY <1>2 DEF Sessions
    <2>3. run'[r].status = run[r].status
      BY <1>2, <1>6, RunInitialize DEF SameRun
    <2> HIDE DEF t, u
    <2>4. CASE sess'[w] = t
      BY <1>4, <2>1, <2>2, <2>3, <2>4
    <2>5. CASE sess'[w] = Advance(u)
      <3>1. u.pc \in Executing /\ u.at # "finalize"
        BY <2>1, <2>2 DEF Executing
      <3>2. Outcome(Advance(u), run')
        BY <1>3, <2>2, <2>3, <3>1, AdvanceOutcome
      <3>3. Advance(u).run = r /\ Advance(u).token = s.token
        BY <2>2, <3>1, AdvanceFollows
      <3> QED BY <1>2, <2>5, <3>2, <3>3 DEF Follows
    <2> QED BY <2>1, <2>4, <2>5
  <1>7. CASE ListItems(w)
    <2> DEFINE open == {c \in Scope[r] : Open(r, c)}
               todo == CASE s.at = "preparing" -> {c \in open : ~snap[r][c].frozen}
                         [] s.at = "step4" -> open
                         [] OTHER -> Scope[r]
               p == IF s.at = "step4" /\ todo = {} THEN "finish" ELSE "work"
    <2>1. sess' = [sess EXCEPT ![w].todo = todo, ![w].pc = p]
      BY <1>7 DEF ListItems
    <2> HIDE DEF todo
    <2>5. p \in {"work", "finish"} /\ (p = "finish" => s.at = "step4")
      OBVIOUS
    <2> HIDE DEF p
    <2> DEFINE t == [s EXCEPT !.todo = todo, !.pc = p]
    <2>2. sess'[w] = t
      BY <1>2, <2>1
    <2>3. t.pc = p /\ t.run = r /\ t.token = s.token /\ t.at = s.at
      BY <1>2 DEF Sessions
    <2>4. run' = run
      BY <1>7 DEF ListItems
    <2> HIDE DEF t
    <2> QED BY <1>4, <2>5, <2>2, <2>3, <2>4
  <1>8. CASE LookAtCase(w)
    <2>1. PICK c \in s.todo :
            sess' = [sess EXCEPT ![w].pc = "save", ![w].cand = {c}, ![w].view = Unavailable(c)]
      BY <1>8 DEF LookAtCase
    <2> DEFINE t == [s EXCEPT !.pc = "save", !.cand = {c}, !.view = Unavailable(c)]
    <2>2. sess'[w] = t
      BY <1>2, <2>1
    <2>3. t.pc = "save" /\ t.run = r /\ t.token = s.token
      BY <1>2 DEF Sessions
    <2>4. run' = run
      BY <1>8 DEF LookAtCase
    <2> HIDE DEF t
    <2> QED BY <1>4, <2>2, <2>3, <2>4
  <1>9. CASE SaveCase(w)
    <2>1. PICK c \in s.cand :
            sess' = [sess EXCEPT ![w].pc = "work", ![w].todo = @ \ {c},
                                 ![w].cand = {}, ![w].view = {}]
      BY <1>9 DEF SaveCase
    <2> DEFINE t == [s EXCEPT !.pc = "work", !.todo = @ \ {c}, !.cand = {}, !.view = {}]
    <2>2. sess'[w] = t
      BY <1>2, <2>1
    <2>3. t.pc = "work" /\ t.run = r /\ t.token = s.token
      BY <1>2 DEF Sessions
    <2>4. run' = run
      BY <1>9 DEF SaveCase
    <2> HIDE DEF t
    <2> QED BY <1>4, <2>2, <2>3, <2>4
  <1>10. CASE ItemsPrepared(w)
    <2>1. Goto(w, "finish") /\ s.at \in {"step1", "step2", "step3"}
      BY <1>10 DEF ItemsPrepared, Preparing
    <2>2. run'[r].status = run[r].status
      BY <1>2, <1>10, SummarisedSameRun DEF ItemsPrepared, SameRun
    <2> QED BY <1>4, <2>1, <2>2, GotoFollows
  <1>11. CASE RoundDone(w)
    <2>1. CASE s.err # "none"
      BY <1>2, <1>11, <2>1, FailFollows DEF RoundDone
    <2>2. CASE s.err = "none"
      <3>1. Goto(w, "list") /\ run' = Summarised(r)
        BY <1>11, <2>2 DEF RoundDone
      <3>2. run'[r].status = run[r].status
        BY <1>2, <3>1, SummarisedSameRun DEF SameRun
      <3> QED BY <1>4, <3>1, <3>2, GotoFollows
    <2> QED BY <2>1, <2>2
  <1>12. CASE Finalize(w)
    <2>1. CASE run[r].cancel
      BY <1>2, <1>12, <2>1, FailFollows DEF Finalize
    <2>2. CASE ~run[r].cancel
      <3> DEFINE sum == Summarised(r)
                 st == CASE sum[r].failed -> "partial_failed"
                         [] ~sum[r].failed /\ sum[r].attention -> "needs_attention"
                         [] OTHER -> "success"
      <3>1. Goto(w, "finish") /\ run' = [sum EXCEPT ![r].status = st]
        BY <1>12, <2>2 DEF Finalize
      <3>2. st \in FinalRun
        <4> HIDE DEF sum
        <4> QED BY DEF FinalRun
      <3>3. sum \in [Runs -> RunRows]
        BY <1>2, SummarisedType DEF TypeOK
      <3> HIDE DEF sum, st
      <3>4. run'[r].status \in FinalRun
        BY <1>2, <3>1, <3>2, <3>3 DEF RunRows
      <3>5. /\ sess'[w].pc = "finish" /\ sess'[w].at = "finalize" /\ sess'[w].run = r
            /\ sess'[w].token = s.token
        BY <1>12, <3>1, GotoFollows DEF Finalize
      <3> QED BY <1>2, <3>4, <3>5 DEF Follows, Outcome, Executing
    <2> QED BY <2>1, <2>2
  <1> QED BY <1>5, <1>6, <1>7, <1>8, <1>9, <1>10, <1>11, <1>12

\* The steps around executeRun: heartbeats, failures, the end of the job.
LEMMA JobFollows ==
    ASSUME ConstantsAssumption, TypeOK, OutcomeInv, NEW w \in Workers,
           \/ CheckLease(w) \/ Decide(w) \/ StopRun(w) \/ Tally(w) \/ JobDone(w)
           \/ StepFails(w) \/ Abort(w) \/ Heartbeat(w) \/ Crash(w)
           \/ \E c \in Candidates : PrepareItemFails(w, c)
    PROVE  Follows(w)
  <1> DEFINE s == sess[w]
             r == sess[w].run
  <1>1. s.pc # "idle"
    BY DEF CheckLease, Decide, StopRun, Tally, JobDone, StepFails, Abort, Heartbeat, Beating,
       Crash, PrepareItemFails, Preparing, At, Executing
  <1>2. s \in Sessions /\ r \in Runs /\ sess \in [Workers -> Sessions]
    BY <1>1, Busy DEF TypeOK
  <1>3. Outcome(s, run)
    BY DEF OutcomeInv
  <1>4. sess'[w] = Idle => Follows(w)
    BY DEF Follows, Outcome, Idle, Executing
  <1>5. CASE JobDone(w) \/ Crash(w)
    <2>1. sess'[w] = Idle
      BY <1>2, <1>5 DEF JobDone, Crash
    <2> QED BY <1>4, <2>1
  <1>6. CASE \/ StepFails(w) \/ Abort(w)
             \/ \E c \in Candidates : PrepareItemFails(w, c)
    <2>1. \E e : e # "none" /\ Fail(w, e)
      BY <1>6 DEF StepFails, Abort, PrepareItemFails
    <2> QED BY <1>1, <2>1, FailFollows
  <1>7. CASE StopRun(w)
    <2>1. Goto(w, "tally")
      BY <1>7 DEF StopRun
    <2>2. run'[r].status \in FinalRun
      BY <1>2, <1>7, RunStopRun DEF FinalRun
    <2> QED BY <1>1, <2>1, <2>2, GotoFollows DEF Follows, Outcome, Executing
  <1>8. CASE Tally(w)
    <2>1. Goto(w, "done") /\ run' = Summarised(r) /\ s.pc = "tally"
      BY <1>8 DEF Tally
    <2>2. run'[r].status \in FinalRun
      BY <1>2, <1>3, <2>1, SummarisedSameRun DEF SameRun, Outcome
    <2> QED BY <1>1, <2>1, <2>2, GotoFollows DEF Follows, Outcome, Executing
  <1>9. CASE Heartbeat(w)
    <2> DEFINE b == Owns(w) /\ ~run[r].cancel
               t == [s EXCEPT !.ctx = b]
    <2>1. sess'[w] = t /\ run' = run
      BY <1>2, <1>9 DEF Heartbeat
    <2>2. /\ t.pc = s.pc /\ t.at = s.at /\ t.run = r /\ t.token = s.token /\ t.err = s.err
      <3> HIDE DEF b
      <3> QED BY <1>2 DEF Sessions
    <2> HIDE DEF t
    <2> QED BY <1>1, <1>3, <2>1, <2>2 DEF Follows, Outcome
  <1>10. CASE CheckLease(w)
    <2> DEFINE t == [s EXCEPT !.pc = "decide"]
    <2>1. (sess'[w] = Idle \/ sess'[w] = t) /\ run' = run /\ s.pc = "own"
      BY <1>2, <1>10 DEF CheckLease
    <2>2. t.pc = "decide" /\ t.run = r /\ t.token = s.token /\ t.err = s.err
      BY <1>2 DEF Sessions
    <2> HIDE DEF t
    <2> QED BY <1>1, <1>3, <1>4, <2>1, <2>2 DEF Follows, Outcome, Executing
  <1>11. CASE Decide(w)
    <2> DEFINE err == IF run[r].cancel THEN "agent_cancelled" ELSE s.err
               t == [s EXCEPT !.pc = "done"]
               u == [s EXCEPT !.pc = "stop", !.err = err]
    <2>1. /\ \/ sess'[w] = Idle
             \/ sess'[w] = t /\ s.err = "none"
             \/ sess'[w] = u
          /\ run' = run /\ s.pc = "decide"
      BY <1>2, <1>11 DEF Decide
    <2>2. /\ t.pc = "done" /\ t.run = r /\ t.token = s.token
          /\ u.pc = "stop" /\ u.run = r /\ u.token = s.token
      <3> HIDE DEF err
      <3> QED BY <1>2 DEF Sessions
    <2> HIDE DEF t, u
    <2> QED BY <1>1, <1>3, <1>4, <2>1, <2>2 DEF Follows, Outcome, Executing
  <1> QED BY <1>5, <1>6, <1>7, <1>8, <1>9, <1>10, <1>11

\* The steps on single items.
LEMMA ItemFollows ==
    ASSUME TypeOK, OutcomeInv, NEW w \in Workers, NEW c \in Candidates,
           PrepareItem(w, c) \/ StartItem(w, c) \/ TaskEnds(w, c)
    PROVE  Follows(w) /\ sess'[w].pc = "work" /\ sess[w].pc = "work" /\ sess'[w].at = sess[w].at
             /\ sess'[w].todo \subseteq sess[w].todo /\ sess'[w].cand = sess[w].cand
             /\ sess'[w].run = sess[w].run
  <1> DEFINE s == sess[w]
  <1>1. s.pc = "work"
    <2>1. TaskEnds(w, c) => task[w][c].on
      BY DEF TaskEnds, DropResult, SkipResult, CancelItem, CommitRefused, AcceptItem,
         RejectItem, FailItem, TaskInterrupted, Committing, Ending
    <2> QED BY <2>1, TaskBusy DEF PrepareItem, StartItem, Preparing, At
  <1>2. s \in Sessions /\ s.run \in Runs /\ sess \in [Workers -> Sessions] /\ s.pc # "idle"
    BY <1>1, Busy DEF TypeOK
  <1>3. \E e \in Errors : Report(w, c, e) \/ Settle(w, c) \/ UNCHANGED sess
    BY DEF PrepareItem, StartItem, TaskEnds, DropResult, SkipResult, CancelItem, CommitRefused,
       AcceptItem, RejectItem, FailItem, TaskInterrupted, Silently, Errors
  <1>4. PICK e \in Errors : Report(w, c, e) \/ Settle(w, c) \/ UNCHANGED sess
    BY <1>3
  <1> DEFINE x == IF s.err = "none" THEN e ELSE s.err
             t == [s EXCEPT !.todo = @ \ {c}, !.err = x]
             u == [s EXCEPT !.todo = @ \ {c}]
  <1>5. sess'[w] = t \/ sess'[w] = u \/ sess'[w] = s
    BY <1>2, <1>4 DEF Report, Settle
  <1>6. /\ t.pc = "work" /\ t.at = s.at /\ t.run = s.run /\ t.token = s.token
        /\ t.todo \subseteq s.todo /\ t.cand = s.cand
        /\ u.pc = "work" /\ u.at = s.at /\ u.run = s.run /\ u.token = s.token
        /\ u.todo \subseteq s.todo /\ u.cand = s.cand
    <2> HIDE DEF x
    <2> QED BY <1>1, <1>2 DEF Sessions
  <1>7. run' = run /\ run[s.run].status \in ActiveRun
    BY <1>1, ActiveWorker DEF PrepareItem, StartItem, TaskEnds, DropResult, SkipResult,
       CancelItem, CommitRefused, AcceptItem, RejectItem, FailItem, TaskInterrupted
  <1> HIDE DEF t, u
  <1>8. /\ sess'[w].pc = "work" /\ sess'[w].at = s.at /\ sess'[w].run = s.run
        /\ sess'[w].token = s.token
        /\ sess'[w].todo \subseteq s.todo /\ sess'[w].cand = s.cand
    BY <1>1, <1>5, <1>6
  <1>9. Outcome(sess'[w], run')
    BY <1>7, <1>8, ActiveOutcome DEF Executing
  <1> QED BY <1>1, <1>2, <1>8, <1>9 DEF Follows

\* The steps that write the session of a worker.
LEMMA SessionWriter ==
    ASSUME TypeOK, [Next]_vars, NEW w \in Workers, sess'[w] # sess[w]
    PROVE  \/ WorkerStep(w) \/ StepFails(w) \/ Heartbeat(w) \/ Crash(w)
           \/ \E r \in Runs : Claim(w, r)
           \/ \E c \in Candidates : TaskEnds(w, c)
  <1>1. ASSUME NEW u \in Workers, \E s : sess' = [sess EXCEPT ![u] = s] PROVE u = w
    BY <1>1 DEF TypeOK
  <1>2. ASSUME NEW u \in Workers, WorkerStep(u) PROVE u = w
    BY <1>1, <1>2, WorkerSession
  <1>3. ASSUME NEW u \in Workers, StepFails(u) \/ Heartbeat(u) \/ Crash(u) PROVE u = w
    BY <1>1, <1>3 DEF StepFails, Heartbeat, Crash, Fail
  <1>4. ASSUME NEW u \in Workers, NEW r \in Runs, Claim(u, r) PROVE u = w
    BY <1>1, <1>4 DEF Claim
  <1>5. ASSUME NEW u \in Workers, NEW c \in Candidates, TaskEnds(u, c) PROVE u = w
    <2>1. \E e \in Errors : Report(u, c, e) \/ UNCHANGED sess
      BY <1>5 DEF TaskEnds, DropResult, SkipResult, CancelItem, CommitRefused, AcceptItem,
         RejectItem, FailItem, TaskInterrupted, Silently, Errors
    <2> QED BY <2>1, TypeReport
  <1>6. ASSUME NEW u \in Workers, NEW c \in Candidates, RenewClaim(u, c) \/ SaveArtifact(u, c)
        PROVE  FALSE
    BY <1>6 DEF RenewClaim, SaveArtifact
  <1>7. ASSUME NEW r \in Runs, LeaseLapses(r) \/ CreateRun(r) \/ CancelRun(r)
        PROVE  FALSE
    BY <1>7 DEF LeaseLapses, CreateRun, CancelRun
  <1>8. ASSUME NEW c \in Candidates,
               \/ ClaimLapses(c) \/ \E v \in Volunteers : ManualAssign(c, v)
               \/ MutateAttempt(c) \/ EditCandidate(c) \/ ImportResumes(c) \/ AllocationAssigns(c)
        PROVE  FALSE
    BY <1>8 DEF ClaimLapses, ManualAssign, MutateAttempt, EditCandidate, ImportResumes,
       AllocationAssigns, Manual, Outside
  <1>9. ASSUME UNCHANGED vars PROVE FALSE
    BY <1>9 DEF vars
  <1> QED BY <1>2, <1>3, <1>4, <1>5, <1>6, <1>7, <1>8, <1>9 DEF Next, Environment

\* A worker's session follows, or is new.
LEMMA SessionFollows ==
    ASSUME ConstantsAssumption, TypeOK, SettledInv, OutcomeInv, [Next]_vars, NEW w \in Workers,
           sess'[w] # sess[w]
    PROVE  Follows(w) \/ \E r \in Runs : Claim(w, r)
  <1>1. ASSUME WorkerStep(w) PROVE Follows(w)
    BY <1>1, WalkFollows, StageFollows, JobFollows, ItemFollows DEF WorkerStep
  <1> QED BY <1>1, SessionWriter, JobFollows, ItemFollows

\* What a claim writes.
LEMMA ClaimRow ==
    ASSUME TypeOK, NEW w \in Workers, NEW r \in Runs, Claim(w, r)
    PROVE  /\ sess[w].pc = "idle" /\ sess'[w].pc = "read" /\ sess'[w].run = r
           /\ sess'[w].token = job[r].attempts + 1
           /\ job'[r].status = "running" /\ job'[r].live
           /\ job'[r].attempts = job[r].attempts + 1
           /\ \A q \in Runs \ {r} : job'[q] = job[q]
           /\ \A u \in Workers \ {w} : sess'[u] = sess[u]
           /\ run' = run /\ UNCHANGED <<stage, candidateRows, task>>
  <1> DEFINE t == [Idle EXCEPT !.pc = "read", !.run = r, !.ctx = TRUE,
                               !.token = job[r].attempts + 1]
             j == [status |-> "running", live |-> TRUE, attempts |-> job[r].attempts + 1]
  <1>1. /\ sess' = [sess EXCEPT ![w] = t] /\ job' = [job EXCEPT ![r] = j]
        /\ sess[w].pc = "idle" /\ run' = run /\ UNCHANGED <<stage, candidateRows, task>>
    BY DEF Claim, candidateRows
  <1>2. t.pc = "read" /\ t.run = r /\ t.token = job[r].attempts + 1
    BY DEF Idle
  <1>3. j.status = "running" /\ j.live /\ j.attempts = job[r].attempts + 1
    OBVIOUS
  <1> HIDE DEF t, j
  <1> QED BY <1>1, <1>2, <1>3 DEF TypeOK

\* Of the rows of jobs, a lease is lost only when nobody works, and a job ends
\* only with the session that ran it.
LEMMA JobRowStep ==
    ASSUME TypeOK, Slow = {}, LeaseInv, [Next]_vars, NEW r \in Runs
    PROVE  \/ job'[r] = job[r]
           \/ CreateRun(r) /\ job'[r].status = "pending"
           \/ \E w \in Workers : Claim(w, r)
           \/ job'[r].status = job[r].status /\ job'[r].attempts = job[r].attempts
              /\ \/ job'[r].live
                 \/ \A w \in Workers : sess[w].pc # "idle" => sess[w].run # r
           \/ \E w \in Workers : JobDone(w) /\ sess[w].run = r /\ job'[r].status = "done"
  <1>1. CASE UNCHANGED job
    BY <1>1
  <1>2. ASSUME NEW q \in Runs, q # r, \E row : job' = [job EXCEPT ![q] = row]
        PROVE  job'[r] = job[r]
    BY <1>2 DEF TypeOK
  <1>3. ASSUME NEW q \in Runs, CreateRun(q)
        PROVE  job'[r] = job[r] \/ (CreateRun(r) /\ job'[r].status = "pending")
    <2>1. job' = [job EXCEPT ![q].status = "pending"]
      BY <1>3 DEF CreateRun
    <2> QED BY <1>2, <1>3, <2>1 DEF TypeOK, JobRows
  <1>4. ASSUME NEW q \in Runs, NEW w \in Workers, Claim(w, q)
        PROVE  job'[r] = job[r] \/ Claim(w, r)
    BY <1>4, ClaimRow
  <1>5. ASSUME NEW w \in Workers, Heartbeat(w)
        PROVE  \/ job'[r] = job[r]
               \/ job'[r].status = job[r].status /\ job'[r].attempts = job[r].attempts
                  /\ job'[r].live
    <2>1. job' = job \/ job' = [job EXCEPT ![sess[w].run].live = TRUE]
      BY <1>5 DEF Heartbeat
    <2>2. sess[w].run \in Runs
      BY <1>5, Busy DEF Heartbeat, Beating, Executing
    <2> QED BY <1>2, <2>1, <2>2 DEF TypeOK, JobRows
  <1>6. ASSUME NEW q \in Runs, LeaseLapses(q)
        PROVE  \/ job'[r] = job[r]
               \/ job'[r].status = job[r].status /\ job'[r].attempts = job[r].attempts
                  /\ \A w \in Workers : sess[w].pc # "idle" => sess[w].run # r
    <2>1. /\ job' = [job EXCEPT ![q].live = FALSE]
          /\ \A w \in Workers : ~(sess[w].pc # "idle" /\ sess[w].run = q
                                   /\ sess[w].token = job[q].attempts)
      BY <1>6 DEF LeaseLapses
    <2>2. \A w \in Workers : sess[w].pc # "idle" => sess[w].run # q
      BY <2>1 DEF LeaseInv, Leased
    <2> QED BY <1>2, <2>1, <2>2 DEF TypeOK, JobRows
  <1>7. ASSUME NEW w \in Workers, JobDone(w)
        PROVE  \/ job'[r] = job[r]
               \/ JobDone(w) /\ sess[w].run = r /\ job'[r].status = "done"
    <2>1. \/ job' = job
          \/ job' = [job EXCEPT ![sess[w].run].status = "done", ![sess[w].run].live = FALSE]
      BY <1>7 DEF JobDone
    <2>2. sess[w].run \in Runs
      BY <1>7, Busy DEF JobDone
    <2> QED BY <1>2, <1>7, <2>1, <2>2 DEF TypeOK, JobRows
  <1>8. ASSUME NEW w \in Workers, WorkerStep(w) PROVE UNCHANGED job \/ JobDone(w)
    BY <1>8 DEF WorkerStep, ReadRun, BeginStage, MarkStage, FinishStage, TestStage, Initialize,
       Abort, ListItems, LookAtCase, SaveCase, SnapshotsReady, ItemsPrepared, RoundDone,
       Finalize, CheckLease, Decide, StopRun, Tally, PrepareItem, PrepareItemFails, StartItem
  <1>9. ASSUME NEW w \in Workers, NEW c \in Candidates,
               TaskEnds(w, c) \/ RenewClaim(w, c) \/ SaveArtifact(w, c)
        PROVE  UNCHANGED job
    BY <1>9 DEF TaskEnds, DropResult, SkipResult, CancelItem, CommitRefused, AcceptItem,
       RejectItem, FailItem, TaskInterrupted, RenewClaim, SaveArtifact
  <1>10. ASSUME NEW w \in Workers, StepFails(w) \/ Crash(w) PROVE UNCHANGED job
    BY <1>10 DEF StepFails, Crash
  <1>11. ASSUME NEW q \in Runs, CancelRun(q) PROVE UNCHANGED job
    BY <1>11 DEF CancelRun
  <1>12. ASSUME NEW c \in Candidates,
                \/ ClaimLapses(c) \/ \E v \in Volunteers : ManualAssign(c, v)
                \/ MutateAttempt(c) \/ EditCandidate(c) \/ ImportResumes(c) \/ AllocationAssigns(c)
         PROVE  UNCHANGED job
    BY <1>12 DEF ClaimLapses, ManualAssign, MutateAttempt, EditCandidate, ImportResumes,
       AllocationAssigns, Manual, Outside
  <1>13. CASE UNCHANGED vars
    BY <1>13, <1>1 DEF vars
  <1> QED BY <1>1, <1>3, <1>4, <1>5, <1>6, <1>7, <1>8, <1>9, <1>10, <1>11, <1>12, <1>13
          DEF Next, Environment

\* A worker that is busy after a step was busy on the same run, or claims it.
LEMMA StillBusy ==
    ASSUME ConstantsAssumption, TypeOK, SettledInv, OutcomeInv, [Next]_vars, NEW w \in Workers,
           sess'[w].pc # "idle"
    PROVE  \/ sess[w].pc # "idle" /\ sess'[w].run = sess[w].run /\ sess'[w].token = sess[w].token
           \/ \E r \in Runs : Claim(w, r)
  BY SessionFollows DEF Follows

\* Nobody claims a job whose worker is alive.
LEMMA NoClaimWhileLeased ==
    ASSUME LeaseInv, NEW w \in Workers, NEW u \in Workers, sess[w].pc # "idle",
           Claim(u, sess[w].run)
    PROVE  FALSE
  BY DEF LeaseInv, Leased, Claim

\* Whoever takes a step, busy workers hold their leases.
LEMMA LeaseNext ==
    ASSUME ConstantsAssumption, TypeOK, SettledInv, Slow = {}, LeaseInv, OutcomeInv, [Next]_vars
    PROVE  LeaseInv'
  <1>1. ASSUME NEW w \in Workers, sess'[w].pc # "idle"
        PROVE  /\ job'[sess'[w].run].status = "running" /\ job'[sess'[w].run].live
               /\ job'[sess'[w].run].attempts = sess'[w].token
    <2>1. CASE \E r \in Runs : Claim(w, r)
      BY <2>1, ClaimRow
    <2>2. CASE /\ sess[w].pc # "idle" /\ sess'[w].run = sess[w].run
               /\ sess'[w].token = sess[w].token
      <3> DEFINE r == sess[w].run
      <3>1. /\ job[r].status = "running" /\ job[r].live /\ job[r].attempts = sess[w].token
            /\ r \in Runs
        BY <2>2, Busy DEF LeaseInv, Leased
      <3>2. ~CreateRun(r)
        BY <3>1 DEF CreateRun, SettledInv, RunEvidence
      <3>3. ASSUME NEW u \in Workers, JobDone(u), sess[u].run = r PROVE FALSE
        <4>1. u = w
          BY <2>2, <3>3 DEF LeaseInv, JobDone
        <4>2. sess'[w] = Idle
          BY <3>3, <4>1 DEF JobDone, TypeOK
        <4> QED BY <1>1, <4>2 DEF Idle
      <3> QED BY <2>2, <3>1, <3>2, <3>3, JobRowStep, NoClaimWhileLeased
    <2> QED BY <1>1, <2>1, <2>2, StillBusy
  <1>2. ASSUME NEW w \in Workers, NEW u \in Workers, sess'[w].pc # "idle",
               sess'[u].pc # "idle", sess'[w].run = sess'[u].run
        PROVE  w = u
    <2>1. ASSUME NEW x \in Workers, NEW y \in Workers, NEW r \in Runs, Claim(x, r), x # y,
                 sess'[y].pc # "idle", sess'[y].run = r
          PROVE  FALSE
      <3>1. sess'[y] = sess[y]
        BY <2>1, ClaimRow
      <3> QED BY <2>1, <3>1, NoClaimWhileLeased
    <2>2. ASSUME NEW r \in Runs, Claim(w, r) PROVE w = u
      BY <1>2, <2>1, <2>2, ClaimRow
    <2>3. ASSUME NEW r \in Runs, Claim(u, r) PROVE w = u
      BY <1>2, <2>1, <2>3, ClaimRow
    <2> QED BY <1>2, <2>2, <2>3, StillBusy DEF LeaseInv
  <1> QED BY <1>1, <1>2 DEF LeaseInv, Leased

\* The status of the run of a worker changes by the worker's own step, or by a
\* cancellation.
LEMMA StatusKept ==
    ASSUME TypeOK, SettledInv, LeaseInv, [Next]_vars, NEW w \in Workers, sess[w].pc # "idle",
           sess'[w] = sess[w]
    PROVE  LET r == sess[w].run IN
           \/ SameRun(r)
           \/ run[r].status \in ActiveRun /\ run'[r].status = "cancelling"
  <1> DEFINE r == sess[w].run
  <1>1. r \in Runs /\ run[r].status # "none"
    BY Busy DEF SettledInv, Evidence
  <1>2. ASSUME NEW u \in Workers, sess[u].run = r, BeginStage(u) \/ Finalize(u) \/ StopRun(u)
        PROVE  FALSE
    <2>1. sess[u].pc \in {"begin", "work", "stop"}
      BY <1>2 DEF BeginStage, Finalize, StopRun, At
    <2>2. u = w
      BY <1>2, <2>1 DEF LeaseInv
    <2>3. \/ Goto(w, "mark") /\ sess[w].pc = "begin"
          \/ Goto(w, "finish") /\ sess[w].pc = "work"
          \/ Goto(w, "tally") /\ sess[w].pc = "stop"
          \/ Fail(w, "agent_cancelled") /\ sess[w].pc \in {"begin", "work"}
      BY <1>2, <2>2 DEF BeginStage, Finalize, StopRun, At
    <2>4. Return(sess[w], "agent_cancelled").pc = "own"
      BY DEF Return, Idle
    <2>5. Fail(w, "agent_cancelled") => sess'[w].pc = "own"
      BY <2>4 DEF Fail, TypeOK
    <2> QED BY <2>3, <2>5, GotoFollows
  <1> QED BY <1>1, <1>2, RunStep

\* Whoever takes a step, what every worker knows about its run stays true.
LEMMA OutcomeNext ==
    ASSUME ConstantsAssumption, TypeOK, SettledInv, Slow = {}, LeaseInv, OutcomeInv, [Next]_vars
    PROVE  OutcomeInv'
  <1>1. ASSUME NEW w \in Workers PROVE Outcome(sess'[w], run')
    <2>1. CASE sess'[w] # sess[w]
      <3>1. CASE \E r \in Runs : Claim(w, r)
        <4>1. sess'[w].pc = "read"
          BY <3>1, ClaimRow
        <4> QED BY <4>1 DEF Outcome, Executing
      <3> QED BY <2>1, <3>1, SessionFollows DEF Follows
    <2>2. CASE sess'[w] = sess[w] /\ sess[w].pc = "idle"
      BY <2>2 DEF Outcome, Executing
    <2>3. CASE sess'[w] = sess[w] /\ sess[w].pc # "idle"
      <3>1. Outcome(sess[w], run)
        BY DEF OutcomeInv
      <3>2. \/ run'[sess[w].run].status = run[sess[w].run].status
            \/ /\ run[sess[w].run].status \in ActiveRun
               /\ run'[sess[w].run].status \in ActiveRun
        BY <2>3, StatusKept DEF SameRun, ActiveRun
      <3>3. ActiveRun \cap FinalRun = {}
        BY DEF ActiveRun, FinalRun
      <3> QED BY <2>3, <3>1, <3>2, <3>3 DEF Outcome
    <2> QED BY <2>1, <2>2, <2>3
  <1>2. ASSUME NEW r \in Runs PROVE JobOutcome(r)'
    <2>1. ASSUME NEW w \in Workers, sess[w].pc # "idle", sess[w].run = r
          PROVE  job[r].status = "running"
      BY <2>1 DEF LeaseInv, Leased
    <2>2. ASSUME job[r].status # "running", ~CreateRun(r)
          PROVE  SameRun(r) \/ (run[r].status \in ActiveRun /\ run'[r].status = "cancelling")
      <3>1. ASSUME NEW w \in Workers, BeginStage(w) \/ Finalize(w) \/ StopRun(w)
            PROVE  sess[w].pc # "idle"
        BY <3>1 DEF BeginStage, Finalize, StopRun, At
      <3> QED BY <2>1, <2>2, <3>1, RunStep
    <2>5. CreateRun(r) => job'[r].status = "pending"
      BY DEF CreateRun, TypeOK, JobRows
    <2>3. ASSUME job'[r].status = "absent" PROVE run'[r].status = "none"
      <3>1. job[r].status = "absent" /\ ~CreateRun(r)
        BY <2>3, <2>5, JobRowStep, ClaimRow
      <3>2. run[r].status = "none"
        BY <3>1 DEF OutcomeInv, JobOutcome
      <3> QED BY <2>2, <3>1, <3>2 DEF SameRun, ActiveRun
    <2>4. ASSUME job'[r].status = "done" PROVE run'[r].status \in FinalRun
      <3>1. ASSUME NEW w \in Workers, JobDone(w), sess[w].run = r
            PROVE  run'[r].status \in FinalRun
        BY <3>1 DEF JobDone, OutcomeInv, Outcome
      <3>2. ASSUME job[r].status = "done", ~CreateRun(r) PROVE run'[r].status \in FinalRun
        <4>1. run[r].status \in FinalRun
          BY <3>2 DEF OutcomeInv, JobOutcome
        <4> QED BY <2>2, <3>2, <4>1 DEF SameRun, ActiveRun, FinalRun
      <3> QED BY <2>4, <2>5, <3>1, <3>2, JobRowStep, ClaimRow
    <2> QED BY <2>3, <2>4 DEF JobOutcome
  <1> QED BY <1>1, <1>2 DEF OutcomeInv

\* Initially nobody is busy and there is no run.
LEMMA LeaseInit ==
    ASSUME Init PROVE LeaseInv /\ OutcomeInv
  <1>1. \A w \in Workers : sess[w] = Idle
    BY DEF Init
  <1>2. \A r \in Runs : run[r].status = "none" /\ job[r].status = "absent"
    BY DEF Init
  <1> QED BY <1>1, <1>2 DEF LeaseInv, Leased, OutcomeInv, Outcome, JobOutcome, Idle, Executing

\* Busy workers hold their leases and know the outcome of their runs.
THEOREM LeaseInvariant ==
    ASSUME Slow = {}
    PROVE  Spec => [](TypeOK /\ SettledInv /\ LeaseInv /\ OutcomeInv)
  <1>1. Init => LeaseInv /\ OutcomeInv
    BY LeaseInit
  <1>2. TypeOK /\ SettledInv /\ LeaseInv /\ OutcomeInv /\ [Next]_vars => LeaseInv' /\ OutcomeInv'
    BY LeaseNext, OutcomeNext, ConstantsAssumption
  <1> QED BY <1>1, <1>2, SettledInvariant, PTL DEF Spec

\* As long as workers renew their leases in time, the job of an unfinished run is
\* never done: summarizeRun and stopRun have recorded the outcome of a run before
\* its job is done, and a crash in between leaves the job to the next claim.
THEOREM UnfinishedRunsAreClaimable ==
    ASSUME Slow = {} PROVE Spec => []UnfinishedRunIsClaimable
  <1>1. TypeOK /\ OutcomeInv => UnfinishedRunIsClaimable
    <2> SUFFICES ASSUME TypeOK, OutcomeInv, NEW r \in Runs, run[r].status \in ActiveRun
                 PROVE  job[r].status \in {"pending", "running"}
      BY DEF UnfinishedRunIsClaimable
    <2>1. run[r].status # "none" /\ run[r].status \notin FinalRun
      BY DEF ActiveRun, FinalRun
    <2> QED BY <2>1 DEF TypeOK, JobRows, OutcomeInv, JobOutcome
  <1> QED BY <1>1, LeaseInvariant, PTL

-----------------------------------------------------------------------------
(* What a step may do to the revision and the claim of a workflow.         *)

\* Revision and claim are kept; the claim is void and the revision advances.
Same(f, g) == g.rev = f.rev /\ g.claim = f.claim /\ g.token = f.token /\ g.live = f.live
Voids(f, g) == g.rev = f.rev + 1 /\ g.claim = NoRun

\* Both compose, so that a row built by several helpers is one of the two.
LEMMA RowsCompose ==
    ASSUME NEW f, NEW g, NEW h
    PROVE  /\ Same(f, g) /\ Same(g, h) => Same(f, h)
           /\ Voids(f, g) /\ Same(g, h) => Voids(f, h)
           /\ Same(f, g) /\ Voids(g, h) => Voids(f, h)
  BY DEF Same, Voids

\* What the helpers of a candidate transaction do to the four columns.
LEMMA RowHelpers ==
    ASSUME NEW f \in Workflows
    PROVE  /\ Same(f, f) /\ Same(f, Archived(f)) /\ Same(f, Freed(f))
           /\ Voids(f, Invalidated(f))
           /\ \A p : Same(f, Touched(f, p)) /\ Voids(f, Committed(f, p))
           /\ \A h, v : Same(f, [f EXCEPT !.held = h, !.on = v])
           /\ \A c, closed : Same(f, AfterLastWish(f, c, closed))
  <1>1. Same(f, f) /\ Same(f, Archived(f)) /\ Same(f, Freed(f))
    BY DEF Same, Archived, Freed, Workflows
  <1>2. Voids(f, Invalidated(f))
    BY DEF Voids, Invalidated, Unclaimed, Workflows
  <1>3. ASSUME NEW p PROVE Same(f, Touched(f, p)) /\ Voids(f, Committed(f, p))
    BY DEF Same, Voids, Committed, Unclaimed, Touched, Workflows
  <1>4. ASSUME NEW h, NEW v PROVE Same(f, [f EXCEPT !.held = h, !.on = v])
    BY DEF Same, Workflows
  <1>5. ASSUME NEW c, NEW closed PROVE Same(f, AfterLastWish(f, c, closed))
    BY DEF Same, AfterLastWish, Workflows
  <1> QED BY <1>1, <1>2, <1>3, <1>4, <1>5

\* Row c of flow is kept, voided, or as it was.
RowStep(c) == Same(flow[c], flow'[c]) \/ Voids(flow[c], flow'[c])

\* Replacing one row by such a row.
LEMMA RowReplaced ==
    ASSUME TypeOK, NEW c \in Candidates, NEW g, flow' = [flow EXCEPT ![c] = g],
           Same(flow[c], g) \/ Voids(flow[c], g)
    PROVE  \A d \in Candidates : RowStep(d)
  BY DEF TypeOK, RowStep, Same

\* prepareItem keeps claims, or voids them with the revision.
LEMMA RowPrepareItem ==
    ASSUME TypeOK, NEW w \in Workers, NEW c \in Candidates, PrepareItem(w, c)
    PROVE  \A d \in Candidates : RowStep(d)
  <1> DEFINE f == Touched(flow[c], snap[sess[w].run][c].cur)
             next == {Archived(f), Freed(f), Freed(flow[c]), flow[c], Invalidated(flow[c]),
                      AfterLastWish(flow[c], c, Unavailable(c))}
  <1>1. sess[w].run \in Runs /\ flow[c] \in Workflows
    BY Busy DEF PrepareItem, Preparing, At, TypeOK
  <1>2. f \in Workflows /\ Same(flow[c], f)
    <2>1. snap[sess[w].run][c].cur \in Ranks
      BY <1>1 DEF TypeOK, Snapshots
    <2> QED BY <1>1, <2>1, WorkflowMoves, RowHelpers
  <1>3. flow' = flow \/ \E g \in next : flow' = [flow EXCEPT ![c] = g]
    BY DEF PrepareItem
  <1>4. CASE flow' = flow
    BY <1>4 DEF RowStep, Same
  <1>5. Same(flow[c], Archived(f)) /\ Same(flow[c], Freed(f))
    <2>1. Same(f, Archived(f)) /\ Same(f, Freed(f))
      BY <1>2, RowHelpers
    <2> HIDE DEF f
    <2> QED BY <1>2, <2>1, RowsCompose
  <1>6. ASSUME NEW g \in next PROVE Same(flow[c], g) \/ Voids(flow[c], g)
    BY <1>1, <1>5, <1>6, RowHelpers
  <1> HIDE DEF next
  <1> QED BY <1>3, <1>4, <1>6, RowReplaced

\* processItem claims a candidate whose claim is not live.
RowClaimed(w, c) ==
    LET r == sess[w].run IN
    /\ StartItem(w, c) /\ Due(r, c) /\ ~Retained(r, c) /\ ~LiveClaim(c) /\ Assessable(r, c)
    /\ flow'[c].rev = flow[c].rev /\ flow'[c].claim = r /\ flow'[c].live
    /\ flow'[c].token = item[r][c].tries + 1 /\ flow'[c].held = flow[c].held
LEMMA RowStartItem ==
    ASSUME TypeOK, NEW w \in Workers, NEW c \in Candidates, StartItem(w, c)
    PROVE  \A d \in Candidates : RowStep(d) \/ (d = c /\ RowClaimed(w, c))
  <1> DEFINE r == sess[w].run
             n == item[r][c].tries + 1
             f == [flow[c] EXCEPT !.claim = r, !.token = n, !.live = TRUE]
  <1>1. flow[c] \in Workflows
    BY DEF TypeOK
  <1>2. \/ flow' = flow
        \/ \E g \in {Invalidated(flow[c]), flow[c]} : flow' = [flow EXCEPT ![c] = g]
        \/ /\ Due(r, c) /\ ~Retained(r, c) /\ ~LiveClaim(c) /\ Assessable(r, c)
           /\ flow' = [flow EXCEPT ![c] = f]
    BY DEF StartItem
  <1>3. CASE flow' = flow
    BY <1>3 DEF RowStep, Same
  <1>4. \A g \in {Invalidated(flow[c]), flow[c]} : Same(flow[c], g) \/ Voids(flow[c], g)
    BY <1>1, RowHelpers
  <1>5. CASE /\ Due(r, c) /\ ~Retained(r, c) /\ ~LiveClaim(c) /\ Assessable(r, c)
             /\ flow' = [flow EXCEPT ![c] = f]
    <2>1. /\ f.rev = flow[c].rev /\ f.claim = r /\ f.live /\ f.token = n
          /\ f.held = flow[c].held
      BY <1>1 DEF Workflows
    <2> HIDE DEF f
    <2>2. flow'[c] = f /\ \A d \in Candidates \ {c} : flow'[d] = flow[d]
      BY <1>5 DEF TypeOK
    <2> QED BY <1>5, <2>1, <2>2 DEF RowStep, Same, RowClaimed
  <1> HIDE DEF f
  <1> QED BY <1>2, <1>3, <1>4, <1>5, RowReplaced

\* stopRun and the end of a cancelled assessment release claims of their run.
RowReleased(w, c) ==
    /\ flow[c].claim = sess[w].run
    /\ flow'[c].rev = flow[c].rev /\ flow'[c].claim = NoRun
LEMMA RowRelease ==
    ASSUME TypeOK, NEW w \in Workers,
           StopRun(w) \/ \E d \in Candidates : CancelItem(w, d),
           NEW c \in Candidates
    PROVE  \/ RowStep(c)
           \/ (StopRun(w) \/ CancelItem(w, c)) /\ RowReleased(w, c)
  <1>1. flow[c] \in Workflows
    BY DEF TypeOK
  <1>2. Unclaimed(flow[c]).rev = flow[c].rev /\ Unclaimed(flow[c]).claim = NoRun
    BY <1>1 DEF Unclaimed, Workflows
  <1>3. flow'[c] = flow[c] => RowStep(c)
    BY DEF RowStep, Same
  <1>4. CASE StopRun(w)
    <2>1. flow'[c] = IF flow[c].claim = sess[w].run THEN Unclaimed(flow[c]) ELSE flow[c]
      BY <1>4 DEF StopRun
    <2> QED BY <1>2, <1>3, <1>4, <2>1 DEF RowReleased
  <1>5. ASSUME NEW d \in Candidates, CancelItem(w, d)
        PROVE  RowStep(c) \/ (CancelItem(w, c) /\ RowReleased(w, c))
    <2>1. flow' = [flow EXCEPT ![d] = Unclaimed(flow[d])] /\ flow[d].claim = sess[w].run
      BY <1>5 DEF CancelItem, Committing, Fresh, Claimant
    <2>2. CASE c = d
      <3>1. flow'[c] = Unclaimed(flow[c])
        BY <2>1, <2>2 DEF TypeOK
      <3> QED BY <1>2, <1>5, <2>1, <2>2, <3>1 DEF RowReleased
    <2>3. CASE c # d
      BY <1>3, <2>1, <2>3 DEF TypeOK
    <2> QED BY <2>2, <2>3
  <1> QED BY <1>4, <1>5

\* A commit voids the claim of its candidate.
LEMMA RowCommit ==
    ASSUME TypeOK, NEW w \in Workers, NEW c \in Candidates,
           AcceptItem(w, c) \/ RejectItem(w, c) \/ FailItem(w, c)
    PROVE  /\ \A d \in Candidates : RowStep(d)
           /\ Voids(flow[c], flow'[c])
  <1> DEFINE r == sess[w].run
             p == item[r][c].prepared
             rejected == task[w][c].snap.rejected \cup {p}
             next == FirstOpen(c, rejected)
             f == Committed(flow[c], p)
             g == [f EXCEPT !.held = "pool", !.on = p]
             h == Freed(Touched(f, next))
             k == AfterLastWish(f, c, Unavailable(c) \cup {p})
  <1>1. p \in Volunteers /\ flow[c] \in Workflows
    BY CommitDecides DEF TypeOK
  <1>2. f \in Workflows /\ Voids(flow[c], f)
    BY <1>1, WorkflowMoves, RowHelpers DEF Ranks
  <1>3. \E x \in {f, g, h, k, Freed(f)} : flow' = [flow EXCEPT ![c] = x]
    BY DEF AcceptItem, RejectItem, FailItem
  <1> HIDE DEF f, p, next, rejected
  <1>4. Same(f, g) /\ Same(f, k) /\ Same(f, Freed(f)) /\ Same(f, f)
    BY <1>2, RowHelpers
  <1>5. Same(f, h)
    BY <1>2 DEF Freed, Touched, Workflows, Same
  <1> HIDE DEF g, h, k
  <1>6. \A x \in {f, g, h, k, Freed(f)} : Voids(flow[c], x)
    BY <1>2, <1>4, <1>5, RowsCompose
  <1>7. PICK x \in {f, g, h, k, Freed(f)} : flow' = [flow EXCEPT ![c] = x]
    BY <1>3
  <1>8. Voids(flow[c], x) /\ flow'[c] = x
    BY <1>6, <1>7 DEF TypeOK
  <1> QED BY <1>7, <1>8, RowReplaced

\* What users and the other workers do voids the claim; allocation keeps it.
LEMMA RowOutside ==
    ASSUME TypeOK, NEW c \in Candidates,
           \/ \E v \in Volunteers : ManualAssign(c, v)
           \/ MutateAttempt(c) \/ EditCandidate(c) \/ ImportResumes(c) \/ AllocationAssigns(c)
    PROVE  /\ \A d \in Candidates : RowStep(d)
           /\ MutateAttempt(c) => Voids(flow[c], flow'[c])
  <1> DEFINE f == Invalidated(flow[c])
             v == flow[c].on
             passed == [f EXCEPT !.held = "passed", !.on = 0]
             rest == AfterLastWish(f, c, Unavailable(c) \cup {v})
  <1>1. flow[c] \in Workflows /\ f \in Workflows /\ Voids(flow[c], f)
    BY WorkflowUpdates, RowHelpers DEF TypeOK
  <1>2. \A x \in {f, Archived(f), Freed(f), passed, rest} : Voids(flow[c], x)
    <2> HIDE DEF f
    <2>1. Same(f, f) /\ Same(f, Archived(f)) /\ Same(f, Freed(f)) /\ Same(f, rest)
      BY <1>1, RowHelpers
    <2>2. Same(f, passed)
      BY <1>1, RowHelpers
    <2> HIDE DEF passed, rest
    <2> QED BY <1>1, <2>1, <2>2, RowsCompose
  <1>3. ASSUME NEW x, Voids(flow[c], x), flow' = [flow EXCEPT ![c] = x]
        PROVE  (\A d \in Candidates : RowStep(d)) /\ Voids(flow[c], flow'[c])
    <2>1. flow'[c] = x
      BY <1>3 DEF TypeOK
    <2> QED BY <1>3, <2>1, RowReplaced
  <1>4. ASSUME NEW u \in Volunteers, ManualAssign(c, u) PROVE \A d \in Candidates : RowStep(d)
    <2> DEFINE t == Touched(flow[c], u)
               i == Invalidated(t)
               g == [i EXCEPT !.held = "department", !.on = u]
    <2>1. flow' = [flow EXCEPT ![c] = g]
      BY <1>4 DEF ManualAssign
    <2>2. t \in Workflows /\ Same(flow[c], t)
      BY <1>1, WorkflowMoves, RowHelpers DEF Ranks
    <2>3. i \in Workflows /\ Voids(t, i)
      BY <2>2, WorkflowUpdates, RowHelpers
    <2>4. Same(i, g)
      BY <2>3, RowHelpers
    <2> HIDE DEF t, i, g
    <2>5. Voids(flow[c], g)
      BY <2>2, <2>3, <2>4, RowsCompose
    <2> QED BY <1>3, <2>1, <2>5
  <1>5. ASSUME MutateAttempt(c)
        PROVE  (\A d \in Candidates : RowStep(d)) /\ Voids(flow[c], flow'[c])
    <2>1. \E x \in {f, Archived(f), passed, rest} : flow' = [flow EXCEPT ![c] = x]
      BY <1>5 DEF MutateAttempt
    <2> HIDE DEF f, passed, rest
    <2> QED BY <1>2, <1>3, <2>1
  <1>6. ASSUME EditCandidate(c) \/ ImportResumes(c) PROVE \A d \in Candidates : RowStep(d)
    <2>1. \E x \in {f, Freed(f)} : flow' = [flow EXCEPT ![c] = x]
      BY <1>6 DEF EditCandidate, ImportResumes
    <2> HIDE DEF f, passed, rest
    <2> QED BY <1>2, <1>3, <2>1
  <1>7. ASSUME AllocationAssigns(c) PROVE \A d \in Candidates : RowStep(d)
    <2> DEFINE g == [flow[c] EXCEPT !.held = "department"]
    <2>1. flow' = [flow EXCEPT ![c] = g]
      BY <1>7 DEF AllocationAssigns
    <2>2. Same(flow[c], g)
      BY <1>1 DEF Same, Workflows
    <2> HIDE DEF g
    <2> QED BY <2>1, <2>2, RowReplaced
  <1> QED BY <1>4, <1>5, <1>6, <1>7

\* The ways in which a step changes the revision or the claim of a workflow.
LEMMA FlowStep ==
    ASSUME TypeOK, [Next]_vars, NEW c \in Candidates
    PROVE  \/ RowStep(c)
           \/ /\ flow'[c].rev = flow[c].rev /\ flow'[c].claim = flow[c].claim
              /\ flow'[c].token = flow[c].token /\ flow'[c].held = flow[c].held
              /\ \/ ClaimLapses(c)
                 \/ flow'[c].live /\ \E w \in Workers : RenewClaim(w, c)
           \/ \E w \in Workers : RowClaimed(w, c)
           \/ \E w \in Workers : (StopRun(w) \/ CancelItem(w, c)) /\ RowReleased(w, c)
  <1>1. ASSUME flow'[c] = flow[c] PROVE RowStep(c)
    BY <1>1 DEF RowStep, Same
  <1>2. ASSUME NEW w \in Workers, WorkerStep(w)
        PROVE  \/ RowStep(c) \/ RowClaimed(w, c)
               \/ (StopRun(w) \/ CancelItem(w, c)) /\ RowReleased(w, c)
    <2>1. \/ UNCHANGED flow \/ StopRun(w)
          \/ \E d \in Candidates : PrepareItem(w, d) \/ StartItem(w, d)
      BY <1>2 DEF WorkerStep, ReadRun, BeginStage, MarkStage, FinishStage, TestStage, Initialize,
         Abort, ListItems, LookAtCase, SaveCase, SnapshotsReady, ItemsPrepared, RoundDone,
         Finalize, CheckLease, Decide, Tally, JobDone, PrepareItemFails, candidateRows
    <2> QED BY <1>1, <2>1, RowRelease, RowPrepareItem, RowStartItem
  <1>3. ASSUME NEW w \in Workers, NEW d \in Candidates,
               AcceptItem(w, d) \/ RejectItem(w, d) \/ FailItem(w, d)
        PROVE  RowStep(c)
    BY <1>3, RowCommit
  <1>4. ASSUME NEW w \in Workers, NEW d \in Candidates,
               \/ DropResult(w, d) \/ SkipResult(w, d) \/ CommitRefused(w, d)
               \/ TaskInterrupted(w, d) \/ SaveArtifact(w, d)
        PROVE  UNCHANGED flow
    BY <1>4 DEF DropResult, SkipResult, CommitRefused, TaskInterrupted, SaveArtifact, candidateRows
  <1>5. ASSUME NEW w \in Workers, NEW d \in Candidates, CancelItem(w, d)
        PROVE  RowStep(c) \/ (CancelItem(w, c) /\ RowReleased(w, c))
    <2>1. ~StopRun(w)
      BY <1>5, TaskBusy DEF CancelItem, Committing, Ending, StopRun
    <2> QED BY <1>5, <2>1, RowRelease
  <1>6. ASSUME NEW w \in Workers, StepFails(w) \/ Heartbeat(w) \/ Crash(w) PROVE UNCHANGED flow
    BY <1>6 DEF StepFails, Heartbeat, Crash, candidateRows
  <1>7. ASSUME NEW q \in Runs, \/ LeaseLapses(q) \/ CreateRun(q) \/ CancelRun(q)
                               \/ \E w \in Workers : Claim(w, q)
        PROVE  UNCHANGED flow
    BY <1>7 DEF LeaseLapses, CreateRun, CancelRun, Claim, candidateRows
  <1>8. ASSUME NEW d \in Candidates, ClaimLapses(d) \/ \E w \in Workers : RenewClaim(w, d)
        PROVE  \/ RowStep(c)
               \/ /\ flow'[c].rev = flow[c].rev /\ flow'[c].claim = flow[c].claim
                  /\ flow'[c].token = flow[c].token /\ flow'[c].held = flow[c].held
                  /\ \/ ClaimLapses(c)
                     \/ flow'[c].live /\ \E w \in Workers : RenewClaim(w, c)
    <2>1. PICK b \in BOOLEAN : /\ flow' = [flow EXCEPT ![d] = [flow[d] EXCEPT !.live = b]]
                               /\ \/ ClaimLapses(d)
                                  \/ b /\ \E w \in Workers : RenewClaim(w, d)
      BY <1>8 DEF ClaimLapses, RenewClaim
    <2> DEFINE f == [flow[d] EXCEPT !.live = b]
    <2>2. /\ f.rev = flow[d].rev /\ f.claim = flow[d].claim /\ f.token = flow[d].token
          /\ f.held = flow[d].held /\ f.live = b
      BY DEF TypeOK, Workflows
    <2>3. flow'[d] = f /\ \A x \in Candidates \ {d} : flow'[x] = flow[x]
      BY <2>1 DEF TypeOK
    <2> HIDE DEF f
    <2> QED BY <1>1, <2>1, <2>2, <2>3
  <1>9. ASSUME NEW d \in Candidates,
               \/ \E v \in Volunteers : ManualAssign(d, v)
               \/ MutateAttempt(d) \/ EditCandidate(d) \/ ImportResumes(d) \/ AllocationAssigns(d)
        PROVE  RowStep(c)
    BY <1>9, RowOutside
  <1>10. ASSUME UNCHANGED vars PROVE UNCHANGED flow
    BY <1>10 DEF vars
  <1> QED BY <1>1, <1>2, <1>3, <1>4, <1>5, <1>6, <1>7, <1>8, <1>9, <1>10
          DEF Next, Environment, TaskEnds

-----------------------------------------------------------------------------
(* What a step may do to the closed applications, the items, the snapshots *)
(* and the goroutines of a candidate.                                      *)

\* Nobody can assess these.
Shut == ClosedApplication \cup {"absent"}

\* An application is closed by feedback or a rejection, never by allocation, and none
\* is taken away.
LEMMA ClosedStep ==
    ASSUME ConstantsAssumption, TypeOK, [Next]_vars, NEW c \in Candidates
    PROVE  \/ Unavailable(c)' \subseteq Unavailable(c)
           \/ /\ Voids(flow[c], flow'[c])
              /\ \/ MutateAttempt(c)
                 \/ \E w \in Workers : /\ RejectItem(w, c)
                                       /\ Unavailable(c)' \subseteq
                                            Unavailable(c) \cup {item[sess[w].run][c].prepared}
  <1>1. Wishes[c] \subseteq Volunteers /\ app \in [Candidates -> [Volunteers -> Applications]]
    BY DEF ConstantsAssumption, TypeOK
  <1>2. ASSUME \A u \in Volunteers : app'[c][u] = app[c][u] \/ app'[c][u] \notin Shut
        PROVE  Unavailable(c)' \subseteq Unavailable(c)
    BY <1>1, <1>2 DEF Unavailable, IsOpen, Shut
  <1>3. ASSUME UNCHANGED app PROVE Unavailable(c)' \subseteq Unavailable(c)
    BY <1>2, <1>3
  <1>4. ASSUME NEW d \in Candidates, NEW v, NEW status, SetApp(d, v, status),
               status \notin Shut
        PROVE  Unavailable(c)' \subseteq Unavailable(c)
    BY <1>1, <1>2, <1>4 DEF SetApp
  <1>5. ASSUME NEW d \in Candidates
        PROVE  \A u \in Volunteers : AttemptCancelled(d)[u] = app[d][u]
                                       \/ AttemptCancelled(d)[u] = "cancelled"
    BY <1>1 DEF AttemptCancelled
  <1>6. ASSUME NEW d \in Candidates, NEW v, NEW status, Overwrites(d, v, status)
        PROVE  /\ status \notin Shut => Unavailable(c)' \subseteq Unavailable(c)
               /\ d # c => Unavailable(c)' \subseteq Unavailable(c)
               /\ Unavailable(c)' \subseteq Unavailable(c) \cup {v}
    <2> DEFINE row == [AttemptCancelled(d) EXCEPT ![v] = status]
    <2>1. app' = [app EXCEPT ![d] = row]
      BY <1>6 DEF Overwrites
    <2>2. AttemptCancelled(d) \in [Volunteers -> Applications]
      BY AttemptCancelledType
    <2>3. \A u \in Volunteers : row[u] = IF u = v THEN status ELSE AttemptCancelled(d)[u]
      BY <2>2
    <2>4. app'[c] = IF c = d THEN row ELSE app[c]
      BY <1>1, <2>1
    <2> HIDE DEF row
    <2>5. \A u \in Volunteers \ {v} : app'[c][u] = app[c][u] \/ app'[c][u] \notin Shut
      BY <1>5, <2>3, <2>4 DEF Shut, ClosedApplication
    <2>6. d # c => Unavailable(c)' \subseteq Unavailable(c)
      BY <1>2, <2>4
    <2>7. status \notin Shut => Unavailable(c)' \subseteq Unavailable(c)
      BY <1>2, <2>3, <2>4, <2>5
    <2>8. Unavailable(c)' \subseteq Unavailable(c) \cup {v}
      BY <1>1, <2>5 DEF Unavailable, IsOpen, Shut
    <2> QED BY <2>6, <2>7, <2>8
  <1>7. ASSUME NEW w \in Workers, WorkerStep(w) PROVE Unavailable(c)' \subseteq Unavailable(c)
    <2>1. \/ UNCHANGED app \/ StopRun(w)
          \/ \E d \in Candidates : \E v : SetApp(d, v, "blocked") \/ SetApp(d, v, "assessing")
      BY <1>7 DEF WorkerStep, ReadRun, BeginStage, MarkStage, FinishStage, TestStage, Initialize,
         Abort, ListItems, LookAtCase, SaveCase, SnapshotsReady, ItemsPrepared, RoundDone,
         Finalize, CheckLease, Decide, Tally, JobDone, PrepareItemFails, PrepareItem, StartItem,
         candidateRows
    <2>2. ASSUME StopRun(w), NEW u \in Volunteers
          PROVE  app'[c][u] = app[c][u] \/ app'[c][u] = "blocked"
      BY <2>2 DEF StopRun
    <2>3. ASSUME StopRun(w) PROVE Unavailable(c)' \subseteq Unavailable(c)
      BY <1>2, <2>2, <2>3 DEF Shut, ClosedApplication
    <2>4. "blocked" \notin Shut /\ "assessing" \notin Shut
      BY DEF Shut, ClosedApplication
    <2> QED BY <1>3, <1>4, <2>1, <2>3, <2>4
  <1>8. ASSUME NEW w \in Workers, NEW d \in Candidates, AcceptItem(w, d) \/ FailItem(w, d)
        PROVE  Unavailable(c)' \subseteq Unavailable(c)
    <2>1. \E v : Overwrites(d, v, "pending_allocation") \/ Overwrites(d, v, "blocked")
      BY <1>8 DEF AcceptItem, FailItem, Overwrites
    <2>2. "blocked" \notin Shut /\ "pending_allocation" \notin Shut
      BY DEF Shut, ClosedApplication
    <2> QED BY <1>6, <2>1, <2>2
  <1>9. ASSUME NEW w \in Workers, NEW d \in Candidates, RejectItem(w, d)
        PROVE  \/ Unavailable(c)' \subseteq Unavailable(c)
               \/ /\ d = c /\ Voids(flow[c], flow'[c])
                  /\ Unavailable(c)' \subseteq Unavailable(c) \cup {item[sess[w].run][c].prepared}
    <2>1. Overwrites(d, item[sess[w].run][d].prepared, "ai_rejected")
      BY <1>9 DEF RejectItem, Overwrites
    <2>2. Voids(flow[d], flow'[d])
      BY <1>9, RowCommit
    <2> QED BY <1>6, <2>1, <2>2
  <1>10. ASSUME NEW w \in Workers, NEW d \in Candidates, CancelItem(w, d)
         PROVE  Unavailable(c)' \subseteq Unavailable(c)
    <2>1. \E v : SetApp(d, v, "blocked")
      BY <1>10 DEF CancelItem
    <2>2. "blocked" \notin Shut
      BY DEF Shut, ClosedApplication
    <2> QED BY <1>4, <2>1, <2>2
  <1>11. ASSUME NEW w \in Workers, NEW d \in Candidates,
                \/ DropResult(w, d) \/ SkipResult(w, d) \/ CommitRefused(w, d)
                \/ TaskInterrupted(w, d) \/ RenewClaim(w, d) \/ SaveArtifact(w, d)
         PROVE  UNCHANGED app
    BY <1>11 DEF DropResult, SkipResult, CommitRefused, TaskInterrupted, RenewClaim, SaveArtifact,
       candidateRows
  <1>12. ASSUME NEW w \in Workers, StepFails(w) \/ Heartbeat(w) \/ Crash(w) PROVE UNCHANGED app
    BY <1>12 DEF StepFails, Heartbeat, Crash, candidateRows
  <1>13. ASSUME NEW q \in Runs, \/ LeaseLapses(q) \/ CreateRun(q) \/ CancelRun(q)
                                \/ \E w \in Workers : Claim(w, q)
         PROVE  UNCHANGED app
    BY <1>13 DEF LeaseLapses, CreateRun, CancelRun, Claim, candidateRows
  <1>14. ASSUME NEW d \in Candidates, ClaimLapses(d) PROVE UNCHANGED app
    BY <1>14 DEF ClaimLapses
  <1>15. ASSUME NEW d \in Candidates,
                AllocationAssigns(d) \/ \E v \in Volunteers : ManualAssign(d, v)
         PROVE  Unavailable(c)' \subseteq Unavailable(c)
    <2>1. \E v : SetApp(d, v, "pending_dispatch") \/ Overwrites(d, v, "pending_dispatch")
      BY <1>15 DEF ManualAssign, AllocationAssigns, Overwrites
    <2>2. "pending_dispatch" \notin Shut
      BY DEF Shut, ClosedApplication
    <2> QED BY <1>4, <1>6, <2>1, <2>2
  <1>16. ASSUME NEW d \in Candidates, EditCandidate(d) PROVE Unavailable(c)' \subseteq Unavailable(c)
    <2> DEFINE blocked == [v \in Volunteers |->
                             IF app[d][v] = "assessing" THEN "blocked" ELSE app[d][v]]
               moved == [blocked EXCEPT ![Invalidated(flow[d]).on] = "needs_reanalysis"]
    <2>1. app' = [app EXCEPT ![d] = blocked] \/ app' = [app EXCEPT ![d] = moved]
      BY <1>16 DEF EditCandidate
    <2>2. \A u \in Volunteers : /\ blocked[u] = app[d][u] \/ blocked[u] = "blocked"
                                /\ moved[u] = blocked[u] \/ moved[u] = "needs_reanalysis"
      OBVIOUS
    <2> HIDE DEF blocked, moved
    <2>3. app'[c] = app[c] \/ (c = d /\ (app'[c] = blocked \/ app'[c] = moved))
      BY <1>1, <2>1
    <2> QED BY <1>2, <2>2, <2>3 DEF Shut, ClosedApplication
  <1>17. ASSUME NEW d \in Candidates, MutateAttempt(d)
         PROVE  Unavailable(c)' \subseteq Unavailable(c) \/ (d = c /\ Voids(flow[c], flow'[c]))
    <2>1. CASE d = c
      BY <1>17, <2>1, RowOutside
    <2>2. CASE d # c
      <3>1. \E v, status : SetApp(d, v, status)
        BY <1>17 DEF MutateAttempt
      <3> QED BY <1>1, <1>2, <2>2, <3>1 DEF SetApp
    <2> QED BY <2>1, <2>2
  <1>18. ASSUME UNCHANGED vars PROVE UNCHANGED app
    BY <1>18 DEF vars
  <1>19. ASSUME NEW d \in Candidates, ImportResumes(d) PROVE Unavailable(c)' \subseteq Unavailable(c)
    <2>1. PICK new : app' = [app EXCEPT ![d] = [v \in Volunteers |->
                                IF v \in new THEN "pending" ELSE app[d][v]]]
      BY <1>19 DEF ImportResumes
    <2>2. \A u \in Volunteers : app'[c][u] = app[c][u] \/ app'[c][u] = "pending"
      BY <1>1, <2>1
    <2> QED BY <1>2, <2>2 DEF Shut, ClosedApplication
  <1> QED BY <1>3, <1>7, <1>8, <1>9, <1>10, <1>11, <1>12, <1>13, <1>14, <1>15, <1>16, <1>17, <1>18, <1>19
          DEF Next, Environment, TaskEnds

\* The steps that write the status of an item, all by the worker of its run.
LEMMA StatusStep ==
    ASSUME TypeOK, [Next]_vars, NEW r \in Runs, NEW c \in Candidates
    PROVE  \/ istat'[r][c] = istat[r][c]
           \/ CreateRun(r)
           \/ \E w \in Workers :
                /\ sess[w].run = r
                /\ StopRun(w) \/ PrepareItem(w, c) \/ StartItem(w, c) \/ TaskEnds(w, c)
  <1>1. ASSUME NEW w \in Workers, NEW d \in Candidates,
               PrepareItem(w, d) \/ StartItem(w, d) \/ TaskEnds(w, d)
        PROVE  istat'[r][c] = istat[r][c] \/ (d = c /\ sess[w].run = r)
    <2>1. UNCHANGED istat \/ \E status : SetItem(sess[w].run, d, status)
      BY <1>1 DEF PrepareItem, StartItem, TaskEnds, DropResult, SkipResult, CancelItem,
         CommitRefused, AcceptItem, RejectItem, FailItem, TaskInterrupted, candidateRows
    <2>2. ASSUME NEW status, SetItem(sess[w].run, d, status)
          PROVE  istat'[r][c] = istat[r][c] \/ (d = c /\ sess[w].run = r)
      <3> DEFINE q == sess[w].run
      <3>1. istat' = [istat EXCEPT ![q][d] = status]
        BY <2>2 DEF SetItem
      <3> HIDE DEF q
      <3> QED BY <3>1 DEF TypeOK, q
    <2> QED BY <2>1, <2>2
  <1>2. ASSUME NEW w \in Workers, StopRun(w) PROVE istat'[r] = istat[r] \/ sess[w].run = r
    <2>1. \E g : istat' = [istat EXCEPT ![sess[w].run] = g]
      BY <1>2 DEF StopRun
    <2> QED BY <2>1 DEF TypeOK
  <1>3. ASSUME NEW q \in Runs, CreateRun(q) PROVE istat'[r] = istat[r] \/ q = r
    <2>1. \E g : istat' = [istat EXCEPT ![q] = g]
      BY <1>3 DEF CreateRun
    <2> QED BY <2>1 DEF TypeOK
  <1>4. ASSUME NEW w \in Workers, WorkerStep(w)
        PROVE  \/ UNCHANGED istat \/ StopRun(w)
               \/ \E d \in Candidates : PrepareItem(w, d) \/ StartItem(w, d)
    BY <1>4 DEF WorkerStep, ReadRun, BeginStage, MarkStage, FinishStage, TestStage, Initialize,
       Abort, ListItems, LookAtCase, SaveCase, SnapshotsReady, ItemsPrepared, RoundDone,
       Finalize, CheckLease, Decide, Tally, JobDone, PrepareItemFails, candidateRows
  <1>5. ASSUME NEW w \in Workers, StepFails(w) \/ Heartbeat(w) \/ Crash(w) PROVE UNCHANGED istat
    BY <1>5 DEF StepFails, Heartbeat, Crash, candidateRows
  <1>6. ASSUME NEW q \in Runs, LeaseLapses(q) \/ CancelRun(q) \/ \E w \in Workers : Claim(w, q)
        PROVE  UNCHANGED istat
    BY <1>6 DEF LeaseLapses, CancelRun, Claim, candidateRows
  <1>7. ASSUME NEW d \in Candidates,
               \/ ClaimLapses(d) \/ \E w \in Workers : RenewClaim(w, d) \/ SaveArtifact(w, d)
               \/ \E v \in Volunteers : ManualAssign(d, v)
               \/ MutateAttempt(d) \/ EditCandidate(d) \/ ImportResumes(d) \/ AllocationAssigns(d)
        PROVE  UNCHANGED istat
    BY <1>7 DEF RenewClaim, SaveArtifact, ClaimLapses, ManualAssign, MutateAttempt, EditCandidate,
       ImportResumes, AllocationAssigns, Manual, Outside
  <1>8. ASSUME UNCHANGED vars PROVE UNCHANGED istat
    BY <1>8 DEF vars
  <1> QED BY <1>1, <1>2, <1>3, <1>4, <1>5, <1>6, <1>7, <1>8 DEF Next, Environment

\* An item is skipped by a transaction that finds another revision, or by the
\* commit of a result that is not fresh; neither touches the workflow.
LEMMA SkipStep ==
    ASSUME TypeOK, [Next]_vars, NEW r \in Runs, NEW c \in Candidates,
           istat'[r][c] = "skipped_manual_change", istat[r][c] # "skipped_manual_change"
    PROVE  /\ UNCHANGED <<item, snap, flow>>
           /\ \/ revisionChanged(r, c)
              \/ \E w \in Workers : sess[w].run = r /\ task[w][c].on /\ ~Fresh(w, c)
  <1>1. ASSUME NEW w \in Workers, NEW status, SetItem(r, c, status)
        PROVE  status = "skipped_manual_change"
    BY <1>1 DEF SetItem, TypeOK
  <1>2. ~CreateRun(r)
    <2> SUFFICES ASSUME CreateRun(r) PROVE FALSE
      OBVIOUS
    <2> DEFINE g == [d \in Candidates |-> IF d \in Scope[r] THEN "pending" ELSE "absent"]
    <2>1. istat' = [istat EXCEPT ![r] = g]
      BY DEF CreateRun
    <2>2. g[c] \in {"pending", "absent"}
      OBVIOUS
    <2> HIDE DEF g
    <2> QED BY <2>1, <2>2 DEF TypeOK
  <1>3. ASSUME NEW w \in Workers, sess[w].run = r, StopRun(w) PROVE FALSE
    <2> DEFINE status == IF sess[w].err = "agent_cancelled" THEN "cancelled" ELSE "failed"
               g == [d \in Candidates |-> IF Open(r, d) THEN status ELSE istat[r][d]]
    <2>1. istat' = [istat EXCEPT ![r] = g]
      BY <1>3 DEF StopRun
    <2>2. g[c] \in {"cancelled", "failed", istat[r][c]}
      OBVIOUS
    <2> HIDE DEF g
    <2> QED BY <2>1, <2>2 DEF TypeOK
  <1>4. ASSUME NEW w \in Workers, sess[w].run = r, PrepareItem(w, c)
        PROVE  revisionChanged(r, c) /\ UNCHANGED <<item, snap, flow>>
    <2>1. \/ UNCHANGED istat
          \/ SetItem(r, c, "success") \/ SetItem(r, c, "needs_attention")
          \/ SetItem(r, c, IF Known(c) = {} THEN "needs_attention" ELSE "success")
          \/ revisionChanged(r, c) /\ UNCHANGED <<item, snap, flow>>
      BY <1>4 DEF PrepareItem
    <2> QED BY <2>1 DEF SetItem, TypeOK
  <1>5. ASSUME NEW w \in Workers, sess[w].run = r, StartItem(w, c)
        PROVE  revisionChanged(r, c) /\ UNCHANGED <<item, snap, flow>>
    <2>1. \/ UNCHANGED istat
          \/ SetItem(r, c, "success") \/ SetItem(r, c, "waiting_conflict")
          \/ SetItem(r, c, "processing")
          \/ revisionChanged(r, c) /\ UNCHANGED <<item, snap, flow>>
      BY <1>5 DEF StartItem
    <2> QED BY <2>1 DEF SetItem, TypeOK
  <1>6. ASSUME NEW w \in Workers, sess[w].run = r, TaskEnds(w, c)
        PROVE  /\ UNCHANGED <<item, snap, flow>>
               /\ task[w][c].on /\ ~Fresh(w, c)
    <2>1. \/ UNCHANGED istat
          \/ SetItem(r, c, "success") \/ SetItem(r, c, "pending") \/ SetItem(r, c, "cancelled")
          \/ SetItem(r, c, "needs_attention") \/ SetItem(r, c, "failed")
          \/ SkipResult(w, c)
      BY <1>6 DEF TaskEnds, DropResult, CancelItem, CommitRefused, AcceptItem, RejectItem,
         FailItem, TaskInterrupted, candidateRows
    <2>2. SkipResult(w, c)
      BY <2>1 DEF SetItem, TypeOK
    <2> QED BY <2>2 DEF SkipResult, Ending
  <1> QED BY <1>2, <1>3, <1>4, <1>5, <1>6, StatusStep

\* What the steps that write the snapshot of an item, or the columns the snapshot
\* goes with, leave there.
SameItem(r, c) == /\ snap'[r][c] = snap[r][c]
                  /\ item'[r][c].submit = item[r][c].submit
                  /\ item'[r][c].prepared = item[r][c].prepared
SavesCase(w, r, c) ==
    /\ SaveCase(w) /\ sess[w].run = r /\ c \in sess[w].cand
    /\ LET x == snap'[r][c] IN
       /\ x.frozen /\ x.cont = NoRevision /\ x.rejected = sess[w].view
       /\ x.cur = Current(r, c, sess[w].view) /\ item'[r][c].prepared = x.cur
    /\ item'[r][c].submit = item[r][c].submit /\ c \notin sess'[w].todo
    /\ UNCHANGED <<istat, flow, app>>
Continues(w, r, c) ==
    /\ RejectItem(w, c) /\ sess[w].run = r
    /\ LET x == snap'[r][c] IN
       /\ x.frozen /\ x.cont = flow[c].rev + 1
       /\ x.rejected = task[w][c].snap.rejected \cup {item[r][c].prepared}
       /\ x.cur = FirstOpen(c, x.rejected) /\ x.cur # 0 /\ item'[r][c].prepared = x.cur
    /\ item'[r][c].submit = item[r][c].submit
LEMMA SnapshotStep ==
    ASSUME ConstantsAssumption, TypeOK, [Next]_vars, NEW r \in Runs, NEW c \in Candidates
    PROVE  \/ SameItem(r, c)
           \/ /\ CreateRun(r) /\ snap'[r][c] = snap[r][c] /\ UNCHANGED <<flow, app>>
              /\ item'[r][c].submit = flow[c].rev /\ item'[r][c].prepared = 0
           \/ \E w \in Workers : SavesCase(w, r, c)
           \/ \E w \in Workers : /\ SaveArtifact(w, c) /\ sess[w].run = r
                                 /\ snap'[r][c] = task[w][c].snap /\ item' = item
           \/ \E w \in Workers : Continues(w, r, c)
  <1>1. ASSUME UNCHANGED <<item, snap>> PROVE SameItem(r, c)
    BY <1>1 DEF SameItem
  <1>2. ASSUME NEW w \in Workers, NEW d \in Candidates, StartItem(w, d) PROVE SameItem(r, c)
    <2> DEFINE q == sess[w].run
               n == item[q][d].tries + 1
               row == [item[q][d] EXCEPT !.tries = n]
    <2>1. (item' = item \/ item' = [item EXCEPT ![q][d] = row]) /\ snap' = snap
      BY <1>2 DEF StartItem
    <2>2. q \in Runs
      BY <1>2, Busy DEF StartItem, At
    <2>3. item[q][d] \in ItemRows /\ item \in [Runs -> [Candidates -> ItemRows]]
      BY <2>2 DEF TypeOK
    <2>4. row.prepared = item[q][d].prepared /\ row.submit = item[q][d].submit
      BY <2>3 DEF ItemRows
    <2> HIDE DEF row, q
    <2> QED BY <2>1, <2>2, <2>3, <2>4 DEF SameItem
  <1>3. ASSUME NEW q \in Runs, NEW d \in Candidates, NEW v, NEW x,
               item' = [item EXCEPT ![q][d].prepared = v], snap' = [snap EXCEPT ![q][d] = x]
        PROVE  \/ SameItem(r, c)
               \/ /\ q = r /\ d = c
                  /\ snap'[r][c] = x /\ item'[r][c].prepared = v
                  /\ item'[r][c].submit = item[r][c].submit
    BY <1>3 DEF TypeOK, ItemRows, SameItem
  <1>4. ASSUME NEW w \in Workers, SaveCase(w) PROVE SameItem(r, c) \/ SavesCase(w, r, c)
    <2>1. sess[w] \in Sessions /\ sess[w].run \in Runs /\ sess[w].cand \subseteq Candidates
      BY <1>4, Busy DEF SaveCase, At, Sessions
    <2> DEFINE q == sess[w].run
               v(d) == Current(q, d, sess[w].view)
               x(d, verdict) == [frozen |-> TRUE, cur |-> v(d), rejected |-> sess[w].view,
                                 verdict |-> verdict, cont |-> NoRevision]
    <2>2. PICK d \in sess[w].cand, verdict \in Verdicts :
            /\ item' = [item EXCEPT ![q][d].prepared = v(d)]
            /\ snap' = [snap EXCEPT ![q][d] = x(d, verdict)]
            /\ sess' = [sess EXCEPT ![w].pc = "work", ![w].todo = @ \ {d},
                                   ![w].cand = {}, ![w].view = {}]
            /\ UNCHANGED <<istat, flow, app>>
      BY <1>4 DEF SaveCase
    <2> DEFINE y == x(d, verdict)
    <2>3. /\ y.frozen /\ y.cont = NoRevision /\ y.rejected = sess[w].view /\ y.cur = v(d)
      OBVIOUS
    <2> HIDE DEF y, v
    <2>4. d \in Candidates
      BY <2>1
    <2>6. d \notin sess'[w].todo
      BY <2>1, <2>2 DEF TypeOK, Sessions
    <2>5. \/ SameItem(r, c)
          \/ /\ q = r /\ d = c
             /\ snap'[r][c] = y /\ item'[r][c].prepared = v(d)
             /\ item'[r][c].submit = item[r][c].submit
      BY <1>3, <2>1, <2>2, <2>4 DEF y
    <2> QED BY <1>4, <2>2, <2>3, <2>5, <2>6 DEF SavesCase, v
  <1>5. ASSUME NEW w \in Workers, NEW d \in Candidates, RejectItem(w, d)
        PROVE  SameItem(r, c) \/ Continues(w, r, c)
    <2> DEFINE q == sess[w].run
               p == item[q][d].prepared
               rejected == task[w][d].snap.rejected \cup {p}
               next == FirstOpen(d, rejected)
               f == Committed(flow[d], p)
               x(verdict) == [frozen |-> TRUE, cur |-> next, rejected |-> rejected,
                              verdict |-> verdict, cont |-> f.rev]
    <2>1. q \in Runs /\ flow[d] \in Workflows
      BY <1>5, TaskBusy DEF RejectItem, Committing, Ending
    <2>2. \/ UNCHANGED <<item, snap>>
          \/ /\ next # 0 /\ item' = [item EXCEPT ![q][d].prepared = next]
             /\ \E verdict \in Verdicts : snap' = [snap EXCEPT ![q][d] = x(verdict)]
      BY <1>5 DEF RejectItem
    <2>3. f.rev = flow[d].rev + 1
      BY <2>1, RowHelpers DEF Voids
    <2>4. ASSUME NEW verdict
          PROVE  /\ x(verdict).frozen /\ x(verdict).cont = flow[d].rev + 1
                 /\ x(verdict).rejected = rejected /\ x(verdict).cur = next
      BY <2>3
    <2> HIDE DEF x, f, next
    <2>5. ASSUME next # 0, item' = [item EXCEPT ![q][d].prepared = next], NEW verdict,
                 snap' = [snap EXCEPT ![q][d] = x(verdict)]
          PROVE  SameItem(r, c) \/ Continues(w, r, c)
      <3>1. \/ SameItem(r, c)
            \/ /\ q = r /\ d = c
               /\ snap'[r][c] = x(verdict) /\ item'[r][c].prepared = next
               /\ item'[r][c].submit = item[r][c].submit
        BY <1>3, <2>1, <2>5
      <3>2. ASSUME q = r, d = c, snap'[r][c] = x(verdict), item'[r][c].prepared = next,
                   item'[r][c].submit = item[r][c].submit
            PROVE  Continues(w, r, c)
        <4> DEFINE y == snap'[r][c]
        <4>1. y.frozen /\ y.cont = flow[c].rev + 1 /\ y.rejected = rejected /\ y.cur = next
          BY <2>4, <3>2
        <4>2. next = FirstOpen(c, rejected)
          BY <3>2 DEF next
        <4> HIDE DEF next
        <4>3. rejected = task[w][c].snap.rejected \cup {item[r][c].prepared}
          BY <3>2
        <4> HIDE DEF rejected
        <4> QED BY <1>5, <2>5, <3>2, <4>1, <4>2, <4>3 DEF Continues
      <3> QED BY <3>1, <3>2
    <2> QED BY <1>1, <2>2, <2>5
  <1>6. ASSUME NEW w \in Workers, NEW d \in Candidates, SaveArtifact(w, d)
        PROVE  \/ SameItem(r, c)
               \/ /\ sess[w].run = r /\ d = c
                  /\ snap'[r][c] = task[w][c].snap /\ item' = item
    BY <1>6 DEF SaveArtifact, SameItem, TypeOK
  <1>7. ASSUME NEW q \in Runs, CreateRun(q)
        PROVE  \/ SameItem(r, c)
               \/ /\ q = r /\ snap'[r][c] = snap[r][c] /\ UNCHANGED <<flow, app>>
                  /\ item'[r][c].submit = flow[c].rev /\ item'[r][c].prepared = 0
    BY <1>7 DEF CreateRun, TypeOK, SameItem
  <1>8. ASSUME NEW w \in Workers, WorkerStep(w)
        PROVE  UNCHANGED <<item, snap>> \/ SaveCase(w) \/ \E d \in Candidates : StartItem(w, d)
    BY <1>8 DEF WorkerStep, ReadRun, BeginStage, MarkStage, FinishStage, TestStage, Initialize,
       Abort, ListItems, LookAtCase, SnapshotsReady, ItemsPrepared, RoundDone, PrepareItem,
       Finalize, CheckLease, Decide, StopRun, Tally, JobDone, PrepareItemFails, candidateRows
  <1>9. ASSUME NEW w \in Workers, NEW d \in Candidates,
               TaskEnds(w, d) \/ RenewClaim(w, d)
        PROVE  UNCHANGED <<item, snap>> \/ RejectItem(w, d)
    BY <1>9 DEF TaskEnds, DropResult, SkipResult, CancelItem, CommitRefused, AcceptItem, FailItem,
       TaskInterrupted, RenewClaim, candidateRows
  <1>10. ASSUME NEW w \in Workers, StepFails(w) \/ Heartbeat(w) \/ Crash(w)
         PROVE  UNCHANGED <<item, snap>>
    BY <1>10 DEF StepFails, Heartbeat, Crash, candidateRows
  <1>11. ASSUME NEW q \in Runs, LeaseLapses(q) \/ CancelRun(q) \/ \E w \in Workers : Claim(w, q)
         PROVE  UNCHANGED <<item, snap>>
    BY <1>11 DEF LeaseLapses, CancelRun, Claim, candidateRows
  <1>12. ASSUME NEW d \in Candidates,
                \/ ClaimLapses(d) \/ \E v \in Volunteers : ManualAssign(d, v)
                \/ MutateAttempt(d) \/ EditCandidate(d) \/ ImportResumes(d) \/ AllocationAssigns(d)
         PROVE  UNCHANGED <<item, snap>>
    BY <1>12 DEF ClaimLapses, ManualAssign, MutateAttempt, EditCandidate, ImportResumes,
       AllocationAssigns, Manual, Outside
  <1>13. ASSUME UNCHANGED vars PROVE UNCHANGED <<item, snap>>
    BY <1>13 DEF vars
  <1> QED BY <1>1, <1>2, <1>4, <1>5, <1>6, <1>7, <1>8, <1>9, <1>10, <1>11, <1>12, <1>13
          DEF Next, Environment

-----------------------------------------------------------------------------
(* Snapshots.  What the row of an item, a goroutine that assesses it and a *)
(* worker that prepares it know of each other, although nothing is locked  *)
(* between the reads and the writes.                                       *)

\* The row of item r and c: the revision it expects has been reached, a frozen
\* resume is the prepared one and is passed over by nothing, and an item is skipped
\* only once its workflow has moved on.
Row(r, c) ==
    LET x == snap[r][c] IN
    /\ istat[r][c] # "absent" => Expected(r, c) <= flow[c].rev
    /\ istat[r][c] = "absent" => ~x.frozen
    /\ ~x.frozen => x.cont = NoRevision /\ item[r][c].prepared = 0
    /\ x.frozen => /\ item[r][c].prepared = x.cur
                   /\ x.cur \in (Wishes[c] \ x.rejected) \cup {0}
                   /\ ~revisionChanged(r, c) => Unavailable(c) \subseteq x.rejected
    /\ istat[r][c] = "skipped_manual_change" => revisionChanged(r, c)

\* A goroutine assesses the open item of its run at the expected revision, and
\* holds a live claim as long as that is the revision.
Goroutine(w, c) ==
    LET r == sess[w].run
        t == task[w][c] IN
    t.on => /\ t.rev = Expected(r, c) /\ t.snap = snap[r][c] /\ t.snap.frozen
            /\ Open(r, c) /\ c \notin sess[w].todo
            /\ flow[c].rev = t.rev => Claimant(w, c) /\ flow[c].live

\* The worker that prepares a run has open items left to freeze, and passes over
\* all that nobody can assess of the one at hand, unless the workflow moved on.
Looks(w) ==
    LET s == sess[w]
        r == s.run IN
    /\ s.pc \in {"work", "save"} /\ s.at = "preparing" =>
         \A c \in s.todo : Open(r, c) /\ ~snap[r][c].frozen
    /\ s.pc = "save" =>
         \A c \in s.cand : /\ c \in s.todo
                           /\ ~revisionChanged(r, c) => Unavailable(c) \subseteq s.view

SnapshotInv ==
    /\ \A r \in Runs, c \in Candidates : Row(r, c)
    /\ \A w \in Workers, c \in Candidates : Goroutine(w, c)
    /\ \A w \in Workers : Looks(w)

\* The volunteer of a snapshot is none of those that are passed over.
LEMMA CurrentIsOpen ==
    ASSUME NEW r \in Runs, NEW c \in Candidates, NEW rejected
    PROVE  /\ FirstOpen(c, rejected) \in (Wishes[c] \ rejected) \cup {0}
           /\ Current(r, c, rejected) \in (Wishes[c] \ rejected) \cup {0}
  <1> DEFINE first == {v \in Wishes[c] \ rejected : \A u \in Wishes[c] \ rejected : v <= u}
  <1>1. FirstOpen(c, rejected) \in (Wishes[c] \ rejected) \cup {0}
    <2>1. CASE first = {}
      BY <2>1 DEF FirstOpen
    <2>2. CASE first # {}
      <3>1. (CHOOSE v \in first : TRUE) \in first
        BY <2>2
      <3> QED BY <2>2, <3>1 DEF FirstOpen
    <2> QED BY <2>1, <2>2
  <1> QED BY <1>1 DEF Current

\* A revision stays or advances.
LEMMA RevisionStep ==
    ASSUME TypeOK, [Next]_vars, NEW c \in Candidates
    PROVE  /\ flow[c].rev \in Nat
           /\ flow'[c].rev = flow[c].rev \/ Voids(flow[c], flow'[c])
  BY FlowStep DEF RowStep, Same, RowClaimed, RowReleased, TypeOK, Workflows

\* The revision an item expects is a number.
LEMMA ExpectedType ==
    ASSUME TypeOK, NEW r \in Runs, NEW c \in Candidates
    PROVE  Expected(r, c) \in Int
  BY DEF TypeOK, ItemRows, Snapshots, Expected, NoRevision

\* The worker of a run is the only one.
LEMMA OneWorker ==
    ASSUME LeaseInv, NEW w \in Workers, NEW u \in Workers, sess[w].pc # "idle",
           sess[u].pc # "idle", sess[u].run = sess[w].run
    PROVE  u = w
  BY DEF LeaseInv

\* createRun makes items that expect the revision of the moment.
LEMMA CreatedRow ==
    ASSUME ConstantsAssumption, TypeOK, SettledInv, SnapshotInv,
           NEW r \in Runs, NEW c \in Candidates, CreateRun(r)
    PROVE  Row(r, c)'
  <1>1. istat[r][c] = "absent"
    BY DEF CreateRun, SettledInv, RunEvidence
  <1>2. ~snap[r][c].frozen /\ snap[r][c].cont = NoRevision
    BY <1>1 DEF SnapshotInv, Row
  <1> DEFINE i == [submit |-> flow[c].rev, prepared |-> 0, tries |-> 0]
  <1>3. item'[r][c] = i /\ snap' = snap /\ flow' = flow
    BY DEF CreateRun, TypeOK
  <1>4. i.submit = flow[c].rev /\ i.prepared = 0
    OBVIOUS
  <1>5. istat'[r][c] \in {"pending", "absent"}
    BY DEF CreateRun, TypeOK
  <1> HIDE DEF i
  <1>6. Expected(r, c)' = flow[c].rev /\ flow[c].rev \in Nat
    BY <1>2, <1>3, <1>4 DEF Expected, TypeOK, Workflows
  <1> QED BY <1>2, <1>3, <1>4, <1>5, <1>6 DEF Row

\* The rows of the other items, and of those that nothing is written to.
LEMMA RowKept ==
    ASSUME ConstantsAssumption, TypeOK, SnapshotInv, [Next]_vars,
           NEW r \in Runs, NEW c \in Candidates, ~CreateRun(r), SameItem(r, c)
    PROVE  Row(r, c)'
  <1> DEFINE e == Expected(r, c)
             x == snap[r][c]
  <1>1. Expected(r, c)' = e /\ e \in Int
    BY ExpectedType DEF SameItem, Expected
  <1>2. Row(r, c)
    BY DEF SnapshotInv
  <1>3. ItemMoves(r, c)
    BY ItemStep
  <1>4. (istat'[r][c] = "absent") <=> (istat[r][c] = "absent")
    BY <1>3 DEF ItemMoves, OpenItem, TerminalItem
  <1>5. flow[c].rev \in Nat /\ (flow'[c].rev = flow[c].rev \/ flow'[c].rev = flow[c].rev + 1)
    BY RevisionStep DEF Voids
  <1> HIDE DEF e
  <1>6. istat'[r][c] # "absent" => e <= flow'[c].rev
    BY <1>1, <1>2, <1>4, <1>5 DEF Row, e
  <1>7. istat'[r][c] = "skipped_manual_change" => flow'[c].rev # e
    <2> SUFFICES ASSUME istat'[r][c] = "skipped_manual_change" PROVE flow'[c].rev # e
      OBVIOUS
    <2>1. CASE istat[r][c] = "skipped_manual_change"
      <3>1. flow[c].rev # e /\ e <= flow[c].rev
        BY <1>2, <2>1 DEF Row, revisionChanged, e
      <3> QED BY <1>1, <1>5, <3>1
    <2>2. CASE istat[r][c] # "skipped_manual_change"
      <3>1. /\ flow' = flow
            /\ \/ revisionChanged(r, c)
               \/ \E w \in Workers : sess[w].run = r /\ task[w][c].on /\ ~Fresh(w, c)
        BY <2>2, SkipStep
      <3>2. ASSUME NEW w \in Workers, sess[w].run = r, task[w][c].on, ~Fresh(w, c)
            PROVE  flow[c].rev # e
        BY <3>2 DEF SnapshotInv, Goroutine, Fresh, e
      <3> QED BY <3>1, <3>2 DEF revisionChanged, e
    <2> QED BY <2>1, <2>2
  <1>8. x.frozen /\ flow'[c].rev = e => Unavailable(c)' \subseteq x.rejected
    <2> SUFFICES ASSUME x.frozen, flow'[c].rev = e PROVE Unavailable(c)' \subseteq x.rejected
      OBVIOUS
    <2>1. e <= flow[c].rev
      BY <1>2 DEF Row, e
    <2>2. flow[c].rev = e /\ ~Voids(flow[c], flow'[c])
      BY <1>1, <1>5, <2>1 DEF Voids
    <2>3. Unavailable(c) \subseteq x.rejected
      BY <1>2, <2>2 DEF Row, revisionChanged, e
    <2> QED BY <2>2, <2>3, ClosedStep
  <1> QED BY <1>1, <1>2, <1>4, <1>6, <1>7, <1>8 DEF Row, SameItem, revisionChanged

\* A snapshot that is saved, although nothing was locked since the case was read.
LEMMA RowSaved ==
    ASSUME ConstantsAssumption, TypeOK, SettledInv, SnapshotInv,
           NEW w \in Workers, NEW r \in Runs, NEW c \in Candidates, SavesCase(w, r, c)
    PROVE  Row(r, c)'
  <1> DEFINE s == sess[w]
             x == snap'[r][c]
  <1>1. /\ s.pc = "save" /\ c \in s.cand /\ s.run = r
        /\ x.frozen /\ x.cont = NoRevision /\ x.rejected = s.view
        /\ x.cur = Current(r, c, s.view) /\ item'[r][c].prepared = x.cur
        /\ item'[r][c].submit = item[r][c].submit /\ UNCHANGED <<istat, flow, app>>
    BY DEF SavesCase, SaveCase, At
  <1>2. s.at = "preparing"
    BY <1>1 DEF SettledInv, Evidence
  <1>3. c \in s.todo /\ Open(r, c) /\ ~snap[r][c].frozen
          /\ (~revisionChanged(r, c) => Unavailable(c) \subseteq s.view)
    BY <1>1, <1>2 DEF SnapshotInv, Looks
  <1>4. snap[r][c].cont = NoRevision /\ istat[r][c] # "absent"
          /\ istat[r][c] # "skipped_manual_change"
    BY <1>3 DEF SnapshotInv, Row, Open, OpenItem
  <1>5. Expected(r, c)' = Expected(r, c) /\ Expected(r, c) <= flow[c].rev
    BY <1>1, <1>4 DEF SnapshotInv, Row, Expected
  <1>6. Unavailable(c)' = Unavailable(c)
    BY <1>1 DEF Unavailable, IsOpen
  <1>7. x.cur \in (Wishes[c] \ x.rejected) \cup {0}
    BY <1>1, CurrentIsOpen
  <1>8. revisionChanged(r, c)' <=> revisionChanged(r, c)
    BY <1>1, <1>5 DEF revisionChanged
  <1> QED BY <1>1, <1>3, <1>4, <1>5, <1>6, <1>7, <1>8 DEF Row

\* An item that goes on with the next volunteer after a rejection.
LEMMA RowContinued ==
    ASSUME ConstantsAssumption, TypeOK, SnapshotInv, [Next]_vars,
           NEW w \in Workers, NEW r \in Runs, NEW c \in Candidates, Continues(w, r, c)
    PROVE  Row(r, c)'
  <1> DEFINE t == task[w][c]
             x == snap'[r][c]
             p == item[r][c].prepared
  <1>1. /\ RejectItem(w, c) /\ sess[w].run = r
        /\ x.frozen /\ x.cont = flow[c].rev + 1 /\ x.rejected = t.snap.rejected \cup {p}
        /\ x.cur = FirstOpen(c, x.rejected) /\ item'[r][c].prepared = x.cur
    BY DEF Continues
  <1>2. t.on /\ flow[c].rev = t.rev
    BY <1>1 DEF RejectItem, Committing, Ending, Fresh
  <1>3. ~revisionChanged(r, c) /\ t.snap = snap[r][c] /\ t.snap.frozen
    BY <1>1, <1>2 DEF SnapshotInv, Goroutine, revisionChanged
  <1>4. Unavailable(c) \subseteq t.snap.rejected
    BY <1>3 DEF SnapshotInv, Row
  <1>5. flow'[c].rev = flow[c].rev + 1 /\ flow[c].rev \in Nat
    BY <1>1, RowCommit, RevisionStep DEF Voids
  <1>6. Unavailable(c)' \subseteq Unavailable(c) \cup {p}
    <2>1. PICK status : Overwrites(c, p, status)
      BY <1>1 DEF RejectItem, Overwrites
    <2>2. ASSUME NEW u \in Volunteers, u # p, app'[c][u] \in Shut
          PROVE  app[c][u] \in Shut
      <3>1. /\ app'[c] = [AttemptCancelled(c) EXCEPT ![p] = status]
            /\ AttemptCancelled(c) \in [Volunteers -> Applications]
        BY <2>1, AttemptCancelledType DEF Overwrites, TypeOK
      <3>2. app'[c][u] = AttemptCancelled(c)[u]
        BY <2>2, <3>1
      <3>3. AttemptCancelled(c)[u] \in {app[c][u], "cancelled"}
        BY DEF AttemptCancelled, TypeOK
      <3> QED BY <2>2, <3>2, <3>3 DEF Shut, ClosedApplication
    <2>3. Wishes[c] \subseteq Volunteers
      BY DEF ConstantsAssumption
    <2> HIDE DEF p
    <2> QED BY <2>2, <2>3 DEF Unavailable, IsOpen, Shut
  <1>7. Expected(r, c)' = flow'[c].rev
    BY <1>1, <1>5 DEF Expected, NoRevision
  <1>8. istat'[r][c] \in {"success", "pending"}
    <2>1. SetItem(r, c, "success") \/ SetItem(r, c, "pending")
      BY <1>1 DEF RejectItem
    <2> QED BY <2>1 DEF SetItem, TypeOK
  <1>9. x.cur \in (Wishes[c] \ x.rejected) \cup {0}
    BY <1>1, CurrentIsOpen
  <1> HIDE DEF t, p
  <1>10. Unavailable(c)' \subseteq x.rejected
    BY <1>1, <1>4, <1>6
  <1> QED BY <1>1, <1>5, <1>7, <1>8, <1>9, <1>10 DEF Row

\* Whoever takes a step, the rows of the items keep what they tell.
LEMMA RowNext ==
    ASSUME ConstantsAssumption, TypeOK, SettledInv, SnapshotInv, [Next]_vars,
           NEW r \in Runs, NEW c \in Candidates
    PROVE  Row(r, c)'
  <1>1. ASSUME NEW w \in Workers, SaveArtifact(w, c), sess[w].run = r,
               snap'[r][c] = task[w][c].snap, item' = item
        PROVE  SameItem(r, c)
    BY <1>1 DEF SaveArtifact, SnapshotInv, Goroutine, SameItem
  <1> QED BY <1>1, SnapshotStep, CreatedRow, RowKept, RowSaved, RowContinued

-----------------------------------------------------------------------------
(* The goroutines of a worker.                                             *)

\* Worker w starts to assess c: what it claimed, and what it assesses.
Starting(w, c) ==
    LET r == sess[w].run
        t == task'[w][c] IN
    /\ RowClaimed(w, c) /\ r \in Runs
    /\ t.rev = flow[c].rev /\ t.snap = snap[r][c] /\ t.token = item[r][c].tries + 1
    /\ istat'[r][c] = "processing" /\ SameItem(r, c)
    /\ sess'[w].run = r /\ c \notin sess'[w].todo

\* The record of a new goroutine.
LEMMA StartRecord ==
    ASSUME TypeOK, NEW w \in Workers, NEW c \in Candidates, StartItem(w, c),
           task'[w][c] # task[w][c]
    PROVE  Starting(w, c)
  <1> DEFINE r == sess[w].run
             n == item[r][c].tries + 1
             row == [item[r][c] EXCEPT !.tries = n]
             t == [on |-> TRUE, token |-> n, rev |-> flow[c].rev, snap |-> snap[r][c]]
             f == [flow[c] EXCEPT !.claim = r, !.token = n, !.live = TRUE]
             s == [sess[w] EXCEPT !.todo = @ \ {c}]
  <1>1. /\ Due(r, c) /\ ~Retained(r, c) /\ ~LiveClaim(c) /\ Assessable(r, c)
        /\ flow' = [flow EXCEPT ![c] = f] /\ SetItem(r, c, "processing")
        /\ sess' = [sess EXCEPT ![w] = s]
        /\ item' = [item EXCEPT ![r][c] = row] /\ task' = [task EXCEPT ![w][c] = t]
        /\ snap' = snap
    BY DEF StartItem, Settle
  <1>2. /\ r \in Runs /\ sess[w] \in Sessions /\ flow[c] \in Workflows /\ item[r][c] \in ItemRows
    BY Busy DEF StartItem, At, TypeOK
  <1>3. t.rev = flow[c].rev /\ t.snap = snap[r][c] /\ t.token = n
    OBVIOUS
  <1>4. row.submit = item[r][c].submit /\ row.prepared = item[r][c].prepared
    BY <1>2 DEF ItemRows
  <1>5. f.rev = flow[c].rev /\ f.claim = r /\ f.live /\ f.token = n /\ f.held = flow[c].held
    BY <1>2 DEF Workflows
  <1>6. s.run = r /\ c \notin s.todo
    BY <1>2 DEF Sessions
  <1> HIDE DEF t, row, f, s
  <1>7. task'[w][c] = t /\ item'[r][c] = row /\ flow'[c] = f /\ sess'[w] = s
    BY <1>1, <1>2 DEF TypeOK
  <1>8. istat'[r][c] = "processing"
    BY <1>1, <1>2 DEF SetItem, TypeOK
  <1>9. SameItem(r, c)
    BY <1>1, <1>4, <1>7 DEF SameItem
  <1>10. RowClaimed(w, c)
    BY <1>1, <1>5, <1>7 DEF RowClaimed
  <1> QED BY <1>2, <1>3, <1>6, <1>7, <1>8, <1>9, <1>10 DEF Starting

\* A goroutine that is there after a step was there before, or starts.
LEMMA TaskOrigin ==
    ASSUME TypeOK, [Next]_vars, NEW w \in Workers, NEW c \in Candidates, task'[w][c].on
    PROVE  task'[w][c] = task[w][c] \/ Starting(w, c)
  <1>1. ASSUME NEW u \in Workers, NEW d \in Candidates, Starts(u, d), Others(u, d),
               ~(u = w /\ d = c)
        PROVE  task'[w][c] = task[w][c]
    BY <1>1 DEF Others
  <1>2. ASSUME Starts(w, c) PROVE task'[w][c] = task[w][c] \/ Starting(w, c)
    BY <1>2, StartRecord DEF Starts
  <1> QED BY <1>1, <1>2, TaskStep

\* A worker keeps its run and its list while a goroutine of it goes on.
LEMMA TaskGoesOn ==
    ASSUME TypeOK, OutcomeInv, [Next]_vars, NEW w \in Workers, NEW c \in Candidates,
           task[w][c].on, task'[w][c].on
    PROVE  /\ sess'[w].run = sess[w].run /\ sess'[w].todo \subseteq sess[w].todo
           /\ ~TaskEnds(w, c) /\ ~StopRun(w) /\ ~SaveCase(w)
           /\ \A d \in Candidates : ~PrepareItem(w, d)
  <1>1. /\ sess[w].pc = "work" /\ sess[w].at = "step4" /\ c \in Running(w)
        /\ sess[w] \in Sessions /\ sess \in [Workers -> Sessions]
    BY TaskBusy DEF Running, TypeOK
  <1>2. ~TaskEnds(w, c)
    <2>1. TaskEnds(w, c) => EndTask(w, c)
      BY DEF TaskEnds, DropResult, SkipResult, CancelItem, CommitRefused, AcceptItem,
         RejectItem, FailItem, TaskInterrupted, Silently
    <2>2. EndTask(w, c) => task'[w][c] = NoTask
      BY DEF EndTask, TypeOK
    <2> QED BY <2>1, <2>2, NoTaskIsTask
  <1>3. ~Crash(w)
    BY NoTaskIsTask DEF Crash, TypeOK
  <1>4. ASSUME WorkerStep(w) PROVE \E d \in Candidates : StartItem(w, d)
    BY <1>1, <1>4 DEF WorkerStep, ReadRun, BeginStage, MarkStage, FinishStage, TestStage,
       Initialize, Abort, ListItems, LookAtCase, SaveCase, SnapshotsReady, ItemsPrepared,
       RoundDone, Finalize, CheckLease, Decide, StopRun, Tally, JobDone, PrepareItem,
       PrepareItemFails, Preparing, At
  <1>5. ~StepFails(w) /\ \A r \in Runs : ~Claim(w, r)
    BY <1>1 DEF StepFails, Claim
  <1>6. ASSUME Heartbeat(w)
        PROVE  sess'[w].run = sess[w].run /\ sess'[w].todo \subseteq sess[w].todo
    <2> DEFINE b == Owns(w) /\ ~run[sess[w].run].cancel
               s == [sess[w] EXCEPT !.ctx = b]
    <2>1. sess' = [sess EXCEPT ![w] = s]
      BY <1>6 DEF Heartbeat
    <2>2. s.run = sess[w].run /\ s.todo = sess[w].todo
      BY <1>1 DEF Sessions
    <2> HIDE DEF s
    <2> QED BY <1>1, <2>1, <2>2
  <1>7. sess'[w].run = sess[w].run /\ sess'[w].todo \subseteq sess[w].todo
    <2>1. CASE sess'[w] = sess[w]
      BY <2>1
    <2>2. CASE sess'[w] # sess[w]
      BY <1>3, <1>4, <1>5, <1>6, <2>2, SessionWriter, ItemFollows
    <2> QED BY <2>1, <2>2
  <1> QED BY <1>1, <1>2, <1>7 DEF StopRun, SaveCase, PrepareItem, Preparing, At

\* Nobody else works on the run of a busy worker.
LEMMA OnlyWorker ==
    ASSUME SettledInv, LeaseInv, NEW w \in Workers, sess[w].pc # "idle", NEW c \in Candidates
    PROVE  /\ ~CreateRun(sess[w].run)
           /\ \A u \in Workers :
                /\ \/ StopRun(u) \/ SaveCase(u) \/ PrepareItem(u, c) \/ StartItem(u, c)
                   \/ sess[u].pc = "work"
                /\ sess[u].run = sess[w].run
                => u = w
  <1>1. ~CreateRun(sess[w].run)
    BY DEF SettledInv, Evidence, CreateRun
  <1>2. ASSUME NEW u \in Workers,
               \/ StopRun(u) \/ SaveCase(u) \/ PrepareItem(u, c) \/ StartItem(u, c)
               \/ sess[u].pc = "work"
        PROVE  sess[u].pc # "idle"
    BY <1>2 DEF StopRun, SaveCase, PrepareItem, StartItem, Preparing, At
  <1> QED BY <1>1, <1>2, OneWorker

\* A processItem goroutine that ends, or saves, belongs to a worker at work.
LEMMA TaskWorks ==
    ASSUME TypeOK, NEW w \in Workers, NEW c \in Candidates,
           TaskEnds(w, c) \/ SaveArtifact(w, c)
    PROVE  sess[w].pc = "work" /\ sess[w].at = "step4"
  <1>1. task[w][c].on
    BY DEF TaskEnds, DropResult, SkipResult, CancelItem, CommitRefused, AcceptItem, RejectItem,
       FailItem, TaskInterrupted, Committing, Ending, SaveArtifact
  <1> QED BY <1>1, TaskBusy

\* While a goroutine goes on, nobody writes its item, and its claim is void only
\* with the revision.
LEMMA GoroutineKept ==
    ASSUME ConstantsAssumption, TypeOK, SettledInv, Slow = {}, LeaseInv, OutcomeInv,
           SnapshotInv, [Next]_vars, NEW w \in Workers, NEW c \in Candidates,
           task'[w][c].on, task'[w][c] = task[w][c]
    PROVE  Goroutine(w, c)'
  <1>0. PICK r \in Runs : r = sess[w].run
    BY TaskBusy
  <1> DEFINE t == task[w][c]
  <1>1. /\ sess[w].pc # "idle" /\ t.on
        /\ t.rev = Expected(r, c) /\ t.snap = snap[r][c] /\ t.snap.frozen
        /\ Open(r, c) /\ c \notin sess[w].todo
        /\ flow[c].rev = t.rev => Claimant(w, c) /\ flow[c].live
    BY <1>0, TaskBusy DEF SnapshotInv, Goroutine
  <1>2. /\ sess'[w].run = r /\ sess'[w].todo \subseteq sess[w].todo
        /\ ~TaskEnds(w, c) /\ ~StopRun(w) /\ ~SaveCase(w) /\ ~PrepareItem(w, c)
    BY <1>0, <1>1, TaskGoesOn
  <1>3. ~StartItem(w, c)
    BY <1>1 DEF StartItem
  <1> HIDE DEF t
  <1>4. Open(r, c)'
    <2>1. ASSUME NEW u \in Workers, sess[u].run = r,
                 StopRun(u) \/ PrepareItem(u, c) \/ StartItem(u, c) \/ TaskEnds(u, c)
          PROVE  FALSE
      <3>1. u = w
        BY <1>0, <1>1, <2>1, OnlyWorker, TaskWorks
      <3> QED BY <1>2, <1>3, <2>1, <3>1
    <2>2. istat'[r][c] = istat[r][c]
      BY <1>0, <1>1, <2>1, StatusStep, OnlyWorker
    <2> QED BY <1>1, <2>2 DEF Open
  <1>5. SameItem(r, c)
    <2>1. ASSUME NEW u \in Workers, SavesCase(u, r, c) PROVE FALSE
      BY <1>0, <1>1, <1>2, <2>1, OnlyWorker DEF SavesCase
    <2>2. ASSUME NEW u \in Workers, Continues(u, r, c) PROVE FALSE
      <3>1. TaskEnds(u, c) /\ sess[u].run = r
        BY <2>2 DEF Continues, TaskEnds
      <3> QED BY <1>0, <1>1, <1>2, <3>1, OnlyWorker, TaskWorks
    <2>3. ASSUME NEW u \in Workers, SaveArtifact(u, c), sess[u].run = r,
                 snap'[r][c] = task[u][c].snap, item' = item
          PROVE  SameItem(r, c)
      <3>1. u = w
        BY <1>0, <1>1, <2>3, OnlyWorker, TaskWorks
      <3> QED BY <1>1, <2>3, <3>1 DEF SameItem, t
    <2> QED BY <1>0, <1>1, <2>1, <2>2, <2>3, SnapshotStep, OnlyWorker
  <1>6. Expected(r, c)' = Expected(r, c)
    BY <1>5 DEF SameItem, Expected
  <1>7. t.rev <= flow[c].rev /\ t.rev \in Int /\ flow[c].rev \in Nat
    <2>1. istat[r][c] # "absent" /\ Row(r, c)
      BY <1>1 DEF Open, OpenItem, SnapshotInv
    <2> QED BY <1>1, <2>1, ExpectedType, RevisionStep DEF Row
  <1>8. ASSUME flow'[c].rev = t.rev
        PROVE  flow'[c].claim = r /\ flow'[c].token = t.token /\ flow'[c].live
    <2>1. ~Voids(flow[c], flow'[c]) /\ flow[c].rev = t.rev
      BY <1>7, <1>8, RevisionStep DEF Voids
    <2>2. Claimant(w, c) /\ flow[c].live /\ flow[c].claim = r /\ flow[c].token = t.token
      BY <1>0, <1>1, <2>1 DEF Claimant, t
    <2>3. ~ClaimLapses(c)
      BY <2>2 DEF ClaimLapses
    <2>4. \A u \in Workers : ~RowClaimed(u, c)
      BY <1>1, <2>2 DEF RowClaimed, LiveClaim, ConstantsAssumption
    <2>5. ASSUME NEW u \in Workers, StopRun(u) \/ CancelItem(u, c), RowReleased(u, c) PROVE FALSE
      <3>1. sess[u].run = r
        BY <2>2, <2>5 DEF RowReleased
      <3>2. StopRun(u) \/ TaskEnds(u, c)
        BY <2>5 DEF TaskEnds
      <3>3. u = w
        BY <1>0, <1>1, <3>1, <3>2, OnlyWorker, TaskWorks
      <3> QED BY <1>2, <3>2, <3>3
    <2> QED BY <2>1, <2>2, <2>3, <2>4, <2>5, FlowStep DEF RowStep, Same
  <1>9. task'[w][c] = t
    BY DEF t
  <1> QED BY <1>1, <1>2, <1>4, <1>5, <1>6, <1>8, <1>9 DEF Goroutine, SameItem, Claimant

\* A goroutine starts at the expected revision, for a frozen resume, with a claim.
LEMMA GoroutineStarts ==
    ASSUME ConstantsAssumption, TypeOK, SnapshotInv, NEW w \in Workers, NEW c \in Candidates,
           task'[w][c].on, Starting(w, c)
    PROVE  Goroutine(w, c)'
  <1>0. PICK r \in Runs : r = sess[w].run
    BY DEF Starting
  <1> DEFINE t == task'[w][c]
  <1>1. /\ RowClaimed(w, c)
        /\ t.rev = flow[c].rev /\ t.snap = snap[r][c] /\ t.token = item[r][c].tries + 1
        /\ istat'[r][c] = "processing" /\ SameItem(r, c)
        /\ sess'[w].run = r /\ c \notin sess'[w].todo
    BY <1>0 DEF Starting
  <1>2. /\ flow[c].rev = Expected(r, c) /\ item[r][c].prepared # 0
        /\ flow'[c].rev = flow[c].rev /\ flow'[c].claim = r /\ flow'[c].live
        /\ flow'[c].token = item[r][c].tries + 1
    BY <1>0, <1>1 DEF RowClaimed, Due, revisionChanged, Assessable
  <1>3. snap[r][c].frozen
    BY <1>1, <1>2 DEF SnapshotInv, Row
  <1>4. Expected(r, c)' = Expected(r, c) /\ snap'[r][c] = snap[r][c]
    BY <1>1 DEF SameItem, Expected
  <1>5. Open(r, c)'
    BY <1>1 DEF Open, OpenItem
  <1> QED BY <1>1, <1>2, <1>3, <1>4, <1>5 DEF Goroutine, Claimant

\* Goroutines keep what they assess.
LEMMA GoroutineNext ==
    ASSUME ConstantsAssumption, TypeOK, SettledInv, Slow = {}, LeaseInv, OutcomeInv,
           SnapshotInv, [Next]_vars, NEW w \in Workers, NEW c \in Candidates
    PROVE  Goroutine(w, c)'
  <1>1. CASE task'[w][c].on
    BY <1>1, TaskOrigin, GoroutineKept, GoroutineStarts
  <1>2. CASE ~task'[w][c].on
    BY <1>2 DEF Goroutine
  <1> QED BY <1>1, <1>2

-----------------------------------------------------------------------------
(* The worker that prepares a run.                                         *)

\* The steps after which a worker still has, or begins to have, items to freeze.
LEMMA LookStep ==
    ASSUME ConstantsAssumption, TypeOK, SettledInv, OutcomeInv, [Next]_vars, NEW w \in Workers,
           sess'[w] # sess[w], sess'[w].pc \in {"work", "save"}, sess'[w].at = "preparing"
    PROVE  Heartbeat(w) \/ ListItems(w) \/ LookAtCase(w) \/ SaveCase(w)
  <1> DEFINE s == sess[w]
  <1>1. sess[w] \in Sessions /\ sess \in [Workers -> Sessions]
    BY DEF TypeOK
  <1>2. \A e : Return(s, e).pc = "own"
    BY DEF Return, Idle
  <1>3. ASSUME NEW e, Fail(w, e) PROVE FALSE
    BY <1>1, <1>2, <1>3 DEF Fail
  <1>4. ASSUME NEW p, Goto(w, p) PROVE p \in {"work", "save"} /\ s.at = "preparing"
    BY <1>1, <1>4, GotoFollows
  <1>5. ~BeginStage(w)
    BY <1>3, <1>4 DEF BeginStage
  <1>6. ~MarkStage(w)
    BY <1>4 DEF MarkStage
  <1>7. ~StepFails(w) /\ ~Abort(w) /\ \A c \in Candidates : ~PrepareItemFails(w, c)
    BY <1>3 DEF StepFails, Abort, PrepareItemFails
  <1>8. ~ItemsPrepared(w) /\ ~RoundDone(w) /\ ~Finalize(w) /\ ~StopRun(w) /\ ~Tally(w)
    <2>1. \/ ItemsPrepared(w) \/ RoundDone(w) \/ Finalize(w) \/ StopRun(w) \/ Tally(w)
          => (\E e : Fail(w, e)) \/ \E p \in {"finish", "list", "tally", "done"} : Goto(w, p)
      BY DEF ItemsPrepared, RoundDone, Finalize, StopRun, Tally
    <2> QED BY <1>3, <1>4, <2>1
  <1>9. Idle.pc = "idle"
    BY DEF Idle
  <1>10. ~CheckLease(w) /\ ~Decide(w) /\ ~JobDone(w) /\ ~Crash(w)
    <2>1. [s EXCEPT !.pc = "decide"].pc = "decide" /\ [s EXCEPT !.pc = "done"].pc = "done"
      BY <1>1 DEF Sessions
    <2>2. \A e : [s EXCEPT !.pc = "stop", !.err = e].pc = "stop"
      BY <1>1 DEF Sessions
    <2>3. CheckLease(w) =>
            \E x \in {Idle, [s EXCEPT !.pc = "decide"]} : sess' = [sess EXCEPT ![w] = x]
      BY DEF CheckLease
    <2>4. Decide(w) =>
            \/ \E x \in {Idle, [s EXCEPT !.pc = "done"]} : sess' = [sess EXCEPT ![w] = x]
            \/ \E e : sess' = [sess EXCEPT ![w] = [s EXCEPT !.pc = "stop", !.err = e]]
      BY DEF Decide
    <2>5. JobDone(w) \/ Crash(w) => sess' = [sess EXCEPT ![w] = Idle]
      BY DEF JobDone, Crash
    <2>6. ASSUME NEW x, x.pc \notin {"work", "save"}, sess' = [sess EXCEPT ![w] = x] PROVE FALSE
      BY <1>1, <2>6
    <2> QED BY <1>9, <2>1, <2>2, <2>3, <2>4, <2>5, <2>6
  <1>11. ~Initialize(w)
    BY <1>1 DEF Initialize, Sessions
  <1>12. ~ReadRun(w)
    <2> DEFINE u == [s EXCEPT !.pc = "finish", !.at = "queued",
                              !.init = run[s.run].init, !.prep = run[s.run].prep]
    <2>1. u.pc = "finish"
      BY <1>1 DEF Sessions
    <2>2. ReadRun(w) => sess' = [sess EXCEPT ![w] =
                                   IF run[s.run].status \notin ActiveRun THEN Return(s, "none")
                                   ELSE IF run[s.run].cancel THEN Return(s, "agent_cancelled")
                                   ELSE u]
      BY DEF ReadRun
    <2> HIDE DEF u
    <2> QED BY <1>1, <1>2, <2>1, <2>2
  <1>13. ASSUME NEW t \in Sessions, t.at # "finalize" PROVE Advance(t).pc \notin {"work", "save"}
    BY <1>13, AdvanceFollows
  <1>14. ASSUME NEW t \in Sessions, t.at = "finalize" PROVE Advance(t).pc \notin {"work", "save"}
    <2>1. Advance(t) = Return(t, "none")
      BY <1>14 DEF Advance
    <2> QED BY <2>1 DEF Return, Idle
  <1>15. ~FinishStage(w) /\ ~TestStage(w)
    <2>1. Advance(s).pc \notin {"work", "save"}
      BY <1>1, <1>13, <1>14
    <2>2. [s EXCEPT !.pc = "begin"].pc = "begin"
      BY <1>1 DEF Sessions
    <2>3. FinishStage(w) \/ TestStage(w) =>
            \E x \in {Advance(s), [s EXCEPT !.pc = "begin"]} : sess' = [sess EXCEPT ![w] = x]
      BY DEF FinishStage, TestStage
    <2> QED BY <1>1, <2>1, <2>2, <2>3
  <1>16. ~SnapshotsReady(w)
    <2> DEFINE t == [s EXCEPT !.prep = TRUE]
               u == [t EXCEPT !.pc = "finish"]
    <2>1. t \in Sessions /\ u.pc = "finish"
      BY <1>1 DEF Sessions
    <2>2. SnapshotsReady(w) =>
            \E x \in {Advance(t), [s EXCEPT !.prep = TRUE, !.pc = "finish"]} :
              sess' = [sess EXCEPT ![w] = x]
      BY DEF SnapshotsReady
    <2>3. [s EXCEPT !.prep = TRUE, !.pc = "finish"].pc = "finish"
      BY <1>1 DEF Sessions
    <2> HIDE DEF t
    <2> QED BY <1>1, <1>13, <1>14, <2>1, <2>2, <2>3
  <1>17. ASSUME NEW r \in Runs, Claim(w, r) PROVE FALSE
    BY <1>17, ClaimRow
  <1>18. ASSUME NEW c \in Candidates, PrepareItem(w, c) \/ StartItem(w, c) \/ TaskEnds(w, c)
         PROVE  FALSE
    <2>1. s.at \in {"step1", "step2", "step3", "step4"}
      BY <1>18, TaskWorks DEF PrepareItem, StartItem, Preparing
    <2> QED BY <1>18, <2>1, ItemFollows
  <1> QED BY <1>5, <1>6, <1>7, <1>8, <1>10, <1>11, <1>12, <1>15, <1>16, <1>17, <1>18, SessionWriter
          DEF WorkerStep

\* While a worker freezes items, nobody else writes the ones left to it.
LEMMA LeftAlone ==
    ASSUME ConstantsAssumption, TypeOK, SettledInv, LeaseInv, [Next]_vars,
           NEW w \in Workers, sess[w].pc \in {"work", "save"}, sess[w].at = "preparing",
           NEW c \in Candidates
    PROVE  LET r == sess[w].run IN
           istat'[r][c] = istat[r][c] /\ (SameItem(r, c) \/ c \notin sess'[w].todo)
  <1> DEFINE r == sess[w].run
  <1>1. r \in Runs /\ sess[w].pc # "idle"
    BY Busy
  <1>2. ASSUME NEW u \in Workers, sess[u].run = r,
               StopRun(u) \/ PrepareItem(u, c) \/ StartItem(u, c) \/ TaskEnds(u, c)
        PROVE  FALSE
    <2>1. u = w
      BY <1>1, <1>2, OnlyWorker, TaskWorks
    <2> QED BY <1>2, <2>1, TaskWorks DEF StopRun, PrepareItem, StartItem, Preparing, At
  <1>3. ASSUME NEW u \in Workers, Continues(u, r, c) PROVE FALSE
    BY <1>2, <1>3 DEF Continues, TaskEnds
  <1>4. ASSUME NEW u \in Workers, SavesCase(u, r, c) PROVE c \notin sess'[w].todo
    BY <1>1, <1>4, OnlyWorker DEF SavesCase
  <1>5. ASSUME NEW u \in Workers, SaveArtifact(u, c), sess[u].run = r PROVE FALSE
    BY <1>1, <1>5, OnlyWorker, TaskWorks
  <1> QED BY <1>1, <1>2, <1>3, <1>4, <1>5, StatusStep, SnapshotStep, OnlyWorker

\* What a worker passes over covers all that a later read would find unavailable, as
\* long as the workflow has not moved on.
LEMMA ViewKept ==
    ASSUME ConstantsAssumption, TypeOK, SnapshotInv, [Next]_vars,
           NEW r \in Runs, NEW c \in Candidates, SameItem(r, c), istat[r][c] # "absent",
           NEW view, ~revisionChanged(r, c) => Unavailable(c) \subseteq view
    PROVE  (~revisionChanged(r, c))' => Unavailable(c)' \subseteq view
  <1>1. Expected(r, c)' = Expected(r, c)
    BY DEF SameItem, Expected
  <1>2. ASSUME flow'[c].rev = Expected(r, c) PROVE Unavailable(c)' \subseteq view
    <2>1. Expected(r, c) <= flow[c].rev /\ flow[c].rev \in Nat
      BY RevisionStep DEF SnapshotInv, Row
    <2>2. flow[c].rev = Expected(r, c) /\ ~Voids(flow[c], flow'[c])
      BY <1>2, <2>1, RevisionStep, ExpectedType DEF Voids
    <2> QED BY <2>2, ClosedStep DEF revisionChanged
  <1> QED BY <1>1, <1>2 DEF revisionChanged

\* The list of a worker that is freezing items already holds what it did.
LEMMA LooksKept ==
    ASSUME ConstantsAssumption, TypeOK, SettledInv, LeaseInv, SnapshotInv, [Next]_vars,
           NEW w \in Workers, sess[w].pc \in {"work", "save"}, sess[w].at = "preparing",
           sess'[w].run = sess[w].run, sess'[w].todo \subseteq sess[w].todo,
           \/ sess'[w].pc # "save"
           \/ sess[w].pc = "save" /\ sess'[w].cand = sess[w].cand
              /\ sess'[w].view = sess[w].view /\ sess'[w].todo = sess[w].todo
    PROVE  Looks(w)'
  <1>1. PICK r \in Runs : r = sess[w].run
    BY Busy
  <1>2. ASSUME NEW c \in sess'[w].todo
        PROVE  /\ Open(r, c) /\ ~snap[r][c].frozen /\ istat'[r][c] = istat[r][c]
               /\ SameItem(r, c) /\ c \in Candidates
    <2>1. c \in sess[w].todo /\ sess[w] \in Sessions
      BY <1>2 DEF TypeOK
    <2>2. c \in Candidates
      BY <2>1 DEF Sessions
    <2> QED BY <1>1, <1>2, <2>1, <2>2, LeftAlone DEF SnapshotInv, Looks
  <1>3. \A c \in sess'[w].todo : Open(r, c)' /\ ~snap'[r][c].frozen
    BY <1>2 DEF Open, SameItem
  <1>4. ASSUME sess'[w].pc = "save", NEW c \in sess'[w].cand
        PROVE  /\ c \in sess'[w].todo
               /\ (~revisionChanged(r, c))' => Unavailable(c)' \subseteq sess'[w].view
    <2>1. /\ c \in sess'[w].todo
          /\ ~revisionChanged(r, c) => Unavailable(c) \subseteq sess[w].view
          /\ sess'[w].view = sess[w].view
      BY <1>1, <1>4 DEF SnapshotInv, Looks
    <2>2. istat[r][c] # "absent" /\ SameItem(r, c) /\ c \in Candidates
      BY <1>2, <2>1 DEF Open, OpenItem
    <2> QED BY <2>1, <2>2, ViewKept
  <1> QED BY <1>1, <1>3, <1>4 DEF Looks

\* Whoever takes a step, the worker that prepares a run knows what is left to it.
LEMMA LooksNext ==
    ASSUME ConstantsAssumption, TypeOK, SettledInv, SettledInv', LeaseInv, OutcomeInv,
           SnapshotInv, [Next]_vars, NEW w \in Workers
    PROVE  Looks(w)'
  <1>1. sess[w] \in Sessions /\ sess \in [Workers -> Sessions]
    BY DEF TypeOK
  <1>2. sess'[w].pc = "save" => sess'[w].at = "preparing"
    BY DEF SettledInv, Evidence
  <1>3. CASE ~(sess'[w].pc \in {"work", "save"} /\ sess'[w].at = "preparing")
    BY <1>2, <1>3 DEF Looks
  <1>4. CASE /\ sess'[w].pc \in {"work", "save"} /\ sess'[w].at = "preparing"
             /\ sess'[w] = sess[w]
    BY <1>4, LooksKept
  <1>5. CASE Heartbeat(w) /\ sess'[w].pc \in {"work", "save"} /\ sess'[w].at = "preparing"
    <2> DEFINE b == Owns(w) /\ ~run[sess[w].run].cancel
               s == [sess[w] EXCEPT !.ctx = b]
    <2>1. sess' = [sess EXCEPT ![w] = s]
      BY <1>5 DEF Heartbeat
    <2>2. /\ s.run = sess[w].run /\ s.todo = sess[w].todo /\ s.pc = sess[w].pc
          /\ s.at = sess[w].at /\ s.cand = sess[w].cand /\ s.view = sess[w].view
      BY <1>1 DEF Sessions
    <2> HIDE DEF s
    <2>3. sess'[w] = s
      BY <1>1, <2>1
    <2> QED BY <1>5, <2>2, <2>3, LooksKept
  <1>6. CASE ListItems(w) /\ sess'[w].at = "preparing"
    <2>1. PICK r \in Runs : r = sess[w].run
      BY <1>6, Busy DEF ListItems, At
    <2> DEFINE open == {c \in Scope[r] : Open(r, c)}
               left == {c \in open : ~snap[r][c].frozen}
               todo == CASE sess[w].at = "preparing" -> left
                         [] sess[w].at = "step4" -> open
                         [] OTHER -> Scope[r]
               pc == IF sess[w].at = "step4" /\ todo = {} THEN "finish" ELSE "work"
               s == [sess[w] EXCEPT !.todo = todo, !.pc = pc]
    <2>2. sess' = [sess EXCEPT ![w].todo = todo, ![w].pc = pc] /\ UNCHANGED candidateRows
      BY <1>6, <2>1 DEF ListItems
    <2> HIDE DEF todo, pc
    <2>3. /\ sess'[w].at = sess[w].at /\ sess'[w].pc = pc /\ sess'[w].run = r
          /\ sess'[w].todo = todo
      BY <1>1, <2>1, <2>2 DEF Sessions
    <2>4. todo = left /\ pc # "save"
      BY <1>6, <2>3 DEF todo, pc
    <2>5. \A c \in left : Open(r, c)' /\ ~snap'[r][c].frozen
      BY <2>2 DEF Open, candidateRows
    <2> HIDE DEF left
    <2> QED BY <2>3, <2>4, <2>5 DEF Looks
  <1>7. CASE LookAtCase(w)
    <2>1. PICK r \in Runs : r = sess[w].run
      BY <1>7, Busy DEF LookAtCase, At
    <2>2. PICK c \in sess[w].todo :
            /\ sess' = [sess EXCEPT ![w].pc = "save", ![w].cand = {c}, ![w].view = Unavailable(c)]
            /\ UNCHANGED candidateRows
      BY <1>7 DEF LookAtCase
    <2>3. /\ sess'[w].run = r /\ sess'[w].todo = sess[w].todo /\ sess'[w].cand = {c}
          /\ sess'[w].view = Unavailable(c)
      BY <1>1, <2>1, <2>2 DEF Sessions
    <2>4. sess[w].pc = "work" /\ sess[w].at = "preparing"
      BY <1>7 DEF LookAtCase, At
    <2>5. \A d \in sess[w].todo : Open(r, d) /\ ~snap[r][d].frozen
      BY <2>1, <2>4 DEF SnapshotInv, Looks
    <2>6. \A d \in sess[w].todo : Open(r, d)' /\ ~snap'[r][d].frozen
      BY <2>2, <2>5 DEF Open, candidateRows
    <2>7. Unavailable(c)' = Unavailable(c)
      BY <2>2 DEF Unavailable, IsOpen, candidateRows
    <2> QED BY <2>3, <2>6, <2>7 DEF Looks
  <1>8. CASE SaveCase(w)
    <2>1. sess[w].pc = "save"
      BY <1>8 DEF SaveCase, At
    <2>2. sess[w].at = "preparing"
      BY <2>1 DEF SettledInv, Evidence
    <2>3. PICK c \in sess[w].cand :
            sess' = [sess EXCEPT ![w].pc = "work", ![w].todo = @ \ {c},
                                 ![w].cand = {}, ![w].view = {}]
      BY <1>8 DEF SaveCase
    <2>4. /\ sess'[w].run = sess[w].run /\ sess'[w].todo \subseteq sess[w].todo
          /\ sess'[w].pc = "work"
      BY <1>1, <2>3 DEF Sessions
    <2> QED BY <2>1, <2>2, <2>4, LooksKept
  <1> QED BY <1>3, <1>4, <1>5, <1>6, <1>7, <1>8, LookStep

\* Initially there are no items.
LEMMA SnapshotInit ==
    ASSUME Init PROVE SnapshotInv
  <1>1. \A w \in Workers : sess[w] = Idle
    BY DEF Init
  <1>2. ASSUME NEW r \in Runs, NEW c \in Candidates PROVE Row(r, c)
    <2>1. istat[r][c] = "absent" /\ snap[r][c] = NoSnapshot /\ item[r][c].prepared = 0
      BY DEF Init
    <2> QED BY <2>1 DEF Row, NoSnapshot
  <1>3. ASSUME NEW w \in Workers, NEW c \in Candidates PROVE Goroutine(w, c)
    <2>1. task[w][c] = NoTask
      BY DEF Init
    <2> QED BY <2>1, NoTaskIsTask DEF Goroutine
  <1>4. ASSUME NEW w \in Workers PROVE Looks(w)
    BY <1>1 DEF Looks, Idle
  <1> QED BY <1>2, <1>3, <1>4 DEF SnapshotInv

\* Whoever takes a step, items, goroutines and workers agree.
LEMMA SnapshotNext ==
    ASSUME ConstantsAssumption, TypeOK, SettledInv, SettledInv', Slow = {}, LeaseInv,
           OutcomeInv, SnapshotInv, [Next]_vars
    PROVE  SnapshotInv'
  BY RowNext, GoroutineNext, LooksNext DEF SnapshotInv

\* Items, goroutines and the preparing worker agree, although the snapshot of an item
\* is read and saved outside any transaction and kept in memory for the whole of a
\* model call.
THEOREM SnapshotInvariant ==
    ASSUME Slow = {}
    PROVE  Spec => [](TypeOK /\ SettledInv /\ LeaseInv /\ OutcomeInv /\ SnapshotInv)
  <1>1. Init => SnapshotInv
    BY SnapshotInit
  <1>2. TypeOK /\ SettledInv /\ SettledInv' /\ LeaseInv /\ OutcomeInv /\ SnapshotInv
          /\ [Next]_vars => SnapshotInv'
    BY SnapshotNext, ConstantsAssumption
  <1> QED BY <1>1, <1>2, LeaseInvariant, PTL DEF Spec

\* An item is skipped as manually changed only if the workflow has in fact moved on
\* (skipped_manual_change in processing.go and preparation.go): a restart, a second
\* goroutine or a lost claim does not skip an untouched candidate.
THEOREM SkippedItemsHaveChanged ==
    ASSUME Slow = {} PROVE Spec => []SkipOnlyAfterChange
  <1>1. SnapshotInv => SkipOnlyAfterChange
    BY DEF SnapshotInv, Row, SkipOnlyAfterChange
  <1> QED BY <1>1, SnapshotInvariant, PTL

\* What a restart resumes from is usable: prepareRunSnapshots, the continuation after
\* a rejection and the late save of an artifact leave the frozen resume prepared, and
\* its application open unless the workflow has moved on.
THEOREM ResumedItemsAreUsable ==
    ASSUME Slow = {} PROVE Spec => []ResumableItem
  <1>1. SnapshotInv => ResumableItem
    <2> SUFFICES ASSUME SnapshotInv, NEW r \in Runs, NEW c \in Scope[r],
                        snap[r][c].frozen, ~revisionChanged(r, c)
                 PROVE  /\ item[r][c].prepared = snap[r][c].cur
                        /\ snap[r][c].cur # 0 => IsOpen(c, snap[r][c].cur)
      BY DEF ResumableItem
    <2>1. c \in Candidates
      BY ConstantsAssumption DEF ConstantsAssumption
    <2>2. Row(r, c)
      BY <2>1 DEF SnapshotInv
    <2> QED BY <2>2 DEF Row, Unavailable, IsOpen
  <1> QED BY <1>1, SnapshotInvariant, PTL

\* A decision is committed only at the revision the item was submitted or continued at
\* (processItem compares the revision it claimed at; nothing else does): whoever edits,
\* assigns or imports in between wins.
THEOREM DecisionsAreOnTime ==
    ASSUME Slow = {} PROVE Spec => DecisionOnExpectedRevision
  <1>1. SnapshotInv /\ TypeOK /\ [Next]_vars =>
          [\A r \in Runs, c \in Candidates :
             decisions'[r][c] # decisions[r][c] => ~revisionChanged(r, c)]_vars
    <2> SUFFICES ASSUME SnapshotInv, TypeOK, [Next]_vars, NEW r \in Runs, NEW c \in Candidates,
                        decisions'[r][c] # decisions[r][c]
                 PROVE  ~revisionChanged(r, c)
      OBVIOUS
    <2>1. PICK w \in Workers, d \in Candidates :
             AcceptItem(w, d) \/ RejectItem(w, d) \/ FailItem(w, d)
      BY DecisionWriter
    <2>2. /\ Fresh(w, d) /\ task[w][d].on
          /\ \E p : Decided(sess[w].run, d, p)
      BY <2>1 DEF AcceptItem, RejectItem, FailItem, Committing, Ending
    <2>3. sess[w].run = r /\ d = c
      BY <2>2 DEF Decided, TypeOK
    <2> QED BY <2>2, <2>3 DEF SnapshotInv, Goroutine, Fresh, revisionChanged
  <1> QED BY <1>1, SnapshotInvariant, PTL DEF Spec, DecisionOnExpectedRevision

-----------------------------------------------------------------------------
(* The stages before step4.  A worker that resumes a run does not prepare  *)
(* items again, so that nothing but processItem writes a claimed item.     *)

Early == {"step1", "step2", "step3"}
Before(s) == CASE s = "step2" -> {"step1"}
               [] s = "step3" -> {"step1", "step2"}
               [] s = "step4" -> Early
               [] OTHER -> {}
AtWork == {"begin", "mark", "list", "work"}

\* The stages of r among steps have succeeded, where st holds the rows of stage.
Prepared(r, steps, st) == \A x \in steps : HasStage(r, x) => st[r][x] = "success"

\* A worker has prepared what comes before its step, and works on a step of its run
\* that has not succeeded yet.
Walk(s, st) ==
    s.pc \in Executing =>
        /\ Prepared(s.run, Before(s.at), st)
        /\ s.at \in Early => /\ HasStage(s.run, s.at)
                             /\ s.pc \in AtWork => st[s.run][s.at] # "success"

\* A session that stays at its step.
LEMMA QuietWalk ==
    ASSUME NEW s, NEW t, NEW st, Walk(s, st), s.pc \in Executing, t.run = s.run, t.at = s.at,
           t.pc \in AtWork => s.pc \in AtWork \/ s.at \notin Early
    PROVE  Walk(t, st)
  BY DEF Walk

\* The next step of the walk comes after the ones that are done.
LEMMA AdvanceWalk ==
    ASSUME ConstantsAssumption, NEW s \in Sessions, s.run \in Runs, NEW st,
           Prepared(s.run, Before(s.at), st),
           s.at \in Early => HasStage(s.run, s.at) /\ st[s.run][s.at] = "success"
    PROVE  Walk(Advance(s), st)
  <1> DEFINE r == s.run
             t == Advance(s)
             next == IF NextStep(r, s.at) = "preparing" /\ s.prep
                     THEN FirstStep(r) ELSE NextStep(r, s.at)
  <1>1. CASE s.at = "finalize"
    <2>1. t = Return(s, "none")
      BY <1>1 DEF Advance
    <2> QED BY <2>1 DEF Walk, Return, Idle, Executing
  <1>2. CASE s.at # "finalize"
    <2>1. t.run = r /\ t.at = next /\ t.pc = EntryPc(s, r, next)
      BY <1>2, AdvanceFollows
    <2>2. Kind[r] \in {"all", "step1", "step2", "step3", "step4"}
      BY DEF ConstantsAssumption, Kinds
    <2>3. next \in Early => HasStage(r, next)
      <3>1. FirstStep(r) \in Early => HasStage(r, FirstStep(r))
        BY <2>2 DEF FirstStep, HasStage, Early
      <3>2. NextStep(r, s.at) \in Early => HasStage(r, NextStep(r, s.at))
        <4>1. CASE s.at = "preparing"
          BY <3>1, <4>1 DEF NextStep
        <4>2. CASE s.at \in Early
          BY <2>2, <4>2 DEF NextStep, HasStage, Early
        <4>3. CASE s.at \notin Early \cup {"preparing"}
          BY <4>3 DEF NextStep, Early
        <4> QED BY <4>1, <4>2, <4>3
      <3> QED BY <3>1, <3>2
    <2>4. Prepared(r, Before(next), st)
      <3>1. Prepared(r, Before(FirstStep(r)), st)
        BY <2>2 DEF Prepared, FirstStep, HasStage, Before, Early
      <3>2. Prepared(r, Before(NextStep(r, s.at)), st)
        <4>1. CASE s.at = "preparing"
          BY <3>1, <4>1 DEF NextStep
        <4>2. CASE s.at = "step1"
          BY <4>2 DEF NextStep, Before, Prepared, Early
        <4>3. CASE s.at = "step2"
          BY <4>3 DEF NextStep, Before, Prepared, Early
        <4>4. CASE s.at = "step3"
          BY <4>4 DEF NextStep, Before, Prepared, Early
        <4>5. CASE s.at \notin Early \cup {"preparing"}
          BY <4>5 DEF NextStep, Before, Prepared, Early
        <4> QED BY <4>1, <4>2, <4>3, <4>4, <4>5 DEF Early
      <3> QED BY <3>1, <3>2
    <2>5. next \in Early => t.pc = "test"
      BY <2>1 DEF EntryPc, Early
    <2> HIDE DEF t, next
    <2>6. Walk(t, st)
      BY <2>1, <2>3, <2>4, <2>5 DEF Walk, AtWork
    <2> QED BY <2>6 DEF t
  <1> QED BY <1>1, <1>2

\* A stage before step4 that has succeeded is not opened again.
LEMMA StageKept ==
    ASSUME TypeOK, [Next]_vars, NEW r \in Runs, ~CreateRun(r), NEW x \in Early,
           stage[r][x] = "success"
    PROVE  stage'[r][x] = "success"
  <1>0. x \in Steps /\ stage \in [Runs -> [Steps -> StageStatus]]
    BY DEF Early, Steps, TypeOK
  <1>1. CASE UNCHANGED stage
    BY <1>1
  <1>2. ASSUME NEW w \in Workers, MarkStage(w) PROVE stage'[r][x] = "success"
    <2>1. stage' = [stage EXCEPT ![sess[w].run][sess[w].at] =
                      IF @ = "success" THEN @ ELSE "running"]
      BY <1>2 DEF MarkStage
    <2> QED BY <1>0, <2>1
  <1>3. ASSUME NEW w \in Workers, FinishStage(w) PROVE stage'[r][x] = "success"
    <2> DEFINE q == sess[w].run
               s == sess[w].at
               y == CASE s = "step4" /\ run[q].failed -> "partial_failed"
                      [] s = "step4" /\ ~run[q].failed /\ run[q].attention -> "needs_attention"
                      [] OTHER -> "success"
    <2>1. stage' = [stage EXCEPT ![q][s] = y]
      BY <1>3 DEF FinishStage
    <2>2. s = x => y = "success"
      BY DEF Early
    <2> HIDE DEF y
    <2> QED BY <1>0, <2>1, <2>2
  <1>4. ASSUME NEW w \in Workers, StopRun(w) PROVE stage'[r][x] = "success"
    <2> DEFINE q == sess[w].run
               status == IF sess[w].err = "agent_cancelled" THEN "cancelled" ELSE "failed"
               g == [y \in Steps |-> CASE stage[q][y] = "running" -> status
                                       [] stage[q][y] = "pending" -> "skipped"
                                       [] OTHER -> stage[q][y]]
    <2>1. stage' = [stage EXCEPT ![q] = g]
      BY <1>4 DEF StopRun
    <2>2. stage[q][x] = "success" => g[x] = "success"
      BY <1>0
    <2> HIDE DEF g
    <2> QED BY <1>0, <2>1, <2>2
  <1>5. ASSUME NEW q \in Runs, CreateRun(q) PROVE stage'[r][x] = "success"
    <2>1. \E g : stage' = [stage EXCEPT ![q] = g]
      BY <1>5 DEF CreateRun
    <2> QED BY <1>0, <1>5, <2>1
  <1>6. ASSUME NEW w \in Workers, WorkerStep(w)
        PROVE  UNCHANGED stage \/ MarkStage(w) \/ FinishStage(w) \/ StopRun(w)
    BY <1>6 DEF WorkerStep, ReadRun, BeginStage, TestStage, Initialize, Abort, ListItems,
       LookAtCase, SaveCase, SnapshotsReady, ItemsPrepared, RoundDone, Finalize, CheckLease,
       Decide, Tally, JobDone, PrepareItem, PrepareItemFails, StartItem
  <1>7. ASSUME NEW w \in Workers, NEW c \in Candidates,
               TaskEnds(w, c) \/ RenewClaim(w, c) \/ SaveArtifact(w, c)
        PROVE  UNCHANGED stage
    BY <1>7 DEF TaskEnds, DropResult, SkipResult, CancelItem, CommitRefused, AcceptItem,
       RejectItem, FailItem, TaskInterrupted, RenewClaim, SaveArtifact
  <1>8. ASSUME NEW w \in Workers, StepFails(w) \/ Heartbeat(w) \/ Crash(w) PROVE UNCHANGED stage
    BY <1>8 DEF StepFails, Heartbeat, Crash
  <1>9. ASSUME NEW q \in Runs, LeaseLapses(q) \/ CancelRun(q) \/ \E w \in Workers : Claim(w, q)
        PROVE  UNCHANGED stage
    BY <1>9 DEF LeaseLapses, CancelRun, Claim
  <1>10. ASSUME NEW c \in Candidates,
                \/ ClaimLapses(c) \/ \E v \in Volunteers : ManualAssign(c, v)
                \/ MutateAttempt(c) \/ EditCandidate(c) \/ ImportResumes(c) \/ AllocationAssigns(c)
         PROVE  UNCHANGED stage
    BY <1>10 DEF ClaimLapses, ManualAssign, MutateAttempt, EditCandidate, ImportResumes,
       AllocationAssigns, Manual, Outside
  <1>11. CASE UNCHANGED vars
    BY <1>11, <1>1 DEF vars
  <1> QED BY <1>1, <1>2, <1>3, <1>4, <1>5, <1>6, <1>7, <1>8, <1>9, <1>10, <1>11
          DEF Next, Environment

\* What a worker does itself keeps it on its walk.
LEMMA WalkSession ==
    ASSUME ConstantsAssumption, TypeOK, SettledInv, OutcomeInv, [Next]_vars, NEW w \in Workers,
           sess'[w] # sess[w], Walk(sess[w], stage)
    PROVE  Walk(sess'[w], stage')
  <1> DEFINE s == sess[w]
             r == sess[w].run
  <1>1. s \in Sessions /\ sess \in [Workers -> Sessions]
    BY DEF TypeOK
  <1>2. ASSUME sess'[w].pc \notin Executing PROVE Walk(sess'[w], stage')
    BY <1>2 DEF Walk
  <1>3. ASSUME s.pc \in Executing, sess'[w].run = r, sess'[w].at = s.at, stage' = stage,
               sess'[w].pc \in AtWork => s.pc \in AtWork \/ s.at \notin Early
        PROVE  Walk(sess'[w], stage')
    BY <1>3, QuietWalk
  <1>4. ASSUME NEW e, sess'[w] = Return(s, e) \/ Fail(w, e) PROVE Walk(sess'[w], stage')
    <2>1. sess'[w] = Return(s, e)
      BY <1>1, <1>4 DEF Fail
    <2>2. Return(s, e).pc \notin Executing
      BY DEF Return, Idle, Executing
    <2> QED BY <1>2, <2>1, <2>2
  <1>5. ASSUME NEW p, Goto(w, p), stage' = stage, s.pc \in Executing,
               p \in AtWork => s.pc \in AtWork
        PROVE  Walk(sess'[w], stage')
    BY <1>3, <1>5, GotoFollows
  <1>6. CASE ReadRun(w)
    <2> DEFINE u == [s EXCEPT !.pc = "finish", !.at = "queued",
                              !.init = run[r].init, !.prep = run[r].prep]
    <2>1. \/ \E e \in {"none", "agent_cancelled"} : sess'[w] = Return(s, e)
          \/ sess'[w] = u
      BY <1>1, <1>6 DEF ReadRun
    <2>2. u.at = "queued"
      BY <1>1 DEF Sessions
    <2> HIDE DEF u
    <2>3. sess'[w] = u => Walk(sess'[w], stage')
      BY <2>2 DEF Walk, Prepared, Before, Early
    <2> QED BY <1>4, <2>1, <2>3
  <1>7. CASE BeginStage(w)
    BY <1>4, <1>5, <1>7 DEF BeginStage, At, Executing, AtWork
  <1>8. CASE MarkStage(w)
    <2>1. /\ Goto(w, "work") \/ Goto(w, "list")
          /\ stage' = [stage EXCEPT ![r][s.at] = IF @ = "success" THEN @ ELSE "running"]
          /\ s.pc = "mark"
      BY <1>8 DEF MarkStage, At
    <2>2. r \in Runs /\ s.at \in Steps
      BY <1>1, <2>1, Busy DEF Sessions
    <2>3. sess'[w].run = r /\ sess'[w].at = s.at
      BY <2>1, GotoFollows
    <2>4. Prepared(r, Before(s.at), stage) /\ (s.at \in Early => HasStage(r, s.at))
          /\ (s.at \in Early => stage[r][s.at] # "success")
      BY <2>1 DEF Walk, Executing, AtWork
    <2>5. s.at \in Early => stage'[r][s.at] # "success"
      BY <2>1, <2>2, <2>4 DEF TypeOK
    <2>6. ~CreateRun(r)
      BY <2>1 DEF SettledInv, Evidence, CreateRun
    <2>7. Prepared(r, Before(s.at), stage')
      <3>1. Before(s.at) \subseteq Early
        BY DEF Before, Early
      <3> QED BY <2>2, <2>4, <2>6, <3>1, StageKept DEF Prepared
    <2> QED BY <2>3, <2>4, <2>5, <2>7 DEF Walk
  <1>9. CASE FinishStage(w)
    <2> DEFINE y == CASE s.at = "step4" /\ run[r].failed -> "partial_failed"
                      [] s.at = "step4" /\ ~run[r].failed /\ run[r].attention -> "needs_attention"
                      [] OTHER -> "success"
    <2>1. s.pc = "finish" /\ sess'[w] = Advance(s) /\ stage' = [stage EXCEPT ![r][s.at] = y]
      BY <1>1, <1>9 DEF FinishStage, At
    <2>2. r \in Runs /\ s.at \in Steps
      BY <1>1, <2>1, Busy DEF Sessions
    <2>3. s.at \in Early => y = "success"
      BY DEF Early
    <2> HIDE DEF y
    <2>4. s.at \in Early => stage'[r][s.at] = "success"
      BY <2>1, <2>2, <2>3 DEF TypeOK
    <2>5. Prepared(r, Before(s.at), stage) /\ (s.at \in Early => HasStage(r, s.at))
      BY <2>1 DEF Walk, Executing
    <2>6. ~CreateRun(r)
      BY <2>1 DEF SettledInv, Evidence, CreateRun
    <2>7. Prepared(r, Before(s.at), stage')
      <3>1. Before(s.at) \subseteq Early
        BY DEF Before, Early
      <3> QED BY <2>2, <2>5, <2>6, <3>1, StageKept DEF Prepared
    <2> QED BY <1>1, <2>1, <2>2, <2>4, <2>5, <2>7, AdvanceWalk
  <1>10. CASE TestStage(w)
    <2> DEFINE u == [s EXCEPT !.pc = "begin"]
    <2>1. /\ IF stage[r][s.at] = "success" THEN sess'[w] = Advance(s) ELSE sess'[w] = u
          /\ s.pc = "test" /\ stage' = stage
      BY <1>1, <1>10 DEF TestStage, At
    <2>2. u.run = r /\ u.at = s.at
      BY <1>1 DEF Sessions
    <2> HIDE DEF u
    <2>3. Prepared(r, Before(s.at), stage) /\ (s.at \in Early => HasStage(r, s.at)) /\ r \in Runs
      BY <2>1, Busy DEF Walk, Executing
    <2>4. CASE stage[r][s.at] = "success"
      BY <1>1, <2>1, <2>3, <2>4, AdvanceWalk
    <2>5. CASE stage[r][s.at] # "success"
      BY <2>1, <2>2, <2>3, <2>5 DEF Walk
    <2> QED BY <2>4, <2>5
  <1>11. CASE Initialize(w)
    <2> DEFINE u == [s EXCEPT !.pc = "finish", !.init = TRUE]
    <2>1. sess'[w] = u /\ stage' = stage /\ s.pc = "work"
      BY <1>1, <1>11 DEF Initialize, At
    <2>2. u.run = r /\ u.at = s.at /\ u.pc = "finish"
      BY <1>1 DEF Sessions
    <2> HIDE DEF u
    <2> QED BY <1>3, <2>1, <2>2 DEF Executing, AtWork
  <1>12. CASE StepFails(w) \/ Abort(w) \/ \E c \in Candidates : PrepareItemFails(w, c)
    <2>1. \E e : Fail(w, e)
      BY <1>12 DEF StepFails, Abort, PrepareItemFails
    <2> QED BY <1>4, <2>1
  <1>13. CASE ListItems(w)
    <2> DEFINE open == {c \in Scope[r] : Open(r, c)}
               todo == CASE s.at = "preparing" -> {c \in open : ~snap[r][c].frozen}
                         [] s.at = "step4" -> open
                         [] OTHER -> Scope[r]
               p == IF s.at = "step4" /\ todo = {} THEN "finish" ELSE "work"
    <2>1. /\ sess' = [sess EXCEPT ![w].todo = todo, ![w].pc = p]
          /\ stage' = stage /\ s.pc = "list"
      BY <1>13 DEF ListItems, At
    <2> HIDE DEF todo, p
    <2>2. sess'[w].run = r /\ sess'[w].at = s.at
      BY <1>1, <2>1 DEF Sessions
    <2> QED BY <1>3, <2>1, <2>2 DEF Executing, AtWork
  <1>14. CASE LookAtCase(w)
    <2>1. /\ \E c \in s.todo : sess' = [sess EXCEPT ![w].pc = "save", ![w].cand = {c},
                                                   ![w].view = Unavailable(c)]
          /\ stage' = stage /\ s.pc = "work"
      BY <1>14 DEF LookAtCase, At
    <2>2. sess'[w].run = r /\ sess'[w].at = s.at
      BY <1>1, <2>1 DEF Sessions
    <2> QED BY <1>3, <2>1, <2>2 DEF Executing, AtWork
  <1>15. CASE SaveCase(w)
    <2>1. /\ \E c \in s.cand : sess' = [sess EXCEPT ![w].pc = "work", ![w].todo = @ \ {c},
                                                   ![w].cand = {}, ![w].view = {}]
          /\ stage' = stage /\ s.pc = "save"
      BY <1>15 DEF SaveCase, At
    <2>2. sess'[w].run = r /\ sess'[w].at = s.at
      BY <1>1, <2>1 DEF Sessions
    <2>3. s.at = "preparing"
      BY <2>1 DEF SettledInv, Evidence
    <2> QED BY <1>3, <2>1, <2>2, <2>3 DEF Executing, Early
  <1>16. CASE SnapshotsReady(w)
    <2> DEFINE t == [s EXCEPT !.prep = TRUE, !.pc = "finish"]
               u == [s EXCEPT !.prep = TRUE]
    <2>1. /\ sess'[w] = t \/ sess'[w] = Advance(u)
          /\ s.at = "preparing" /\ s.pc = "work" /\ stage' = stage
      BY <1>1, <1>16 DEF SnapshotsReady, At
    <2>2. /\ t.pc = "finish" /\ t.run = r /\ t.at = s.at
          /\ u \in Sessions /\ u.run = r /\ u.at = s.at
      BY <1>1 DEF Sessions
    <2> HIDE DEF t, u
    <2>3. r \in Runs /\ Prepared(r, Before("preparing"), stage)
      BY <2>1, Busy DEF Prepared, Before, Early
    <2>4. Walk(Advance(u), stage)
      BY <2>1, <2>2, <2>3, AdvanceWalk DEF Early
    <2> QED BY <1>3, <2>1, <2>2, <2>4 DEF Executing, AtWork
  <1>17. CASE ItemsPrepared(w) \/ RoundDone(w) \/ Finalize(w)
    <2>1. /\ (\E e : Fail(w, e)) \/ Goto(w, "finish") \/ Goto(w, "list")
          /\ stage' = stage /\ s.pc = "work"
      BY <1>17 DEF ItemsPrepared, RoundDone, Finalize, Preparing, At
    <2> QED BY <1>4, <1>5, <2>1 DEF Executing, AtWork
  <1>18. CASE StopRun(w) \/ Tally(w)
    <2>1. Goto(w, "tally") \/ Goto(w, "done")
      BY <1>18 DEF StopRun, Tally
    <2> QED BY <1>2, <2>1, GotoFollows DEF Executing
  <1>19. CASE CheckLease(w) \/ Decide(w) \/ JobDone(w) \/ Crash(w)
    <2> DEFINE e == IF run[r].cancel THEN "agent_cancelled" ELSE s.err
               x == IF job[r].attempts = s.token /\ job[r].live
                    THEN [s EXCEPT !.pc = "decide"] ELSE Idle
               y == CASE e = "ctx" -> Idle
                      [] e = "none" -> [s EXCEPT !.pc = "done"]
                      [] OTHER -> [s EXCEPT !.pc = "stop", !.err = e]
    <2>1. x.pc \notin Executing /\ Idle.pc \notin Executing
      BY <1>1 DEF Sessions, Idle, Executing
    <2>2. y.pc \notin Executing
      <3> HIDE DEF e
      <3> QED BY <1>1 DEF Sessions, Idle, Executing
    <2>3. CheckLease(w) => sess'[w] = x
      BY <1>1 DEF CheckLease
    <2>4. Decide(w) => sess'[w] = y
      BY <1>1 DEF Decide
    <2>5. JobDone(w) \/ Crash(w) => sess'[w] = Idle
      BY <1>1 DEF JobDone, Crash
    <2> HIDE DEF e, x, y
    <2> QED BY <1>2, <1>19, <2>1, <2>2, <2>3, <2>4, <2>5
  <1>20. CASE Heartbeat(w)
    <2> DEFINE b == Owns(w) /\ ~run[r].cancel
               u == [s EXCEPT !.ctx = b]
    <2>1. sess' = [sess EXCEPT ![w] = u] /\ stage' = stage /\ s.pc \in Executing
      BY <1>20 DEF Heartbeat, Beating
    <2>2. u.run = r /\ u.at = s.at /\ u.pc = s.pc
      BY <1>1 DEF Sessions
    <2> HIDE DEF u
    <2>3. sess'[w] = u
      BY <1>1, <2>1
    <2> QED BY <1>3, <2>1, <2>2, <2>3
  <1>21. ASSUME NEW q \in Runs, Claim(w, q) PROVE Walk(sess'[w], stage')
    <2> DEFINE u == [Idle EXCEPT !.pc = "read", !.run = q, !.ctx = TRUE,
                                 !.token = job[q].attempts + 1]
    <2>1. sess' = [sess EXCEPT ![w] = u]
      BY <1>21 DEF Claim
    <2>2. u.at = "queued"
      BY DEF Idle
    <2> HIDE DEF u
    <2>3. sess'[w] = u
      BY <1>1, <2>1
    <2> QED BY <2>2, <2>3 DEF Walk, Prepared, Before, Early
  <1>22. ASSUME NEW c \in Candidates, PrepareItem(w, c) \/ StartItem(w, c) \/ TaskEnds(w, c)
         PROVE  Walk(sess'[w], stage')
    <2>1. stage' = stage
      BY <1>22 DEF PrepareItem, StartItem, TaskEnds, DropResult, SkipResult, CancelItem,
         CommitRefused, AcceptItem, RejectItem, FailItem, TaskInterrupted
    <2> QED BY <1>3, <1>22, <2>1, ItemFollows DEF Executing, AtWork
  <1> QED BY <1>6, <1>7, <1>8, <1>9, <1>10, <1>11, <1>12, <1>13, <1>14, <1>15, <1>16, <1>17,
          <1>18, <1>19, <1>20, <1>21, <1>22, SessionWriter DEF WorkerStep

\* Whoever takes a step, a worker stays on its walk.
LEMMA WalkNext ==
    ASSUME ConstantsAssumption, TypeOK, SettledInv, LeaseInv, OutcomeInv, [Next]_vars,
           NEW w \in Workers, Walk(sess[w], stage)
    PROVE  Walk(sess'[w], stage')
  <1>1. CASE sess'[w] # sess[w]
    BY <1>1, WalkSession
  <1>2. CASE sess'[w] = sess[w] /\ sess[w].pc \in Executing
    <2> DEFINE s == sess[w]
               r == sess[w].run
    <2>1. s.pc # "idle" /\ r \in Runs /\ ~CreateRun(r)
      <3>1. s.pc # "idle"
        BY <1>2 DEF Executing
      <3> QED BY <3>1, Busy DEF SettledInv, Evidence, CreateRun
    <2>2. Before(s.at) \subseteq Early /\ Early \subseteq Steps
      BY DEF Before, Early, Steps
    <2>3. Prepared(r, Before(s.at), stage')
      BY <1>2, <2>1, <2>2, StageKept DEF Walk, Prepared
    <2>4. ASSUME s.at \in Early, s.pc \in AtWork, stage'[r][s.at] = "success" PROVE FALSE
      <3>1. stage[r][s.at] # "success"
        BY <1>2, <2>4 DEF Walk
      <3>2. PICK u \in Workers : FinishStage(u) /\ sess[u].run = r
        BY <2>1, <2>2, <2>4, <3>1, StageStep
      <3>3. sess[u].pc = "finish"
        BY <3>2 DEF FinishStage, At
      <3>4. u = w
        BY <2>1, <3>2, <3>3, OneWorker
      <3> QED BY <2>4, <3>3, <3>4 DEF AtWork
    <2> QED BY <1>2, <2>3, <2>4 DEF Walk
  <1>3. CASE sess'[w] = sess[w] /\ sess[w].pc \notin Executing
    BY <1>3 DEF Walk
  <1> QED BY <1>1, <1>2, <1>3

-----------------------------------------------------------------------------
(* Claims.  A run that has a claim on a candidate, live or lapsed, has     *)
(* prepared its items and still expects the revision it claimed; as long   *)
(* as the claim is live, its item is open or allocation has the candidate. *)

Claimed(r, c) ==
    flow[c].claim = r =>
        /\ snap[r][c].frozen /\ ~revisionChanged(r, c)
        /\ Prepared(r, Early, stage)
        /\ istat[r][c] \in OpenItem \cup {"success"}
        /\ istat[r][c] = "success" => flow[c].held = "department" \/ ~flow[c].live
        /\ flow[c].live => /\ flow[c].held \notin Finished
                           /\ flow[c].held \in {"archived", "pool"} => Forced[r]

ClaimInv == /\ \A w \in Workers : Walk(sess[w], stage)
            /\ \A r \in Runs, c \in Candidates : Claimed(r, c)

\* While r keeps its claim on c, only allocation and the preparation of c change what
\* holds c, and the preparation by another run finds the claim lapsed.
Holding(r, c) ==
    flow'[c].claim = r =>
        \/ flow'[c].held = flow[c].held
        \/ /\ flow[c].held = "pool" /\ flow'[c].held = "department"
           /\ flow'[c].live = flow[c].live
        \/ /\ flow[c].held # "department" /\ flow'[c].live = flow[c].live
           /\ ~flow[c].live \/ \E w \in Workers : PrepareItem(w, c) /\ sess[w].run = r
LEMMA HoldPrepareItem ==
    ASSUME ConstantsAssumption, TypeOK, NEW r \in Runs, NEW c \in Candidates,
           flow[c].claim = r, NEW w \in Workers, NEW d \in Candidates, PrepareItem(w, d)
    PROVE  Holding(r, c)
  <1> DEFINE q == sess[w].run
             f == Touched(flow[c], snap[q][c].cur)
             next == {Archived(f), Freed(f), Freed(flow[c]),
                      AfterLastWish(flow[c], c, Unavailable(c)), flow[c]}
  <1>1. q \in Runs /\ flow[c] \in Workflows /\ r # NoRun
    BY Busy DEF PrepareItem, Preparing, At, TypeOK, ConstantsAssumption
  <1>2. CASE d # c
    <2>1. flow' = flow \/ \E g : flow' = [flow EXCEPT ![d] = g]
      BY DEF PrepareItem
    <2>2. flow'[c] = flow[c]
      BY <1>2, <2>1 DEF TypeOK
    <2> QED BY <2>2 DEF Holding
  <1>3. CASE d = c
    <2>1. \/ flow' = flow
          \/ \E g \in {Invalidated(flow[c]), flow[c]} : flow' = [flow EXCEPT ![c] = g]
          \/ /\ ~Retained(q, c) /\ ~ClaimedByOther(q, c)
             /\ \E g \in next : flow' = [flow EXCEPT ![c] = g]
      BY <1>3 DEF PrepareItem
    <2>2. Invalidated(flow[c]).held = flow[c].held
      BY <1>1, HeldHelpers
    <2>3. CASE ~Retained(q, c) /\ ~ClaimedByOther(q, c)
      <3>1. flow[c].held # "department" /\ (~flow[c].live \/ q = r)
        BY <1>1, <2>3 DEF Retained, ClaimedByOther
      <3>2. RowStep(c)
        BY <1>3, RowPrepareItem
      <3>3. flow'[c].claim = r => flow'[c].live = flow[c].live
        BY <1>1, <3>2 DEF RowStep, Same, Voids
      <3> QED BY <1>3, <3>1, <3>3 DEF Holding
    <2> HIDE DEF next
    <2>4. CASE flow' = flow \/ \E g \in {Invalidated(flow[c]), flow[c]} :
                                  flow' = [flow EXCEPT ![c] = g]
      BY <2>2, <2>4 DEF Holding, TypeOK
    <2> QED BY <2>1, <2>3, <2>4
  <1> QED BY <1>2, <1>3

\* A claim, its release and its renewal do not change what holds a candidate.
LEMMA HoldLease ==
    ASSUME TypeOK, NEW r \in Runs, NEW c \in Candidates, flow[c].claim = r,
           NEW d \in Candidates, NEW w \in Workers,
           StartItem(w, d) \/ StopRun(w) \/ CancelItem(w, d) \/ RenewClaim(w, d)
    PROVE  Holding(r, c)
  <1> DEFINE n == item[sess[w].run][d].tries + 1
  <1>1. \A x \in Candidates : flow[x] \in Workflows
    BY DEF TypeOK
  <1>2. \A x \in Candidates : /\ Invalidated(flow[x]).held = flow[x].held
                              /\ Unclaimed(flow[x]).held = flow[x].held
    BY <1>1, HeldHelpers
  <1>3. CASE StartItem(w, d)
    <2> DEFINE f == [flow[d] EXCEPT !.claim = sess[w].run, !.token = n, !.live = TRUE]
    <2>1. \/ flow' = flow
          \/ \E g \in {Invalidated(flow[d]), flow[d], f} : flow' = [flow EXCEPT ![d] = g]
      BY <1>3 DEF StartItem
    <2>2. f.held = flow[d].held
      BY <1>1 DEF Workflows
    <2> HIDE DEF f
    <2> QED BY <1>2, <2>1, <2>2 DEF Holding, TypeOK
  <1>4. CASE StopRun(w) \/ CancelItem(w, d)
    <2>1. flow'[c] = flow[c] \/ flow'[c] = Unclaimed(flow[c])
      <3>1. CASE StopRun(w)
        BY <3>1 DEF StopRun
      <3>2. CASE CancelItem(w, d)
        BY <3>2 DEF CancelItem, TypeOK
      <3> QED BY <1>4, <3>1, <3>2
    <2> QED BY <1>2, <2>1 DEF Holding
  <1>5. CASE RenewClaim(w, d)
    <2> DEFINE f == [flow[d] EXCEPT !.live = TRUE]
    <2>1. flow' = [flow EXCEPT ![d] = f]
      BY <1>5 DEF RenewClaim
    <2>2. f.held = flow[d].held
      BY <1>1 DEF Workflows
    <2> HIDE DEF f
    <2> QED BY <2>1, <2>2 DEF Holding, TypeOK
  <1> QED BY <1>3, <1>4, <1>5

\* Users void the claim of the candidate they touch; allocation assigns a member of
\* the pool.
LEMMA HoldOutside ==
    ASSUME ConstantsAssumption, TypeOK, NEW r \in Runs, NEW c \in Candidates, flow[c].claim = r,
           NEW d \in Candidates,
           \/ \E v \in Volunteers : ManualAssign(d, v)
           \/ MutateAttempt(d) \/ EditCandidate(d) \/ ImportResumes(d) \/ AllocationAssigns(d)
    PROVE  Holding(r, c)
  <1> DEFINE f == Invalidated(flow[c])
  <1>1. flow[c] \in Workflows /\ f \in Workflows /\ r # NoRun
    BY WorkflowUpdates DEF TypeOK, ConstantsAssumption
  <1>2. f.claim = NoRun /\ Freed(f).claim = NoRun
    BY <1>1, HeldHelpers
  <1>3. CASE d # c
    <2>1. \E g : flow' = [flow EXCEPT ![d] = g]
      BY DEF ManualAssign, MutateAttempt, EditCandidate, ImportResumes, AllocationAssigns
    <2>2. flow'[c] = flow[c]
      BY <1>3, <2>1 DEF TypeOK
    <2> QED BY <2>2 DEF Holding
  <1>4. ASSUME NEW v \in Volunteers, ManualAssign(c, v) PROVE Holding(r, c)
    <2> DEFINE i == Invalidated(Touched(flow[c], v))
               g == [i EXCEPT !.held = "department", !.on = v]
    <2>1. flow' = [flow EXCEPT ![c] = g]
      BY <1>4 DEF ManualAssign
    <2>2. Touched(flow[c], v) \in Workflows
      BY <1>1, WorkflowMoves DEF Ranks
    <2>3. i \in Workflows /\ i.claim = NoRun
      BY <2>2, WorkflowUpdates, HeldHelpers
    <2> HIDE DEF i
    <2>4. g.claim = NoRun
      BY <2>3 DEF Workflows
    <2> HIDE DEF g
    <2> QED BY <1>1, <2>1, <2>4 DEF Holding, TypeOK
  <1>5. CASE MutateAttempt(c)
    <2>1. Voids(flow[c], flow'[c])
      BY <1>5, RowOutside
    <2> QED BY <1>1, <2>1 DEF Holding, Voids
  <1>6. CASE EditCandidate(c) \/ ImportResumes(c)
    <2>1. \E g \in {f, Freed(f)} : flow' = [flow EXCEPT ![c] = g]
      BY <1>6 DEF EditCandidate, ImportResumes
    <2> HIDE DEF f
    <2> QED BY <1>1, <1>2, <2>1 DEF Holding, TypeOK
  <1>7. CASE AllocationAssigns(c)
    <2> DEFINE g == [flow[c] EXCEPT !.held = "department"]
    <2>1. flow' = [flow EXCEPT ![c] = g] /\ flow[c].held = "pool"
      BY <1>7 DEF AllocationAssigns
    <2>2. g.held = "department" /\ g.live = flow[c].live
      BY <1>1 DEF Workflows
    <2> HIDE DEF g
    <2> QED BY <2>1, <2>2 DEF Holding, TypeOK
  <1> QED BY <1>3, <1>4, <1>5, <1>6, <1>7

LEMMA HoldStep ==
    ASSUME ConstantsAssumption, TypeOK, [Next]_vars, NEW r \in Runs, NEW c \in Candidates,
           flow[c].claim = r
    PROVE  Holding(r, c)
  <1>0. r # NoRun
    BY DEF ConstantsAssumption
  <1>1. ASSUME UNCHANGED flow PROVE Holding(r, c)
    BY <1>1 DEF Holding
  <1>2. ASSUME NEW w \in Workers, WorkerStep(w) PROVE Holding(r, c)
    <2>1. \/ UNCHANGED flow \/ StopRun(w)
          \/ \E d \in Candidates : PrepareItem(w, d) \/ StartItem(w, d)
      BY <1>2 DEF WorkerStep, ReadRun, BeginStage, MarkStage, FinishStage, TestStage, Initialize,
         Abort, ListItems, LookAtCase, SaveCase, SnapshotsReady, ItemsPrepared, RoundDone,
         Finalize, CheckLease, Decide, Tally, JobDone, PrepareItemFails, candidateRows
    <2> QED BY <1>1, <2>1, HoldLease, HoldPrepareItem
  <1>3. ASSUME NEW w \in Workers, NEW d \in Candidates,
               AcceptItem(w, d) \/ RejectItem(w, d) \/ FailItem(w, d)
        PROVE  Holding(r, c)
    <2>1. flow'[c] = flow[c] \/ flow'[c].claim = NoRun
      BY <1>3, HeldCommit
    <2> QED BY <1>0, <2>1 DEF Holding
  <1>4. ASSUME NEW w \in Workers, NEW d \in Candidates,
               \/ DropResult(w, d) \/ SkipResult(w, d) \/ CommitRefused(w, d)
               \/ TaskInterrupted(w, d) \/ SaveArtifact(w, d)
        PROVE  UNCHANGED flow
    BY <1>4 DEF DropResult, SkipResult, CommitRefused, TaskInterrupted, SaveArtifact, candidateRows
  <1>5. ASSUME NEW w \in Workers, NEW d \in Candidates, CancelItem(w, d) \/ RenewClaim(w, d)
        PROVE  Holding(r, c)
    BY <1>5, HoldLease
  <1>6. ASSUME NEW w \in Workers, StepFails(w) \/ Heartbeat(w) \/ Crash(w) PROVE UNCHANGED flow
    BY <1>6 DEF StepFails, Heartbeat, Crash, candidateRows
  <1>7. ASSUME NEW q \in Runs, \/ LeaseLapses(q) \/ CreateRun(q) \/ CancelRun(q)
                               \/ \E w \in Workers : Claim(w, q)
        PROVE  UNCHANGED flow
    BY <1>7 DEF LeaseLapses, CreateRun, CancelRun, Claim, candidateRows
  <1>8. ASSUME NEW d \in Candidates, ClaimLapses(d) PROVE Holding(r, c)
    <2> DEFINE f == [flow[d] EXCEPT !.live = FALSE]
    <2>1. flow' = [flow EXCEPT ![d] = f]
      BY <1>8 DEF ClaimLapses
    <2>2. f.held = flow[d].held
      BY DEF Workflows, TypeOK
    <2> HIDE DEF f
    <2> QED BY <2>1, <2>2 DEF Holding, TypeOK
  <1>9. ASSUME NEW d \in Candidates,
               \/ \E v \in Volunteers : ManualAssign(d, v)
               \/ MutateAttempt(d) \/ EditCandidate(d) \/ ImportResumes(d) \/ AllocationAssigns(d)
        PROVE  Holding(r, c)
    BY <1>9, HoldOutside
  <1>10. ASSUME UNCHANGED vars PROVE UNCHANGED flow
    BY <1>10 DEF vars
  <1> QED BY <1>1, <1>2, <1>3, <1>4, <1>5, <1>6, <1>7, <1>8, <1>9, <1>10
          DEF Next, Environment, TaskEnds

\* A claim is taken by a run whose worker has prepared the item.
LEMMA ClaimTaken ==
    ASSUME ConstantsAssumption, TypeOK, SnapshotInv, ClaimInv, NEW w \in Workers,
           NEW c \in Candidates, RowClaimed(w, c), NEW r \in Runs, r = sess[w].run
    PROVE  Claimed(r, c)'
  <1>1. /\ StartItem(w, c) /\ Due(r, c) /\ ~Retained(r, c) /\ ~LiveClaim(c) /\ Assessable(r, c)
        /\ flow'[c].rev = flow[c].rev /\ flow'[c].held = flow[c].held
    BY DEF RowClaimed
  <1>2. /\ sess[w].pc = "work" /\ sess[w].at = "step4" /\ r \in Runs
        /\ SetItem(r, c, "processing") /\ snap' = snap /\ stage' = stage
        /\ \E n : item' = [item EXCEPT ![r][c].tries = n]
    BY <1>1, Busy DEF StartItem, At, Due
  <1>3. istat'[r][c] = "processing"
    BY <1>2 DEF SetItem, TypeOK
  <1>4. item'[r][c].submit = item[r][c].submit
    BY <1>2 DEF TypeOK, ItemRows
  <1>5. snap[r][c].frozen
    BY <1>1, <1>2 DEF Assessable, SnapshotInv, Row
  <1>6. (~revisionChanged(r, c))'
    BY <1>1, <1>2, <1>4 DEF Due, revisionChanged, Expected
  <1>7. Prepared(r, Early, stage)
    BY <1>2 DEF ClaimInv, Walk, Executing, Before
  <1>8. flow[c].held \notin Finished /\ (flow[c].held \in {"archived", "pool"} => Forced[r])
    BY <1>1 DEF Retained
  <1> QED BY <1>1, <1>2, <1>3, <1>5, <1>6, <1>7, <1>8 DEF Claimed, OpenItem

\* A run that keeps its claim does not prepare the item again, nor give it up.
LEMMA ClaimKept ==
    ASSUME ConstantsAssumption, TypeOK, SettledInv, OutcomeInv, LeaseInv, SnapshotInv,
           ClaimInv, [Next]_vars, NEW r \in Runs, NEW c \in Candidates,
           flow[c].claim = r, flow'[c].claim = r
    PROVE  /\ ~CreateRun(r)
           /\ \A w \in Workers : sess[w].run = r =>
                ~StopRun(w) /\ ~PrepareItem(w, c) /\ ~SkipResult(w, c)
           /\ flow'[c].rev = flow[c].rev
           /\ SameItem(r, c) \/ (item' = item /\ snap'[r][c] = snap[r][c])
  <1>1. Claimed(r, c) /\ r # NoRun
    BY DEF ClaimInv, ConstantsAssumption
  <1>2. ~CreateRun(r)
    <2>1. istat[r][c] # "absent"
      BY <1>1 DEF Claimed, OpenItem
    <2>2. run[r].status # "none"
      BY <2>1 DEF SettledInv, RunEvidence
    <2> QED BY <2>2 DEF CreateRun
  <1>3. ASSUME NEW w \in Workers, sess[w].run = r, StopRun(w) PROVE FALSE
    <2>1. flow'[c] = Unclaimed(flow[c])
      BY <1>3 DEF StopRun
    <2>2. Unclaimed(flow[c]).claim = NoRun
      BY HeldHelpers DEF TypeOK
    <2> QED BY <1>1, <2>1, <2>2
  <1>4. ASSUME NEW w \in Workers, sess[w].run = r, PrepareItem(w, c) PROVE FALSE
    <2>1. sess[w].pc = "work" /\ sess[w].at \in Early
      BY <1>4 DEF PrepareItem, Preparing, At, Early
    <2>2. HasStage(r, sess[w].at) /\ stage[r][sess[w].at] # "success"
      BY <1>4, <2>1 DEF ClaimInv, Walk, Executing, AtWork
    <2> QED BY <1>1, <2>1, <2>2 DEF Claimed, Prepared
  <1>5. ASSUME NEW w \in Workers, sess[w].run = r, SkipResult(w, c) PROVE FALSE
    <2>1. task[w][c].on /\ ~Fresh(w, c)
      BY <1>5 DEF SkipResult, Ending
    <2>2. Goroutine(w, c) /\ flow[c].rev = Expected(r, c)
      BY <1>1 DEF SnapshotInv, Claimed, revisionChanged
    <2> QED BY <1>5, <2>1, <2>2 DEF Goroutine, Fresh
  <1>6. flow'[c].rev = flow[c].rev
    BY <1>1, RevisionStep DEF Voids
  <1>7. SameItem(r, c) \/ (item' = item /\ snap'[r][c] = snap[r][c])
    <2>1. ASSUME NEW w \in Workers, SavesCase(w, r, c) PROVE FALSE
      <3>1. sess[w].pc = "save" /\ sess[w].at = "preparing" /\ c \in sess[w].cand
        BY <2>1 DEF SavesCase, SaveCase, At, SettledInv, Evidence
      <3>2. ~snap[r][c].frozen
        BY <2>1, <3>1 DEF SavesCase, SnapshotInv, Looks
      <3> QED BY <1>1, <3>2 DEF Claimed
    <2>2. ASSUME NEW w \in Workers, Continues(w, r, c) PROVE FALSE
      BY <1>1, <2>2, HeldCommit DEF Continues
    <2>3. ASSUME NEW w \in Workers, SaveArtifact(w, c), sess[w].run = r,
                 snap'[r][c] = task[w][c].snap, item' = item
          PROVE  snap'[r][c] = snap[r][c]
      BY <2>3 DEF SaveArtifact, SnapshotInv, Goroutine
    <2> QED BY <1>2, <2>1, <2>2, <2>3, SnapshotStep
  <1> QED BY <1>2, <1>3, <1>4, <1>5, <1>6, <1>7

\* The status of the item of a claim that is kept.
LEMMA ClaimedItem ==
    ASSUME ConstantsAssumption, TypeOK, SettledInv, OutcomeInv, LeaseInv, SnapshotInv,
           ClaimInv, [Next]_vars, NEW r \in Runs, NEW c \in Candidates,
           flow[c].claim = r, flow'[c].claim = r
    PROVE  \/ istat'[r][c] = istat[r][c]
           \/ istat'[r][c] \in OpenItem
           \/ istat'[r][c] = "success" /\ flow'[c] = flow[c]
              /\ (flow[c].held = "department" \/ ~flow[c].live)
  <1>1. Claimed(r, c) /\ r # NoRun /\ flow[c] \in Workflows
    BY DEF ClaimInv, ConstantsAssumption, TypeOK
  <1>2. ASSUME NEW status, SetItem(r, c, status) PROVE istat'[r][c] = status
    BY <1>2 DEF SetItem, TypeOK
  <1>3. ASSUME NEW w \in Workers, sess[w].run = r, StartItem(w, c)
        PROVE  \/ istat' = istat \/ istat'[r][c] \in OpenItem
               \/ istat'[r][c] = "success" /\ flow'[c] = flow[c]
                  /\ (flow[c].held = "department" \/ ~flow[c].live)
    <2>1. \/ istat' = istat
          \/ SetItem(r, c, "waiting_conflict") \/ SetItem(r, c, "processing")
          \/ /\ Retained(r, c) /\ SetItem(r, c, "success")
             /\ flow' = [flow EXCEPT ![c] = IF @.held = "pool" THEN Invalidated(@) ELSE @]
      BY <1>1, <1>3 DEF StartItem, Claimed
    <2>2. CASE Retained(r, c) /\ SetItem(r, c, "success")
               /\ flow' = [flow EXCEPT ![c] = IF @.held = "pool" THEN Invalidated(@) ELSE @]
      <3>1. flow[c].held = "pool" => flow'[c] = Invalidated(flow[c])
        BY <2>2 DEF TypeOK
      <3>2. flow[c].held # "pool"
        BY <1>1, <3>1, HeldHelpers
      <3>3. flow'[c] = flow[c]
        BY <2>2, <3>2 DEF TypeOK
      <3>4. flow[c].held = "department" \/ ~flow[c].live
        BY <1>1, <2>2 DEF Retained, Claimed
      <3> QED BY <1>2, <2>2, <3>3, <3>4
    <2> QED BY <1>2, <2>1, <2>2 DEF OpenItem
  <1>4. ASSUME NEW w \in Workers, sess[w].run = r, TaskEnds(w, c) PROVE istat' = istat
    <2>1. ~SkipResult(w, c)
      BY <1>4, ClaimKept
    <2>2. ~AcceptItem(w, c) /\ ~RejectItem(w, c) /\ ~FailItem(w, c)
      BY <1>1, HeldCommit
    <2>3. ~CancelItem(w, c)
      <3>1. CancelItem(w, c) => flow'[c] = Unclaimed(flow[c])
        BY DEF CancelItem, TypeOK
      <3> QED BY <1>1, <3>1, HeldHelpers
    <2> QED BY <1>4, <2>1, <2>2, <2>3
            DEF TaskEnds, DropResult, CommitRefused, TaskInterrupted, candidateRows
  <1> QED BY <1>3, <1>4, ClaimKept, StatusStep

\* Claims stay sound.
LEMMA ClaimedNext ==
    ASSUME ConstantsAssumption, TypeOK, SettledInv, OutcomeInv, LeaseInv, SnapshotInv,
           ClaimInv, [Next]_vars, NEW r \in Runs, NEW c \in Candidates
    PROVE  Claimed(r, c)'
  <1>0. r # NoRun /\ flow[c] \in Workflows
    BY DEF ConstantsAssumption, TypeOK
  <1>1. CASE flow'[c].claim # r
    BY <1>1 DEF Claimed
  <1>2. ASSUME NEW w \in Workers, RowClaimed(w, c), flow'[c].claim = r PROVE Claimed(r, c)'
    <2>1. sess[w].run = r
      BY <1>2 DEF RowClaimed
    <2> QED BY <1>2, <2>1, ClaimTaken
  <1>3. CASE flow'[c].claim = r /\ ~\E w \in Workers : RowClaimed(w, c)
    <2>1. flow[c].claim = r
      BY <1>0, <1>3, FlowStep DEF RowStep, Same, Voids, RowReleased
    <2>2. Claimed(r, c)
      BY DEF ClaimInv
    <2>3. \/ flow'[c].live = flow[c].live
          \/ flow'[c].held = flow[c].held /\ ClaimLapses(c)
          \/ flow'[c].held = flow[c].held /\ \E w \in Workers : RenewClaim(w, c)
      BY <1>0, <1>3, FlowStep DEF RowStep, Same, Voids, RowReleased
    <2>4. /\ ~CreateRun(r) /\ flow'[c].rev = flow[c].rev
          /\ SameItem(r, c) \/ (item' = item /\ snap'[r][c] = snap[r][c])
          /\ \A w \in Workers : sess[w].run = r => ~PrepareItem(w, c)
      BY <1>3, <2>1, ClaimKept
    <2>5. snap'[r][c].frozen /\ (~revisionChanged(r, c))'
      BY <2>1, <2>2, <2>4 DEF Claimed, SameItem, revisionChanged, Expected
    <2>6. Prepared(r, Early, stage')
      BY <2>1, <2>2, <2>4, StageKept DEF Claimed, Prepared
    <2>7. ASSUME NEW w \in Workers, RenewClaim(w, c)
          PROVE  flow[c].live /\ istat' = istat
      <3>1. Fresh(w, c) /\ Goroutine(w, c)
        BY <2>7 DEF RenewClaim, SnapshotInv
      <3> QED BY <2>7, <3>1 DEF Fresh, Claimant, Goroutine, RenewClaim
    <2>8. flow'[c].live => flow[c].live
      <3>1. ClaimLapses(c) => ~flow'[c].live
        BY <1>0 DEF ClaimLapses, TypeOK, Workflows
      <3> QED BY <2>3, <2>7, <3>1
    <2>9. \/ flow'[c].held = flow[c].held
          \/ flow[c].held = "pool" /\ flow'[c].held = "department"
          \/ flow[c].held # "department" /\ ~flow[c].live
      BY <1>3, <2>1, <2>4, HoldStep DEF Holding
    <2>10. istat'[r][c] \in OpenItem \cup {"success"}
      BY <1>3, <2>1, <2>2, ClaimedItem DEF Claimed
    <2>11. istat'[r][c] = "success" => flow'[c].held = "department" \/ ~flow'[c].live
      BY <1>3, <2>1, <2>2, <2>8, <2>9, ClaimedItem DEF Claimed, OpenItem
    <2>12. flow'[c].live => /\ flow'[c].held \notin Finished
                            /\ flow'[c].held \in {"archived", "pool"} => Forced[r]
      BY <2>1, <2>2, <2>8, <2>9 DEF Claimed, Finished
    <2> QED BY <2>5, <2>6, <2>10, <2>11, <2>12 DEF Claimed
  <1> QED BY <1>1, <1>2, <1>3

\* Nobody has a claim, or works, to begin with.
LEMMA ClaimInit ==
    ASSUME ConstantsAssumption, Init PROVE ClaimInv
  <1>1. ASSUME NEW w \in Workers PROVE Walk(sess[w], stage)
    <2>1. sess[w] = Idle
      BY DEF Init
    <2> QED BY <2>1 DEF Walk, Idle, Executing
  <1>2. ASSUME NEW r \in Runs, NEW c \in Candidates PROVE Claimed(r, c)
    <2>1. flow[c].claim = NoRun
      BY DEF Init
    <2> QED BY <2>1 DEF Claimed, ConstantsAssumption
  <1> QED BY <1>1, <1>2 DEF ClaimInv

\* What a claim says of its run holds as long as nobody stalls.
THEOREM ClaimInvariant ==
    ASSUME Slow = {}
    PROVE  Spec => [](TypeOK /\ SettledInv /\ SnapshotInv /\ ClaimInv)
  <1>1. Init => ClaimInv
    BY ClaimInit, ConstantsAssumption
  <1>2. TypeOK /\ SettledInv /\ LeaseInv /\ OutcomeInv /\ SnapshotInv /\ ClaimInv
          /\ [Next]_vars => ClaimInv'
    BY WalkNext, ClaimedNext, ConstantsAssumption DEF ClaimInv
  <1> QED BY <1>1, <1>2, SnapshotInvariant, PTL DEF Spec

\* A run that has ended holds up nobody (commit, stopRun and the retained branch of
\* processItem are its only ways out): a claim left behind is that of an item settled
\* as success, of a candidate allocation has taken over or whose lease has lapsed.
THEOREM EndedRunsHoldUpNobody ==
    ASSUME Slow = {} PROVE Spec => []EndedRunHoldsNoClaim
  <1>1. TypeOK /\ SettledInv /\ ClaimInv => EndedRunHoldsNoClaim
    <2> SUFFICES ASSUME SettledInv, ClaimInv, NEW r \in Runs, NEW c \in Candidates,
                        run[r].status \in FinalRun, flow[c].claim = r
                 PROVE  istat[r][c] = "success"
                          /\ (flow[c].held = "department" \/ ~flow[c].live)
      BY DEF EndedRunHoldsNoClaim
    <2>1. Claimed(r, c) /\ RunEvidence(r)
      BY DEF ClaimInv, SettledInv
    <2>2. c \in Scope[r]
      BY <2>1 DEF Claimed, RunEvidence, OpenItem
    <2>3. istat[r][c] \in TerminalItem
      BY <2>1, <2>2 DEF RunEvidence, Settled
    <2>4. istat[r][c] = "success"
      BY <2>1, <2>3 DEF Claimed, OpenItem, TerminalItem
    <2> QED BY <2>1, <2>4 DEF Claimed
  <1> QED BY <1>1, ClaimInvariant, PTL
===============================================================================
