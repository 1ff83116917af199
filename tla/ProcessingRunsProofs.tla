------------------------- MODULE ProcessingRunsProofs --------------------------
(***************************************************************************)
(* Safety of ProcessingRuns for any number of runs, candidates, workers    *)
(* and volunteers, any set of workers that stall past a lease, any bounds: *)
(* a cancellation wins, a finished run has no open item, a settled item    *)
(* stays settled, no decision is late or made twice, a closed application  *)
(* and a finished candidate are final, one goroutine can commit.           *)
(***************************************************************************)
EXTENDS ProcessingRunsTypes

-----------------------------------------------------------------------------
(* What a step may do to a run row.                                        *)

\* status and cancel_requested_at of r are as they were.
SameRun(r) == run'[r].status = run[r].status /\ run'[r].cancel = run[r].cancel

\* One row of run gets a new status, and perhaps other columns.
LEMMA RowSameRun ==
    ASSUME TypeOK, NEW r \in Runs, NEW row, run' = [run EXCEPT ![r] = row],
           row.cancel = run[r].cancel
    PROVE  /\ \A q \in Runs \ {r} : SameRun(q)
           /\ run'[r].cancel = run[r].cancel /\ run'[r].status = row.status
  BY DEF TypeOK, SameRun

\* summarizeRun(finish=false) changes neither status nor cancellation.
LEMMA SummarisedSameRun ==
    ASSUME TypeOK, NEW r \in Runs, run' = Summarised(r)
    PROVE  \A q \in Runs : SameRun(q)
  BY SummarisedType DEF TypeOK, SameRun

\* beginStage sets a run that is not cancelled to running.
LEMMA RunBeginStage ==
    ASSUME TypeOK, NEW w \in Workers, BeginStage(w)
    PROVE  /\ \A q \in Runs \ {sess[w].run} : SameRun(q)
           /\ \/ SameRun(sess[w].run)
              \/ /\ ~run[sess[w].run].cancel /\ ~run'[sess[w].run].cancel
                 /\ run'[sess[w].run].status = "running"
  <1> DEFINE r == sess[w].run
             row == [run[r] EXCEPT !.status = "running"]
  <1>1. r \in Runs /\ run[r] \in RunRows
    BY Busy DEF BeginStage, At
  <1>2. CASE run[r].cancel
    BY <1>2 DEF BeginStage, SameRun
  <1>3. CASE ~run[r].cancel
    <2>1. run' = [run EXCEPT ![r] = row]
      BY <1>3 DEF BeginStage
    <2>2. row.cancel = run[r].cancel /\ row.status = "running"
      BY <1>1 DEF RunRows
    <2> HIDE DEF row
    <2> QED BY <1>1, <1>3, <2>1, <2>2, RowSameRun
  <1> QED BY <1>2, <1>3

\* Saving params changes neither status nor cancellation.
LEMMA RunInitialize ==
    ASSUME TypeOK, NEW w \in Workers, Initialize(w) \/ SnapshotsReady(w)
    PROVE  \A q \in Runs : SameRun(q)
  <1> DEFINE r == sess[w].run
             row1 == [run[r] EXCEPT !.init = TRUE, !.prep = sess[w].prep]
             row2 == [run[r] EXCEPT !.init = TRUE, !.prep = TRUE]
  <1>1. r \in Runs /\ run[r] \in RunRows
    BY Busy DEF Initialize, SnapshotsReady, At
  <1>2. /\ row1.cancel = run[r].cancel /\ row1.status = run[r].status
        /\ row2.cancel = run[r].cancel /\ row2.status = run[r].status
    BY <1>1 DEF RunRows
  <1>3. run' = [run EXCEPT ![r] = row1] \/ run' = [run EXCEPT ![r] = row2]
    BY DEF Initialize, SnapshotsReady
  <1> HIDE DEF row1, row2
  <1> QED BY <1>1, <1>2, <1>3, RowSameRun DEF SameRun

\* summarizeRun(finish=true) closes a run that is not cancelled.
LEMMA RunFinalize ==
    ASSUME TypeOK, NEW w \in Workers, Finalize(w)
    PROVE  /\ \A q \in Runs \ {sess[w].run} : SameRun(q)
           /\ \/ SameRun(sess[w].run)
              \/ /\ ~run[sess[w].run].cancel /\ ~run'[sess[w].run].cancel
                 /\ run'[sess[w].run].status \in FinalRun
  <1> DEFINE r == sess[w].run
             sum == Summarised(r)
             status == CASE sum[r].failed -> "partial_failed"
                         [] ~sum[r].failed /\ sum[r].attention -> "needs_attention"
                         [] OTHER -> "success"
             row == [sum[r] EXCEPT !.status = status]
  <1>1. r \in Runs
    BY Busy DEF Finalize, At
  <1>2. CASE run[r].cancel
    BY <1>2 DEF Finalize, SameRun
  <1>3. CASE ~run[r].cancel
    <2>1. run' = [sum EXCEPT ![r] = row]
      BY <1>3 DEF Finalize
    <2>2. /\ sum \in [Runs -> RunRows]
          /\ \A q \in Runs : sum[q].status = run[q].status /\ sum[q].cancel = run[q].cancel
      BY <1>1, SummarisedType DEF TypeOK
    <2>3. status \in FinalRun
      BY DEF FinalRun
    <2> HIDE DEF sum, status
    <2>4. row.cancel = run[r].cancel /\ row.status \in FinalRun
      BY <1>1, <2>2, <2>3 DEF RunRows
    <2> HIDE DEF row
    <2> QED BY <1>1, <1>3, <2>1, <2>2, <2>4 DEF SameRun
  <1> QED BY <1>2, <1>3

\* stopRun closes its run as cancelled or failed.
LEMMA RunStopRun ==
    ASSUME TypeOK, NEW w \in Workers, StopRun(w)
    PROVE  /\ \A q \in Runs \ {sess[w].run} : SameRun(q)
           /\ run'[sess[w].run].cancel = run[sess[w].run].cancel
           /\ run'[sess[w].run].status \in {"cancelled", "failed"}
  <1> DEFINE r == sess[w].run
             status == IF sess[w].err = "agent_cancelled" THEN "cancelled" ELSE "failed"
             row == [run[r] EXCEPT !.status = status]
  <1>1. r \in Runs /\ run[r] \in RunRows
    BY Busy DEF StopRun
  <1>2. run' = [run EXCEPT ![r] = row]
    BY DEF StopRun
  <1>3. row.cancel = run[r].cancel /\ row.status \in {"cancelled", "failed"}
    BY <1>1 DEF RunRows
  <1> HIDE DEF row
  <1> QED BY <1>1, <1>2, <1>3, RowSameRun

\* createRun touches its own row only.
LEMMA RunCreateRun ==
    ASSUME TypeOK, NEW r \in Runs, CreateRun(r)
    PROVE  /\ \A q \in Runs \ {r} : SameRun(q)
           /\ run[r].status = "none" /\ run'[r].status = "pending"
           /\ run'[r].cancel = run[r].cancel
  <1> DEFINE row == [run[r] EXCEPT !.status = "pending"]
  <1>1. run' = [run EXCEPT ![r] = row] /\ run[r].status = "none"
    BY DEF CreateRun
  <1>2. row.cancel = run[r].cancel /\ row.status = "pending"
    BY DEF TypeOK, RunRows
  <1> HIDE DEF row
  <1> QED BY <1>1, <1>2, RowSameRun

\* cancelRun touches its own row only.
LEMMA RunCancelRun ==
    ASSUME TypeOK, NEW r \in Runs, CancelRun(r)
    PROVE  /\ \A q \in Runs \ {r} : SameRun(q)
           /\ run[r].status \in ActiveRun /\ run'[r].status = "cancelling"
  <1> DEFINE row == [run[r] EXCEPT !.status = "cancelling", !.cancel = TRUE]
  <1>1. run' = [run EXCEPT ![r] = row] /\ run[r].status \in ActiveRun
    BY DEF CancelRun
  <1>2. row.status = "cancelling"
    BY DEF TypeOK, RunRows
  <1> HIDE DEF row
  <1> QED BY <1>1, <1>2 DEF TypeOK, SameRun

\* The five ways in which a step changes status or cancel_requested_at of a run.
LEMMA RunStep ==
    ASSUME TypeOK, [Next]_vars, NEW r \in Runs
    PROVE  \/ SameRun(r)
           \/ CreateRun(r) /\ run[r].status = "none" /\ run'[r].status = "pending"
              /\ run'[r].cancel = run[r].cancel
           \/ run[r].status \in ActiveRun /\ run'[r].status = "cancelling"
           \/ ~run[r].cancel /\ ~run'[r].cancel /\ run'[r].status = "running"
              /\ \E w \in Workers : sess[w].run = r /\ BeginStage(w)
           \/ ~run[r].cancel /\ ~run'[r].cancel /\ run'[r].status \in FinalRun
              /\ \E w \in Workers : sess[w].run = r /\ Finalize(w)
           \/ run'[r].cancel = run[r].cancel /\ run'[r].status \in {"cancelled", "failed"}
              /\ \E w \in Workers : sess[w].run = r /\ StopRun(w)
  <1>1. CASE UNCHANGED run
    BY <1>1 DEF SameRun
  <1>2. CASE \E w \in Workers : BeginStage(w)
    BY <1>2, RunBeginStage
  <1>3. CASE \E w \in Workers : Initialize(w) \/ SnapshotsReady(w)
    BY <1>3, RunInitialize
  <1>4. CASE \E w \in Workers : Finalize(w)
    BY <1>4, RunFinalize
  <1>5. CASE \E w \in Workers : StopRun(w)
    BY <1>5, RunStopRun
  <1>6. CASE \E q \in Runs : CreateRun(q)
    BY <1>6, RunCreateRun
  <1>7. CASE \E q \in Runs : CancelRun(q)
    BY <1>7, RunCancelRun
  <1>8. CASE \E w \in Workers : ItemsPrepared(w) \/ RoundDone(w) \/ Tally(w)
    <2>1. PICK w \in Workers : ItemsPrepared(w) \/ RoundDone(w) \/ Tally(w)
      BY <1>8
    <2>2. sess[w].run \in Runs
      BY <2>1, Busy DEF ItemsPrepared, RoundDone, Tally, Preparing, At
    <2>3. UNCHANGED run \/ run' = Summarised(sess[w].run)
      BY <2>1 DEF ItemsPrepared, RoundDone, Tally
    <2> QED BY <2>2, <2>3, <1>1, SummarisedSameRun
  <1>9. \/ UNCHANGED run
        \/ \E w \in Workers : \/ BeginStage(w) \/ Initialize(w) \/ SnapshotsReady(w)
                              \/ Finalize(w) \/ StopRun(w)
                              \/ ItemsPrepared(w) \/ RoundDone(w) \/ Tally(w)
        \/ \E q \in Runs : CreateRun(q) \/ CancelRun(q)
    <2>1. ASSUME NEW w \in Workers, WorkerStep(w)
          PROVE  \/ UNCHANGED run
                 \/ BeginStage(w) \/ Initialize(w) \/ SnapshotsReady(w)
                 \/ Finalize(w) \/ StopRun(w)
                 \/ ItemsPrepared(w) \/ RoundDone(w) \/ Tally(w)
      BY <2>1 DEF WorkerStep, ReadRun, MarkStage, FinishStage, TestStage, Abort, ListItems,
         LookAtCase, SaveCase, CheckLease, Decide, JobDone, PrepareItem, PrepareItemFails,
         StartItem
    <2>2. ASSUME NEW w \in Workers, NEW c \in Candidates, TaskEnds(w, c) PROVE UNCHANGED run
      BY <2>2 DEF TaskEnds, DropResult, SkipResult, CancelItem, CommitRefused, AcceptItem,
         RejectItem, FailItem, TaskInterrupted
    <2>3. ASSUME NEW w \in Workers, StepFails(w) \/ Heartbeat(w) \/ Crash(w) PROVE UNCHANGED run
      BY <2>3 DEF StepFails, Heartbeat, Crash
    <2>4. ASSUME NEW q \in Runs, LeaseLapses(q) \/ \E w \in Workers : Claim(w, q)
          PROVE  UNCHANGED run
      BY <2>4 DEF LeaseLapses, Claim
    <2>5. ASSUME NEW c \in Candidates,
                 ClaimLapses(c) \/ \E w \in Workers : RenewClaim(w, c) \/ SaveArtifact(w, c)
          PROVE  UNCHANGED run
      BY <2>5 DEF RenewClaim, SaveArtifact, ClaimLapses
    <2>6. CASE Environment
      BY <2>6 DEF Environment, ManualAssign, MutateAttempt, EditCandidate, ImportResumes,
         AllocationAssigns, Manual, Outside
    <2>7. CASE UNCHANGED vars
      BY <2>7 DEF vars
    <2> QED BY <2>1, <2>2, <2>3, <2>4, <2>5, <2>6, <2>7 DEF Next
  <1> QED BY <1>1, <1>2, <1>3, <1>4, <1>5, <1>6, <1>7, <1>8, <1>9

-----------------------------------------------------------------------------

\* An accepted cancellation wins over every outcome a worker, on time or late,
\* may still report (cancelRun, beginStage, summarizeRun, stopRun).
THEOREM CancellationWins == Spec => []CancelWins
  <1>1. Init => CancelWins
    BY DEF Init, CancelWins
  <1>2. TypeOK /\ CancelWins /\ [Next]_vars => CancelWins'
    <2> SUFFICES ASSUME TypeOK, CancelWins, [Next]_vars, NEW r \in Runs, run'[r].cancel
                 PROVE  run'[r].status \in {"cancelling", "cancelled", "failed"}
      BY DEF CancelWins
    <2>1. run[r].cancel => run[r].status \in {"cancelling", "cancelled", "failed"}
      BY DEF CancelWins
    <2> QED BY <2>1, RunStep DEF SameRun
  <1> QED BY <1>1, <1>2, TypeCorrect, PTL DEF Spec

-----------------------------------------------------------------------------
(* What a step may do to an item.                                          *)

\* The item of r and c is as it was, or was open and has a status of an item.
ItemMoves(r, c) ==
    \/ istat'[r][c] = istat[r][c]
    \/ istat[r][c] \in OpenItem /\ istat'[r][c] \in OpenItem \cup TerminalItem

\* Writing one open item moves that item only.
LEMMA SetItemMoves ==
    ASSUME TypeOK, NEW r \in Runs, NEW c \in Candidates, NEW status \in OpenItem \cup TerminalItem,
           SetItem(r, c, status), Open(r, c)
    PROVE  \A q \in Runs, d \in Candidates : ItemMoves(q, d)
  BY DEF SetItem, Open, ItemMoves, TypeOK

\* prepareItem moves open items only.
LEMMA PrepareItemMoves ==
    ASSUME TypeOK, NEW w \in Workers, NEW c \in Candidates, PrepareItem(w, c)
    PROVE  \A q \in Runs, d \in Candidates : ItemMoves(q, d)
  <1> DEFINE r == sess[w].run
  <1>1. r \in Runs
    BY Busy DEF PrepareItem, Preparing, At
  <1>2. \/ istat' = istat
        \/ Open(r, c) /\ \E x \in {"skipped_manual_change", "success", "needs_attention"} :
                            SetItem(r, c, x)
    BY DEF PrepareItem
  <1>3. \A x \in {"skipped_manual_change", "success", "needs_attention"} :
          x \in OpenItem \cup TerminalItem
    BY DEF TerminalItem
  <1> QED BY <1>1, <1>2, <1>3, SetItemMoves DEF ItemMoves

\* The claim of processItem moves open items only.
LEMMA StartItemMoves ==
    ASSUME TypeOK, NEW w \in Workers, NEW c \in Candidates, StartItem(w, c)
    PROVE  \A q \in Runs, d \in Candidates : ItemMoves(q, d)
  <1> DEFINE r == sess[w].run
  <1>1. r \in Runs
    BY Busy DEF StartItem, At
  <1>2. \/ istat' = istat
        \/ Open(r, c) /\ \E x \in {"skipped_manual_change", "success", "waiting_conflict",
                                   "processing"} : SetItem(r, c, x)
    BY DEF StartItem, Due
  <1>3. \A x \in {"skipped_manual_change", "success", "waiting_conflict", "processing"} :
          x \in OpenItem \cup TerminalItem
    BY DEF TerminalItem, OpenItem
  <1> QED BY <1>1, <1>2, <1>3, SetItemMoves DEF ItemMoves

\* The commit of processItem moves open items only.
LEMMA TaskEndsMoves ==
    ASSUME TypeOK, NEW w \in Workers, NEW c \in Candidates, TaskEnds(w, c)
    PROVE  \A q \in Runs, d \in Candidates : ItemMoves(q, d)
  <1> DEFINE r == sess[w].run
  <1>1. CASE DropResult(w, c) \/ CommitRefused(w, c) \/ TaskInterrupted(w, c)
    BY <1>1 DEF DropResult, CommitRefused, TaskInterrupted, candidateRows, ItemMoves
  <1>2. CASE SkipResult(w, c) \/ CancelItem(w, c) \/ AcceptItem(w, c) \/ RejectItem(w, c)
             \/ FailItem(w, c)
    <2>1. task[w][c].on /\ Open(r, c)
      BY <1>2 DEF SkipResult, CancelItem, AcceptItem, RejectItem, FailItem, Committing, Ending
    <2>2. \E x \in {"skipped_manual_change", "cancelled", "success", "pending",
                    "needs_attention", "failed"} : SetItem(r, c, x)
      BY <1>2 DEF SkipResult, CancelItem, AcceptItem, RejectItem, FailItem
    <2>3. \A x \in {"skipped_manual_change", "cancelled", "success", "pending",
                    "needs_attention", "failed"} : x \in OpenItem \cup TerminalItem
      BY DEF TerminalItem, OpenItem
    <2>4. r \in Runs
      BY <2>1, TaskBusy
    <2> QED BY <2>1, <2>2, <2>3, <2>4, SetItemMoves
  <1> QED BY <1>1, <1>2 DEF TaskEnds

\* stopRun moves open items only, and leaves none open.
LEMMA StopRunMoves ==
    ASSUME TypeOK, NEW w \in Workers, StopRun(w)
    PROVE  /\ \A q \in Runs, d \in Candidates : ItemMoves(q, d)
           /\ \A d \in Candidates : istat'[sess[w].run][d] \notin OpenItem
  <1> DEFINE r == sess[w].run
             status == IF sess[w].err = "agent_cancelled" THEN "cancelled" ELSE "failed"
             g == [c \in Candidates |-> IF Open(r, c) THEN status ELSE istat[r][c]]
  <1>1. r \in Runs
    BY Busy DEF StopRun
  <1>2. istat' = [istat EXCEPT ![r] = g]
    BY DEF StopRun
  <1>3. status \in TerminalItem /\ status \notin OpenItem
    BY DEF TerminalItem, OpenItem
  <1>4. ASSUME NEW c \in Candidates
        PROVE  /\ g[c] \notin OpenItem
               /\ g[c] = istat[r][c] \/ (istat[r][c] \in OpenItem /\ g[c] \in TerminalItem)
    <2> HIDE DEF status
    <2>1. g[c] = IF Open(r, c) THEN status ELSE istat[r][c]
      OBVIOUS
    <2> HIDE DEF g
    <2> QED BY <1>3, <2>1 DEF Open
  <1> HIDE DEF g
  <1> QED BY <1>1, <1>2, <1>4 DEF ItemMoves, Open, TypeOK

\* A step moves an item only while it is open, or creates its run.
LEMMA ItemStep ==
    ASSUME TypeOK, [Next]_vars, NEW r \in Runs, NEW c \in Candidates
    PROVE  ItemMoves(r, c) \/ CreateRun(r)
  <1>1. CASE \E q \in Runs : CreateRun(q)
    <2>1. PICK q \in Runs : CreateRun(q)
      BY <1>1
    <2>2. q # r => istat'[r] = istat[r]
      BY <2>1 DEF CreateRun, TypeOK
    <2> QED BY <2>1, <2>2 DEF ItemMoves
  <1>2. CASE UNCHANGED istat
    BY <1>2 DEF ItemMoves
  <1>3. ASSUME NEW w \in Workers, WorkerStep(w)
        PROVE  ItemMoves(r, c)
    <2>1. \/ UNCHANGED istat \/ StopRun(w)
          \/ \E d \in Candidates : PrepareItem(w, d) \/ StartItem(w, d)
      BY <1>3 DEF WorkerStep, ReadRun, BeginStage, MarkStage, FinishStage, TestStage, Initialize,
         Abort, ListItems, LookAtCase, SaveCase, SnapshotsReady, ItemsPrepared, RoundDone,
         Finalize, CheckLease, Decide, Tally, JobDone, PrepareItemFails, candidateRows
    <2> QED BY <2>1, <1>2, StopRunMoves, PrepareItemMoves, StartItemMoves DEF ItemMoves
  <1>4. ASSUME NEW w \in Workers, StepFails(w) \/ Heartbeat(w) \/ Crash(w) PROVE UNCHANGED istat
    BY <1>4 DEF StepFails, Heartbeat, Crash, candidateRows
  <1>5. ASSUME NEW q \in Runs, LeaseLapses(q) \/ CancelRun(q) \/ \E w \in Workers : Claim(w, q)
        PROVE  UNCHANGED istat
    BY <1>5 DEF LeaseLapses, CancelRun, Claim, candidateRows
  <1>6. ASSUME NEW d \in Candidates,
               ClaimLapses(d) \/ \E w \in Workers : RenewClaim(w, d) \/ SaveArtifact(w, d)
        PROVE  UNCHANGED istat
    BY <1>6 DEF RenewClaim, SaveArtifact, ClaimLapses
  <1>7. ASSUME NEW w \in Workers, NEW d \in Candidates, TaskEnds(w, d) PROVE ItemMoves(r, c)
    BY <1>7, TaskEndsMoves
  <1>8. ASSUME NEW d \in Candidates,
               \/ \E v \in Volunteers : ManualAssign(d, v)
               \/ MutateAttempt(d) \/ EditCandidate(d) \/ ImportResumes(d) \/ AllocationAssigns(d)
        PROVE  UNCHANGED istat
    BY <1>8 DEF ManualAssign, MutateAttempt, EditCandidate, ImportResumes,
       AllocationAssigns, Manual, Outside
  <1>9. CASE UNCHANGED vars
    BY <1>9, <1>2 DEF vars
  <1> QED BY <1>1, <1>2, <1>3, <1>4, <1>5, <1>6, <1>7, <1>8, <1>9 DEF Next, Environment

-----------------------------------------------------------------------------
(* The inductive invariant behind FinishedRunIsSettled.  The code never    *)
(* looks at open items when it closes a run: that they are all settled     *)
(* follows from where the worker is and from the stage row it trusted.     *)

\* What the position s of a worker tells about the items of its run, where rn
\* and st are the rows of run and the item statuses.
Evidence(s, rn, st) ==
    /\ s.pc # "idle" => rn[s.run].status # "none"
    /\ s.pc = "save" => s.at = "preparing"
    /\ s.pc \in Executing /\ Kind[s.run] = "step1" => s.at \notin {"step2", "step3", "step4"}
    /\ s.pc \in Executing /\ s.at = "finalize" =>
         \A c \in Scope[s.run] : st[s.run][c] \in TerminalItem
    /\ s.pc = "finish" /\ s.at = LastStep(s.run) =>
         \A c \in Scope[s.run] : st[s.run][c] \in TerminalItem
    /\ s.pc = "work" /\ s.at = "step1" /\ Kind[s.run] = "step1" =>
         \A c \in Scope[s.run] \ s.todo : st[s.run][c] \in TerminalItem

\* What the rows of run r tell about its items.
RunEvidence(r) ==
    /\ run[r].status = "none" => \A c \in Candidates : istat[r][c] = "absent"
    /\ run[r].status # "none" => \A c \in Scope[r] : istat[r][c] # "absent"
    /\ \A c \in Candidates \ Scope[r] : istat[r][c] = "absent"
    /\ job[r].status # "absent" => run[r].status # "none"
    /\ run[r].status \in FinalRun => Settled(r)
    /\ stage[r][LastStep(r)] = "success" => Settled(r)

SettledInv == /\ \A w \in Workers : Evidence(sess[w], run, istat)
              /\ \A r \in Runs : RunEvidence(r)

\* An item that exists stays, and a settled run stays settled.
LEMMA SettledStays ==
    ASSUME ConstantsAssumption, TypeOK, [Next]_vars, NEW r \in Runs, run[r].status # "none"
    PROVE  /\ run'[r].status # "none"
           /\ ~CreateRun(r)
           /\ \A c \in Candidates : istat[r][c] \in TerminalItem => istat'[r][c] = istat[r][c]
           /\ \A c \in Candidates : istat[r][c] # "absent" => istat'[r][c] # "absent"
           /\ Settled(r) => Settled(r)'
  <1>1. ~CreateRun(r)
    BY DEF CreateRun
  <1>2. run'[r].status # "none"
    BY RunStep DEF SameRun, FinalRun
  <1>3. ASSUME NEW c \in Candidates PROVE ItemMoves(r, c)
    BY <1>1, ItemStep
  <1>4. /\ TerminalItem \cap OpenItem = {} /\ "absent" \notin TerminalItem
        /\ "absent" \notin OpenItem
    BY DEF TerminalItem, OpenItem
  <1>5. \A c \in Candidates : istat[r][c] \in TerminalItem => istat'[r][c] = istat[r][c]
    BY <1>3, <1>4 DEF ItemMoves
  <1>6. \A c \in Candidates : istat[r][c] # "absent" => istat'[r][c] # "absent"
    BY <1>3, <1>4 DEF ItemMoves
  <1>7. Scope[r] \subseteq Candidates
    BY DEF ConstantsAssumption
  <1>8. Settled(r) => Settled(r)'
    BY <1>5, <1>7 DEF Settled
  <1> QED BY <1>1, <1>2, <1>5, <1>6, <1>8

\* Evidence of a session is not lost when others settle items.
LEMMA EvidenceStays ==
    ASSUME ConstantsAssumption, TypeOK, [Next]_vars, NEW s \in Sessions,
           s.pc # "idle" => s.run \in Runs, Evidence(s, run, istat)
    PROVE  Evidence(s, run', istat')
  <1>1. CASE s.pc = "idle"
    BY <1>1 DEF Evidence, Executing
  <1>2. CASE s.pc # "idle"
    <2>1. s.run \in Runs /\ run[s.run].status # "none" /\ Scope[s.run] \subseteq Candidates
      BY <1>2 DEF Evidence, ConstantsAssumption
    <2>2. /\ run'[s.run].status # "none"
          /\ \A c \in Scope[s.run] : istat[s.run][c] \in TerminalItem =>
                                       istat'[s.run][c] \in TerminalItem
      BY <2>1, SettledStays
    <2> QED BY <2>2 DEF Evidence
  <1> QED BY <1>1, <1>2

\* A session that has returned, or has just started, claims nothing.
LEMMA IdleEvidence ==
    ASSUME NEW rn, NEW st PROVE Evidence(Idle, rn, st)
  BY DEF Evidence, Idle, Executing

\* Leaving executeRun keeps the evidence of the session.
LEMMA ReturnEvidence ==
    ASSUME NEW s \in Sessions, s.run \in Runs, NEW rn, NEW st, rn[s.run].status # "none", NEW e
    PROVE  Evidence(Return(s, e), rn, st)
  BY DEF Evidence, Return, Idle, Executing

\* A session that only moves within a step that settles nothing.
LEMMA QuietEvidence ==
    ASSUME NEW s \in Sessions, NEW t \in Sessions, NEW rn, NEW st, Evidence(s, rn, st),
           s.pc # "idle", t.pc \in Executing => s.pc \in Executing,
           t.run = s.run, t.at = s.at, t.pc # "save", t.pc = "finish" => t.at # LastStep(t.run),
           t.pc = "work" => t.at # "step1" \/ t.todo = Scope[t.run]
    PROVE  Evidence(t, rn, st)
  BY DEF Evidence, Executing

\* A step left for the next one leaves its evidence behind.
LEMMA AdvanceEvidence ==
    ASSUME ConstantsAssumption, NEW s \in Sessions, s.run \in Runs, s.pc \in Executing,
           NEW rn, NEW st, Evidence(s, rn, st),
           s.at = LastStep(s.run) => \A c \in Scope[s.run] : st[s.run][c] \in TerminalItem
    PROVE  Evidence(Advance(s), rn, st)
  <1> DEFINE r == s.run
             n == NextStep(r, s.at)
             step == IF n = "preparing" /\ s.prep THEN FirstStep(r) ELSE n
             p == EntryPc(s, r, step)
             t == [s EXCEPT !.at = step, !.pc = p]
  <1>1. rn[r].status # "none"
    BY DEF Evidence, Executing
  <1>2. CASE s.at = "finalize"
    BY <1>1, <1>2, ReturnEvidence DEF Advance
  <1>3. CASE s.at # "finalize"
    <2>1. Advance(s) = t
      BY <1>3 DEF Advance
    <2>2. Kind[r] \in Kinds /\ s.at \in Steps
      BY DEF ConstantsAssumption, Sessions
    <2>3. /\ step = "finalize" => s.at = LastStep(r)
          /\ Kind[r] = "step1" => step \notin {"step2", "step3", "step4"}
      <3>1. Kind[r] = "step1" => s.at \notin {"step2", "step3", "step4"}
        BY DEF Evidence
      <3> QED BY <1>3, <2>2, <3>1 DEF NextStep, FirstStep, LastStep, Kinds, Steps
    <2>4. /\ p \in {"finish", "begin", "list", "test"}
          /\ p = "finish" => step = "initialize"
      <3> HIDE DEF step
      <3> QED BY DEF EntryPc
    <2>5. t.pc = p /\ t.at = step /\ t.run = r
      BY DEF Sessions
    <2>6. p = "finish" => step # LastStep(r)
      BY <2>4 DEF LastStep
    <2> HIDE DEF t, p, step
    <2> QED BY <1>1, <2>1, <2>3, <2>4, <2>5, <2>6 DEF Evidence
  <1> QED BY <1>2, <1>3

\* Goto, Fail and the bookkeeping of a step, as steps of worker w.
LEMMA GotoEvidence ==
    ASSUME TypeOK, NEW w \in Workers, NEW p \in Pcs, Goto(w, p), Evidence(sess[w], run, istat),
           sess[w].pc # "idle", p \in Executing => sess[w].pc \in Executing,
           p # "save", p = "finish" => sess[w].at # LastStep(sess[w].run),
           p = "work" => sess[w].at # "step1"
    PROVE  Evidence(sess'[w], run, istat)
  <1>1. /\ sess' \in [Workers -> Sessions] /\ sess'[w].run = sess[w].run
        /\ sess'[w].at = sess[w].at /\ sess'[w].pc = p
    BY TypeGoto
  <1>2. sess[w] \in Sessions /\ sess'[w] \in Sessions
    BY <1>1 DEF TypeOK
  <1> QED BY <1>1, <1>2, QuietEvidence

\* So does an error.
LEMMA FailEvidence ==
    ASSUME TypeOK, NEW w \in Workers, NEW e, Fail(w, e), Evidence(sess[w], run, istat),
           sess[w].pc # "idle"
    PROVE  Evidence(sess'[w], run, istat)
  <1>1. sess[w] \in Sessions /\ sess[w].run \in Runs
    BY Busy
  <1>2. sess'[w] = Return(sess[w], e)
    BY DEF Fail, TypeOK
  <1>3. run[sess[w].run].status # "none"
    BY DEF Evidence
  <1> QED BY <1>1, <1>2, <1>3, ReturnEvidence

\* Step4 takes candidates off its list or ends a goroutine.
LEMMA ReportEvidence ==
    ASSUME TypeOK, NEW w \in Workers, NEW c \in Candidates, NEW e \in Errors,
           Report(w, c, e) \/ Settle(w, c) \/ UNCHANGED sess,
           Evidence(sess[w], run, istat), sess[w].pc = "work", sess[w].at # "step1"
    PROVE  Evidence(sess'[w], run, istat)
  <1>1. /\ sess' \in [Workers -> Sessions] /\ sess'[w].run = sess[w].run
        /\ sess'[w].at = sess[w].at /\ sess'[w].pc = sess[w].pc
    BY TypeReport
  <1>2. sess[w] \in Sessions /\ sess'[w] \in Sessions
    BY <1>1 DEF TypeOK
  <1> QED BY <1>1, <1>2, QuietEvidence DEF Executing

\* Every step of the walk over the stages keeps the evidence.
LEMMA WalkEvidence ==
    ASSUME ConstantsAssumption, TypeOK, SettledInv, NEW w \in Workers,
           \/ ReadRun(w) \/ BeginStage(w) \/ MarkStage(w) \/ FinishStage(w) \/ TestStage(w)
           \/ Initialize(w) \/ SnapshotsReady(w)
    PROVE  Evidence(sess'[w], run, istat)
  <1> DEFINE s == sess[w]
             r == sess[w].run
  <1>1. s.pc \in {"read", "begin", "mark", "finish", "test", "work"}
    BY DEF ReadRun, BeginStage, MarkStage, FinishStage, TestStage, Initialize, SnapshotsReady, At
  <1>2. s.pc \in Executing /\ s.pc # "idle"
    BY <1>1 DEF Executing
  <1>3. s \in Sessions /\ r \in Runs /\ sess \in [Workers -> Sessions]
    BY <1>2, Busy DEF TypeOK
  <1>4. Evidence(s, run, istat) /\ run[r].status # "none" /\ RunEvidence(r)
    BY <1>2, <1>3 DEF SettledInv, Evidence
  <1>5. CASE ReadRun(w)
    <2> DEFINE t == [s EXCEPT !.pc = "finish", !.at = "queued",
                              !.init = run[r].init, !.prep = run[r].prep]
    <2>1. sess'[w] = Return(s, "none") \/ sess'[w] = Return(s, "agent_cancelled") \/ sess'[w] = t
      BY <1>3, <1>5 DEF ReadRun
    <2>2. t.pc = "finish" /\ t.at = "queued" /\ t.run = r
      BY <1>3 DEF Sessions
    <2>3. Evidence(t, run, istat)
      <3> HIDE DEF t
      <3> QED BY <1>4, <2>2 DEF Evidence, Executing, LastStep
    <2> QED BY <1>3, <1>4, <2>1, <2>3, ReturnEvidence
  <1>6. CASE BeginStage(w)
    <2>1. Fail(w, "agent_cancelled") \/ Goto(w, "mark")
      BY <1>6 DEF BeginStage
    <2>2. "mark" \in Pcs
      BY DEF Pcs, Executing
    <2> QED BY <1>2, <1>4, <2>1, <2>2, FailEvidence, GotoEvidence
  <1>7. CASE MarkStage(w)
    <2> DEFINE p == IF s.at \in {"initialize", "finalize"} THEN "work" ELSE "list"
    <2>1. Goto(w, p)
      BY <1>7 DEF MarkStage
    <2>2. p \in Pcs /\ p \in {"work", "list"} /\ (p = "work" => s.at # "step1")
      BY DEF Pcs, Executing
    <2> HIDE DEF p
    <2> QED BY <1>2, <1>4, <2>1, <2>2, GotoEvidence
  <1>8. CASE FinishStage(w)
    <2>1. sess'[w] = Advance(s) /\ s.pc = "finish"
      BY <1>3, <1>8 DEF FinishStage, At
    <2>2. s.at = LastStep(r) => \A c \in Scope[r] : istat[r][c] \in TerminalItem
      BY <1>4, <2>1 DEF Evidence
    <2> QED BY <1>2, <1>3, <1>4, <2>1, <2>2, AdvanceEvidence
  <1>9. CASE TestStage(w)
    <2>1. CASE stage[r][s.at] = "success"
      <3>1. sess'[w] = Advance(s)
        BY <1>3, <1>9, <2>1 DEF TestStage
      <3>2. s.at = LastStep(r) => \A c \in Scope[r] : istat[r][c] \in TerminalItem
        BY <1>4, <2>1 DEF RunEvidence, Settled
      <3> QED BY <1>2, <1>3, <1>4, <3>1, <3>2, AdvanceEvidence
    <2>2. CASE stage[r][s.at] # "success"
      <3> DEFINE t == [s EXCEPT !.pc = "begin"]
      <3>1. sess'[w] = t
        BY <1>3, <1>9, <2>2 DEF TestStage
      <3>2. t \in Sessions /\ t.pc = "begin" /\ t.at = s.at /\ t.run = r
        BY <1>3 DEF Sessions, Pcs, Executing
      <3> HIDE DEF t
      <3> QED BY <1>2, <1>3, <1>4, <3>1, <3>2, QuietEvidence
    <2> QED BY <2>1, <2>2
  <1>10. CASE Initialize(w)
    <2> DEFINE t == [s EXCEPT !.pc = "finish", !.init = TRUE]
    <2>1. sess'[w] = t /\ s.at = "initialize"
      BY <1>3, <1>10 DEF Initialize
    <2>2. t \in Sessions /\ t.pc = "finish" /\ t.at = s.at /\ t.run = r
      BY <1>3 DEF Sessions, Pcs, Executing
    <2>3. s.at # LastStep(r)
      BY <2>1 DEF LastStep
    <2> HIDE DEF t
    <2> QED BY <1>2, <1>3, <1>4, <2>1, <2>2, <2>3, QuietEvidence
  <1>11. CASE SnapshotsReady(w)
    <2> DEFINE t == [s EXCEPT !.prep = TRUE]
               t2 == [s EXCEPT !.prep = TRUE, !.pc = "finish"]
    <2>1. (sess'[w] = t2 \/ sess'[w] = Advance(t)) /\ s.at = "preparing" /\ s.pc = "work"
      BY <1>3, <1>11 DEF SnapshotsReady, At
    <2>2. /\ t \in Sessions /\ t.pc = s.pc /\ t.at = s.at /\ t.run = r /\ t.todo = s.todo
          /\ t2 \in Sessions /\ t2.pc = "finish" /\ t2.at = s.at /\ t2.run = r
      BY <1>3 DEF Sessions, Pcs, Executing
    <2>3. s.at # LastStep(r)
      BY <2>1 DEF LastStep
    <2> HIDE DEF t, t2
    <2>4. Evidence(t, run, istat) /\ Evidence(t2, run, istat)
      BY <1>2, <1>3, <1>4, <2>1, <2>2, <2>3, QuietEvidence
    <2>5. Evidence(Advance(t), run, istat)
      BY <1>2, <1>3, <2>2, <2>3, <2>4, AdvanceEvidence
    <2> QED BY <2>1, <2>4, <2>5
  <1> QED BY <1>5, <1>6, <1>7, <1>8, <1>9, <1>10, <1>11

\* The steps that list, freeze and count items.
LEMMA ListEvidence ==
    ASSUME ConstantsAssumption, TypeOK, SettledInv, NEW w \in Workers,
           \/ ListItems(w) \/ LookAtCase(w) \/ SaveCase(w)
           \/ ItemsPrepared(w) \/ RoundDone(w) \/ Finalize(w)
    PROVE  Evidence(sess'[w], run, istat)
  <1> DEFINE s == sess[w]
             r == sess[w].run
  <1>1. s.pc \in {"list", "work", "save"}
    BY DEF ListItems, LookAtCase, SaveCase, ItemsPrepared, RoundDone, Finalize, Preparing, At
  <1>2. s.pc \in Executing /\ s.pc # "idle"
    BY <1>1 DEF Executing
  <1>3. s \in Sessions /\ r \in Runs /\ sess \in [Workers -> Sessions]
    BY <1>2, Busy DEF TypeOK
  <1>4. Evidence(s, run, istat) /\ run[r].status # "none" /\ RunEvidence(r)
    BY <1>2, <1>3 DEF SettledInv, Evidence
  <1>5. CASE ListItems(w)
    <2> DEFINE open == {c \in Scope[r] : Open(r, c)}
               todo == CASE s.at = "preparing" -> {c \in open : ~snap[r][c].frozen}
                         [] s.at = "step4" -> open
                         [] OTHER -> Scope[r]
               p == IF s.at = "step4" /\ todo = {} THEN "finish" ELSE "work"
               t == [s EXCEPT !.todo = todo, !.pc = p]
    <2>1. sess'[w] = t
      BY <1>3, <1>5 DEF ListItems
    <2>2. s.at = "step1" => todo = Scope[r]
      OBVIOUS
    <2>3. p = "finish" => s.at = "step4" /\ open = {}
      OBVIOUS
    <2>4. p \in {"finish", "work"}
      OBVIOUS
    <2>5. p = "finish" => \A c \in Scope[r] : istat[r][c] \in TerminalItem
      <3>1. \A c \in Scope[r] : istat[r][c] \in ItemStatus /\ istat[r][c] # "absent"
        BY <1>3, <1>4 DEF TypeOK, ConstantsAssumption, RunEvidence
      <3>2. p = "finish" => \A c \in Scope[r] : istat[r][c] \notin OpenItem
        BY <2>3 DEF Open
      <3> HIDE DEF p
      <3> QED BY <3>1, <3>2 DEF ItemStatus
    <2> HIDE DEF todo, p
    <2>6. t.pc = p /\ t.at = s.at /\ t.run = r /\ t.todo = todo
      BY <1>3 DEF Sessions
    <2> HIDE DEF t
    <2> QED BY <1>2, <1>4, <2>1, <2>2, <2>4, <2>5, <2>6 DEF Evidence
  <1>6. CASE LookAtCase(w)
    <2>1. PICK c \in s.todo :
            sess' = [sess EXCEPT ![w].pc = "save", ![w].cand = {c}, ![w].view = Unavailable(c)]
      BY <1>6 DEF LookAtCase
    <2> DEFINE t == [s EXCEPT !.pc = "save", !.cand = {c}, !.view = Unavailable(c)]
    <2>2. sess'[w] = t /\ s.at = "preparing"
      BY <1>3, <1>6, <2>1 DEF LookAtCase
    <2>3. t.pc = "save" /\ t.at = s.at /\ t.run = r
      BY <1>3 DEF Sessions
    <2> HIDE DEF t
    <2> QED BY <1>2, <1>4, <2>2, <2>3 DEF Evidence
  <1>7. CASE SaveCase(w)
    <2>1. \E c : sess' = [sess EXCEPT ![w].pc = "work", ![w].todo = @ \ {c},
                                      ![w].cand = {}, ![w].view = {}]
      BY <1>7 DEF SaveCase
    <2>2. PICK c : sess' = [sess EXCEPT ![w].pc = "work", ![w].todo = @ \ {c},
                                        ![w].cand = {}, ![w].view = {}]
      BY <2>1
    <2> DEFINE t == [s EXCEPT !.pc = "work", !.todo = @ \ {c}, !.cand = {}, !.view = {}]
    <2>3. sess'[w] = t
      BY <1>3, <2>2
    <2>4. s.pc = "save" /\ s.at = "preparing"
      BY <1>4, <1>7 DEF SaveCase, At, Evidence
    <2>5. t.pc = "work" /\ t.at = s.at /\ t.run = r
      BY <1>3 DEF Sessions
    <2> HIDE DEF t
    <2> QED BY <1>2, <1>4, <2>3, <2>4, <2>5 DEF Evidence
  <1>8. CASE ItemsPrepared(w)
    <2>1. Goto(w, "finish") /\ s.pc = "work" /\ s.todo = {} /\ s.at \in {"step1", "step2", "step3"}
      BY <1>8 DEF ItemsPrepared, Preparing, At
    <2>2. sess'[w].run = r /\ sess'[w].at = s.at /\ sess'[w].pc = "finish"
      BY <2>1, TypeGoto DEF Pcs, Executing
    <2>3. s.at = LastStep(r) => \A c \in Scope[r] : istat[r][c] \in TerminalItem
      BY <1>4, <2>1 DEF Evidence, LastStep
    <2> QED BY <1>2, <1>4, <2>1, <2>2, <2>3 DEF Evidence
  <1>9. CASE RoundDone(w)
    <2>1. Fail(w, s.err) \/ Goto(w, "list")
      BY <1>9 DEF RoundDone
    <2>2. "list" \in Pcs
      BY DEF Pcs, Executing
    <2> QED BY <1>2, <1>4, <2>1, <2>2, FailEvidence, GotoEvidence
  <1>10. CASE Finalize(w)
    <2>1. (Fail(w, "agent_cancelled") \/ Goto(w, "finish")) /\ s.at = "finalize"
      BY <1>10 DEF Finalize
    <2>2. "finish" \in Pcs /\ s.at # LastStep(r)
      BY <2>1 DEF Pcs, Executing, LastStep
    <2> QED BY <1>2, <1>4, <2>1, <2>2, FailEvidence, GotoEvidence
  <1> QED BY <1>5, <1>6, <1>7, <1>8, <1>9, <1>10

\* The steps around executeRun: claims, heartbeats, failures, the end of the job.
LEMMA JobEvidence ==
    ASSUME ConstantsAssumption, TypeOK, SettledInv, NEW w \in Workers,
           \/ CheckLease(w) \/ Decide(w) \/ StopRun(w) \/ Tally(w) \/ JobDone(w)
           \/ StepFails(w) \/ Abort(w) \/ Heartbeat(w) \/ Crash(w)
           \/ \E c \in Candidates : PrepareItemFails(w, c)
    PROVE  Evidence(sess'[w], run, istat)
  <1> DEFINE s == sess[w]
             r == sess[w].run
  <1>1. s.pc # "idle"
    BY DEF CheckLease, Decide, StopRun, Tally, JobDone, StepFails, Abort, Heartbeat, Beating,
       Crash, PrepareItemFails, Preparing, At, Executing
  <1>2. s \in Sessions /\ r \in Runs /\ sess \in [Workers -> Sessions]
    BY <1>1, Busy DEF TypeOK
  <1>3. Evidence(s, run, istat) /\ run[r].status # "none"
    BY <1>1 DEF SettledInv, Evidence
  <1>4. CASE JobDone(w) \/ Crash(w)
    <2>1. sess'[w] = Idle
      BY <1>2, <1>4 DEF JobDone, Crash
    <2> QED BY <2>1, IdleEvidence
  <1>5. CASE \/ StepFails(w) \/ Abort(w)
             \/ \E c \in Candidates : PrepareItemFails(w, c)
    <2>1. \E e : Fail(w, e)
      BY <1>5 DEF StepFails, Abort, PrepareItemFails
    <2> QED BY <1>1, <1>3, <2>1, FailEvidence
  <1>6. CASE StopRun(w) \/ Tally(w)
    <2>1. Goto(w, "tally") \/ Goto(w, "done")
      BY <1>6 DEF StopRun, Tally
    <2>2. /\ "tally" \in Pcs /\ "done" \in Pcs
          /\ "tally" \notin Executing /\ "done" \notin Executing
      BY DEF Pcs, Executing
    <2> QED BY <1>1, <1>3, <2>1, <2>2, GotoEvidence
  <1>7. CASE Heartbeat(w)
    <2> DEFINE b == Owns(w) /\ ~run[r].cancel
               t == [s EXCEPT !.ctx = b]
    <2>1. sess'[w] = t
      BY <1>2, <1>7 DEF Heartbeat
    <2>2. t.pc = s.pc /\ t.at = s.at /\ t.run = r /\ t.todo = s.todo
      <3> HIDE DEF b
      <3> QED BY <1>2 DEF Sessions
    <2> HIDE DEF t
    <2> QED BY <1>3, <2>1, <2>2 DEF Evidence
  <1>8. CASE CheckLease(w) \/ Decide(w)
    <2> DEFINE err == IF run[r].cancel THEN "agent_cancelled" ELSE s.err
               s1 == [s EXCEPT !.pc = "decide"]
               s2 == [s EXCEPT !.pc = "done"]
               s3 == [s EXCEPT !.pc = "stop", !.err = err]
    <2>1. sess'[w] = Idle \/ sess'[w] = s1 \/ sess'[w] = s2 \/ sess'[w] = s3
      BY <1>2, <1>8 DEF CheckLease, Decide
    <2>2. /\ s1.pc = "decide" /\ s1.run = r /\ s2.pc = "done" /\ s2.run = r
          /\ s3.pc = "stop" /\ s3.run = r
      <3> HIDE DEF err
      <3> QED BY <1>2 DEF Sessions
    <2> HIDE DEF s1, s2, s3
    <2>3. Evidence(s1, run, istat) /\ Evidence(s2, run, istat) /\ Evidence(s3, run, istat)
      BY <1>3, <2>2 DEF Evidence, Executing
    <2> QED BY <2>1, <2>3, IdleEvidence
  <1> QED BY <1>4, <1>5, <1>6, <1>7, <1>8

\* A worker that has just claimed a job owes no evidence.
LEMMA ClaimEvidence ==
    ASSUME TypeOK, SettledInv, NEW w \in Workers, NEW r \in Runs, Claim(w, r)
    PROVE  Evidence(sess'[w], run, istat)
  <1> DEFINE t == [Idle EXCEPT !.pc = "read", !.run = r, !.ctx = TRUE,
                               !.token = job[r].attempts + 1]
  <1>1. sess'[w] = t
    BY DEF Claim, TypeOK
  <1>2. t.pc = "read" /\ t.run = r /\ t.at = "queued"
    BY DEF Idle
  <1>3. run[r].status # "none"
    BY DEF Claim, SettledInv, RunEvidence
  <1> HIDE DEF t
  <1> QED BY <1>1, <1>2, <1>3 DEF Evidence

\* So does every step of the step4 stage and the end of the run.
LEMMA Step4Evidence ==
    ASSUME TypeOK, SettledInv, NEW w \in Workers, NEW c \in Candidates,
           StartItem(w, c) \/ TaskEnds(w, c)
    PROVE  Evidence(sess'[w], run, istat)
  <1>1. sess[w].pc = "work" /\ sess[w].at = "step4"
    <2>1. CASE StartItem(w, c)
      BY <2>1 DEF StartItem, At
    <2>2. CASE TaskEnds(w, c)
      <3>1. task[w][c].on
        BY <2>2 DEF TaskEnds, DropResult, SkipResult, CancelItem, CommitRefused, AcceptItem,
           RejectItem, FailItem, TaskInterrupted, Committing, Ending
      <3> QED BY <3>1, TaskBusy
    <2> QED BY <2>1, <2>2
  <1>2. \E e \in Errors : Report(w, c, e) \/ Settle(w, c) \/ UNCHANGED sess
    BY DEF StartItem, TaskEnds, DropResult, SkipResult, CancelItem, CommitRefused, AcceptItem,
       RejectItem, FailItem, TaskInterrupted, Silently, Errors
  <1>3. Evidence(sess[w], run, istat)
    BY DEF SettledInv
  <1> QED BY <1>1, <1>2, <1>3, ReportEvidence

\* prepareItem in a step1 run settles the item it takes off the list.
LEMMA PrepareEvidence ==
    ASSUME ConstantsAssumption, TypeOK, SettledInv, [Next]_vars,
           NEW w \in Workers, NEW c \in Candidates, PrepareItem(w, c)
    PROVE  Evidence(sess'[w], run', istat')
  <1> DEFINE s == sess[w]
             r == sess[w].run
  <1>1. s.pc = "work" /\ s.at \in {"step1", "step2", "step3"} /\ Settle(w, c) /\ c \in s.todo
    BY DEF PrepareItem, Preparing, At
  <1>2. s \in Sessions /\ r \in Runs /\ sess \in [Workers -> Sessions]
    BY <1>1, Busy DEF TypeOK
  <1>3. Evidence(s, run, istat) /\ run[r].status # "none" /\ RunEvidence(r)
    BY <1>1, <1>2 DEF SettledInv, Evidence
  <1>4. Evidence(s, run', istat')
    BY <1>2, <1>3, EvidenceStays
  <1> DEFINE t == [s EXCEPT !.todo = @ \ {c}]
  <1>5. sess'[w] = t
    BY <1>1, <1>2 DEF Settle
  <1>6. t.pc = s.pc /\ t.at = s.at /\ t.run = r /\ t.todo = s.todo \ {c}
    BY <1>2 DEF Sessions
  <1>7. s.at = "step1" /\ Kind[r] = "step1" /\ c \in Scope[r] => istat'[r][c] \in TerminalItem
    <2> SUFFICES ASSUME s.at = "step1", Kind[r] = "step1", c \in Scope[r]
                 PROVE  istat'[r][c] \in TerminalItem
      OBVIOUS
    <2>1. CASE ~Open(r, c)
      <3>1. istat[r][c] \in TerminalItem
        BY <1>2, <1>3, <2>1 DEF RunEvidence, TypeOK, ItemStatus, Open
      <3> QED BY <1>2, <1>3, <3>1, SettledStays
    <2>2. CASE Open(r, c)
      <3>1. \E x \in {"skipped_manual_change", "success"} : SetItem(r, c, x)
        BY <2>2 DEF PrepareItem
      <3> QED BY <1>2, <3>1 DEF SetItem, TypeOK, TerminalItem
    <2> QED BY <2>1, <2>2
  <1> HIDE DEF t
  <1> QED BY <1>1, <1>4, <1>5, <1>6, <1>7 DEF Evidence

\* A worker's own step changes its own session only.
LEMMA WorkerSession ==
    ASSUME NEW u \in Workers, WorkerStep(u)
    PROVE  \E s : sess' = [sess EXCEPT ![u] = s]
  <1>1. ASSUME \/ ReadRun(u) \/ BeginStage(u) \/ MarkStage(u) \/ FinishStage(u)
               \/ TestStage(u) \/ Initialize(u) \/ Abort(u) \/ ListItems(u)
               \/ LookAtCase(u) \/ SaveCase(u) \/ SnapshotsReady(u)
        PROVE  \E s : sess' = [sess EXCEPT ![u] = s]
    BY <1>1 DEF ReadRun, BeginStage, MarkStage, FinishStage, TestStage, Initialize,
       Abort, ListItems, LookAtCase, SaveCase, SnapshotsReady, Goto, Fail
  <1>2. ASSUME \/ ItemsPrepared(u) \/ RoundDone(u) \/ Finalize(u) \/ CheckLease(u)
               \/ Decide(u) \/ StopRun(u) \/ Tally(u) \/ JobDone(u)
        PROVE  \E s : sess' = [sess EXCEPT ![u] = s]
    BY <1>2 DEF ItemsPrepared, RoundDone, Finalize, CheckLease, Decide, StopRun, Tally,
       JobDone, Goto, Fail
  <1>3. ASSUME NEW c \in Candidates,
               PrepareItem(u, c) \/ PrepareItemFails(u, c) \/ StartItem(u, c)
        PROVE  \E s : sess' = [sess EXCEPT ![u] = s]
    <2>1. ASSUME PrepareItem(u, c) PROVE Settle(u, c)
      BY <2>1 DEF PrepareItem
    <2>2. ASSUME PrepareItemFails(u, c) PROVE \E e : Fail(u, e)
      BY <2>2 DEF PrepareItemFails
    <2>3. ASSUME StartItem(u, c) PROVE Settle(u, c) \/ \E e : Report(u, c, e)
      BY <2>3 DEF StartItem
    <2>4. Settle(u, c) \/ (\E e : Fail(u, e)) \/ (\E e : Report(u, c, e))
      BY <1>3, <2>1, <2>2, <2>3
    <2> QED BY <2>4 DEF Settle, Fail, Report
  <1> QED BY <1>1, <1>2, <1>3 DEF WorkerStep

\* Whoever takes a step, what every worker knows stays true.
LEMMA SessionEvidence ==
    ASSUME ConstantsAssumption, TypeOK, TypeOK', SettledInv, [Next]_vars, NEW w \in Workers
    PROVE  Evidence(sess'[w], run', istat')
  <1>1. sess'[w] \in Sessions /\ (sess'[w].pc # "idle" => sess'[w].run \in Runs)
    BY DEF TypeOK
  <1>2. ASSUME Evidence(sess'[w], run, istat) PROVE Evidence(sess'[w], run', istat')
    BY <1>1, <1>2, EvidenceStays
  <1>3. ASSUME sess'[w] = sess[w] PROVE Evidence(sess'[w], run', istat')
    BY <1>2, <1>3 DEF SettledInv
  <1>4. ASSUME NEW u \in Workers, u # w, \E s : sess' = [sess EXCEPT ![u] = s]
        PROVE  sess'[w] = sess[w]
    BY <1>4 DEF TypeOK
  <1>5. ASSUME NEW u \in Workers, WorkerStep(u) PROVE Evidence(sess'[w], run', istat')
    <2>1. CASE u # w
      <3>1. \E s : sess' = [sess EXCEPT ![u] = s]
        BY <1>5, WorkerSession
      <3> QED BY <1>3, <1>4, <2>1, <3>1
    <2>2. CASE u = w
      BY <1>5, <1>2, <2>2, WalkEvidence, ListEvidence, JobEvidence, Step4Evidence,
         PrepareEvidence DEF WorkerStep
    <2> QED BY <2>1, <2>2
  <1>6. ASSUME NEW u \in Workers, StepFails(u) \/ Heartbeat(u) \/ Crash(u)
        PROVE  Evidence(sess'[w], run', istat')
    <2>1. \E s : sess' = [sess EXCEPT ![u] = s]
      BY <1>6 DEF StepFails, Heartbeat, Crash, Fail
    <2> QED BY <1>6, <1>2, <1>3, <1>4, <2>1, JobEvidence
  <1>7. ASSUME NEW u \in Workers, NEW r \in Runs, Claim(u, r)
        PROVE  Evidence(sess'[w], run', istat')
    <2>1. \E s : sess' = [sess EXCEPT ![u] = s]
      BY <1>7 DEF Claim
    <2> QED BY <1>7, <1>2, <1>3, <1>4, <2>1, ClaimEvidence
  <1>8. ASSUME NEW u \in Workers, NEW c \in Candidates, TaskEnds(u, c)
        PROVE  Evidence(sess'[w], run', istat')
    <2>1. \E e \in Errors : Report(u, c, e) \/ UNCHANGED sess
      BY <1>8 DEF TaskEnds, DropResult, SkipResult, CancelItem, CommitRefused, AcceptItem,
         RejectItem, FailItem, TaskInterrupted, Silently, Errors
    <2>2. u # w => sess'[w] = sess[w]
      BY <2>1, TypeReport
    <2> QED BY <1>8, <1>2, <1>3, <2>2, Step4Evidence
  <1>9. ASSUME UNCHANGED sess PROVE Evidence(sess'[w], run', istat')
    BY <1>3, <1>9
  <1>10. ASSUME NEW u \in Workers, NEW c \in Candidates, RenewClaim(u, c) \/ SaveArtifact(u, c)
         PROVE  UNCHANGED sess
    BY <1>10 DEF RenewClaim, SaveArtifact
  <1>11. ASSUME NEW r \in Runs, LeaseLapses(r) \/ CreateRun(r) \/ CancelRun(r)
         PROVE  UNCHANGED sess
    BY <1>11 DEF LeaseLapses, CreateRun, CancelRun
  <1>12. ASSUME NEW c \in Candidates,
                \/ ClaimLapses(c) \/ \E v \in Volunteers : ManualAssign(c, v)
                \/ MutateAttempt(c) \/ EditCandidate(c) \/ ImportResumes(c) \/ AllocationAssigns(c)
         PROVE  UNCHANGED sess
    BY <1>12 DEF ClaimLapses, ManualAssign, MutateAttempt, EditCandidate, ImportResumes,
       AllocationAssigns, Manual, Outside
  <1>13. ASSUME UNCHANGED vars PROVE UNCHANGED sess
    BY <1>13 DEF vars
  <1> QED BY <1>5, <1>6, <1>7, <1>8, <1>9, <1>10, <1>11, <1>12, <1>13 DEF Next, Environment

-----------------------------------------------------------------------------
(* Stage rows and jobs.                                                    *)

\* A stage is marked successful only by finishStage, of a worker that is there.
LEMMA StageStep ==
    ASSUME TypeOK, [Next]_vars, NEW r \in Runs, NEW x \in Steps, stage'[r][x] = "success"
    PROVE  \/ stage[r][x] = "success"
           \/ \E w \in Workers : FinishStage(w) /\ sess[w].run = r /\ sess[w].at = x
  <1>1. CASE UNCHANGED stage
    BY <1>1
  <1>2. ASSUME NEW w \in Workers, MarkStage(w) PROVE stage[r][x] = "success"
    <2>1. stage' = [stage EXCEPT ![sess[w].run][sess[w].at] =
                      IF @ = "success" THEN @ ELSE "running"]
      BY <1>2 DEF MarkStage
    <2> QED BY <2>1 DEF TypeOK
  <1>3. ASSUME NEW w \in Workers, FinishStage(w)
        PROVE  stage[r][x] = "success" \/ (sess[w].run = r /\ sess[w].at = x)
    <2>1. \E y : stage' = [stage EXCEPT ![sess[w].run][sess[w].at] = y]
      BY <1>3 DEF FinishStage
    <2> QED BY <2>1 DEF TypeOK
  <1>4. ASSUME NEW w \in Workers, StopRun(w) PROVE stage[r][x] = "success"
    <2> DEFINE q == sess[w].run
               status == IF sess[w].err = "agent_cancelled" THEN "cancelled" ELSE "failed"
               g == [y \in Steps |-> CASE stage[q][y] = "running" -> status
                                       [] stage[q][y] = "pending" -> "skipped"
                                       [] OTHER -> stage[q][y]]
    <2>1. stage' = [stage EXCEPT ![q] = g]
      BY <1>4 DEF StopRun
    <2>2. g[x] = "success" => stage[q][x] = "success"
      OBVIOUS
    <2> HIDE DEF g
    <2> QED BY <2>1, <2>2 DEF TypeOK
  <1>5. ASSUME NEW q \in Runs, CreateRun(q) PROVE stage[r][x] = "success"
    <2> DEFINE g == [y \in Steps |-> IF y = "queued" THEN "running"
                                     ELSE IF HasStage(q, y) THEN "pending" ELSE "absent"]
    <2>1. stage' = [stage EXCEPT ![q] = g]
      BY <1>5 DEF CreateRun
    <2>2. g[x] # "success"
      OBVIOUS
    <2> HIDE DEF g
    <2> QED BY <2>1, <2>2 DEF TypeOK
  <1>6. ASSUME NEW w \in Workers, WorkerStep(w)
        PROVE  UNCHANGED stage \/ MarkStage(w) \/ FinishStage(w) \/ StopRun(w)
    BY <1>6 DEF WorkerStep, ReadRun, BeginStage, TestStage, Initialize, Abort, ListItems,
       LookAtCase, SaveCase, SnapshotsReady, ItemsPrepared, RoundDone, Finalize, CheckLease,
       Decide, Tally, JobDone, PrepareItem, PrepareItemFails, StartItem
  <1>7. ASSUME NEW w \in Workers, NEW c \in Candidates,
               TaskEnds(w, c) \/ RenewClaim(w, c) \/ SaveArtifact(w, c)
        PROVE  UNCHANGED stage
    BY <1>7 DEF TaskEnds, DropResult, SkipResult, CancelItem, CommitRefused, AcceptItem,
       RejectItem, FailItem, TaskInterrupted, RenewClaim, SaveArtifact
  <1>8. ASSUME NEW w \in Workers, StepFails(w) \/ Heartbeat(w) \/ Crash(w) PROVE UNCHANGED stage
    BY <1>8 DEF StepFails, Heartbeat, Crash
  <1>9. ASSUME NEW q \in Runs, LeaseLapses(q) \/ CancelRun(q) \/ \E w \in Workers : Claim(w, q)
        PROVE  UNCHANGED stage
    BY <1>9 DEF LeaseLapses, CancelRun, Claim
  <1>10. ASSUME NEW c \in Candidates,
                \/ ClaimLapses(c) \/ \E v \in Volunteers : ManualAssign(c, v)
                \/ MutateAttempt(c) \/ EditCandidate(c) \/ ImportResumes(c) \/ AllocationAssigns(c)
         PROVE  UNCHANGED stage
    BY <1>10 DEF ClaimLapses, ManualAssign, MutateAttempt, EditCandidate, ImportResumes,
       AllocationAssigns, Manual, Outside
  <1>11. CASE UNCHANGED vars
    BY <1>11, <1>1 DEF vars
  <1> QED BY <1>1, <1>2, <1>3, <1>4, <1>5, <1>6, <1>7, <1>8, <1>9, <1>10, <1>11
          DEF Next, Environment

\* A job appears only with its run.
LEMMA JobStep ==
    ASSUME TypeOK, [Next]_vars, NEW r \in Runs, job'[r].status # "absent"
    PROVE  \/ job[r].status # "absent" \/ CreateRun(r)
           \/ \E w \in Workers : sess[w].pc # "idle" /\ sess[w].run = r
  <1>1. CASE UNCHANGED job
    BY <1>1
  <1>2. ASSUME NEW w \in Workers, JobDone(w) \/ Heartbeat(w)
        PROVE  job[r].status # "absent" \/ (sess[w].pc # "idle" /\ sess[w].run = r)
    <2>1. sess[w].pc # "idle"
      BY <1>2 DEF JobDone, Heartbeat, Beating, Executing
    <2>2. job' = job \/ \E row : job' = [job EXCEPT ![sess[w].run] = row]
      BY <1>2 DEF JobDone, Heartbeat
    <2> QED BY <2>1, <2>2 DEF TypeOK
  <1>3. ASSUME NEW q \in Runs, CreateRun(q) PROVE job[r].status # "absent" \/ CreateRun(r)
    <2>1. \E row : job' = [job EXCEPT ![q] = row]
      BY <1>3 DEF CreateRun
    <2> QED BY <1>3, <2>1 DEF TypeOK
  <1>4. ASSUME NEW q \in Runs, LeaseLapses(q) \/ \E w \in Workers : Claim(w, q)
        PROVE  job[r].status # "absent"
    <2>1. (\E row : job' = [job EXCEPT ![q] = row]) /\ job[q].status # "absent"
      BY <1>4 DEF LeaseLapses, Claim
    <2> QED BY <2>1 DEF TypeOK
  <1>5. ASSUME NEW w \in Workers, WorkerStep(w) PROVE UNCHANGED job \/ JobDone(w)
    BY <1>5 DEF WorkerStep, ReadRun, BeginStage, MarkStage, FinishStage, TestStage, Initialize,
       Abort, ListItems, LookAtCase, SaveCase, SnapshotsReady, ItemsPrepared, RoundDone,
       Finalize, CheckLease, Decide, StopRun, Tally, PrepareItem, PrepareItemFails, StartItem
  <1>6. ASSUME NEW w \in Workers, NEW c \in Candidates,
               TaskEnds(w, c) \/ RenewClaim(w, c) \/ SaveArtifact(w, c)
        PROVE  UNCHANGED job
    BY <1>6 DEF TaskEnds, DropResult, SkipResult, CancelItem, CommitRefused, AcceptItem,
       RejectItem, FailItem, TaskInterrupted, RenewClaim, SaveArtifact
  <1>7. ASSUME NEW w \in Workers, StepFails(w) \/ Crash(w) PROVE UNCHANGED job
    BY <1>7 DEF StepFails, Crash
  <1>8. ASSUME NEW q \in Runs, CancelRun(q) PROVE UNCHANGED job
    BY <1>8 DEF CancelRun
  <1>9. ASSUME NEW c \in Candidates,
               \/ ClaimLapses(c) \/ \E v \in Volunteers : ManualAssign(c, v)
               \/ MutateAttempt(c) \/ EditCandidate(c) \/ ImportResumes(c) \/ AllocationAssigns(c)
        PROVE  UNCHANGED job
    BY <1>9 DEF ClaimLapses, ManualAssign, MutateAttempt, EditCandidate, ImportResumes,
       AllocationAssigns, Manual, Outside
  <1>10. CASE UNCHANGED vars
    BY <1>10, <1>1 DEF vars
  <1> QED BY <1>1, <1>2, <1>3, <1>4, <1>5, <1>6, <1>7, <1>8, <1>9, <1>10
          DEF Next, Environment

-----------------------------------------------------------------------------

\* The invariant holds when nothing has been submitted.
LEMMA SettledInit ==
    ASSUME ConstantsAssumption, Init PROVE SettledInv
  <1>1. \A w \in Workers : Evidence(sess[w], run, istat)
    BY IdleEvidence DEF Init
  <1>2. ASSUME NEW r \in Runs PROVE RunEvidence(r)
    <2>1. /\ run[r].status = "none" /\ job[r].status = "absent"
          /\ \A c \in Candidates : istat[r][c] = "absent"
      BY DEF Init
    <2>2. stage[r][LastStep(r)] # "success"
      BY DEF Init, LastStep, Steps
    <2> QED BY <2>1, <2>2 DEF RunEvidence, FinalRun
  <1> QED BY <1>1, <1>2 DEF SettledInv

\* A run just created has closed nothing.
LEMMA RunEvidenceCreated ==
    ASSUME ConstantsAssumption, TypeOK, NEW r \in Runs, CreateRun(r)
    PROVE  RunEvidence(r)'
  <1>1. run'[r].status = "pending"
    BY RunCreateRun
  <1>2. \A c \in Scope[r] : istat'[r][c] # "absent"
    <2>1. \A c \in Candidates : istat'[r][c] = IF c \in Scope[r] THEN "pending" ELSE "absent"
      BY DEF CreateRun, TypeOK
    <2> QED BY <2>1 DEF ConstantsAssumption
  <1>3. stage'[r][LastStep(r)] # "success"
    BY DEF CreateRun, TypeOK, LastStep, Steps
  <1>4. \A c \in Candidates \ Scope[r] : istat'[r][c] = "absent"
    BY DEF CreateRun, TypeOK
  <1> QED BY <1>1, <1>2, <1>3, <1>4 DEF RunEvidence, FinalRun

\* A run that was not submitted has no items.
LEMMA RunEvidenceNone ==
    ASSUME TypeOK, SettledInv, [Next]_vars, NEW r \in Runs, ~CreateRun(r),
           run[r].status = "none"
    PROVE  RunEvidence(r)'
  <1>1. RunEvidence(r) /\ \A w \in Workers : sess[w].pc # "idle" => sess[w].run # r
    BY DEF SettledInv, Evidence
  <1>2. run'[r].status = "none"
    <2>1. ASSUME NEW w \in Workers, BeginStage(w) \/ Finalize(w) \/ StopRun(w)
          PROVE  sess[w].run # r
      BY <1>1, <2>1 DEF BeginStage, Finalize, StopRun, At
    <2> QED BY <2>1, RunStep DEF SameRun, ActiveRun
  <1>3. \A c \in Candidates : istat'[r][c] = "absent"
    <2>1. "absent" \notin OpenItem
      BY DEF OpenItem
    <2> QED BY <1>1, <2>1, ItemStep DEF ItemMoves, RunEvidence
  <1>4. job'[r].status = "absent"
    BY <1>1, JobStep DEF RunEvidence
  <1>5. stage'[r][LastStep(r)] = "success" => \A c \in Scope[r] : istat'[r][c] \in TerminalItem
    <2> SUFFICES ASSUME stage'[r][LastStep(r)] = "success"
                 PROVE  \A c \in Scope[r] : istat'[r][c] \in TerminalItem
      OBVIOUS
    <2>1. LastStep(r) \in Steps
      BY DEF LastStep, Steps
    <2>2. stage[r][LastStep(r)] = "success"
      <3>1. ASSUME NEW w \in Workers, FinishStage(w) PROVE sess[w].run # r
        BY <1>1, <3>1 DEF FinishStage, At
      <3> QED BY <2>1, <3>1, StageStep
    <2>3. \A c \in Scope[r] : istat[r][c] \in TerminalItem
      BY <1>1, <2>2 DEF RunEvidence, Settled
    <2>4. \A c \in Candidates : ItemMoves(r, c)
      BY ItemStep
    <2>5. Scope[r] \subseteq Candidates
      BY ConstantsAssumption DEF ConstantsAssumption
    <2>6. TerminalItem \cap OpenItem = {}
      BY DEF TerminalItem, OpenItem
    <2> QED BY <2>3, <2>4, <2>5, <2>6 DEF ItemMoves
  <1> QED BY <1>2, <1>3, <1>4, <1>5 DEF RunEvidence, Settled, FinalRun

\* What a submitted run has recorded stays true.
LEMMA RunEvidenceActive ==
    ASSUME ConstantsAssumption, TypeOK, SettledInv, [Next]_vars, NEW r \in Runs,
           run[r].status # "none"
    PROVE  RunEvidence(r)'
  <1>1. RunEvidence(r) /\ Scope[r] \subseteq Candidates
    BY DEF SettledInv, ConstantsAssumption
  <1>2. /\ run'[r].status # "none" /\ ~CreateRun(r)
        /\ \A c \in Candidates : istat[r][c] # "absent" => istat'[r][c] # "absent"
        /\ (\A c \in Scope[r] : istat[r][c] \in TerminalItem) =>
             (\A c \in Scope[r] : istat'[r][c] \in TerminalItem)
    BY SettledStays DEF Settled
  <1>3. \A c \in Scope[r] : istat'[r][c] # "absent"
    BY <1>1, <1>2 DEF RunEvidence
  <1>4. run'[r].status \in FinalRun => \A c \in Scope[r] : istat'[r][c] \in TerminalItem
    <2> SUFFICES ASSUME run'[r].status \in FinalRun
                 PROVE  \A c \in Scope[r] : istat'[r][c] \in TerminalItem
      OBVIOUS
    <2>1. CASE SameRun(r)
      BY <1>1, <1>2, <2>1 DEF SameRun, RunEvidence, Settled
    <2>2. ASSUME NEW w \in Workers, sess[w].run = r, Finalize(w)
          PROVE  \A c \in Scope[r] : istat'[r][c] \in TerminalItem
      <3>1. sess[w].pc = "work" /\ sess[w].at = "finalize" /\ "work" \in Executing
        BY <2>2 DEF Finalize, At, Executing
      <3>2. Evidence(sess[w], run, istat)
        BY DEF SettledInv
      <3>3. \A c \in Scope[r] : istat[r][c] \in TerminalItem
        BY <2>2, <3>1, <3>2 DEF Evidence
      <3> QED BY <1>2, <3>3
    <2>3. ASSUME NEW w \in Workers, sess[w].run = r, StopRun(w)
          PROVE  \A c \in Scope[r] : istat'[r][c] \in TerminalItem
      <3>1. \A c \in Scope[r] : istat'[r][c] \notin OpenItem
        BY <1>1, <2>3, StopRunMoves
      <3>2. \A c \in Scope[r] : istat'[r][c] \in ItemStatus
        BY <1>1, <2>3, TypeStopRun DEF TypeOK
      <3> QED BY <1>3, <3>1, <3>2 DEF ItemStatus
    <2> QED BY <2>1, <2>2, <2>3, <1>2, RunStep DEF FinalRun
  <1>5. stage'[r][LastStep(r)] = "success" => \A c \in Scope[r] : istat'[r][c] \in TerminalItem
    <2> SUFFICES ASSUME stage'[r][LastStep(r)] = "success"
                 PROVE  \A c \in Scope[r] : istat[r][c] \in TerminalItem
      BY <1>2
    <2>1. LastStep(r) \in Steps
      BY DEF LastStep, Steps
    <2>2. CASE stage[r][LastStep(r)] = "success"
      BY <1>1, <2>2 DEF RunEvidence, Settled
    <2>3. ASSUME NEW w \in Workers, FinishStage(w), sess[w].run = r, sess[w].at = LastStep(r)
          PROVE  \A c \in Scope[r] : istat[r][c] \in TerminalItem
      BY <2>3 DEF SettledInv, Evidence, FinishStage, At
    <2> QED BY <2>1, <2>2, <2>3, StageStep
  <1>6. \A c \in Candidates \ Scope[r] : istat'[r][c] = "absent"
    <2>1. "absent" \notin OpenItem
      BY DEF OpenItem
    <2> QED BY <1>1, <1>2, <2>1, ItemStep DEF ItemMoves, RunEvidence
  <1> QED BY <1>2, <1>3, <1>4, <1>5, <1>6 DEF RunEvidence, Settled

\* The invariant is inductive.
LEMMA SettledNext ==
    ASSUME ConstantsAssumption, TypeOK, TypeOK', SettledInv, [Next]_vars
    PROVE  SettledInv'
  <1>1. \A w \in Workers : Evidence(sess'[w], run', istat')
    BY SessionEvidence
  <1>2. \A r \in Runs : RunEvidence(r)'
    BY RunEvidenceCreated, RunEvidenceNone, RunEvidenceActive
  <1> QED BY <1>1, <1>2 DEF SettledInv, Evidence

\* Of every worker and every run, the stage rows and what is still to do account
\* for each item that is still open: what FinishedRunIsSettled rests on.
THEOREM SettledInvariant == Spec => [](TypeOK /\ SettledInv)
  <1>1. Init => SettledInv
    BY SettledInit, ConstantsAssumption
  <1>2. TypeOK /\ TypeOK' /\ SettledInv /\ [Next]_vars => SettledInv'
    BY SettledNext, ConstantsAssumption
  <1> QED BY <1>1, <1>2, TypeCorrect, PTL DEF Spec

\* No run is closed over an open item, whoever closes it: the last stage, a
\* failure or a cancellation, on time or from a worker that lost its lease.
THEOREM FinishedRunsAreSettled == Spec => []FinishedRunIsSettled
  <1>1. SettledInv => FinishedRunIsSettled
    BY DEF SettledInv, RunEvidence, FinishedRunIsSettled
  <1> QED BY <1>1, SettledInvariant, PTL

\* No step of anybody changes an item that has reached a final status.
THEOREM TerminalItemsNeverMove == Spec => TerminalItemsStay
  <1>1. TypeOK /\ SettledInv /\ [Next]_vars =>
          [\A r \in Runs, c \in Candidates :
             istat[r][c] \in TerminalItem => istat'[r][c] = istat[r][c]]_vars
    <2> SUFFICES ASSUME TypeOK, SettledInv, [Next]_vars, NEW r \in Runs, NEW c \in Candidates,
                        istat[r][c] \in TerminalItem
                 PROVE  istat'[r][c] = istat[r][c]
      OBVIOUS
    <2>1. run[r].status # "none"
      BY DEF SettledInv, RunEvidence, TerminalItem
    <2> QED BY <2>1, SettledStays, ConstantsAssumption
  <1> QED BY <1>1, SettledInvariant, PTL DEF Spec, TerminalItemsStay

\* Only the commit of an assessment writes a decision.
LEMMA DecisionWriter ==
    ASSUME [Next]_vars
    PROVE  \/ UNCHANGED decisions
           \/ \E w \in Workers, c \in Candidates :
                AcceptItem(w, c) \/ RejectItem(w, c) \/ FailItem(w, c)
  <1>1. ASSUME NEW w \in Workers, WorkerStep(w) PROVE UNCHANGED decisions
    BY <1>1 DEF WorkerStep, ReadRun, BeginStage, MarkStage, FinishStage, TestStage, Initialize,
       Abort, ListItems, LookAtCase, SaveCase, SnapshotsReady, ItemsPrepared, RoundDone,
       Finalize, CheckLease, Decide, StopRun, Tally, JobDone, PrepareItem, PrepareItemFails,
       StartItem, candidateRows
  <1>2. ASSUME NEW w \in Workers, NEW c \in Candidates,
               \/ DropResult(w, c) \/ SkipResult(w, c) \/ CancelItem(w, c) \/ CommitRefused(w, c)
               \/ TaskInterrupted(w, c) \/ RenewClaim(w, c) \/ SaveArtifact(w, c)
        PROVE  UNCHANGED decisions
    BY <1>2 DEF DropResult, SkipResult, CancelItem, CommitRefused, TaskInterrupted, RenewClaim,
       SaveArtifact, candidateRows
  <1>3. ASSUME NEW w \in Workers, StepFails(w) \/ Heartbeat(w) \/ Crash(w)
        PROVE  UNCHANGED decisions
    BY <1>3 DEF StepFails, Heartbeat, Crash, candidateRows
  <1>4. ASSUME NEW q \in Runs, \/ LeaseLapses(q) \/ CreateRun(q) \/ CancelRun(q)
                               \/ \E w \in Workers : Claim(w, q)
        PROVE  UNCHANGED decisions
    BY <1>4 DEF LeaseLapses, CreateRun, CancelRun, Claim, candidateRows
  <1>5. ASSUME NEW c \in Candidates,
               \/ ClaimLapses(c) \/ \E v \in Volunteers : ManualAssign(c, v)
               \/ MutateAttempt(c) \/ EditCandidate(c) \/ ImportResumes(c) \/ AllocationAssigns(c)
        PROVE  UNCHANGED decisions
    BY <1>5 DEF ClaimLapses, ManualAssign, MutateAttempt, EditCandidate, ImportResumes,
       AllocationAssigns, Manual, Outside
  <1>6. ASSUME UNCHANGED vars PROVE UNCHANGED decisions
    BY <1>6 DEF vars
  <1> QED BY <1>1, <1>2, <1>3, <1>4, <1>5, <1>6 DEF Next, Environment, TaskEnds

\* A step records a decision only for an open item of a run not being cancelled.
LEMMA DecisionStep ==
    ASSUME TypeOK, [Next]_vars, NEW r \in Runs, decisions'[r] # decisions[r]
    PROVE  ~run[r].cancel /\ \E c \in Candidates : Open(r, c)
  <1>1. PICK w \in Workers, c \in Candidates :
           AcceptItem(w, c) \/ RejectItem(w, c) \/ FailItem(w, c)
    BY DecisionWriter
  <1>2. /\ run[sess[w].run].cancel = FALSE /\ Open(sess[w].run, c)
        /\ \E p : Decided(sess[w].run, c, p)
    BY <1>1 DEF AcceptItem, RejectItem, FailItem, Committing
  <1>3. sess[w].run = r
    BY <1>2 DEF Decided, TypeOK
  <1> QED BY <1>2, <1>3

\* A cancelled or ended run records no decision any more, whatever goroutines of
\* it are still waiting for the model.
THEOREM NoDecisionIsLate == Spec => NoLateDecision
  <1>1. TypeOK /\ SettledInv /\ [Next]_vars =>
          [\A r \in Runs : run[r].cancel \/ run[r].status \in FinalRun =>
             decisions'[r] = decisions[r]]_vars
    <2> SUFFICES ASSUME TypeOK, SettledInv, [Next]_vars, NEW r \in Runs,
                        run[r].cancel \/ run[r].status \in FinalRun,
                        decisions'[r] # decisions[r]
                 PROVE  FALSE
      OBVIOUS
    <2>1. ~run[r].cancel /\ run[r].status \in FinalRun
      BY DecisionStep
    <2>2. PICK c \in Candidates : Open(r, c)
      BY DecisionStep
    <2>3. c \notin Scope[r] => istat[r][c] = "absent"
      BY DEF SettledInv, RunEvidence
    <2>4. c \in Scope[r] => istat[r][c] \in TerminalItem
      BY <2>1 DEF SettledInv, RunEvidence, Settled
    <2> QED BY <2>2, <2>3, <2>4 DEF Open, OpenItem, TerminalItem
  <1> QED BY <1>1, SettledInvariant, PTL DEF Spec, NoLateDecision

-----------------------------------------------------------------------------
(* Applications.                                                           *)

\* An application outside Volunteers does not exist: writing it changes nothing.
LEMMA AppWrite ==
    ASSUME TypeOK, NEW c \in Candidates, NEW v, NEW status, SetApp(c, v, status),
           NEW d \in Candidates, NEW u \in Volunteers, app'[d][u] # app[d][u]
    PROVE  d = c /\ u = v
  BY DEF SetApp, TypeOK

\* Row c of app after a commit, or a manual assignment.
Overwrites(c, v, status) ==
    app' = [app EXCEPT ![c] = [AttemptCancelled(c) EXCEPT ![v] = status]]

\* Such a write sets one application and cancels the open attempt, if there is one.
LEMMA CommitWrite ==
    ASSUME TypeOK, NEW c \in Candidates, NEW v, NEW status, Overwrites(c, v, status),
           NEW d \in Candidates, NEW u \in Volunteers, app'[d][u] # app[d][u]
    PROVE  d = c /\ (u = v \/ (flow[c].held = "department" /\ u = flow[c].on))
  <1>1. app[c] \in [Volunteers -> Applications] /\ app \in [Candidates -> [Volunteers -> Applications]]
    BY DEF TypeOK
  <1>2. AttemptCancelled(c) \in [Volunteers -> Applications]
    BY AttemptCancelledType
  <1> DEFINE row == [AttemptCancelled(c) EXCEPT ![v] = status]
  <1>3. app'[d] = IF d = c THEN row ELSE app[d]
    BY <1>1 DEF Overwrites
  <1>4. u # v => row[u] = AttemptCancelled(c)[u]
    BY <1>2
  <1>5. AttemptCancelled(c)[u] # app[c][u] => flow[c].held = "department" /\ u = flow[c].on
    BY <1>1 DEF AttemptCancelled
  <1> HIDE DEF row
  <1>6. d = c
    BY <1>3
  <1>7. u # v => AttemptCancelled(c)[u] # app[c][u]
    BY <1>3, <1>4, <1>6
  <1> QED BY <1>5, <1>6, <1>7

\* What processItem commits is refused when it would touch a closed application.
LEMMA TaskApplications ==
    ASSUME TypeOK, NEW w \in Workers, NEW c \in Candidates, TaskEnds(w, c),
           NEW d \in Candidates, NEW u \in Volunteers, app'[d][u] # app[d][u]
    PROVE  IsOpen(d, u)
  <1> DEFINE p == item[sess[w].run][c].prepared
  <1>1. ASSUME AcceptItem(w, c) \/ RejectItem(w, c) \/ FailItem(w, c) PROVE IsOpen(d, u)
    <2>1. PICK status : Overwrites(c, p, status)
      BY <1>1 DEF AcceptItem, RejectItem, FailItem, Overwrites
    <2>2. /\ \E matching \in BOOLEAN : ~Refused(w, c, matching)
          /\ ~run[sess[w].run].cancel
      BY <1>1 DEF AcceptItem, RejectItem, FailItem, Committing
    <2>3. /\ IsOpen(c, p)
          /\ flow[c].held = "department" => IsOpen(c, flow[c].on)
      BY <2>2 DEF Refused
    <2> HIDE DEF p
    <2>4. d = c /\ (u = p \/ (flow[c].held = "department" /\ u = flow[c].on))
      BY <2>1, CommitWrite
    <2> QED BY <2>3, <2>4
  <1>2. ASSUME CancelItem(w, c) PROVE IsOpen(d, u)
    <2>1. SetApp(c, p, "blocked") /\ IsOpen(c, p)
      BY <1>2 DEF CancelItem, Refused
    <2>2. d = c /\ u = p
      BY <2>1, AppWrite
    <2> QED BY <2>1, <2>2
  <1>3. ASSUME DropResult(w, c) \/ SkipResult(w, c) \/ CommitRefused(w, c) \/ TaskInterrupted(w, c)
        PROVE  FALSE
    BY <1>3 DEF DropResult, SkipResult, CommitRefused, TaskInterrupted, candidateRows
  <1> QED BY <1>1, <1>2, <1>3 DEF TaskEnds

\* The walk over the stages touches no closed application either.
LEMMA WorkerApplications ==
    ASSUME TypeOK, NEW w \in Workers, WorkerStep(w),
           NEW d \in Candidates, NEW u \in Volunteers, app'[d][u] # app[d][u]
    PROVE  IsOpen(d, u)
  <1>1. ASSUME NEW c \in Candidates, PrepareItem(w, c) PROVE IsOpen(d, u)
    <2> DEFINE r == sess[w].run
               p == snap[r][c].cur
    <2>1. SetApp(c, p, "blocked") /\ IsOpen(c, p)
      BY <1>1 DEF PrepareItem, PrepareError
    <2>2. d = c /\ u = p
      BY <2>1, AppWrite
    <2> QED BY <2>1, <2>2
  <1>2. ASSUME NEW c \in Candidates, StartItem(w, c) PROVE IsOpen(d, u)
    <2> DEFINE p == item[sess[w].run][c].prepared
    <2>1. SetApp(c, p, "assessing") /\ IsOpen(c, p)
      BY <1>2 DEF StartItem, Assessable
    <2>2. d = c /\ u = p
      BY <2>1, AppWrite
    <2> QED BY <2>1, <2>2
  <1>3. ASSUME StopRun(w) PROVE IsOpen(d, u)
    <2>1. app[d][u] = "assessing"
      BY <1>3 DEF StopRun
    <2> QED BY <2>1 DEF IsOpen, ClosedApplication
  <1>4. ASSUME \/ ReadRun(w) \/ BeginStage(w) \/ MarkStage(w) \/ FinishStage(w) \/ TestStage(w)
               \/ Initialize(w) \/ Abort(w) \/ ListItems(w) \/ LookAtCase(w) \/ SaveCase(w)
               \/ SnapshotsReady(w) \/ ItemsPrepared(w) \/ RoundDone(w) \/ Finalize(w)
               \/ CheckLease(w) \/ Decide(w) \/ Tally(w) \/ JobDone(w)
               \/ \E c \in Candidates : PrepareItemFails(w, c)
        PROVE  FALSE
    BY <1>4 DEF ReadRun, BeginStage, MarkStage, FinishStage, TestStage, Initialize, Abort,
       ListItems, LookAtCase, SaveCase, SnapshotsReady, ItemsPrepared, RoundDone, Finalize,
       CheckLease, Decide, Tally, JobDone, PrepareItemFails, candidateRows
  <1> QED BY <1>1, <1>2, <1>3, <1>4 DEF WorkerStep

\* Nor does anybody else; an import writes new applications only.
Imported(c, v) == ImportResumes(c) /\ app[c][v] = "absent"

LEMMA OutsideApplications ==
    ASSUME TypeOK, NEW c \in Candidates,
           \/ \E v \in Volunteers : ManualAssign(c, v)
           \/ MutateAttempt(c) \/ EditCandidate(c) \/ ImportResumes(c) \/ AllocationAssigns(c),
           NEW d \in Candidates, NEW u \in Volunteers, app'[d][u] # app[d][u]
    PROVE  IsOpen(d, u) \/ Imported(d, u)
  <1>1. ASSUME NEW v \in Volunteers, ManualAssign(c, v) PROVE IsOpen(d, u)
    <2>1. Overwrites(c, v, "pending_dispatch")
      BY <1>1 DEF ManualAssign, Overwrites
    <2>2. d = c /\ (u = v \/ (flow[c].held = "department" /\ u = flow[c].on))
      BY <2>1, CommitWrite
    <2> QED BY <1>1, <2>2 DEF ManualAssign
  <1>2. ASSUME MutateAttempt(c) PROVE IsOpen(d, u)
    <2>1. app[c][flow[c].on] \in {"pending_dispatch", "department_review"}
      BY <1>2 DEF MutateAttempt
    <2>2. \E status : SetApp(c, flow[c].on, status)
      BY <1>2 DEF MutateAttempt
    <2>3. d = c /\ u = flow[c].on
      BY <2>2, AppWrite
    <2> QED BY <2>1, <2>3 DEF IsOpen, ClosedApplication
  <1>3. ASSUME EditCandidate(c) PROVE IsOpen(d, u)
    <2> DEFINE blocked == [v \in Volunteers |->
                             IF app[c][v] = "assessing" THEN "blocked" ELSE app[c][v]]
               moved == [blocked EXCEPT ![flow[c].on] = "needs_reanalysis"]
    <2>1. Invalidated(flow[c]).held = flow[c].held /\ Invalidated(flow[c]).on = flow[c].on
      BY DEF Invalidated, Unclaimed, TypeOK, Workflows
    <2>2. \/ app' = [app EXCEPT ![c] = blocked]
          \/ flow[c].held = "pool" /\ app' = [app EXCEPT ![c] = moved]
      BY <1>3, <2>1 DEF EditCandidate
    <2>3. /\ blocked[u] # app[c][u] => app[c][u] = "assessing"
          /\ moved[u] # blocked[u] => u = flow[c].on
      OBVIOUS
    <2>4. app \in [Candidates -> [Volunteers -> Applications]]
      BY DEF TypeOK
    <2> HIDE DEF blocked, moved
    <2>5. d = c /\ (app'[c] = blocked \/ (flow[c].held = "pool" /\ app'[c] = moved))
      BY <2>2, <2>4
    <2>6. app[c][u] = "assessing" \/ (flow[c].held = "pool" /\ u = flow[c].on)
      BY <2>3, <2>5
    <2> QED BY <1>3, <2>5, <2>6 DEF EditCandidate, IsOpen, ClosedApplication
  <1>4. ASSUME ImportResumes(c) PROVE Imported(d, u)
    <2>1. PICK new \in SUBSET (Wishes[c] \ Known(c)) :
             app' = [app EXCEPT ![c] = [v \in Volunteers |->
                        IF v \in new THEN "pending" ELSE app[c][v]]]
      BY <1>4 DEF ImportResumes
    <2>2. d = c /\ u \in new
      BY <2>1 DEF TypeOK
    <2> QED BY <1>4, <2>2 DEF Known, Imported
  <1>5. ASSUME AllocationAssigns(c) PROVE IsOpen(d, u)
    <2>1. d = c /\ u = flow[c].on
      BY <1>5, AppWrite DEF AllocationAssigns
    <2> QED BY <1>5, <2>1 DEF AllocationAssigns
  <1> QED BY <1>1, <1>2, <1>3, <1>4, <1>5

\* No step of anybody changes a closed application, and only an import adds one.
LEMMA ApplicationStep ==
    ASSUME TypeOK, [Next]_vars, NEW d \in Candidates, NEW u \in Volunteers,
           app'[d][u] # app[d][u]
    PROVE  IsOpen(d, u) \/ Imported(d, u)
  <1>1. ASSUME NEW w \in Workers, WorkerStep(w) PROVE IsOpen(d, u)
    BY <1>1, WorkerApplications
  <1>2. ASSUME NEW w \in Workers, NEW c \in Candidates, TaskEnds(w, c) PROVE IsOpen(d, u)
    BY <1>2, TaskApplications
  <1>3. ASSUME NEW w \in Workers, NEW c \in Candidates, RenewClaim(w, c) \/ SaveArtifact(w, c)
        PROVE  FALSE
    BY <1>3 DEF RenewClaim, SaveArtifact
  <1>4. ASSUME NEW w \in Workers, StepFails(w) \/ Heartbeat(w) \/ Crash(w) PROVE FALSE
    BY <1>4 DEF StepFails, Heartbeat, Crash, candidateRows
  <1>5. ASSUME NEW r \in Runs, \/ LeaseLapses(r) \/ CreateRun(r) \/ CancelRun(r)
                               \/ \E w \in Workers : Claim(w, r)
        PROVE  FALSE
    BY <1>5 DEF LeaseLapses, CreateRun, CancelRun, Claim, candidateRows
  <1>6. ASSUME NEW c \in Candidates, ClaimLapses(c) PROVE FALSE
    BY <1>6 DEF ClaimLapses
  <1>7. ASSUME NEW c \in Candidates,
               \/ \E v \in Volunteers : ManualAssign(c, v)
               \/ MutateAttempt(c) \/ EditCandidate(c) \/ ImportResumes(c)
               \/ AllocationAssigns(c)
        PROVE  IsOpen(d, u) \/ Imported(d, u)
    BY <1>7, OutsideApplications
  <1>8. ASSUME UNCHANGED vars PROVE FALSE
    BY <1>8 DEF vars
  <1> QED BY <1>1, <1>2, <1>3, <1>4, <1>5, <1>6, <1>7, <1>8 DEF Next, Environment

\* A finished application is never reopened or judged again, by anybody.
THEOREM ClosedApplicationsAreFinal == Spec => ClosedApplicationsStay
  <1>1. TypeOK /\ [Next]_vars =>
          [\A c \in Candidates, v \in Volunteers :
             app[c][v] \in ClosedApplication => app'[c][v] = app[c][v]]_vars
    BY ApplicationStep DEF IsOpen, Imported, ClosedApplication
  <1> QED BY <1>1, TypeCorrect, PTL DEF Spec, ClosedApplicationsStay

-----------------------------------------------------------------------------
(* Decisions.                                                              *)

\* A resume a run has decided on is out of the run's reach: the item is settled
\* or the application closed.
Written(r, c, v) == /\ decisions[r][c][v] \in {0, 1}
                    /\ decisions[r][c][v] = 1 =>
                         istat[r][c] \in TerminalItem \/ app[c][v] \in ClosedApplication
WrittenInv == \A r \in Runs, c \in Candidates, v \in Volunteers : Written(r, c, v)

\* A commit decides on the prepared resume only, which is open, of an open item,
\* and settles the item or closes the application.
LEMMA CommitDecides ==
    ASSUME TypeOK, NEW w \in Workers, NEW c \in Candidates,
           AcceptItem(w, c) \/ RejectItem(w, c) \/ FailItem(w, c)
    PROVE  LET r == sess[w].run
               p == item[r][c].prepared
           IN /\ r \in Runs /\ p \in Volunteers
              /\ Open(r, c) /\ IsOpen(c, p) /\ Decided(r, c, p)
              /\ istat'[r][c] \in TerminalItem \/ app'[c][p] = "ai_rejected"
  <1> DEFINE r == sess[w].run
             p == item[r][c].prepared
  <1>1. /\ task[w][c].on /\ Open(r, c) /\ Decided(r, c, p)
        /\ \E matching \in BOOLEAN : ~Refused(w, c, matching)
    BY DEF AcceptItem, RejectItem, FailItem, Committing, Ending
  <1>2. r \in Runs /\ p \in Ranks
    BY <1>1, TaskBusy
  <1>3. IsOpen(c, p) /\ p \in Volunteers
    BY <1>1, <1>2 DEF Refused, Ranks
  <1>4. CASE AcceptItem(w, c) \/ FailItem(w, c)
    <2>1. \E x \in {"success", "needs_attention", "failed"} : SetItem(r, c, x)
      BY <1>4 DEF AcceptItem, FailItem
    <2> HIDE DEF p
    <2>2. istat'[r][c] \in {"success", "needs_attention", "failed"}
      BY <1>2, <2>1 DEF SetItem, TypeOK
    <2> QED BY <1>1, <1>2, <1>3, <2>2 DEF TerminalItem, p
  <1>5. CASE RejectItem(w, c)
    <2>1. app' = [app EXCEPT ![c] = [AttemptCancelled(c) EXCEPT ![p] = "ai_rejected"]]
      BY <1>5 DEF RejectItem
    <2>2. AttemptCancelled(c) \in [Volunteers -> Applications]
      BY AttemptCancelledType
    <2>3. app'[c][p] = "ai_rejected"
      BY <1>3, <2>1, <2>2 DEF TypeOK
    <2> QED BY <1>1, <1>2, <1>3, <2>3
  <1> QED BY <1>4, <1>5

\* The invariant is inductive.
LEMMA WrittenNext ==
    ASSUME ConstantsAssumption, TypeOK, SettledInv, WrittenInv, [Next]_vars
    PROVE  WrittenInv'
  <1> SUFFICES ASSUME NEW r \in Runs, NEW c \in Candidates, NEW v \in Volunteers
               PROVE  Written(r, c, v)'
    BY DEF WrittenInv
  <1>1. Written(r, c, v)
    BY DEF WrittenInv
  <1>2. app[c][v] \in ClosedApplication => app'[c][v] \in ClosedApplication
    BY ApplicationStep DEF IsOpen, Imported, ClosedApplication
  <1>3. istat[r][c] \in TerminalItem => istat'[r][c] \in TerminalItem
    <2>1. istat[r][c] \in TerminalItem => run[r].status # "none"
      BY DEF SettledInv, RunEvidence, TerminalItem
    <2> QED BY <2>1, SettledStays
  <1>4. CASE decisions'[r][c][v] = decisions[r][c][v]
    BY <1>1, <1>2, <1>3, <1>4 DEF Written
  <1>5. CASE decisions'[r][c][v] # decisions[r][c][v]
    <2>1. PICK w \in Workers, d \in Candidates :
             AcceptItem(w, d) \/ RejectItem(w, d) \/ FailItem(w, d)
      BY <1>5, DecisionWriter
    <2> DEFINE q == sess[w].run
               p == item[q][d].prepared
    <2>2. /\ q \in Runs /\ p \in Volunteers
          /\ Open(q, d) /\ IsOpen(d, p) /\ Decided(q, d, p)
          /\ istat'[q][d] \in TerminalItem \/ app'[d][p] = "ai_rejected"
      BY <2>1, CommitDecides
    <2> HIDE DEF q, p
    <2>3. q = r /\ d = c /\ p = v /\ decisions'[r][c][v] = decisions[r][c][v] + 1
      BY <1>5, <2>2 DEF Decided, TypeOK
    <2>4. decisions[r][c][v] = 0
      BY <1>1, <2>2, <2>3 DEF Written, Open, OpenItem, TerminalItem, IsOpen
    <2> QED BY <2>2, <2>3, <2>4 DEF Written, IsOpen, ClosedApplication
  <1> QED BY <1>4, <1>5

\* However often a job is claimed again, two workers assess the same candidate or
\* a late result comes in, a run records at most one decision for a resume.
THEOREM DecisionsAreUnique == Spec => []WritesOnce
  <1>1. Init => WrittenInv
    BY DEF Init, WrittenInv, Written
  <1>2. TypeOK /\ SettledInv /\ WrittenInv /\ [Next]_vars => WrittenInv'
    BY WrittenNext, ConstantsAssumption
  <1>3. WrittenInv => WritesOnce
    BY DEF WrittenInv, Written, WritesOnce
  <1> QED BY <1>1, <1>2, <1>3, SettledInvariant, PTL DEF Spec

-----------------------------------------------------------------------------
(* Finished candidates.  A commit does not look at what holds a workflow:  *)
(* that it cannot take a finished one back follows from the claim.         *)

\* The talent pool takes a candidate with no wish left open, and gives one back to
\* HR only, without a claim.
EntersPool(c) == Wishes[c] \subseteq Unavailable(c)'
LeavesPool(c, f) == /\ flow[c].held = "talent_pool" /\ f.held = "department"
                    /\ f.claim = NoRun /\ IsOpen(c, f.on)
                    /\ UNCHANGED <<istat, decisions>>

\* Row f is a legal next workflow of c for anybody but the commit of an
\* assessment: what holds it and its claim stay; or it was not finished, and is
\* finished without a claim or without an open wish; or it leaves the talent pool.
RowMoves(c, f) ==
    \/ f.held = flow[c].held /\ f.claim \in {flow[c].claim, NoRun}
    \/ /\ flow[c].held \notin Finished
       /\ f.held = "passed" => f.claim = NoRun
       /\ f.held = "talent_pool" => EntersPool(c)
    \/ LeavesPool(c, f)
HeldMoves(c) == RowMoves(c, flow'[c])

\* A finished workflow that is still claimed has no open wish left to decide on.
HeldInv == \A c \in Candidates :
             flow[c].held \in Finished => flow[c].claim = NoRun \/ Wishes[c] \subseteq Unavailable(c)

\* The resume an item is prepared for is a wish of its candidate.
PreparedInv == \A r \in Runs, c \in Candidates : item[r][c].prepared \in Wishes[c] \cup {0}

\* Replacing one row by a legal one.
LEMMA HeldRow ==
    ASSUME TypeOK, NEW c \in Candidates, NEW f, flow' = [flow EXCEPT ![c] = f], RowMoves(c, f)
    PROVE  \A d \in Candidates : HeldMoves(d)
  BY DEF TypeOK, HeldMoves, RowMoves

\* What the helpers of a candidate transaction do to the two columns.
LEMMA HeldHelpers ==
    ASSUME NEW f \in Workflows, NEW p
    PROVE  /\ Unclaimed(f).held = f.held /\ Unclaimed(f).claim = NoRun
           /\ Invalidated(f).held = f.held /\ Invalidated(f).claim = NoRun
           /\ Touched(f, p).held = f.held /\ Touched(f, p).claim = f.claim
           /\ Committed(f, p).held = f.held /\ Committed(f, p).claim = NoRun
           /\ Archived(f).held = "archived" /\ Archived(f).claim = f.claim
           /\ Freed(f).held = "free" /\ Freed(f).claim = f.claim
  <1>1. Unclaimed(f).held = f.held /\ Unclaimed(f).claim = NoRun
    BY DEF Unclaimed, Workflows
  <1>2. Invalidated(f).held = f.held /\ Invalidated(f).claim = NoRun
    BY DEF Invalidated, Unclaimed, Workflows
  <1>3. Touched(f, p).held = f.held /\ Touched(f, p).claim = f.claim
    BY DEF Touched, Workflows
  <1>4. Committed(f, p).held = f.held /\ Committed(f, p).claim = NoRun
    BY DEF Committed, Touched, Unclaimed, Workflows
  <1>5. /\ Archived(f).held = "archived" /\ Archived(f).claim = f.claim
        /\ Freed(f).held = "free" /\ Freed(f).claim = f.claim
    BY DEF Archived, Freed, Workflows
  <1> QED BY <1>1, <1>2, <1>3, <1>4, <1>5

\* talentPool finishes a workflow only when no wish is open.
LEMMA HeldAfterLastWish ==
    ASSUME NEW f \in Workflows, NEW c, NEW closed
    PROVE  /\ AfterLastWish(f, c, closed).claim = f.claim
           /\ AfterLastWish(f, c, closed).held \in {"talent_pool", "free"}
           /\ AfterLastWish(f, c, closed).held = "talent_pool" => Wishes[c] \subseteq closed
  BY DEF AfterLastWish, Workflows

\* prepareItem leaves a finished workflow alone.
LEMMA HeldPrepareItem ==
    ASSUME TypeOK, NEW w \in Workers, NEW c \in Candidates, PrepareItem(w, c)
    PROVE  \A d \in Candidates : HeldMoves(d)
  <1> DEFINE r == sess[w].run
             f == Touched(flow[c], snap[r][c].cur)
             last == AfterLastWish(flow[c], c, Unavailable(c))
             next == {Archived(f), Freed(f), Freed(flow[c]), flow[c]}
  <1>1. r \in Runs /\ flow[c] \in Workflows
    BY Busy DEF PrepareItem, Preparing, At, TypeOK
  <1>2. f \in Workflows /\ f.claim = flow[c].claim
    <2>1. snap[r][c].cur \in Ranks
      BY <1>1 DEF TypeOK, Snapshots
    <2> QED BY <1>1, <2>1, WorkflowMoves, HeldHelpers
  <1>3. \/ flow' = flow
        \/ \E g \in {Invalidated(flow[c]), flow[c]} : flow' = [flow EXCEPT ![c] = g]
        \/ ~Retained(r, c) /\ \E g \in next : flow' = [flow EXCEPT ![c] = g]
        \/ ~Retained(r, c) /\ flow' = [flow EXCEPT ![c] = last] /\ UNCHANGED app
    BY DEF PrepareItem
  <1>4. CASE flow' = flow
    BY <1>4 DEF HeldMoves, RowMoves
  <1>5. ASSUME NEW g \in {Invalidated(flow[c]), flow[c]} PROVE RowMoves(c, g)
    BY <1>1, HeldHelpers DEF RowMoves
  <1>6. ASSUME NEW g \in next, ~Retained(r, c) PROVE RowMoves(c, g)
    <2>1. flow[c].held \notin Finished
      BY <1>6 DEF Retained
    <2>2. g.held \notin Finished
      BY <1>1, <1>2, <1>6, <2>1, HeldHelpers DEF Finished
    <2> QED BY <2>1, <2>2 DEF RowMoves, Finished
  <1>7. ASSUME ~Retained(r, c), UNCHANGED app PROVE RowMoves(c, last)
    <2>1. flow[c].held \notin Finished
      BY <1>7 DEF Retained
    <2>2. last.held = "talent_pool" => Wishes[c] \subseteq Unavailable(c)
      BY <1>1, HeldAfterLastWish
    <2>3. Unavailable(c)' = Unavailable(c)
      BY <1>7 DEF Unavailable, IsOpen
    <2>4. last.held # "passed"
      BY <1>1, HeldAfterLastWish
    <2> HIDE DEF last
    <2> QED BY <2>1, <2>2, <2>3, <2>4 DEF RowMoves, EntersPool
  <1> HIDE DEF next, last
  <1> QED BY <1>3, <1>4, <1>5, <1>6, <1>7, HeldRow

\* So does the claim of processItem.
LEMMA HeldStartItem ==
    ASSUME TypeOK, NEW w \in Workers, NEW c \in Candidates, StartItem(w, c)
    PROVE  \A d \in Candidates : HeldMoves(d)
  <1> DEFINE r == sess[w].run
             n == item[r][c].tries + 1
             f == [flow[c] EXCEPT !.claim = r, !.token = n, !.live = TRUE]
  <1>1. flow[c] \in Workflows
    BY DEF TypeOK
  <1>2. \/ flow' = flow
        \/ \E g \in {Invalidated(flow[c]), flow[c]} : flow' = [flow EXCEPT ![c] = g]
        \/ ~Retained(r, c) /\ flow' = [flow EXCEPT ![c] = f]
    BY DEF StartItem
  <1>3. CASE flow' = flow
    BY <1>3 DEF HeldMoves, RowMoves
  <1>4. ASSUME NEW g \in {Invalidated(flow[c]), flow[c]} PROVE RowMoves(c, g)
    BY <1>1, HeldHelpers DEF RowMoves
  <1>5. ASSUME ~Retained(r, c) PROVE RowMoves(c, f)
    <2>1. f.held = flow[c].held /\ flow[c].held \notin Finished
      BY <1>1, <1>5 DEF Workflows, Retained
    <2> QED BY <2>1 DEF RowMoves, Finished
  <1> HIDE DEF f
  <1> QED BY <1>2, <1>3, <1>4, <1>5, HeldRow

\* stopRun and the end of a goroutine release claims.
LEMMA HeldRelease ==
    ASSUME TypeOK, NEW w \in Workers,
           StopRun(w) \/ \E c \in Candidates : CancelItem(w, c)
    PROVE  \A d \in Candidates : HeldMoves(d)
  <1>1. ASSUME NEW d \in Candidates
        PROVE  flow'[d] = flow[d] \/ flow'[d] = Unclaimed(flow[d])
    <2>1. CASE StopRun(w)
      BY <2>1 DEF StopRun
    <2>2. CASE \E c \in Candidates : CancelItem(w, c)
      BY <2>2 DEF CancelItem, TypeOK
    <2> QED BY <2>1, <2>2
  <1>2. \A d \in Candidates : flow[d] \in Workflows
    BY DEF TypeOK
  <1> QED BY <1>1, <1>2, HeldHelpers DEF HeldMoves, RowMoves

\* A renewal, and a claim that lapses, touch the expiry only.
LEMMA HeldLease ==
    ASSUME TypeOK, NEW c \in Candidates,
           ClaimLapses(c) \/ \E w \in Workers : RenewClaim(w, c)
    PROVE  \A d \in Candidates : HeldMoves(d)
  <1>1. \E b \in BOOLEAN : flow' = [flow EXCEPT ![c] = [flow[c] EXCEPT !.live = b]]
    BY DEF ClaimLapses, RenewClaim
  <1>2. PICK b \in BOOLEAN : flow' = [flow EXCEPT ![c] = [flow[c] EXCEPT !.live = b]]
    BY <1>1
  <1> DEFINE f == [flow[c] EXCEPT !.live = b]
  <1>3. f.held = flow[c].held /\ f.claim = flow[c].claim
    BY DEF TypeOK, Workflows
  <1> HIDE DEF f
  <1>4. RowMoves(c, f)
    BY <1>3 DEF RowMoves
  <1> QED BY <1>2, <1>4, HeldRow DEF f

\* Users and allocation take no finished candidate back, but for the manual
\* assignment of one in the talent pool.
LEMMA HeldOutside ==
    ASSUME TypeOK, NEW c \in Candidates,
           \/ \E v \in Volunteers : ManualAssign(c, v)
           \/ MutateAttempt(c) \/ EditCandidate(c) \/ ImportResumes(c) \/ AllocationAssigns(c)
    PROVE  \A d \in Candidates : HeldMoves(d)
  <1> DEFINE f == Invalidated(flow[c])
  <1>1. flow[c] \in Workflows /\ f \in Workflows
    BY WorkflowUpdates DEF TypeOK
  <1>2. f.held = flow[c].held /\ f.claim = NoRun
    BY <1>1, HeldHelpers
  <1>3. ASSUME NEW v \in Volunteers, ManualAssign(c, v)
        PROVE  \E g : flow' = [flow EXCEPT ![c] = g] /\ RowMoves(c, g)
    <2> DEFINE g == [Invalidated(Touched(flow[c], v)) EXCEPT !.held = "department", !.on = v]
               h == Invalidated(Touched(flow[c], v))
    <2>1. /\ flow' = [flow EXCEPT ![c] = g] /\ flow[c].held # "passed" /\ IsOpen(c, v)
          /\ UNCHANGED <<istat, decisions>>
      BY <1>3 DEF ManualAssign, Manual, Outside
    <2>2. Touched(flow[c], v) \in Workflows
      BY <1>1, WorkflowMoves DEF Ranks
    <2>3. h \in Workflows /\ h.claim = NoRun
      BY <2>2, WorkflowUpdates, HeldHelpers
    <2>4. g.held = "department" /\ g.claim = NoRun /\ g.on = v
      BY <2>3 DEF Workflows
    <2> HIDE DEF g
    <2> QED BY <2>1, <2>4 DEF RowMoves, LeavesPool, Finished
  <1>4. ASSUME MutateAttempt(c) PROVE \E g : flow' = [flow EXCEPT ![c] = g] /\ RowMoves(c, g)
    <2> DEFINE v == flow[c].on
               passed == [f EXCEPT !.held = "passed", !.on = 0]
               rest == AfterLastWish(f, c, Unavailable(c) \cup {v})
    <2>1. /\ flow[c].held = "department"
          /\ \/ \E g \in {f, Archived(f), passed} : flow' = [flow EXCEPT ![c] = g]
             \/ flow' = [flow EXCEPT ![c] = rest] /\ SetApp(c, v, "department_rejected")
      BY <1>4 DEF MutateAttempt
    <2>2. flow[c].held \notin Finished
      BY <2>1 DEF Finished
    <2>3. ASSUME NEW g \in {f, Archived(f), passed} PROVE RowMoves(c, g)
      <3>1. f.held = "department" /\ Archived(f).held = "archived"
        BY <1>1, <1>2, <2>1, HeldHelpers
      <3>2. passed.held = "passed" /\ passed.claim = NoRun
        BY <1>1, <1>2 DEF Workflows
      <3> HIDE DEF f, passed
      <3> QED BY <2>2, <2>3, <3>1, <3>2 DEF RowMoves
    <2>4. ASSUME SetApp(c, v, "department_rejected") PROVE RowMoves(c, rest)
      <3>1. rest.held = "talent_pool" => Wishes[c] \subseteq Unavailable(c) \cup {v}
        BY <1>1, HeldAfterLastWish
      <3>2. rest.held # "passed"
        BY <1>1, HeldAfterLastWish
      <3>3. Unavailable(c) \cup (Wishes[c] \cap {v}) \subseteq Unavailable(c)'
        BY <2>4, ConstantsAssumption
           DEF SetApp, TypeOK, Unavailable, IsOpen, ClosedApplication, ConstantsAssumption
      <3> HIDE DEF rest
      <3> QED BY <2>2, <3>1, <3>2, <3>3 DEF RowMoves, EntersPool
    <2> HIDE DEF f, passed, rest
    <2> QED BY <2>1, <2>3, <2>4
  <1>5. ASSUME EditCandidate(c) \/ ImportResumes(c)
        PROVE  \E g : flow' = [flow EXCEPT ![c] = g] /\ RowMoves(c, g)
    <2>1. \/ flow' = [flow EXCEPT ![c] = f]
          \/ f.held = "pool" /\ flow' = [flow EXCEPT ![c] = Freed(f)]
      BY <1>5 DEF EditCandidate, ImportResumes
    <2>2. Freed(f).held = "free"
      BY <1>1, HeldHelpers
    <2> HIDE DEF f
    <2> QED BY <1>2, <2>1, <2>2 DEF RowMoves, Finished
  <1>6. ASSUME AllocationAssigns(c) PROVE \E g : flow' = [flow EXCEPT ![c] = g] /\ RowMoves(c, g)
    <2> DEFINE g == [flow[c] EXCEPT !.held = "department"]
    <2>1. flow' = [flow EXCEPT ![c] = g] /\ flow[c].held = "pool"
      BY <1>6 DEF AllocationAssigns
    <2>2. g.held = "department"
      BY <1>1 DEF Workflows
    <2> HIDE DEF g
    <2> QED BY <2>1, <2>2 DEF RowMoves, Finished
  <1> QED BY <1>3, <1>4, <1>5, <1>6, HeldRow

\* A commit releases the claim of its candidate and no other row, and moves to the
\* talent pool only one with no wish left open.
LEMMA HeldCommit ==
    ASSUME TypeOK, NEW w \in Workers, NEW c \in Candidates,
           AcceptItem(w, c) \/ RejectItem(w, c) \/ FailItem(w, c)
    PROVE  /\ \A d \in Candidates \ {c} : flow'[d] = flow[d]
           /\ flow'[c].claim = NoRun
           /\ flow'[c].held = "talent_pool" => flow[c].held = "talent_pool" \/ EntersPool(c)
  <1> DEFINE r == sess[w].run
             p == item[r][c].prepared
             rejected == task[w][c].snap.rejected \cup {p}
             next == FirstOpen(c, rejected)
             f == Committed(flow[c], p)
             g == [f EXCEPT !.held = "pool", !.on = p]
             h == Freed(Touched(f, next))
             k == AfterLastWish(f, c, Unavailable(c) \cup {p})
  <1>1. p \in Volunteers /\ flow[c] \in Workflows
    BY CommitDecides DEF TypeOK
  <1>2. f \in Workflows /\ f.claim = NoRun
    BY <1>1, WorkflowMoves, HeldHelpers DEF Ranks
  <1>3. \E x \in {f, g, h, k, Freed(f)} : flow' = [flow EXCEPT ![c] = x]
    BY DEF AcceptItem, RejectItem, FailItem
  <1> HIDE DEF f, p, next, rejected
  <1>4. g.claim = NoRun
    BY <1>2 DEF Workflows
  <1>5. k.claim = NoRun /\ Freed(f).claim = NoRun
    BY <1>2, HeldHelpers, HeldAfterLastWish
  <1>6. h.claim = NoRun
    BY <1>2 DEF Freed, Touched, Workflows
  <1>7. f.held = flow[c].held /\ g.held = "pool" /\ h.held = "free" /\ Freed(f).held = "free"
    <2>1. f.held = flow[c].held
      BY <1>1, HeldHelpers DEF f
    <2> QED BY <1>2, <2>1 DEF Freed, Touched, Workflows
  <1>8. ASSUME RejectItem(w, c), k.held = "talent_pool" PROVE EntersPool(c)
    <2>1. Overwrites(c, p, "ai_rejected")
      BY <1>8 DEF RejectItem, Overwrites, p
    <2>2. flow[c].held = "department" => IsOpen(c, flow[c].on)
      BY <1>8 DEF RejectItem, Committing, Refused
    <2>3. Wishes[c] \subseteq Unavailable(c) \cup {p}
      BY <1>2, <1>8, HeldAfterLastWish
    <2>4. app'[c][p] = "ai_rejected"
      <3>1. AttemptCancelled(c) \in [Volunteers -> Applications]
        BY AttemptCancelledType
      <3> QED BY <1>1, <2>1, <3>1 DEF Overwrites, TypeOK
    <2>5. ASSUME NEW v \in Wishes[c] PROVE ~IsOpen(c, v)'
      <3>1. v \in Volunteers
        BY ConstantsAssumption DEF ConstantsAssumption
      <3>2. CASE v = p
        BY <2>4, <3>2 DEF IsOpen, ClosedApplication
      <3>3. CASE v # p
        <4>1. ~IsOpen(c, v)
          BY <2>3, <3>3 DEF Unavailable
        <4>2. app'[c][v] = app[c][v]
          BY <2>1, <2>2, <3>1, <3>3, <4>1, CommitWrite
        <4> QED BY <4>1, <4>2 DEF IsOpen
      <3> QED BY <3>2, <3>3
    <2> QED BY <2>5 DEF EntersPool, Unavailable
  <1>9. ~RejectItem(w, c) => \E x \in {f, g, Freed(f)} : flow' = [flow EXCEPT ![c] = x]
    BY DEF AcceptItem, FailItem, f, g, p
  <1> HIDE DEF g, h, k
  <1> QED BY <1>2, <1>3, <1>4, <1>5, <1>6, <1>7, <1>8, <1>9 DEF TypeOK

\* Of all steps, only a commit may change what holds a finished workflow.
LEMMA HeldStep ==
    ASSUME TypeOK, [Next]_vars, NEW c \in Candidates
    PROVE  \/ HeldMoves(c)
           \/ /\ flow'[c].claim = NoRun
              /\ flow'[c].held = "talent_pool" => flow[c].held = "talent_pool" \/ EntersPool(c)
              /\ \E w \in Workers : AcceptItem(w, c) \/ RejectItem(w, c) \/ FailItem(w, c)
  <1>1. ASSUME UNCHANGED flow PROVE HeldMoves(c)
    BY <1>1 DEF HeldMoves, RowMoves
  <1>2. ASSUME NEW w \in Workers, WorkerStep(w) PROVE HeldMoves(c)
    <2>1. \/ UNCHANGED flow \/ StopRun(w)
          \/ \E d \in Candidates : PrepareItem(w, d) \/ StartItem(w, d)
      BY <1>2 DEF WorkerStep, ReadRun, BeginStage, MarkStage, FinishStage, TestStage, Initialize,
         Abort, ListItems, LookAtCase, SaveCase, SnapshotsReady, ItemsPrepared, RoundDone,
         Finalize, CheckLease, Decide, Tally, JobDone, PrepareItemFails, candidateRows
    <2> QED BY <1>1, <2>1, HeldRelease, HeldPrepareItem, HeldStartItem
  <1>3. ASSUME NEW w \in Workers, NEW d \in Candidates,
               AcceptItem(w, d) \/ RejectItem(w, d) \/ FailItem(w, d)
        PROVE  \/ HeldMoves(c)
               \/ /\ d = c /\ flow'[c].claim = NoRun
                  /\ flow'[c].held = "talent_pool" =>
                       flow[c].held = "talent_pool" \/ EntersPool(c)
    <2>1. CASE d = c
      BY <1>3, <2>1, HeldCommit
    <2>2. CASE d # c
      <3>1. flow'[c] = flow[c]
        BY <1>3, <2>2, HeldCommit
      <3> QED BY <3>1 DEF HeldMoves, RowMoves
    <2> QED BY <2>1, <2>2
  <1>4. ASSUME NEW w \in Workers, NEW d \in Candidates,
               \/ DropResult(w, d) \/ SkipResult(w, d) \/ CommitRefused(w, d)
               \/ TaskInterrupted(w, d) \/ SaveArtifact(w, d)
        PROVE  UNCHANGED flow
    BY <1>4 DEF DropResult, SkipResult, CommitRefused, TaskInterrupted, SaveArtifact, candidateRows
  <1>5. ASSUME NEW w \in Workers, NEW d \in Candidates, CancelItem(w, d) PROVE HeldMoves(c)
    BY <1>5, HeldRelease
  <1>6. ASSUME NEW w \in Workers, StepFails(w) \/ Heartbeat(w) \/ Crash(w) PROVE UNCHANGED flow
    BY <1>6 DEF StepFails, Heartbeat, Crash, candidateRows
  <1>7. ASSUME NEW q \in Runs, \/ LeaseLapses(q) \/ CreateRun(q) \/ CancelRun(q)
                               \/ \E w \in Workers : Claim(w, q)
        PROVE  UNCHANGED flow
    BY <1>7 DEF LeaseLapses, CreateRun, CancelRun, Claim, candidateRows
  <1>8. ASSUME NEW d \in Candidates, ClaimLapses(d) \/ \E w \in Workers : RenewClaim(w, d)
        PROVE  HeldMoves(c)
    BY <1>8, HeldLease
  <1>9. ASSUME NEW d \in Candidates,
               \/ \E v \in Volunteers : ManualAssign(d, v)
               \/ MutateAttempt(d) \/ EditCandidate(d) \/ ImportResumes(d) \/ AllocationAssigns(d)
        PROVE  HeldMoves(c)
    BY <1>9, HeldOutside
  <1>10. ASSUME UNCHANGED vars PROVE UNCHANGED flow
    BY <1>10 DEF vars
  <1> QED BY <1>1, <1>2, <1>3, <1>4, <1>5, <1>6, <1>7, <1>8, <1>9, <1>10
          DEF Next, Environment, TaskEnds

-----------------------------------------------------------------------------
(* The prepared resume.                                                    *)

\* The first volunteer that is not passed over is a wish of the candidate.
LEMMA FirstOpenIsWish ==
    ASSUME NEW c \in Candidates, NEW rejected
    PROVE  FirstOpen(c, rejected) \in Wishes[c] \cup {0}
  <1> DEFINE first == {v \in Wishes[c] \ rejected : \A u \in Wishes[c] \ rejected : v <= u}
  <1>1. CASE first = {}
    BY <1>1 DEF FirstOpen
  <1>2. CASE first # {}
    <2>1. (CHOOSE v \in first : TRUE) \in first
      BY <1>2
    <2> QED BY <1>2, <2>1 DEF FirstOpen
  <1> QED BY <1>1, <1>2

\* So is the one of a retry.
LEMMA CurrentIsWish ==
    ASSUME NEW r \in Runs, NEW c \in Candidates, NEW rejected
    PROVE  Current(r, c, rejected) \in Wishes[c] \cup {0}
  <1>1. FirstOpen(c, rejected) \in Wishes[c] \cup {0}
    BY FirstOpenIsWish
  <1> QED BY <1>1 DEF Current

\* The four steps that write an item row, and the columns they write.
LEMMA ItemRowStep ==
    ASSUME TypeOK, [Next]_vars, NEW r \in Runs, NEW c \in Candidates
    PROVE  \/ item'[r][c] = item[r][c]
           \/ CreateRun(r) /\ item'[r][c].prepared = 0 /\ item'[r][c].tries = 0
           \/ /\ item'[r][c].prepared = item[r][c].prepared
              /\ item'[r][c].tries = item[r][c].tries + 1
              /\ \E w \in Workers : StartItem(w, c) /\ sess[w].run = r
           \/ /\ item'[r][c].prepared \in Wishes[c] \cup {0}
              /\ item'[r][c].tries = item[r][c].tries
  <1>1. ASSUME NEW w \in Workers, NEW d \in Candidates, StartItem(w, d)
        PROVE  \/ item'[r][c] = item[r][c]
               \/ /\ item'[r][c].prepared = item[r][c].prepared
                  /\ item'[r][c].tries = item[r][c].tries + 1
                  /\ d = c /\ sess[w].run = r
    <2> DEFINE q == sess[w].run
               n == item[q][d].tries + 1
               row == [item[q][d] EXCEPT !.tries = n]
    <2>1. item' = item \/ item' = [item EXCEPT ![q][d] = row]
      BY <1>1 DEF StartItem
    <2>2. q \in Runs
      BY <1>1, Busy DEF StartItem, At
    <2>3. item[q][d] \in ItemRows /\ item \in [Runs -> [Candidates -> ItemRows]]
      BY <2>2 DEF TypeOK
    <2>4. row.prepared = item[q][d].prepared /\ row.tries = item[q][d].tries + 1
      BY <2>3 DEF ItemRows
    <2> HIDE DEF row, q
    <2> QED BY <2>1, <2>2, <2>3, <2>4 DEF q
  <1>2. ASSUME NEW q \in Runs, NEW d \in Candidates, NEW v \in Wishes[d] \cup {0},
               item' = [item EXCEPT ![q][d].prepared = v]
        PROVE  \/ item'[r][c] = item[r][c]
               \/ /\ item'[r][c].prepared \in Wishes[c] \cup {0}
                  /\ item'[r][c].tries = item[r][c].tries
    BY <1>2 DEF TypeOK, ItemRows
  <1>3. ASSUME NEW w \in Workers, SaveCase(w)
        PROVE  \E q \in Runs, d \in Candidates : \E v \in Wishes[d] \cup {0} :
                 item' = [item EXCEPT ![q][d].prepared = v]
    <2>1. sess[w] \in Sessions /\ sess[w].run \in Runs /\ sess[w].cand \subseteq Candidates
      BY <1>3, Busy DEF SaveCase, At, Sessions
    <2>2. PICK d \in sess[w].cand :
             item' = [item EXCEPT ![sess[w].run][d].prepared =
                                    Current(sess[w].run, d, sess[w].view)]
      BY <1>3 DEF SaveCase
    <2> QED BY <2>1, <2>2, CurrentIsWish
  <1>4. ASSUME NEW w \in Workers, NEW d \in Candidates, RejectItem(w, d)
        PROVE  \/ UNCHANGED item
               \/ \E q \in Runs : \E v \in Wishes[d] \cup {0} :
                    item' = [item EXCEPT ![q][d].prepared = v]
    <2> DEFINE q == sess[w].run
               next == FirstOpen(d, task[w][d].snap.rejected \cup {item[q][d].prepared})
    <2>1. UNCHANGED item \/ item' = [item EXCEPT ![q][d].prepared = next]
      BY <1>4 DEF RejectItem
    <2>2. q \in Runs
      BY <1>4, TaskBusy DEF RejectItem, Committing, Ending
    <2>3. next \in Wishes[d] \cup {0}
      BY FirstOpenIsWish
    <2> HIDE DEF next
    <2> QED BY <2>1, <2>2, <2>3
  <1>5. ASSUME NEW q \in Runs, CreateRun(q)
        PROVE  \/ item'[r][c] = item[r][c]
               \/ q = r /\ item'[r][c].prepared = 0 /\ item'[r][c].tries = 0
    BY <1>5 DEF CreateRun, TypeOK
  <1>6. ASSUME NEW w \in Workers, WorkerStep(w)
        PROVE  UNCHANGED item \/ SaveCase(w) \/ \E d \in Candidates : StartItem(w, d)
    BY <1>6 DEF WorkerStep, ReadRun, BeginStage, MarkStage, FinishStage, TestStage, Initialize,
       Abort, ListItems, LookAtCase, SnapshotsReady, ItemsPrepared, RoundDone, PrepareItem,
       Finalize, CheckLease, Decide, StopRun, Tally, JobDone, PrepareItemFails, candidateRows
  <1>7. ASSUME NEW w \in Workers, NEW d \in Candidates,
               TaskEnds(w, d) \/ RenewClaim(w, d) \/ SaveArtifact(w, d)
        PROVE  UNCHANGED item \/ RejectItem(w, d)
    BY <1>7 DEF TaskEnds, DropResult, SkipResult, CancelItem, CommitRefused, AcceptItem, FailItem,
       TaskInterrupted, RenewClaim, SaveArtifact, candidateRows
  <1>8. ASSUME NEW w \in Workers, StepFails(w) \/ Heartbeat(w) \/ Crash(w) PROVE UNCHANGED item
    BY <1>8 DEF StepFails, Heartbeat, Crash, candidateRows
  <1>9. ASSUME NEW q \in Runs, LeaseLapses(q) \/ CancelRun(q) \/ \E w \in Workers : Claim(w, q)
        PROVE  UNCHANGED item
    BY <1>9 DEF LeaseLapses, CancelRun, Claim, candidateRows
  <1>10. ASSUME NEW d \in Candidates,
                \/ ClaimLapses(d) \/ \E v \in Volunteers : ManualAssign(d, v)
                \/ MutateAttempt(d) \/ EditCandidate(d) \/ ImportResumes(d) \/ AllocationAssigns(d)
         PROVE  UNCHANGED item
    BY <1>10 DEF ClaimLapses, ManualAssign, MutateAttempt, EditCandidate, ImportResumes,
       AllocationAssigns, Manual, Outside
  <1>11. ASSUME UNCHANGED vars PROVE UNCHANGED item
    BY <1>11 DEF vars
  <1>12. \/ UNCHANGED item
         \/ \E q \in Runs : CreateRun(q)
         \/ \E w \in Workers, d \in Candidates : StartItem(w, d)
         \/ \E q \in Runs, d \in Candidates : \E v \in Wishes[d] \cup {0} :
              item' = [item EXCEPT ![q][d].prepared = v]
    BY <1>3, <1>4, <1>6, <1>7, <1>8, <1>9, <1>10, <1>11 DEF Next, Environment
  <1> QED BY <1>1, <1>2, <1>5, <1>12

\* Both invariants are inductive.
LEMMA HeldNext ==
    ASSUME ConstantsAssumption, TypeOK, PreparedInv, HeldInv, [Next]_vars
    PROVE  PreparedInv' /\ HeldInv'
  <1>1. PreparedInv'
    BY ItemRowStep DEF PreparedInv
  <1>2. ASSUME NEW c \in Candidates, ~ImportResumes(c)
        PROVE  Unavailable(c) \subseteq Unavailable(c)'
    <2>1. Wishes[c] \subseteq Volunteers
      BY DEF ConstantsAssumption
    <2>2. \A v \in Volunteers : app'[c][v] # app[c][v] => IsOpen(c, v)
      BY <1>2, ApplicationStep DEF Imported
    <2> QED BY <2>1, <2>2 DEF Unavailable, IsOpen
  <1>3. ASSUME NEW c \in Candidates, ImportResumes(c) PROVE flow'[c].claim = NoRun
    <2>1. flow'[c] = Invalidated(flow[c]) /\ flow[c] \in Workflows
      BY <1>3 DEF ImportResumes, TypeOK
    <2> QED BY <2>1, HeldHelpers
  <1>4. ASSUME NEW c \in Candidates, flow'[c].held \in Finished
        PROVE  flow'[c].claim = NoRun \/ Wishes[c] \subseteq Unavailable(c)'
    BY <1>2, <1>3, <1>4, HeldStep
       DEF HeldMoves, RowMoves, LeavesPool, EntersPool, HeldInv, Finished
  <1> QED BY <1>1, <1>4 DEF HeldInv

\* A candidate who has passed stays there; the talent pool takes only one with no
\* application left open, and gives one back to a manual assignment of an open
\* application only: the claim of a goroutine that is still assessing a finished
\* candidate is gone, or it has no application left to decide on.
THEOREM FinishedCandidatesAreFinal == Spec => FinishedCandidatesStay
  <1>1. Init => PreparedInv /\ HeldInv
    BY DEF Init, PreparedInv, HeldInv
  <1>2. TypeOK /\ PreparedInv /\ HeldInv /\ [Next]_vars => PreparedInv' /\ HeldInv'
    BY HeldNext, ConstantsAssumption
  <1>3. TypeOK /\ PreparedInv /\ HeldInv /\ [Next]_vars =>
          [\A c \in Candidates :
             /\ flow[c].held = "passed" => flow'[c].held = "passed"
             /\ flow[c].held # "talent_pool" /\ flow'[c].held = "talent_pool" =>
                  Unavailable(c)' = Wishes[c]
             /\ flow[c].held = "talent_pool" /\ flow'[c].held # "talent_pool" =>
                  /\ flow'[c].held = "department" /\ IsOpen(c, flow'[c].on)
                  /\ UNCHANGED <<istat, decisions>>]_vars
    <2> SUFFICES ASSUME TypeOK, PreparedInv, HeldInv, [Next]_vars, NEW c \in Candidates
                 PROVE  /\ flow[c].held = "passed" => flow'[c].held = "passed"
                        /\ flow[c].held # "talent_pool" /\ flow'[c].held = "talent_pool" =>
                             Unavailable(c)' = Wishes[c]
                        /\ flow[c].held = "talent_pool" /\ flow'[c].held # "talent_pool" =>
                             LeavesPool(c, flow'[c])
      BY DEF LeavesPool
    <2>1. ASSUME NEW w \in Workers, AcceptItem(w, c) \/ RejectItem(w, c) \/ FailItem(w, c),
                 flow[c].held \in Finished
          PROVE  FALSE
      <3> DEFINE r == sess[w].run
                 p == item[r][c].prepared
      <3>1. r \in Runs /\ p \in Volunteers /\ IsOpen(c, p)
        BY <2>1, CommitDecides
      <3>2. flow[c].claim = r
        BY <2>1 DEF AcceptItem, RejectItem, FailItem, Committing, Fresh, Claimant
      <3>3. r # NoRun /\ 0 \notin Volunteers
        BY <3>1, ConstantsAssumption DEF ConstantsAssumption
      <3>4. p \in Wishes[c]
        BY <3>1, <3>3 DEF PreparedInv
      <3>5. p \in Unavailable(c)
        BY <2>1, <3>2, <3>3, <3>4 DEF HeldInv
      <3> QED BY <3>1, <3>5 DEF Unavailable, IsOpen
    <2>2. EntersPool(c) => Unavailable(c)' = Wishes[c]
      BY DEF EntersPool, Unavailable
    <2> QED BY <2>1, <2>2, HeldStep DEF HeldMoves, RowMoves, LeavesPool, Finished
  <1> QED BY <1>1, <1>2, <1>3, TypeCorrect, PTL DEF Spec, FinishedCandidatesStay

-----------------------------------------------------------------------------
(* Tokens.  The claim of a candidate is recognised by the run and by the   *)
(* attempt counter of the item, which createRun sets to zero.              *)

\* The attempt counter is above every token in use, and no two workers hold the
\* same token of the same item.
TokenInv ==
    \A w \in Workers, c \in Candidates : task[w][c].on =>
        /\ task[w][c].token <= item[sess[w].run][c].tries
        /\ \A u \in Workers :
             /\ task[u][c].on /\ sess[u].run = sess[w].run
             /\ task[u][c].token = task[w][c].token
             => u = w

\* A worker with a goroutine at work stays on its run, unless it crashes.
LEMMA RunKept ==
    ASSUME TypeOK, [Next]_vars, NEW w \in Workers, NEW c \in Candidates, task[w][c].on
    PROVE  sess'[w].run = sess[w].run \/ Crash(w)
  <1>1. /\ sess[w].pc = "work" /\ sess[w].at = "step4" /\ sess[w] \in Sessions
        /\ c \in Running(w) /\ sess \in [Workers -> Sessions]
    BY TaskBusy DEF Running, TypeOK
  <1>2. ASSUME NEW u \in Workers, u # w, \E s : sess' = [sess EXCEPT ![u] = s]
        PROVE  sess'[w] = sess[w]
    BY <1>2 DEF TypeOK
  <1>3. ASSUME NEW d \in Candidates, NEW e \in Errors,
               Report(w, d, e) \/ Settle(w, d) \/ UNCHANGED sess
        PROVE  sess'[w].run = sess[w].run
    BY <1>3, TypeReport
  <1>4. ASSUME NEW u \in Workers, WorkerStep(u) PROVE sess'[w].run = sess[w].run
    <2>1. CASE u # w
      BY <1>4, <1>2, <2>1, WorkerSession
    <2>2. CASE u = w
      <3>1. \E d \in Candidates : StartItem(w, d)
        BY <1>1, <1>4, <2>2 DEF WorkerStep, ReadRun, BeginStage, MarkStage, FinishStage, TestStage,
           Initialize, Abort, ListItems, LookAtCase, SaveCase, SnapshotsReady, ItemsPrepared,
           RoundDone, Finalize, CheckLease, Decide, StopRun, Tally, JobDone, PrepareItem,
           PrepareItemFails, Preparing, At
      <3>2. \E d \in Candidates, e \in Errors : Report(w, d, e) \/ Settle(w, d)
        BY <3>1 DEF StartItem, Errors
      <3> QED BY <1>3, <3>2
    <2> QED BY <2>1, <2>2
  <1>5. ASSUME NEW u \in Workers, StepFails(u) \/ Heartbeat(u) \/ Crash(u)
        PROVE  sess'[w].run = sess[w].run \/ Crash(w)
    <2>1. \E s : sess' = [sess EXCEPT ![u] = s]
      BY <1>5 DEF StepFails, Heartbeat, Crash, Fail
    <2>2. CASE u # w
      BY <1>2, <2>1, <2>2
    <2>3. CASE u = w
      <3>1. ~StepFails(w)
        BY <1>1 DEF StepFails
      <3>2. CASE Heartbeat(w)
        <4>1. \E b : sess' = [sess EXCEPT ![w] = [sess[w] EXCEPT !.ctx = b]]
          BY <3>2 DEF Heartbeat
        <4> QED BY <1>1, <4>1 DEF Sessions
      <3> QED BY <1>5, <2>3, <3>1, <3>2
    <2> QED BY <2>2, <2>3
  <1>6. ASSUME NEW u \in Workers, NEW r \in Runs, Claim(u, r) PROVE sess'[w].run = sess[w].run
    <2>1. u # w /\ \E s : sess' = [sess EXCEPT ![u] = s]
      BY <1>1, <1>6 DEF Claim
    <2> QED BY <1>2, <2>1
  <1>7. ASSUME NEW u \in Workers, NEW d \in Candidates, TaskEnds(u, d)
        PROVE  sess'[w].run = sess[w].run
    <2>1. \E e \in Errors : Report(u, d, e) \/ UNCHANGED sess
      BY <1>7 DEF TaskEnds, DropResult, SkipResult, CancelItem, CommitRefused, AcceptItem,
         RejectItem, FailItem, TaskInterrupted, Silently, Errors
    <2> QED BY <2>1, TypeReport
  <1>8. ASSUME NEW u \in Workers, NEW d \in Candidates, RenewClaim(u, d) \/ SaveArtifact(u, d)
        PROVE  UNCHANGED sess
    BY <1>8 DEF RenewClaim, SaveArtifact
  <1>9. ASSUME NEW r \in Runs, LeaseLapses(r) \/ CreateRun(r) \/ CancelRun(r)
        PROVE  UNCHANGED sess
    BY <1>9 DEF LeaseLapses, CreateRun, CancelRun
  <1>10. ASSUME NEW d \in Candidates,
                \/ ClaimLapses(d) \/ \E v \in Volunteers : ManualAssign(d, v)
                \/ MutateAttempt(d) \/ EditCandidate(d) \/ ImportResumes(d) \/ AllocationAssigns(d)
         PROVE  UNCHANGED sess
    BY <1>10 DEF ClaimLapses, ManualAssign, MutateAttempt, EditCandidate, ImportResumes,
       AllocationAssigns, Manual, Outside
  <1>11. ASSUME UNCHANGED vars PROVE UNCHANGED sess
    BY <1>11 DEF vars
  <1> QED BY <1>4, <1>5, <1>6, <1>7, <1>8, <1>9, <1>10, <1>11 DEF Next, Environment

\* Worker w starts a goroutine for c under a token nobody has used.
Starts(w, c) ==
    LET r == sess[w].run IN
    /\ StartItem(w, c)
    /\ task'[w][c].token = item[r][c].tries + 1
    /\ item'[r][c].tries = item[r][c].tries + 1
    /\ r \in Runs /\ sess'[w].run = r

\* The other goroutines are those of before, or have ended.
Others(w, c) == \A u \in Workers, d \in Candidates :
    task'[u][d].on /\ ~(u = w /\ d = c) => task'[u][d] = task[u][d]

\* A step starts one goroutine, or none.
LEMMA TaskStep ==
    ASSUME TypeOK, [Next]_vars
    PROVE  \/ \A w \in Workers, c \in Candidates : task'[w][c].on => task'[w][c] = task[w][c]
           \/ \E w \in Workers, c \in Candidates : Starts(w, c) /\ Others(w, c)
  <1>1. ASSUME UNCHANGED task
        PROVE  \A w \in Workers, c \in Candidates : task'[w][c].on => task'[w][c] = task[w][c]
    BY <1>1
  <1>2. ASSUME NEW w \in Workers, NEW c \in Candidates, StartItem(w, c)
        PROVE  UNCHANGED task \/ (Starts(w, c) /\ Others(w, c))
    <2> DEFINE r == sess[w].run
               n == item[r][c].tries + 1
               row == [item[r][c] EXCEPT !.tries = n]
               t == [on |-> TRUE, token |-> n, rev |-> flow[c].rev, snap |-> snap[r][c]]
    <2>1. \/ UNCHANGED task
          \/ task' = [task EXCEPT ![w][c] = t] /\ item' = [item EXCEPT ![r][c] = row]
      BY <1>2 DEF StartItem
    <2>2. r \in Runs
      BY <1>2, Busy DEF StartItem, At
    <2>3. sess'[w].run = r
      <3>1. \E e \in Errors : Report(w, c, e) \/ Settle(w, c)
        BY <1>2 DEF StartItem, Errors
      <3> QED BY <3>1, TypeReport
    <2>4. ASSUME task' = [task EXCEPT ![w][c] = t], item' = [item EXCEPT ![r][c] = row]
          PROVE  Starts(w, c) /\ Others(w, c)
      <3>1. row.tries = n /\ t.token = n
        BY <2>2 DEF TypeOK, ItemRows
      <3> HIDE DEF row, t
      <3>2. task'[w][c] = t /\ item'[r][c] = row /\ Others(w, c)
        BY <2>2, <2>4 DEF TypeOK, Others
      <3> QED BY <1>2, <2>2, <2>3, <3>1, <3>2 DEF Starts
    <2> QED BY <2>1, <2>4
  <1>3. ASSUME NEW u \in Workers, NEW d \in Candidates, TaskEnds(u, d)
        PROVE  \A w \in Workers, c \in Candidates : task'[w][c].on => task'[w][c] = task[w][c]
    <2>1. EndTask(u, d)
      BY <1>3 DEF TaskEnds, DropResult, SkipResult, CancelItem, CommitRefused, AcceptItem,
         RejectItem, FailItem, TaskInterrupted, Silently
    <2> QED BY <2>1, NoTaskIsTask DEF EndTask, TypeOK
  <1>4. ASSUME NEW u \in Workers, Crash(u)
        PROVE  \A w \in Workers, c \in Candidates : task'[w][c].on => task'[w][c] = task[w][c]
    BY <1>4, NoTaskIsTask DEF Crash, TypeOK
  <1>5. ASSUME NEW w \in Workers, WorkerStep(w)
        PROVE  UNCHANGED task \/ \E c \in Candidates : StartItem(w, c)
    BY <1>5 DEF WorkerStep, ReadRun, BeginStage, MarkStage, FinishStage, TestStage, Initialize,
       Abort, ListItems, LookAtCase, SaveCase, SnapshotsReady, ItemsPrepared, RoundDone,
       PrepareItem, Finalize, CheckLease, Decide, StopRun, Tally, JobDone, PrepareItemFails
  <1>6. ASSUME NEW w \in Workers,
               \/ StepFails(w) \/ Heartbeat(w)
               \/ \E c \in Candidates : RenewClaim(w, c) \/ SaveArtifact(w, c)
        PROVE  UNCHANGED task
    BY <1>6 DEF StepFails, Heartbeat, RenewClaim, SaveArtifact
  <1>7. ASSUME NEW q \in Runs, \/ LeaseLapses(q) \/ CreateRun(q) \/ CancelRun(q)
                               \/ \E w \in Workers : Claim(w, q)
        PROVE  UNCHANGED task
    BY <1>7 DEF LeaseLapses, CreateRun, CancelRun, Claim
  <1>8. ASSUME NEW d \in Candidates,
               \/ ClaimLapses(d) \/ \E v \in Volunteers : ManualAssign(d, v)
               \/ MutateAttempt(d) \/ EditCandidate(d) \/ ImportResumes(d) \/ AllocationAssigns(d)
        PROVE  UNCHANGED task
    BY <1>8 DEF ClaimLapses, ManualAssign, MutateAttempt, EditCandidate, ImportResumes,
       AllocationAssigns, Manual, Outside
  <1>9. ASSUME UNCHANGED vars PROVE UNCHANGED task
    BY <1>9 DEF vars
  <1> QED BY <1>1, <1>2, <1>3, <1>4, <1>5, <1>6, <1>7, <1>8, <1>9 DEF Next, Environment

\* The attempt counter of a run that somebody works on never goes down.
LEMMA TriesGrow ==
    ASSUME TypeOK, SettledInv, [Next]_vars, NEW w \in Workers, NEW c \in Candidates,
           task[w][c].on
    PROVE  item[sess[w].run][c].tries <= item'[sess[w].run][c].tries
  <1> DEFINE r == sess[w].run
  <1>1. r \in Runs /\ item[r][c].tries \in Nat /\ sess[w].pc # "idle"
    BY TaskBusy DEF ItemRows
  <1>2. ~CreateRun(r)
    BY <1>1 DEF SettledInv, Evidence, CreateRun
  <1>3. item'[r][c] = item[r][c] \/ item'[r][c].tries \in {item[r][c].tries, item[r][c].tries + 1}
    BY <1>1, <1>2, ItemRowStep
  <1> QED BY <1>1, <1>3

\* The invariant is inductive.
LEMMA TokenNext ==
    ASSUME TypeOK, TypeOK', SettledInv, TokenInv, [Next]_vars
    PROVE  TokenInv'
  <1> DEFINE Kept(w, c) == /\ task[w][c].on /\ task'[w][c].token = task[w][c].token
                           /\ sess'[w].run = sess[w].run
                           /\ task'[w][c].token \in Nat
                           /\ task'[w][c].token <= item[sess[w].run][c].tries
                           /\ task'[w][c].token <= item'[sess[w].run][c].tries
  <1>1. ASSUME NEW w \in Workers, NEW c \in Candidates, task'[w][c].on,
               task'[w][c] = task[w][c]
        PROVE  Kept(w, c)
    <2>1. task[w][c].on /\ task[w][c].token \in Nat /\ sess[w].run \in Runs
          /\ item[sess[w].run][c].tries \in Nat
      BY <1>1, TaskBusy DEF Tasks, ItemRows
    <2>2. ~Crash(w)
      BY <1>1, NoTaskIsTask DEF Crash, TypeOK
    <2>3. sess'[w].run = sess[w].run
      BY <2>1, <2>2, RunKept
    <2>4. task[w][c].token <= item[sess[w].run][c].tries
      BY <2>1 DEF TokenInv
    <2>5. item[sess[w].run][c].tries <= item'[sess[w].run][c].tries
      BY <2>1, TriesGrow
    <2>6. item'[sess[w].run][c].tries \in Nat
      BY <2>1 DEF TypeOK, ItemRows
    <2> QED BY <1>1, <2>1, <2>3, <2>4, <2>5, <2>6
  <1>2. ASSUME NEW w \in Workers, NEW u \in Workers, NEW c \in Candidates,
               Kept(w, c), Kept(u, c), sess'[u].run = sess'[w].run,
               task'[u][c].token = task'[w][c].token
        PROVE  u = w
    BY <1>2 DEF TokenInv
  <1>3. CASE \A w \in Workers, c \in Candidates : task'[w][c].on => task'[w][c] = task[w][c]
    <2>1. \A w \in Workers, c \in Candidates : task'[w][c].on => Kept(w, c)
      BY <1>1, <1>3
    <2> QED BY <1>2, <2>1 DEF TokenInv
  <1>4. ASSUME NEW s \in Workers, NEW d \in Candidates, Starts(s, d), Others(s, d)
        PROVE  TokenInv'
    <2> DEFINE r == sess[s].run
               n == item[r][d].tries
    <2>1. /\ n \in Nat /\ task'[s][d].token = n + 1
          /\ item'[r][d].tries = n + 1 /\ sess'[s].run = r
      BY <1>4 DEF Starts, TypeOK, ItemRows
    <2>2. ASSUME NEW w \in Workers, NEW c \in Candidates, task'[w][c].on, ~(w = s /\ c = d)
          PROVE  Kept(w, c)
      BY <1>1, <1>4, <2>2 DEF Others
    <2>3. ASSUME NEW w \in Workers, w # s, task'[w][d].on, sess'[w].run = r
          PROVE  task'[w][d].token # n + 1
      <3>1. Kept(w, d)
        BY <2>2, <2>3
      <3> QED BY <2>1, <2>3, <3>1
    <2> SUFFICES ASSUME NEW w \in Workers, NEW c \in Candidates, task'[w][c].on
                 PROVE  /\ task'[w][c].token <= item'[sess'[w].run][c].tries
                        /\ \A u \in Workers :
                             /\ task'[u][c].on /\ sess'[u].run = sess'[w].run
                             /\ task'[u][c].token = task'[w][c].token
                             => u = w
      BY DEF TokenInv
    <2>4. CASE w = s /\ c = d
      BY <2>1, <2>3, <2>4
    <2>5. CASE ~(w = s /\ c = d)
      <3>1. Kept(w, c)
        BY <2>2, <2>5
      <3>2. ASSUME NEW u \in Workers, task'[u][c].on, sess'[u].run = sess'[w].run,
                   task'[u][c].token = task'[w][c].token
            PROVE  u = w
        <4>1. CASE u = s /\ c = d
          BY <2>1, <2>3, <2>5, <3>2, <4>1
        <4>2. CASE ~(u = s /\ c = d)
          <5>1. Kept(u, c)
            BY <2>2, <3>2, <4>2
          <5> QED BY <1>2, <3>1, <3>2, <5>1
        <4> QED BY <4>1, <4>2
      <3> QED BY <3>1, <3>2
    <2> QED BY <2>4, <2>5
  <1> QED BY <1>3, <1>4, TaskStep

\* However often a claim lapses and another worker takes the candidate, at most
\* one goroutine passes the test of the commit.
THEOREM FreshTaskIsUnique == Spec => []OneFreshTask
  <1>1. Init => TokenInv
    BY NoTaskIsTask DEF Init, TokenInv
  <1>2. TypeOK /\ TypeOK' /\ SettledInv /\ TokenInv /\ [Next]_vars => TokenInv'
    BY TokenNext
  <1>3. TokenInv => OneFreshTask
    BY DEF TokenInv, OneFreshTask, Fresh, Claimant
  <1> QED BY <1>1, <1>2, <1>3, SettledInvariant, PTL DEF Spec

=============================================================================
