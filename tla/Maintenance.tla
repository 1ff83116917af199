----------------------------- MODULE Maintenance -----------------------------
(***************************************************************************)
(* The maintenance queue (maintenance.go): jobs that ask the model for the *)
(* province of schools, their leases, and the slots of acquireModelSlot    *)
(* (runs.go) that all callers of the model share.  Users edit the schools  *)
(* while a job works.  The lease time is a flag: a lease is live until     *)
(* Expire says that its 20 seconds have gone by.                           *)
(***************************************************************************)
EXTENDS Naturals, FiniteSets

CONSTANTS Schools,        \* rows of core_school; they are asked for by id
          NewNames,       \* names users give them; at first, a school is its name
          Workers,        \* goroutines of maintenance, of all processes
          BatchSize,      \* schools of one model call (50)
          Limit,          \* ai_concurrency_limit, or 8 where it is not set
          MaxJobs,        \* bound: jobs enqueued
          MaxEdits,       \* bound: edits by users
          MaxFaults       \* bound: crashes, stalls and failing calls

Jobs == 1..MaxJobs
Names == Schools \cup NewNames

VARIABLES
    school,     \* name, and province: set by hand, or the answer for a name
    job,        \* platform_go_maintenance; the token is the attempt
    slots,      \* resume:go:model-slots, by worker and attempt
    worker,     \* memory of each worker
    edits, faults

vars == <<school, job, slots, worker, edits, faults>>

NoProvince == {}
ByHand == {"hand"}

NoJob == [st |-> "none", ids |-> {}, attempts |-> 0, live |-> FALSE]
Idle == [pc |-> "idle", job |-> 0, token |-> 0, todo |-> {}, batch |-> {}, answer |-> {}]

Init ==
    /\ school = [s \in Schools |-> [name |-> s, province |-> NoProvince]]
    /\ job = [j \in Jobs |-> NoJob]
    /\ slots = {}
    /\ worker = [w \in Workers |-> Idle]
    /\ edits = 0 /\ faults = 0

-----------------------------------------------------------------------------
(* Helpers.                                                                *)

Fault == faults < MaxFaults /\ faults' = faults + 1
Edit == edits < MaxEdits /\ edits' = edits + 1

At(w, pc) == worker[w].pc = pc
Goes(w, pc) == worker' = [worker EXCEPT ![w].pc = pc]

Slot(w) == <<w, worker[w].token>>

(* The job still carries the token of this worker. *)
Owns(w) == LET j == worker[w].job
           IN job[j].st = "running" /\ job[j].attempts = worker[w].token

(* Mutant: the slots of the dead count for ever. *)
StaleNever == {}

(* Slots whose 650 seconds have passed.  A call ends within 600 seconds,   *)
(* so only a caller that died leaves its slot that long.                   *)
Stale == {x \in slots : ~(At(x[1], "calling") /\ worker[x[1]].token = x[2])}

(* Mutant: one call too many. *)
RoomForOneMore(held) == Cardinality(held) <= Limit

Room(held) == Cardinality(held) < Limit

(* Mutant: the row is found by its id alone. *)
FitsById(s, name) == TRUE

(* WHERE id=$1 AND name=$3 AND btrim(province)='' *)
Fits(s, name) == school[s].name = name /\ school[s].province = NoProvince

-----------------------------------------------------------------------------
(* Users.                                                                  *)

Taken == {school[s].name : s \in Schools}

Rename(s, n) ==
    /\ Edit
    /\ n \notin Taken
    /\ school' = [school EXCEPT ![s].name = n]
    /\ UNCHANGED <<job, slots, worker, faults>>

SetProvince(s, p) ==
    /\ Edit
    /\ school[s].province # p
    /\ school' = [school EXCEPT ![s].province = p]
    /\ UNCHANGED <<job, slots, worker, faults>>

(* enqueueSchoolEnrichment after an import that left provinces blank.      *)
(* Without a tested connection, or if the process dies after the import    *)
(* committed, there is no job.                                             *)
Enqueue(j) ==
    /\ job[j].st = "none" /\ \A k \in Jobs : k < j => job[k].st # "none"
    /\ \E ids \in SUBSET {s \in Schools : school[s].province = NoProvince} :
          /\ ids # {}
          /\ job' = [job EXCEPT ![j] = [NoJob EXCEPT !.st = "pending", !.ids = ids]]
    /\ UNCHANGED <<school, slots, worker, edits, faults>>

-----------------------------------------------------------------------------
(* A worker.                                                               *)

Claimable(j) == job[j].st = "pending" \/ (job[j].st = "running" /\ ~job[j].live)

(* The oldest claimable job, a new lease and a new token. *)
Claim(w, j) ==
    /\ At(w, "idle")
    /\ Claimable(j) /\ \A k \in Jobs : Claimable(k) => j <= k
    /\ job' = [job EXCEPT ![j].st = "running", ![j].live = TRUE, ![j].attempts = @ + 1]
    /\ worker' = [worker EXCEPT ![w] = [Idle EXCEPT !.pc = "claimed", !.job = j,
                                                    !.token = job'[j].attempts]]
    /\ UNCHANGED <<school, slots, edits, faults>>

(* The names are read once, for all batches. *)
Select(w) ==
    /\ At(w, "claimed")
    /\ worker' = [worker EXCEPT
          ![w].pc = "batch",
          ![w].todo = {<<s, school[s].name>> : s \in
                        {t \in job[worker[w].job].ids : school[t].province = NoProvince}}]
    /\ UNCHANGED <<school, job, slots, edits, faults>>

(* The next batch, in the order of the ids, with a slot. *)
Acquire(w) ==
    /\ At(w, "batch") /\ worker[w].todo # {}
    /\ Room(slots)
    /\ slots' = slots \cup {Slot(w)}
    /\ \E batch \in SUBSET worker[w].todo :
          /\ batch # {}
          /\ Cardinality(batch) = BatchSize \/ (batch = worker[w].todo
                                                  /\ Cardinality(batch) < BatchSize)
          /\ worker' = [worker EXCEPT ![w].pc = "calling", ![w].batch = batch,
                                      ![w].todo = @ \ batch]
    /\ UNCHANGED <<school, job, edits, faults>>

(* The model answers for some of the names; the slot is given back. *)
Answer(w) ==
    /\ At(w, "calling")
    /\ slots' = slots \ {Slot(w)}
    /\ \E answer \in SUBSET worker[w].batch :
          worker' = [worker EXCEPT ![w].pc = "answered", ![w].answer = answer]
    /\ UNCHANGED <<school, job, edits, faults>>

(* One transaction per batch, under the row of the job; a job whose lease  *)
(* is over fails.                                                          *)
Write(w) ==
    /\ At(w, "answered")
    /\ Owns(w) /\ job[worker[w].job].live
    /\ school' = [s \in Schools |->
          IF \E n \in Names : <<s, n>> \in worker[w].answer /\ Fits(s, n)
          THEN [school[s] EXCEPT !.province =
                  {n \in Names : <<s, n>> \in worker[w].answer}]
          ELSE school[s]]
    /\ Goes(w, "batch")
    /\ UNCHANGED <<job, slots, edits, faults>>

LateWrite(w) ==
    /\ At(w, "answered")
    /\ ~(Owns(w) /\ job[worker[w].job].live)
    /\ Goes(w, "failing")
    /\ UNCHANGED <<school, job, slots, edits, faults>>

(* The connection is not tested, a statement or the call fails, or the     *)
(* model returns nonsense.                                                 *)
CallFails(w) ==
    /\ worker[w].pc \in {"claimed", "calling", "answered"}
          \/ (At(w, "batch") /\ worker[w].todo # {})
    /\ Fault
    /\ slots' = slots \ {Slot(w)}
    /\ Goes(w, "failing")
    /\ UNCHANGED <<school, job, edits>>

(* The heartbeat renews the lease, however late, as long as the token      *)
(* stands;                                                                 *)
Renew(w) ==
    /\ worker[w].pc \notin {"idle", "failing"}
    /\ Owns(w) /\ ~job[worker[w].job].live
    /\ job' = [job EXCEPT ![worker[w].job].live = TRUE]
    /\ UNCHANGED <<school, slots, worker, edits, faults>>

(* otherwise it cancels the work. *)
Superseded(w) ==
    /\ worker[w].pc \notin {"idle", "failing"}
    /\ ~Owns(w)
    /\ slots' = slots \ {Slot(w)}
    /\ Goes(w, "failing")
    /\ UNCHANGED <<school, job, edits, faults>>

(* maintainJob ends: UPDATE ... WHERE id=$1 AND worker_token=$2 *)
Settle(w) ==
    /\ At(w, "failing") \/ (At(w, "batch") /\ worker[w].todo = {})
    /\ job' = IF Owns(w)
              THEN [job EXCEPT ![worker[w].job].st = IF At(w, "failing") THEN "failed"
                                                     ELSE "success",
                               ![worker[w].job].live = FALSE]
              ELSE job
    /\ worker' = [worker EXCEPT ![w] = Idle]
    /\ UNCHANGED <<school, slots, edits, faults>>

(* The process dies; its job stays as it is, and so does its slot. *)
Crash(w) ==
    /\ ~At(w, "idle")
    /\ Fault
    /\ worker' = [worker EXCEPT ![w] = Idle]
    /\ UNCHANGED <<school, job, slots, edits>>

Orphan(j) == job[j].live /\ \A w \in Workers : worker[w].job = j => ~Owns(w)

(* Nobody has renewed the lease for 20 seconds: the worker is dead, *)
ExpireOrphan(j) ==
    /\ Orphan(j)
    /\ job' = [job EXCEPT ![j].live = FALSE]
    /\ UNCHANGED <<school, slots, worker, edits, faults>>

(* or cannot reach the database. *)
Stall(j) ==
    /\ job[j].live /\ ~Orphan(j)
    /\ Fault
    /\ job' = [job EXCEPT ![j].live = FALSE]
    /\ UNCHANGED <<school, slots, worker, edits>>

PurgeSlot(x) ==
    /\ x \in Stale
    /\ slots' = slots \ {x}
    /\ UNCHANGED <<school, job, worker, edits, faults>>

-----------------------------------------------------------------------------
Works(w) ==
    \/ Select(w) \/ Acquire(w) \/ Answer(w) \/ Write(w) \/ LateWrite(w)
    \/ Superseded(w) \/ Settle(w)

Next ==
    \/ \E s \in Schools, n \in Names : Rename(s, n)
    \/ \E s \in Schools, p \in {NoProvince, ByHand} : SetProvince(s, p)
    \/ \E j \in Jobs : Enqueue(j) \/ ExpireOrphan(j) \/ Stall(j)
    \/ \E w \in Workers :
          \/ \E j \in Jobs : Claim(w, j)
          \/ Works(w) \/ CallFails(w) \/ Renew(w) \/ Crash(w)
    \/ \E x \in slots : PurgeSlot(x)

Spec == Init /\ [][Next]_vars

(* The loops go on, leases run out, calls return. *)
Fairness ==
    /\ \A w \in Workers : WF_vars(Works(w))
    /\ WF_vars(\E w \in Workers, j \in Jobs : Claim(w, j))
    /\ \A j \in Jobs : WF_vars(ExpireOrphan(j))
    /\ WF_vars(\E x \in slots : PurgeSlot(x))

FairSpec == Spec /\ Fairness

-----------------------------------------------------------------------------
(* Properties.                                                             *)

Pairs == Schools \X Names

(* Every variable has its type. *)
TypeOK ==
    /\ school \in [Schools -> [name : Names, province : SUBSET (Names \cup {"hand"})]]
    /\ job \in [Jobs -> [st : {"none", "pending", "running", "success", "failed"},
                         ids : SUBSET Schools, attempts : Nat, live : BOOLEAN]]
    /\ slots \subseteq Workers \X Nat
    /\ worker \in [Workers -> [pc : {"idle", "claimed", "batch", "calling", "answered",
                                     "failing"},
                               job : Nat, token : Nat, todo : SUBSET Pairs,
                               batch : SUBSET Pairs, answer : SUBSET Pairs]]
    /\ edits \in Nat /\ faults \in Nat

(* What the model said about a name is stored only where that name is      *)
(* still the name of the school and nobody has entered a province since    *)
(* the names were read, which a whole call and other batches ago may be.   *)
HandsOff ==
    [][\A s \in Schools :
          LET new == school'[s].province
          IN new # school[s].province /\ new \notin {NoProvince, ByHand}
                => school[s].province = NoProvince /\ new = {school[s].name}]_vars

(* All processes together make at most Limit calls at a time, though the   *)
(* purge and the check are done by each of them and the dead leave their   *)
(* slots behind.                                                           *)
CallsWithinLimit == Cardinality({w \in Workers : At(w, "calling")}) <= Limit

(* Every job ends: the slots of the dead and the leases of the dead do not *)
(* hold it up for ever.                                                    *)
JobEnds == \A j \in Jobs : job[j].st = "pending" ~> job[j].st \in {"success", "failed"}

=============================================================================
