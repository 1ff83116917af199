------------------------- MODULE AllocationContract -------------------------
(***************************************************************************)
(* What candidate allocation promises for one scope (entity and pool),     *)
(* without tasks, leases, generations or work items: a plan assigns a      *)
(* whole batch in one step, each member once, to a demand that is          *)
(* receiving and that the member qualifies for at that very moment, with   *)
(* consecutive sequence numbers.  Allocation.tla implements it.            *)
(***************************************************************************)
EXTENDS Naturals

CONSTANTS Members,        \* rows of platform_pool_memberships
          Demands,        \* rows of core_job with a rule for the pool
          Wants           \* Wants[m]: the demands whose tags m satisfies

VARIABLES place,          \* where a member stands
          open,           \* the demands that are receiving
          accepting,      \* the scope is not paused
          ledger,         \* committed targets
          next            \* the next sequence number

cvars == <<place, open, accepting, ledger, next>>

Places == {"absent", "eligible", "allocated", "out"}

Entry == [member: Members, demand: Demands, seq: Nat]

(* The targets added by a step. *)
Batch == ledger' \ ledger

Init ==
    /\ place = [m \in Members |-> "absent"]
    /\ open \in SUBSET Demands
    /\ accepting = TRUE
    /\ ledger = {}
    /\ next = 1

Enter(m) ==
    /\ place[m] = "absent"
    /\ place' = [place EXCEPT ![m] = "eligible"]
    /\ UNCHANGED <<open, accepting, ledger, next>>

(* Members leave the pool: edited, closed, or no longer qualified. *)
Leave(gone) ==
    /\ gone \subseteq {m \in Members : place[m] \in {"eligible", "allocated"}}
    /\ place' = [m \in Members |-> IF m \in gone THEN "out" ELSE place[m]]
    /\ UNCHANGED <<open, accepting, ledger, next>>

SetOpen(d) ==
    /\ \/ open' = open \cup {d}
       \/ open' = open \ {d}
    /\ UNCHANGED <<place, accepting, ledger, next>>

SetAccepting(b) ==
    /\ accepting' = b
    /\ UNCHANGED <<place, open, ledger, next>>

(* One committed plan. *)
Allocate ==
    /\ accepting
    /\ ledger \subseteq ledger'
    /\ Batch # {}
    /\ Batch \subseteq Entry
    /\ \A e \in Batch :
          /\ place[e.member] = "eligible"
          /\ e.demand \in open \cap Wants[e.member]
          /\ next <= e.seq /\ e.seq < next'
    /\ \A e, f \in Batch : e.member = f.member \/ e.seq = f.seq => e = f
    /\ place' = [m \in Members |->
                   IF \E e \in Batch : e.member = m THEN "allocated" ELSE place[m]]
    /\ next' \in Nat
    /\ UNCHANGED <<open, accepting>>

Next ==
    \/ \E m \in Members : Enter(m)
    \/ \E gone \in SUBSET Members : Leave(gone)
    \/ \E d \in Demands : SetOpen(d)
    \/ \E b \in BOOLEAN : SetAccepting(b)
    \/ Allocate

Spec == Init /\ [][Next]_cvars

-----------------------------------------------------------------------------

CTypeOK ==
    /\ place \in [Members -> Places]
    /\ open \subseteq Demands
    /\ accepting \in BOOLEAN
    /\ ledger \subseteq Entry
    /\ next \in Nat

(* A member is given to one demand only, ever: two committed plans never   *)
(* assign the same membership, whatever tasks overlap.                     *)
OneTargetPerMember ==
    \A e, f \in ledger : e.member = f.member => e = f

(* The order of allocations is total: no two targets share a sequence      *)
(* number (supply and "last allocated" of a demand are computed from it).  *)
SequenceIsTotal ==
    /\ \A e, f \in ledger : e.seq = f.seq => e = f
    /\ \A e \in ledger : e.seq < next
=============================================================================
