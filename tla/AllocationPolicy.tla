-------------------------- MODULE AllocationPolicy --------------------------
(***************************************************************************)
(* expectedAllocation (allocation_policy.go): the plan the platform        *)
(* computes for itself and compares, decision by decision, with what the   *)
(* kernel returns.  The module walks through a snapshot as the code does,  *)
(* member by member and demand by demand, except that the demands come in  *)
(* any order: the plan must not depend on it, since the kernel need not    *)
(* share it.  The property says what the plan is without walking.          *)
(***************************************************************************)
EXTENDS Integers, FiniteSetsExt

CONSTANTS Members, Demands,   \* ids, positive numbers
          Tags,
          MemberOf,           \* members there may be in a snapshot
          DemandOf,           \* demands there may be in a snapshot
          NextSequence        \* next_sequence of the scope

VARIABLES
    members, demands,   \* the snapshot
    supply, last,       \* of each demand, as the plan grows
    sequence,
    todo,               \* members without a decision
    left,               \* demands the member at hand has not been held against
    best,               \* the decision for the member at hand, so far
    decisions

vars == <<members, demands, supply, last, sequence, todo, left, best, decisions>>

Nobody == 0
Wait(reason) == [demand |-> Nobody, matched |-> {}, order |-> <<>>, sequence |-> 0,
                 reason |-> reason]

Undecided(ds) ==
    Wait(IF ds = <<>> THEN "no_active_mapping" ELSE "no_receiving_demand")

Init ==
    /\ members = <<>> /\ demands = <<>>
    /\ supply = <<>> /\ last = <<>> /\ sequence = 0
    /\ todo = {} /\ left = {} /\ best = Wait("") /\ decisions = <<>>

-----------------------------------------------------------------------------
(* Helpers.                                                                *)

BpsOf(confidence) == confidence \div 10

(* A tag counts if a person said so, or the model is sure enough; its      *)
(* confidence, in hundred-thousandths, is cut to basis points              *)
(* (allocationTagFacts).                                                   *)
Usable(m) ==
    {t \in Tags : LET tag == members[m].tags[t]
                  IN /\ tag.status = "supported"
                     /\ tag.source = "manual" \/ BpsOf(tag.confidence) >= 8000}

Before(m, n) ==
    \/ members[m].created < members[n].created
    \/ members[m].created = members[n].created /\ m < n

Less(o, p) == \E k \in 1..5 : o[k] < p[k] /\ \A j \in 1..k-1 : o[j] = p[j]

Matched(m, d) == Usable(m) \cap (demands[d].required \cup demands[d].preferred)

(* The demand takes the member. *)
Takes(m, d) ==
    /\ demands[d].state = "receiving"
    /\ demands[d].required \subseteq Usable(m)
    /\ Matched(m, d) # {}

Preferred(m, d) == Cardinality(Usable(m) \cap demands[d].preferred)

Rank(m, d, supplied, latest) ==
    << -Preferred(m, d), demands[d].priority, supplied, latest, d>>

(* Mutant: who was counted in the window is counted again. *)
SuppliedAgain(m, d) == supply[d] + 1

(* A candidate the demand has had in the window is not counted again. *)
Supplied(m, d) == IF d \in members[m].counted THEN supply[d] ELSE supply[d] + 1

-----------------------------------------------------------------------------
(* A snapshot of the scope: every member may go to every demand in it. *)
Start ==
    /\ members = <<>>
    /\ members' \in [Members -> MemberOf]
    /\ demands' \in UNION {[d -> DemandOf] : d \in SUBSET Demands}
    /\ supply' = [d \in DOMAIN demands' |-> demands'[d].supply]
    /\ last' = [d \in DOMAIN demands' |-> demands'[d].last]
    /\ sequence' = NextSequence
    /\ todo' = Members
    /\ left' = DOMAIN demands'
    /\ best' = Undecided(demands')
    /\ UNCHANGED decisions

First(m) == m \in todo /\ \A n \in todo : ~Before(n, m)

(* One turn of the inner loop. *)
Consider(m, d) ==
    /\ First(m) /\ d \in left
    /\ left' = left \ {d}
    /\ LET order == Rank(m, d, supply[d], last[d])
           better == best.demand = Nobody \/ Less(order, best.order)
       IN best' = IF Takes(m, d) /\ better
                  THEN [demand |-> d, matched |-> Matched(m, d), order |-> order,
                        sequence |-> sequence, reason |-> "allocated"]
                  ELSE IF best.demand = Nobody /\ demands[d].state = "receiving"
                  THEN Wait("required_tags_unavailable") ELSE best
    /\ UNCHANGED <<members, demands, supply, last, sequence, todo, decisions>>

(* The end of a turn of the outer loop. *)
Decide(m) ==
    /\ First(m) /\ left = {}
    /\ decisions' = [n \in DOMAIN decisions \cup {m} |->
                       IF n = m THEN best ELSE decisions[n]]
    /\ IF best.demand = Nobody THEN UNCHANGED <<supply, last, sequence>>
       ELSE /\ supply' = [supply EXCEPT ![best.demand] = Supplied(m, best.demand)]
            /\ last' = [last EXCEPT ![best.demand] = sequence]
            /\ sequence' = sequence + 1
    /\ todo' = todo \ {m}
    /\ left' = DOMAIN demands
    /\ best' = Undecided(demands)
    /\ UNCHANGED <<members, demands>>

Next ==
    \/ Start
    \/ \E m \in Members : Decide(m) \/ \E d \in Demands : Consider(m, d)

Spec == Init /\ [][Next]_vars

-----------------------------------------------------------------------------
(* Properties.                                                             *)

DecisionOf == [demand : Demands \cup {Nobody}, matched : SUBSET Tags, order : {<<>>} \cup
                  (Int \X Int \X Int \X Int \X Int),
               sequence : Nat,
               reason : {"", "no_active_mapping", "no_receiving_demand",
                         "required_tags_unavailable", "allocated"}]

(* Every variable has its type. *)
TypeOK ==
    /\ DOMAIN members \subseteq Members /\ DOMAIN demands \subseteq Demands
    /\ DOMAIN supply = DOMAIN demands /\ DOMAIN last = DOMAIN demands
    /\ sequence \in Nat
    /\ todo \subseteq DOMAIN members /\ left \subseteq DOMAIN demands
    /\ best \in DecisionOf
    /\ \A m \in DOMAIN decisions : decisions[m] \in DecisionOf

(* The plan without the walk.  A member waits only if no demand takes it,  *)
(* for the reason that says so.  Otherwise it goes to the demand that, all *)
(* earlier members being placed, has most of its preferred tags, then the  *)
(* best priority, then the least supply in the window, counting every      *)
(* candidate once, then the longest wait, then the least id; and the       *)
(* assigned members are numbered in their order of arrival.                *)
Earlier(m) == {n \in DOMAIN members : Before(n, m) /\ decisions[n].demand # Nobody}
SentTo(m, d) == {n \in Earlier(m) : decisions[n].demand = d}

SupplyFor(m, d) ==
    demands[d].supply + Cardinality({n \in SentTo(m, d) : d \notin members[n].counted})

LatestFor(m, d) ==
    IF SentTo(m, d) = {} THEN demands[d].last
    ELSE Max({decisions[n].sequence : n \in SentTo(m, d)})

RankFor(m, d) == Rank(m, d, SupplyFor(m, d), LatestFor(m, d))

Placed(m, x) ==
    LET takers == {d \in DOMAIN demands : Takes(m, d)}
    IN IF takers # {}
       THEN /\ x.demand \in takers /\ x.reason = "allocated"
            /\ x.matched = Matched(m, x.demand)
            /\ x.order = RankFor(m, x.demand)
            /\ \A d \in takers \ {x.demand} : Less(RankFor(m, x.demand), RankFor(m, d))
            /\ x.sequence = NextSequence + Cardinality(Earlier(m))
       ELSE x = Wait(IF demands = <<>> THEN "no_active_mapping"
                     ELSE IF \A d \in DOMAIN demands : demands[d].state # "receiving"
                     THEN "no_receiving_demand" ELSE "required_tags_unavailable")

PlanIsBest == \A m \in DOMAIN decisions : Placed(m, decisions[m])

=============================================================================
