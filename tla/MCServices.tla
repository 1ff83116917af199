----------------------------- MODULE MCServices -----------------------------
(***************************************************************************)
(* Snapshots for AllocationPolicy: one tag, given by hand or with a        *)
(* confidence around the threshold, two instants of arrival, a member      *)
(* counted for the first demand or not, and five demands that differ in    *)
(* one rank each.                                                          *)
(***************************************************************************)
EXTENDS Services

TagOf == {[status |-> "supported", source |-> "model", confidence |-> x] : x \in {79999, 80000}}
            \cup {[status |-> "supported", source |-> "manual", confidence |-> 0]}

SmallMembers == [created : {1, 2}, counted : {{}, {1}}, tags : [Tags -> TagOf]]

Demand(required, preferred, priority, recent, latest) ==
    [state |-> "receiving", required |-> required, preferred |-> preferred,
     priority |-> priority, supply |-> recent, last |-> latest]

SmallDemands ==
    {Demand(Tags, {}, 1, 0, 0), Demand(Tags, {}, 1, 1, 0), Demand(Tags, {}, 0, 1, 2),
     Demand({}, Tags, 1, 0, 1), [Demand(Tags, Tags, 0, 0, 0) EXCEPT !.state = "paused"]}

=============================================================================
