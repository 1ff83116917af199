---------------------------- MODULE MCAllocation ----------------------------
(* Instances of Allocation for TLC. *)
EXTENDS Allocation, TLC

CONSTANTS m1, m2, d1, d2, w1, w2

WantsOne == (m1 :> {d1})
WantsPair == (m1 :> {d1} @@ m2 :> {d1})
WantsShared == (m1 :> {d1} @@ m2 :> {d1, d2})

WorkerSymmetry == Permutations({w1, w2})

=============================================================================
