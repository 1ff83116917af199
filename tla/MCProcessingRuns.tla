--------------------------- MODULE MCProcessingRuns ---------------------------
(* Small instances of ProcessingRuns for TLC.                              *)
EXTENDS ProcessingRuns, TLC

CONSTANTS r1, r2, c1, c2, w1, w2

\* Every run covers every candidate.
FullScope == [r \in Runs |-> Candidates]
BothWishes == [c \in Candidates |-> Volunteers]
\* Every wish is there from the start; the second may come by a later import.
NoneLate == [c \in Candidates |-> {}]
SecondLate == [c \in Candidates |-> {2}]

KindAll == [r \in Runs |-> "all"]
KindStep4 == [r \in Runs |-> "step4"]
\* A routine run, and one that may be forced (step2 only).
KindRerun == [r \in Runs |-> IF r = r1 THEN "step3" ELSE "step2"]
\* A step4 run, and a run from the admission check on.
KindMixed == [r \in Runs |-> IF r = r1 THEN "step4" ELSE "step2"]
NoForce == [r \in Runs |-> FALSE]
ForceSecond == [r \in Runs |-> r = r2]
NoRetry == [r \in Runs |-> 0]
RetryFirstWish == [r \in Runs |-> IF r = r2 THEN 1 ELSE 0]

WorkerSymmetry == Permutations(Workers)

=============================================================================
