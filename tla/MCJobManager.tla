----------------------------- MODULE MCJobManager -----------------------------
(* Finite instances of JobManager for TLC. *)
EXTENDS JobManager, TLC

CONSTANTS l1, l2, cfg, req

\* The parents are created in distinct seconds, or the first two in the same one.
DistinctSeconds == [p \in Parents |-> p]
SharedSecond    == [p \in Parents |-> IF p < 3 THEN 1 ELSE p]

\* Kept, which ranks positions, is the selection from a list.
ASSUME KeptIsSelection ==
    \A list \in UNION {[1..n -> 1..3] : n \in 0..4}, S \in SUBSET (1..3) :
        Kept(list, S) = SelectSeq(list, LAMBDA x : x \in S)

\* The lanes are interchangeable.
LaneSymmetry == Permutations(Lanes)
===============================================================================
