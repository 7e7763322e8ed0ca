------------------------------ MODULE MCRouter ------------------------------
(* Instances of Router for TLC. *)
EXTENDS Router, TLC

CONSTANTS b1, b2, r1, o1

Both == <<b1, b2>>
OnlyTwo == <<b2>>

\* b2 has pruned what is below its newest blocks.
Archive == [b \in Backend |-> 1]
PrunedTwo == [b \in Backend |-> IF b = b2 THEN 2 ELSE 1]

\* A batch of reads: the backend that pruned can answer only one of them.
Two == [r \in Request |-> {1, 2}]
Unpinned == [r \in Request |-> {}]
=============================================================================
