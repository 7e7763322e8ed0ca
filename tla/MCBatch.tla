------------------------------ MODULE MCBatch ------------------------------
(* Instances of Batch for TLC. *)
EXTENDS BatchProperties, TLC

\* Every request under an id of its own, so that any other id is seen to be
\* wrong; and two requests of independent clients under one id.
OwnIds == [r \in Req |-> r]
SharedId == [r \in Req |-> CHOOSE c \in ClientIds : TRUE]

\* Requests are alike but for their being range scans.
Symmetry == Permutations(Req \ RangeScan)
=============================================================================
