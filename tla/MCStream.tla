------------------------------ MODULE MCStream ------------------------------
(* Instances of Stream for TLC. *)
EXTENDS StreamProperties, TLC

CONSTANTS c1, c2, s1, s2

OneOnly == s1 :> c1
Swapped == Permutations(Backend)
BothOfOne == s1 :> c1 @@ s2 :> c1
=============================================================================
