------------------------------ MODULE MCHeads ------------------------------
(* Instances of Heads for TLC. *)
EXTENDS Heads, TLC

Interchangeable == Permutations(Client) \cup Permutations(Conn) \cup Permutations(Hash)
=============================================================================
