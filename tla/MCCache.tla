------------------------------ MODULE MCCache ------------------------------
(* Instances of Cache for TLC: chain A has a fork, chain B one block. *)
EXTENDS CacheProperties, TLC

CONSTANTS A, B, a1, a2, a3, a4, a5, x2, x3, p3, b1, k1, k2, k3, k4, k5, k6

\* a1 - a2 - a3 - a4 - a5
\*   \- x2 - x3     p3 is being built on a2.
MCChainOf == [b \in Block |-> IF b = b1 THEN B ELSE A]
MCNum == (a1 :> 1 @@ a2 :> 2 @@ a3 :> 3 @@ a4 :> 4 @@ a5 :> 5 @@ x2 :> 2 @@ x3 :> 3 @@ p3 :> 3 @@ b1 :> 1)
MCParent == (a1 :> None @@ a2 :> a1 @@ a3 :> a2 @@ a4 :> a3 @@ a5 :> a4 @@ x2 :> a1 @@ x3 :> x2 @@ p3 :> a2 @@ b1 :> None)
NumOf == [b \in Block |-> MCNum[b]]
ParentOf == [b \in Block |-> IF MCParent[b] \in Block THEN MCParent[b] ELSE None]
PendingOf == {p3} \cap Block
MCDepth == [c \in Chain |-> 1]

MCClass == (k1 :> "pinned" @@ k2 :> "immutable" @@ k3 :> "tip" @@ k4 :> "tipNamed"
            @@ k5 :> "negative" @@ k6 :> "call")
ClassOf == [k \in Key |-> MCClass[k]]
\* k5 belongs to chain B where there is one.
KeyChainOf == [k \in Key |-> IF k = k5 /\ B \in Chain THEN B ELSE A]
Heights == [k \in Key |-> 2]
=============================================================================
