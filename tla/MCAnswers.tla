----------------------------- MODULE MCAnswers -----------------------------
(* Instances of Answers for TLC. *)
EXTENDS AnswersProperties, TLC

CONSTANTS h1, h2, r1, r2, r3, r4, r5, n1, d1, d2, m1, x, y, z, Old

MCCallOf == r1 :> x @@ r2 :> y @@ r3 :> z @@ r4 :> x @@ r5 :> y @@ n1 :> n1 @@ d1 :> d1 @@ d2 :> d2 @@ m1 :> z
MCBlockOf == [r \in Read |-> IF r \in {r4, r5} THEN Old ELSE Latest]

Batch(form, ids, reads) ==
  [form |-> form, items |-> [i \in DOMAIN reads |-> [id |-> ids[i], read |-> reads[i]]]]

\* Three calls at one tag, under one id; two of them about another; two, one of
\* them at a block given by an object, and a read that is none; some
\* directly; a multicall of calls of all kinds.
MCAsks == h1 :>
  {Batch("batch", <<1, 1, 1>>, <<r1, r2, r3>>),
   Batch("batch", <<1, 2, 2>>, <<r1, r4, r2>>),
   Batch("batch", <<1, 3, 2>>, <<r1, n1, r5>>),
   Batch("direct", <<1, 2>>, <<r1, n1>>),
   Batch("calls", <<1, 1, 1>>, <<d1, m1, d2>>)}
  @@ h2 :> {Batch("calls", <<2, 2>>, <<d1, d2>>)}
=============================================================================
