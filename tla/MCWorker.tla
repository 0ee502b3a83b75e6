------------------------------- MODULE MCWorker -------------------------------
(***************************************************************************)
(* Instances of Worker for TLC: two jobs over two Workers.                 *)
(***************************************************************************)
EXTENDS Worker

CONSTANTS w1, w2, j1, j2

MCTransformado == [l \in 1..4 |-> <<2, 1, 4, 1>>[l]]
MCCotejo       == [l \in 1..4 |-> l]

\* Three blocks to merge; j1 in both Workers; both jobs in one Worker, or each in its own; a
\* single block of j1 in w1, which then has nothing to reduce.
MCRepartos == {
  (j1 :> (w1 :> <<<<4>>, <<1, 2>>, <<3>>>> @@ w2 :> <<>>)) @@
  (j2 :> (w1 :> <<>> @@ w2 :> <<<<2>>>>)),
  (j1 :> (w1 :> <<<<3, 2>>, <<4>>>> @@ w2 :> <<<<3, 1>>, <<1>>>>)) @@
  (j2 :> (w1 :> <<<<1>>>> @@ w2 :> <<>>)),
  (j1 :> (w1 :> <<<<3, 2>>, <<4>>>> @@ w2 :> <<>>)) @@
  (j2 :> (w1 :> <<<<1>>, <<2>>>> @@ w2 :> <<>>)),
  (j1 :> (w1 :> <<<<3, 2>>, <<4>>>> @@ w2 :> <<>>)) @@
  (j2 :> (w1 :> <<>> @@ w2 :> <<<<1>>, <<2>>>>)),
  (j1 :> (w1 :> <<<<1>>>> @@ w2 :> <<<<3>>, <<4>>>>)) @@
  (j2 :> (w1 :> <<>> @@ w2 :> <<<<2>>>>)) }
=============================================================================
