------------------------------ MODULE MCMetricas ------------------------------
(***************************************************************************)
(* An instance of MasterMetricas for TLC: three threads of one kind, two   *)
(* of the other.                                                           *)
(***************************************************************************)
EXTENDS MasterMetricas, TLC

CONSTANTS t1, t2, t3, r1, r2

Simetria == Permutations(Transf) \cup Permutations(Redu)
=============================================================================
