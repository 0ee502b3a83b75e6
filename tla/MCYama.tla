------------------------------- MODULE MCYama -------------------------------
(***************************************************************************)
(* Small instances of YamaTrabajos.                                        *)
(***************************************************************************)
EXTENDS YamaTrabajosProps

CONSTANTS n1, n2, n3, n4

\* One block, with its two copies.
UnBloque == [j \in Jobs |-> <<{n1, n2}>>]
\* Three blocks that share both nodes.
TresBloques == [j \in Jobs |-> <<{n1, n2}, {n1, n2}, {n1, n2}>>]
\* Two blocks that share no node, and never meet on one.
BloquesAparte == [j \in Jobs |-> <<{n1, n2}, {n3, n4}>>]
=============================================================================
