----------------------------- MODULE MCConexiones -----------------------------
(***************************************************************************)
(* A small instance of FSConexiones: a FileSystem that is filled, saved,   *)
(* killed and started again, and one that starts with a saved file and     *)
(* serves YAMA while its DataNodes come and go.                            *)
(***************************************************************************)
EXTENDS FSConexiones

CONSTANTS n1, n2, n3

Capacidades == [n \in Nodos |-> IF n = n3 THEN 1 ELSE 2]

\* A file of one block, stored on n1 and n2 and perhaps copied to n3, as exit leaves it.
Guardado(otras) ==
  [tabla |-> {n1, n2, n3}, dirs |-> "bien",
   bitmaps |-> [n \in Nodos |-> IF n = n3 /\ otras = Nulo THEN {} ELSE {0}],
   archivos |-> [r \in {"a"} |-> <<[c0 |-> Ubi(n1, 0), c1 |-> Ubi(n2, 0), otras |-> otras]>>]]

Casos ==
  {[comandos |-> {"cpfrom", "exit"}, nodos |-> {n1, n2},
    yama |-> FALSE, arranques |-> 2, disco |-> SinDatos],
   [comandos |-> {"cpfrom", "rm", "exit", "--clean"}, nodos |-> {n1, n3},
    yama |-> FALSE, arranques |-> 3, disco |-> SinDatos]}
  \cup
  {[comandos |-> {"rm -b", "cpblock", "format"}, nodos |-> {n1, n2, n3},
    yama |-> TRUE, arranques |-> 2, disco |-> Guardado(Nulo)],
   [comandos |-> {"rm -b", "cpblock", "cpfrom largo"}, nodos |-> {n1, n2, n3},
    yama |-> TRUE, arranques |-> 1, disco |-> Guardado(<<Ubi(n3, 0)>>)]}
=============================================================================
