------------------------------- MODULE MCPlan -------------------------------
(***************************************************************************)
(* Small instances of YamaPlanificador: the jobs are the shapes a file may *)
(* take on three nodes, and the tables give the nodes different loads.     *)
(***************************************************************************)
EXTENDS YamaPlanificador

CONSTANTS n1, n2, n3

Archivos == [j \in Jobs |->
  CASE j = "todos" -> [b \in 1..9 |-> Nodos]
    [] j = "mixto" -> <<{n1, n2}, {n2, n3}, {n1}, {n1, n3}, {n1, n2}, {n3}>>
    [] j = "uno"   -> <<{n2}, {n2}, {n2}>>]

Tarea(n, s) == [NuevaEtapa("uno", "REDUCCIONLOCAL", n) EXCEPT !.estado = s]
Tareas(n, k, s) == [i \in 1..k |-> Tarea(n, s)]

\* Up to two finished operations on n1, and three under way; one on each other node.
Tablas == {Tareas(n1, h, "FINALIZADO") \o Tareas(n1, a, "ENPROCESO")
             \o Tareas(n2, b, "ENPROCESO") \o Tareas(n3, c, "ENPROCESO") :
             h \in {0, 2}, a \in 0..3, b, c \in 0..1}
=============================================================================
