-------------------------------- MODULE MCFS --------------------------------
(* Instances of FSBloques: small DataNodes and files of a few lines.        *)
EXTENDS FSDudas

CapDos   == [n \in Nodos |-> 2]
CapTres  == [n \in Nodos |-> 3]

Simetria == Permutations(Nodos) \cup Permutations(Rutas)

\* A block of 5: a file of one block; one of two, and one for which two are asked for and
\* three are made.
TextosUno   == {<<3>>}
TextosTres  == {<<3>>, <<3, 3>>, <<3, 3, 3>>}
=============================================================================
