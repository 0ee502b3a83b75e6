------------------------------ MODULE MCLectura ------------------------------
(* Files of two or three blocks on two nodes, for FSLectura.                *)
EXTENDS FSLectura

CONSTANTS n1, n2

U(n, k) == [nodo |-> n, num |-> k]
B(u, v) == [c0 |-> u, c1 |-> v, otras |-> <<>>]

\* Its copies apart; all copies on one node, and a further one on the other; a block
\* that rm -b has left with one copy; and one whose copy is behind the one taken away.
Repartido == <<B(U(n1, 2), U(n2, 2)), B(U(n2, 3), U(n1, 3)), B(U(n1, 4), U(n2, 4))>>
Junto     == <<B(U(n1, 5), U(n1, 6)), [B(U(n1, 7), U(n1, 8)) EXCEPT !.otras = <<U(n2, 5)>>]>>
Borrado   == <<B(U(n1, 9), U(n2, 7)), B(U(n1, -1), U(n2, 6))>>
Tapado    == <<B(U(n2, -1), U(n2, 9))>>

Guardados == {Repartido, Junto, Borrado, Tapado}
=============================================================================
