--------------------------- MODULE FSBloquesProps ---------------------------
(***************************************************************************)
(* What the placement of blocks should keep, for FSBloques.                *)
(***************************************************************************)
EXTENDS FSBloques

\* Every block of a registered file, and of the file that is being stored.
EnCurso   == IF op = Nulo THEN <<>> ELSE op.hechos
Guardados == (UNION {Range(archivos[r]) : r \in DOMAIN archivos}) \cup Range(EnCurso)

\* The copies of those blocks that have not been taken away, with the block they are of.
CopiasVivas ==
  UNION {{<<b, j>> : j \in {j \in DOMAIN Copias(b) : Copias(b)[j].num >= 0}} : b \in Guardados}
Lugar(c) == Copias(c[1])[c[2]]

\* Types.  The number of a block has no limit in _obtenerNumeroBloqueLibre but the bound.
TypeOKFS ==
  /\ fs \in {"vivo", "caido"}
  /\ op = Nulo \/ /\ op.ruta \in Rutas /\ op.hilo \in Hilos
                  /\ op.faltan \in Nat /\ Range(op.hechos) \subseteq Bloque
  /\ Range(nombres) \subseteq Nodos /\ IsInjective(nombres)
  /\ socket \subseteq Range(nombres)
  /\ \A n \in Nodos : bitmap[n] \subseteq 0..(Capacidad[n] + MaxDeriva - 1)
  /\ libres \in [Nodos -> Int]
  /\ DOMAIN archivos \subseteq Rutas
  /\ \A r \in DOMAIN archivos : Range(archivos[r]) \subseteq Bloque
  /\ puntero \in 1..(IF nombres = <<>> THEN 1 ELSE Len(nombres))
  /\ vivos \subseteq Nodos
  /\ \A n \in Nodos : \A k \in DOMAIN disco[n] : disco[n][k] \in Dato
  /\ prueba \in [Nodos -> 0..2] /\ muertes \in 0..Muertes
  /\ \A n \in Nodos : Range(sobra[n]) \subseteq {"ok", "resto"}

\* Until a DataNode is lost, the counter of free blocks of a node, which the space check and
\* the placement read, is what its bitmap says, which rm, rm -b, cpblock and cpfrom change
\* in other places.
ContadorBitmap ==
  muertes = 0 => \A n \in Range(nombres) : libres[n] + Cardinality(bitmap[n]) = Capacidad[n]

\* Two copies never share a block of a DataNode, and no block that holds one is free to
\* be given again (liberarBloque, _obtenerNumeroBloqueLibre).
NingunBloqueCompartido ==
  /\ \A c, d \in CopiasVivas : Lugar(c) = Lugar(d) => c = d
  /\ \A c \in CopiasVivas : Lugar(c).num \in bitmap[Lugar(c).nodo]

\* No block is set that holds no copy: what rm gives back can be used again.
BitsExactos ==
  \A n \in Nodos : bitmap[n] = {Lugar(c).num : c \in {d \in CopiasVivas : Lugar(d).nodo = n}}

\* A file is in the dictionary only with all its blocks, each in its place: a store that
\* failed leaves nothing of it.
ArchivoEntero ==
  \A r \in DOMAIN archivos :
    /\ \E t \in Textos : Len(archivos[r]) \in {Trozos(t), Pedidos(t)}
    /\ \A i \in DOMAIN archivos[r] : archivos[r][i].dato = <<r, i>>

\* The two copies of a block go to two nodes whenever two can take one: the clock of
\* _calcularUbicacionBloque goes on before it looks for the second.
CopiasAparte ==
  [][\A b \in Range(IF op' = Nulo THEN <<>> ELSE op'.hechos) \ Range(EnCurso) :
       b.c0.nodo = b.c1.nodo =>
         \A n \in socket \ {b.c0.nodo} : n \in Range(nombres) => libres[n] <= 0]_vars

\* A file that passes the space check is stored or given up: _calcularUbicacionBloque
\* finds a node for every block.  A text that is cut into more blocks than its size asked
\* for may use up what there was: then, and only then, its loop has nowhere to stop.
CpfromTermina ==
  (op # Nulo) ~> \/ op = Nulo
                 \/ /\ op.pedidos < Len(op.hechos) + op.faltan /\ op.faltan > 0
                    /\ ~HayEspacio(1, libres, socket)
=============================================================================
