------------------------------ MODULE FSLectura ------------------------------
(***************************************************************************)
(* How the FileSystem reads a file (src/FileSystem/recepcionBloques.c):    *)
(* the thread that has semaforoConsola chooses a copy of each block, takes *)
(* the mutex of its node and leaves it to a new thread, which asks the     *)
(* DataNode for the block, waits for it and gives the mutex back.  Nodes   *)
(* are lost and come back, and what a thread that failed holds it keeps.   *)
(***************************************************************************)
EXTENDS Integers, Sequences, FiniteSets, SequencesExt

CONSTANTS Nodos,     \* the nodes of nombreNodos
          Archivos,  \* the files that are read: for each, its blocks
          HayPrueba, \* archivo.txt is in the directory of the FileSystem
          Lecturas,  \* bound: how many commands read a file
          Muertes,   \* bound: how many DataNodes die
          Nulo

Ubicacion == [nodo : Nodos, num : Int]
Bloque    == [c0 : Ubicacion, c1 : Ubicacion, otras : Seq(Ubicacion)]
Copias(b) == <<b.c0, b.c1>> \o b.otras

\* rm -b puts a further copy, if there is one, where it takes one of the first two away:
\* only without further copies is the number of one of them -1.
Guardado(b) ==
  \A i \in DOMAIN Copias(b) :
    Copias(b)[i].num >= 0 \/ (Copias(b)[i].num = -1 /\ i <= 2 /\ b.otras = <<>>)

ASSUME SupuestoLectura ==
  /\ IsFiniteSet(Nodos) /\ Nodos # {} /\ Nulo \notin Nodos \cup Ubicacion
  /\ Archivos \subseteq Seq(Bloque)
  /\ \A a \in Archivos : \A i \in DOMAIN a : Guardado(a[i])
  /\ HayPrueba \in BOOLEAN /\ Lecturas \in Nat /\ Muertes \in Nat

VARIABLES
  fs,         \* "vivo", or "caido" when a send has ended the process
  lectura,    \* the call of obtenerArchivo under way, or Nulo: with semaforoConsola
  hilos,      \* every thread of every read, in the order of pthread_create
  resultados, \* what each call of obtenerArchivo returned and wrote
  puntero,    \* punteroNodo (from 1)
  socket,     \* the nodes whose DescriptorNodo.socket is not -1
  mutex,      \* per node, whether DescriptorNodo.semaforo is locked
  pedido,     \* per connection, the numbers of the blocks asked for
  canal,      \* per connection, the blocks sent and not read, the last cut short or not
  vivos,      \* the DataNodes that run and are connected
  muertes

varsFS == <<lectura, hilos, resultados, puntero, mutex>>
varsDN == <<pedido, canal, vivos, muertes>>
vars   == <<fs, socket, varsFS, varsDN>>

Basura == [nodo |-> Nulo, num |-> 0]   \* not the block that was asked for

\* The file system was started with the files and nodes of an earlier run: some of the
\* nodes are not connected yet.
Init ==
  /\ fs = "vivo" /\ lectura = Nulo /\ hilos = <<>> /\ resultados = <<>>
  /\ puntero \in 1..Cardinality(Nodos)
  /\ socket \in SUBSET Nodos /\ vivos = socket /\ muertes = 0
  /\ mutex = [n \in Nodos |-> FALSE]
  /\ pedido = [n \in Nodos |-> <<>>] /\ canal = [n \in Nodos |-> <<>>]

-----------------------------------------------------------------------------
(* _seleccionarNodoLectura                                                 *)

nombreNodos == SetToSeq(Nodos)
Vuelta(p, k) == ((p - 1 + k) % Len(nombreNodos)) + 1

\* The copy of block b that the loop looks at when it comes to node n: the first of those
\* of that node, for the others are not reached.
CopiaEn(b, n) ==
  LET otras == {i \in DOMAIN b.otras : b.otras[i].nodo = n}
  IN  CASE b.c0.nodo = n -> b.c0
        [] b.c0.nodo # n /\ b.c1.nodo = n -> b.c1
        [] n \notin {b.c0.nodo, b.c1.nodo} /\ otras # {} -> b.otras[Min(otras)]
        [] OTHER -> Nulo

Sirve(b, n) == CopiaEn(b, n) # Nulo /\ n \in socket /\ CopiaEn(b, n).num # -1

\* Mutant of Intentos: the search stops one copy early.
IntentosUnoMenos(b) == 1 + Len(b.otras)

\* cantidadCopias, how many copies out of reach the loop counts before it gives up.
Intentos(b) == 2 + Len(b.otras)

\* How many turns the loop takes for block b, and whether the last one finds a copy.
Turnos(b) ==
  LET nodo(k)   == nombreNodos[Vuelta(puntero, k - 1)]
      malas(k)  == Cardinality({m \in 1..k : CopiaEn(b, nodo(m)) # Nulo /\ ~Sirve(b, nodo(m))})
      acaba(k)  == Sirve(b, nodo(k)) \/ malas(k) = Intentos(b)
  IN  CHOOSE k \in 1..(Len(nombreNodos) * Intentos(b)) : acaba(k) /\ \A m \in 1..(k - 1) : ~acaba(m)

seleccionarNodoLectura(b) ==
  LET n == nombreNodos[Vuelta(puntero, Turnos(b) - 1)]
  IN  IF Sirve(b, n) THEN CopiaEn(b, n) ELSE Nulo

-----------------------------------------------------------------------------
(* obtenerArchivo: the thread with semaforoConsola                         *)

\* The next block of the file, and the threads of this call.
Siguiente == Len(hilos) - lectura.primero + 2
DeEstaLectura == lectura.primero..Len(hilos)

\* obtenerArchivo begins: its threads will be the next ones.
Empieza(archivo) == [archivo |-> archivo, primero |-> Len(hilos) + 1]

\* cat, cpto, cpfile and md5 of file f.
obtenerArchivo(f) ==
  /\ fs = "vivo" /\ lectura = Nulo /\ Len(resultados) < Lecturas
  /\ lectura' = Empieza(f)
  /\ UNCHANGED <<fs, socket, hilos, resultados, puntero, mutex, varsDN>>

\* Mutant of Candado: the node is not locked.
SinCandado(n) == UNCHANGED mutex

\* pthread_mutex_lock, by the thread that reads the file.
Candado(n) == ~mutex[n] /\ mutex' = [mutex EXCEPT ![n] = TRUE]

crearHilo ==
  /\ fs = "vivo" /\ lectura # Nulo /\ Siguiente <= Len(lectura.archivo)
  /\ LET b == lectura.archivo[Siguiente]
         u == seleccionarNodoLectura(b)
     IN  /\ u # Nulo
         /\ Candado(u.nodo)
         /\ hilos' = Append(hilos, [nodo |-> u.nodo, num |-> u.num, pc |-> "pide", dato |-> Nulo])
         /\ puntero' = Vuelta(puntero, Turnos(b))
  /\ UNCHANGED <<fs, socket, lectura, resultados, varsDN>>

\* The call returns -1 at once; its threads go on.
sinCopias ==
  /\ fs = "vivo" /\ lectura # Nulo /\ Siguiente <= Len(lectura.archivo)
  /\ LET b == lectura.archivo[Siguiente]
     IN  /\ seleccionarNodoLectura(b) = Nulo
         /\ puntero' = Vuelta(puntero, Turnos(b))
         /\ resultados' = Append(resultados,
              [estado |-> -1, falta |-> b, con |-> socket, datos |-> <<>>,
               archivo |-> lectura.archivo])
  /\ lectura' = Nulo
  /\ UNCHANGED <<fs, socket, hilos, mutex, varsDN>>

\* The i-th of the threads H, in the order they were created.
Iesimo(H, i) == CHOOSE h \in H : Cardinality({k \in H : k <= h}) = i

(***************************************************************************)
(* All threads are joined, in order, and what they read is written.  The   *)
(* file of a read that failed is not removed (remove is given the FILE),   *)
(* and the call returns 0.                                                 *)
(***************************************************************************)
terminarLectura ==
  /\ fs = "vivo" /\ lectura # Nulo /\ Siguiente > Len(lectura.archivo)
  /\ \A h \in DeEstaLectura : hilos[h].pc \in {"bien", "mal"}
  /\ LET bien == {h \in DeEstaLectura : hilos[h].pc = "bien"}
     IN  resultados' = Append(resultados,
           [estado |-> 0, falta |-> Nulo, con |-> socket,
            datos |-> [i \in 1..Cardinality(bien) |-> hilos[Iesimo(bien, i)].dato],
            archivo |-> lectura.archivo])
  /\ lectura' = Nulo
  /\ UNCHANGED <<fs, socket, hilos, puntero, mutex, varsDN>>

-----------------------------------------------------------------------------
(* _guardarBloque: thread h                                                *)

Falla(h) == hilos' = [hilos EXCEPT ![h].pc = "mal"]

\* Both sends.  To a DataNode that is gone they succeed, fail or raise SIGPIPE.
pedirBloque(h) ==
  /\ fs = "vivo" /\ hilos[h].pc = "pide"
  /\ LET n == hilos[h].nodo
     IN  \/ /\ n \in socket
            /\ hilos' = [hilos EXCEPT ![h].pc = "espera"]
            /\ pedido' = IF n \in vivos THEN [pedido EXCEPT ![n] = Append(@, hilos[h].num)] ELSE pedido
            /\ UNCHANGED fs
         \/ n \notin vivos /\ Falla(h) /\ UNCHANGED <<fs, pedido>>
         \/ n \in socket \ vivos /\ fs' = "caido" /\ UNCHANGED <<hilos, pedido>>
  /\ UNCHANGED <<socket, lectura, resultados, puntero, mutex, canal, vivos, muertes>>

\* Mutant of Suelta: the mutex is not given back.
NoSuelta(n) == mutex

Suelta(n) == [mutex EXCEPT ![n] = FALSE]

\* recv of a whole block.  What is left of one that was begun by another reader, or cut by
\* the end of the DataNode, does not fill it: it waits for more, or takes what there is
\* if the DataNode has gone.
recibirBloque(h) ==
  /\ fs = "vivo" /\ hilos[h].pc = "espera"
  /\ LET n == hilos[h].nodo
         recibe(dato, resto) ==
           /\ hilos' = [hilos EXCEPT ![h].pc = "bien", ![h].dato = dato]
           /\ canal' = [canal EXCEPT ![n] = resto]
           /\ mutex' = Suelta(n)
     IN  \/ /\ n \in socket /\ canal[n] # <<>> /\ Head(canal[n]).entero
            /\ recibe(Head(canal[n]).dato, Tail(canal[n]))
         \/ /\ n \in socket /\ Len(canal[n]) > 1 /\ ~Head(canal[n]).entero
            /\ recibe(Basura, <<[canal[n][2] EXCEPT !.entero = FALSE]>> \o SubSeq(canal[n], 3, Len(canal[n])))
         \/ /\ n \in socket \ vivos /\ Len(canal[n]) = 1 /\ ~Head(canal[n]).entero
            /\ recibe(Basura, <<>>)
         \/ /\ n \notin socket \/ (n \notin vivos /\ canal[n] = <<>>)
            /\ Falla(h) /\ UNCHANGED <<canal, mutex>>
  /\ UNCHANGED <<fs, socket, lectura, resultados, puntero, pedido, vivos, muertes>>

-----------------------------------------------------------------------------
(* DataNodes, and the thread of the server                                 *)

Enviado(n) == [i \in DOMAIN pedido[n] |->
                [dato |-> [nodo |-> n, num |-> pedido[n][i]], entero |-> TRUE]]

\* _getBloque
getBloque(n) ==
  /\ n \in vivos /\ pedido[n] # <<>>
  /\ canal' = [canal EXCEPT ![n] = Append(@, Head(Enviado(n)))]
  /\ pedido' = [pedido EXCEPT ![n] = Tail(@)]
  /\ UNCHANGED <<fs, socket, varsFS, vivos, muertes>>

\* What had arrived, or was arriving, is there to be read up to some point.
DataNodeMuere(n) ==
  /\ n \in vivos /\ muertes < Muertes
  /\ vivos' = vivos \ {n} /\ muertes' = muertes + 1
  /\ pedido' = [pedido EXCEPT ![n] = <<>>]
  /\ LET todo == canal[n] \o Enviado(n)
     IN  \E k \in 0..Len(todo) :
           \E cola \in {<<>>} \cup (IF k = Len(todo) THEN {}
                                     ELSE {<<[dato |-> Basura, entero |-> FALSE]>>}) :
             canal' = [canal EXCEPT ![n] = SubSeq(todo, 1, k) \o cola]
  /\ UNCHANGED <<fs, socket, varsFS>>

\* The server finds something to read, of the block that a thread is waiting for, and
\* takes its first word.
manejarCliente(n) ==
  /\ fs = "vivo" /\ lectura = Nulo /\ n \in socket
  /\ canal[n] # <<>> /\ Head(canal[n]).entero
  /\ canal' = [canal EXCEPT ![n][1] = [dato |-> Basura, entero |-> FALSE]]
  /\ UNCHANGED <<fs, socket, varsFS, pedido, vivos, muertes>>

marcarNodoDesconectado(n) ==
  /\ fs = "vivo" /\ lectura = Nulo /\ n \in socket \ vivos /\ canal[n] = <<>>
  /\ socket' = socket \ {n}
  /\ UNCHANGED <<fs, varsFS, varsDN>>

\* asociarNodo: the descriptor gets the new socket and keeps its mutex; then the probe
\* reads a file of one block with both its copies on that node.
Prueba(n) == <<[c0 |-> [nodo |-> n, num |-> 0], c1 |-> [nodo |-> n, num |-> 1], otras |-> <<>>]>>

asociarNodo(n) ==
  /\ fs = "vivo" /\ lectura = Nulo /\ n \notin vivos
  /\ vivos' = vivos \cup {n} /\ socket' = socket \cup {n}
  /\ pedido' = [pedido EXCEPT ![n] = <<>>] /\ canal' = [canal EXCEPT ![n] = <<>>]
  /\ lectura' = IF HayPrueba THEN Empieza(Prueba(n)) ELSE Nulo
  /\ UNCHANGED <<fs, hilos, resultados, puntero, mutex, muertes>>

-----------------------------------------------------------------------------
Lector == crearHilo \/ sinCopias \/ terminarLectura
Hilo(h) == pedirBloque(h) \/ recibirBloque(h)

Next ==
  \/ \E f \in Archivos : obtenerArchivo(f)
  \/ Lector
  \/ \E h \in DOMAIN hilos : Hilo(h)
  \/ \E n \in Nodos : \/ getBloque(n) \/ DataNodeMuere(n) \/ manejarCliente(n)
                     \/ marcarNodoDesconectado(n) \/ asociarNodo(n)

Spec == Init /\ [][Next]_vars

\* Threads are scheduled, and a DataNode answers what it is asked.
SpecJusta ==
  /\ Spec
  /\ WF_vars(Lector) /\ WF_vars(\E h \in DOMAIN hilos : Hilo(h))
  /\ \A n \in Nodos : WF_vars(getBloque(n))

-----------------------------------------------------------------------------
(* What a read promises                                                    *)

EsCopia(d, b) == d \in Range(Copias(b))

\* A node was lost, or a read was given up before its threads had ended.
Perdida == muertes > 0 \/ \E r \in Range(resultados) : r.estado = -1

TypeOKLectura ==
  /\ fs \in {"vivo", "caido"} /\ puntero \in 1..Cardinality(Nodos)
  /\ lectura = Nulo \/ lectura.primero \in 1..(Len(hilos) + 1)
  /\ \A h \in DOMAIN hilos : /\ hilos[h].nodo \in Nodos /\ hilos[h].num >= 0
                            /\ hilos[h].pc \in {"pide", "espera", "bien", "mal"}
  /\ socket \subseteq Nodos /\ vivos \subseteq socket /\ mutex \in [Nodos -> BOOLEAN]
  /\ muertes \in 0..Muertes

\* A connection carries one answer at a time, for the thread that holds the node's mutex:
\* whatever failed before, the answer of one thread is never that of another.
UnaRespuesta ==
  /\ TypeOKLectura
  /\ \A n \in Nodos :
       /\ Len(pedido[n]) + Len(canal[n]) <= 1
       /\ Cardinality({h \in DOMAIN hilos : hilos[h].nodo = n /\ hilos[h].pc # "bien"}) <= 1

\* What is written is the file, block by block and in order, while all nodes are there; and a
\* block that a thread read whole is the one it was asked for, and is wrong only after a node
\* was lost or a read given up.
ArchivoFiel ==
  /\ \A r \in Range(resultados) : r.estado = 0 /\ ~Perdida =>
       /\ Len(r.datos) = Len(r.archivo)
       /\ \A i \in DOMAIN r.datos : EsCopia(r.datos[i], r.archivo[i])
  /\ \A h \in DOMAIN hilos : hilos[h].pc = "bien" =>
       \/ hilos[h].dato = [nodo |-> hilos[h].nodo, num |-> hilos[h].num]
       \/ hilos[h].dato = Basura /\ Perdida

\* Copy 1 is behind copy 0, of the same node, that rm -b took away: the comparison stops there.
Tapada(u, b) == u.nodo = b.c0.nodo /\ b.c0.num = -1

\* A read is given up only for a block no connected node has a copy of, or has it where
\* the search does not look.
SoloSinCopias ==
  \A r \in Range(resultados) : r.estado = -1 =>
    \A u \in Range(Copias(r.falta)) : u.nodo \notin r.con \/ u.num = -1 \/ Tapada(u, r.falta)

\* A read ends, and gives semaforoConsola back, unless a node was lost or an earlier read
\* was given up.
LecturaTermina == lectura # Nulo ~> (lectura = Nulo \/ Perdida)
=============================================================================
