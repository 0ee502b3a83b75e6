------------------------------ MODULE FSBloques ------------------------------
(***************************************************************************)
(* The blocks of the FileSystem (src/FileSystem) and the DataNodes that    *)
(* hold them (src/DataNode).  For each node the FileSystem keeps a bitmap  *)
(* and a counter of free blocks; each block of a file has two copies,      *)
(* which rm -b may take away, and any number of further ones, which        *)
(* cpblock adds.  A file is stored block by block under semaforoConsola,   *)
(* by the console or by the thread that serves the Workers; rm and format  *)
(* do not take that mutex.                                                 *)
(***************************************************************************)
EXTENDS Integers, Sequences, FiniteSets, SequencesExt

CONSTANTS Nodos,      \* the DataNodes
          Capacidad,  \* Capacidad[n]: infoNodo.cantidadBloques
          Rutas,      \* the names of files (never /prueba, the probe's own)
          HayPrueba,  \* archivo.txt is in the directory of the FileSystem
          MB,         \* the size of a block
          Textos,     \* the files to store: each the lengths of its lines
          Comandos,   \* the commands that are typed
          Hilos,      \* who stores files: "consola", "servidor"
          Muertes,    \* bound: how often DataNodes are started again
          MaxOtras,   \* bound: further copies of a block
          MaxSobra,   \* bound: answers left unread on a connection
          MaxDeriva,  \* bound: how far beyond the size of a node its counter or the
                      \* number of a block may go, once they disagree
          Nulo

ASSUME SupuestoBloques ==
  /\ Capacidad \in [Nodos -> Nat \ {0}] /\ IsFiniteSet(Nodos)
  /\ MB \in Nat \ {0} /\ Textos \subseteq Seq(1..MB)
  /\ Comandos \subseteq {"rm", "rm -b", "cpblock", "format"}
  /\ Hilos \subseteq {"consola", "servidor"} /\ HayPrueba \in BOOLEAN
  /\ Muertes \in Nat /\ MaxOtras \in Nat /\ MaxSobra \in Nat /\ MaxDeriva \in Nat

VARIABLES
  fs,       \* "vivo", or "caido" when the FileSystem's process has ended
  op,       \* the file that is being stored, or Nulo
  nombres,  \* nombreNodos
  socket,   \* the nodes whose DescriptorNodo.socket is not -1
  bitmap,   \* per node, the bits that are set
  libres,   \* per node, bloquesLibres
  archivos, \* the dictionary of files: for each, the sequence of its blocks
  puntero,  \* punteroNodo (from 1)
  vivos,    \* the DataNodes that run and are connected
  disco,    \* per DataNode, what its blocks hold
  prueba,   \* per DataNode, pruebaConexion
  sobra,    \* per DataNode, the words on its connection nobody has read
  muertes   \* how many have died

varsFS   == <<op, nombres, socket, bitmap, libres, archivos, puntero>>
varsDN   == <<vivos, disco, prueba, sobra, muertes>>
vars     == <<fs, varsFS, varsDN>>

(***************************************************************************)
(* A location is a node and a number of block: -1 when the copy has been   *)
(* taken away.  The data of block i of file r is <<r, i>>.  otras is Nulo  *)
(* until the first cpblock, as the pointer is.                             *)
(***************************************************************************)
Ubicacion == [nodo : Nodos, num : Int]
Ubi(n, k) == [nodo |-> n, num |-> k]
Vacio     == <<Nulo, 0>>   \* what no file wrote
Basura    == <<Nulo, 1>>   \* what was never the block of a file
Dato      == (Rutas \X Nat) \cup {Vacio, Basura}
Bloque    == [dato : Rutas \X Nat, c0 : Ubicacion, c1 : Ubicacion,
              otras : Seq(Ubicacion) \cup {Nulo}]

\* The file that is being stored: for how many blocks the space was checked
\* (cantidadBloques), the blocks that are done, and how many are left.
Operacion == [ruta : Rutas, hilo : Hilos, pedidos : Nat, hechos : Seq(Bloque), faltan : Nat]

\* A NULL pointer is no list, not even an empty one.
ASSUME SupuestoNulo == Nulo \notin Seq(Ubicacion) /\ Nulo \notin Operacion

Otras(b)  == IF b.otras = Nulo THEN <<>> ELSE b.otras
Copias(b) == <<b.c0, b.c1>> \o Otras(b)

\* inicializarFileSystem, without the files of an earlier run.
Init ==
  /\ fs = "vivo" /\ op = Nulo /\ nombres = <<>> /\ socket = {}
  /\ bitmap = [n \in Nodos |-> {}] /\ libres = [n \in Nodos |-> 0]
  /\ archivos = <<>> /\ puntero = 1
  /\ vivos = {} /\ muertes = 0
  /\ disco = [n \in Nodos |-> [k \in 0..(Capacidad[n] - 1) |-> Vacio]]
  /\ prueba = [n \in Nodos |-> 2] /\ sobra = [n \in Nodos |-> <<>>]

-----------------------------------------------------------------------------
(* How a text is cut into blocks                                           *)

\* What the space is checked for.
Pedidos(t) == SumFunction(t) \div MB + 1

\* _enviarArchivoTexto: a line that does not fit begins the next block.
Trozos(t) ==
  LET corta(c, linea) == IF c.ocupados + linea > MB
                         THEN [enviados |-> c.enviados + 1, ocupados |-> linea]
                         ELSE [c EXCEPT !.ocupados = @ + linea]
      fin == FoldLeft(corta, [enviados |-> 0, ocupados |-> 0], t)
  IN  fin.enviados + (IF fin.ocupados # 0 THEN 1 ELSE 0)

\* Mutant of HayEspacio: the second copy is forgotten.
HayEspacioUna(bloques, L, con) ==
  bloques <= SumFunctionOnSet(L, con)

\* _controlarEspacioDisponible
HayEspacio(bloques, L, con) ==
  2 * bloques <= SumFunctionOnSet(L, con)

-----------------------------------------------------------------------------
(* Placement                                                               *)

\* Mutant of BitLibre: the bit after as many as are set.
BitSiguiente(B) == Cardinality(B)

\* _obtenerNumeroBloqueLibre: the first bit that is clear; there is no limit.
BitLibre(B) ==
  CHOOSE k \in 0..Cardinality(B) : k \notin B /\ \A m \in 0..(k - 1) : m \in B

\* Mutant of Tras: the hand stays where it is.
TrasQuieto(p) == p

\* Another: it goes past the last node.
TrasElUltimo(p) == p + 1

Tras(p) == (p % Len(nombres)) + 1

\* The loop of _calcularUbicacionBloque from position p: the first connected node with
\* free blocks according to L; none, and the loop never ends.
Elegible(p, L) ==
  LET vuelta(k) == ((p - 1 + k) % Len(nombres)) + 1
      sirve(k)  == L[nombres[vuelta(k)]] > 0 /\ nombres[vuelta(k)] \in socket
  IN  {vuelta(k) : k \in {k \in 0..(Len(nombres) - 1) :
                            sirve(k) /\ \A m \in 0..(k - 1) : ~sirve(m)}}

\* _calcularUbicacionBloque: positions of the nodes of both copies.
Ubicaciones ==
  UNION {{<<p, q>> : q \in Elegible(Tras(p), [libres EXCEPT ![nombres[p]] = @ - 1])} :
           p \in Elegible(puntero, libres)}

\* Mutant of Usos: copies that were taken away are freed again.
UsosConBorradas(B, n) ==
  {u \in UNION {{i} \X DOMAIN Copias(B[i]) : i \in DOMAIN B} : Copias(B[u[1]])[u[2]].nodo = n}

\* The places where blocks B (a sequence) name a block of node n.
Usos(B, n) ==
  {u \in UNION {{i} \X DOMAIN Copias(B[i]) : i \in DOMAIN B} :
     Copias(B[u[1]])[u[2]].nodo = n /\ Copias(B[u[1]])[u[2]].num >= 0}

\* Mutant of Numeros: copy 1 is forgotten.
NumerosSinCopia1(B, n) ==
  {Copias(B[u[1]])[u[2]].num : u \in {v \in Usos(B, n) : v[2] # 2}}

Numeros(B, n) == {Copias(B[u[1]])[u[2]].num : u \in Usos(B, n)}

\* liberarBloque, on every copy of blocks B, from bitmap M and counters L.
Liberar(B, M, L) ==
  /\ bitmap' = [n \in Nodos |-> M[n] \ Numeros(B, n)]
  /\ libres' = [n \in Nodos |-> L[n] + Cardinality(Usos(B, n))]

(***************************************************************************)
(* The same for rm, which does not take the mutex.  Of a counter, or a     *)
(* byte of a bitmap, that both threads read and write at once, the change  *)
(* of either may be lost: nothing is freed, or the last block that the     *)
(* other thread stored is freed too.                                       *)
(***************************************************************************)
LiberarSinMutex(B) ==
  LET ultimo == IF op = Nulo \/ op.hechos = <<>> THEN <<>> ELSE <<Last(op.hechos)>>
      quedan(n) == IF op = Nulo \/ Usos(B, n) = {} THEN {B} ELSE {B, <<>>, B \o ultimo}
      carreras == {c \in [Nodos -> {B, <<>>, B \o ultimo}] : \A n \in Nodos : c[n] \in quedan(n)}
  IN  \E bits, cuentas \in carreras :
        /\ bitmap' = [n \in Nodos |-> bitmap[n] \ Numeros(bits[n], n)]
        /\ libres' = [n \in Nodos |-> libres[n] + Cardinality(Usos(cuentas[n], n))]
        /\ op # Nulo => \A n \in Nodos : libres'[n] <= Capacidad[n] + MaxDeriva

-----------------------------------------------------------------------------
(* The DataNodes.  An operator of this section maps their state, a record, *)
(* to the outcomes of one exchange: the state after it, and whether the    *)
(* FileSystem takes it to have gone well.                                  *)

EstadoDN == [vivos |-> vivos, disco |-> disco, prueba |-> prueba, sobra |-> sobra]
NuevoDN(s) == vivos' = s.vivos /\ disco' = s.disco /\ prueba' = s.prueba /\ sobra' = s.sobra
Muere(s, n) == [s EXCEPT !.vivos = @ \ {n}]

\* _setBloque: the first two blocks are taken for the probe, and are not written.  The
\* answer queues behind what nobody has read.
setBloque(s, n, k, x) ==
  LET t == IF s.prueba[n] = 0 THEN [s EXCEPT !.disco[n][k] = x] ELSE [s EXCEPT !.prueba[n] = @ - 1]
  IN  [t EXCEPT !.sobra[n] = Append(@, "ok")]

\* _enviarBloque.  To a DataNode that is gone a send may still go well; one that has to
\* write beyond the end of its file dies.
Manda(s, n, k, x) ==
  IF n \notin s.vivos THEN {[s |-> s, ok |-> b] : b \in BOOLEAN}
  ELSE IF s.prueba[n] = 0 /\ k >= Capacidad[n] THEN {[s |-> Muere(s, n), ok |-> TRUE]}
  ELSE {[s |-> setBloque(s, n, k, x), ok |-> TRUE]}

\* Mutant of Acuse: whatever there is to read, or nothing, the block is taken to be there.
AcuseCiego(s, n) == {[s |-> [s EXCEPT !.sobra[n] = IF @ = <<>> THEN @ ELSE Tail(@)], ok |-> TRUE]}

\* zrecv of resultado: one word, whatever it answers.  Nothing to read leaves it at 0.
Acuse(s, n) ==
  IF s.sobra[n] = <<>> THEN {[s |-> s, ok |-> FALSE]}
  ELSE {[s |-> [s EXCEPT !.sobra[n] = Tail(@)], ok |-> b] :
          b \in IF Head(s.sobra[n]) = "ok" THEN {TRUE} ELSE BOOLEAN}

MandaYEspera(s, n, k, x) ==
  UNION {IF m.ok THEN Acuse(m.s, n) ELSE {m} : m \in Manda(s, n, k, x)}

(***************************************************************************)
(* _obtenerData and _getBloque.  Words left unread shift the data, and as  *)
(* many of its last ones stay behind; a negative number is answered with   *)
(* the stack of the DataNode.  If it is gone what was unread is all the    *)
(* data there is, and nothing at all is an error.                          *)
(***************************************************************************)
Lee(s, n, k) ==
  LET vive == n \in s.vivos /\ k < Capacidad[n]
      cola == s.sobra[n]
  IN  IF ~vive /\ cola = <<>> THEN {[s |-> Muere(s, n), ok |-> FALSE, dato |-> Basura]}
      ELSE IF ~vive THEN {[s |-> [Muere(s, n) EXCEPT !.sobra[n] = <<>>],
                           ok |-> TRUE, dato |-> Basura]}
      ELSE {[s |-> [s EXCEPT !.sobra[n] = [i \in DOMAIN cola |-> "resto"]], ok |-> TRUE,
             dato |-> IF cola # <<>> \/ k < 0 THEN Basura ELSE s.disco[n][k]]}

\* The process ends, and with it everything it had in memory.
CaeFS ==
  /\ fs' = "caido" /\ UNCHANGED varsDN
  /\ op' = Nulo /\ nombres' = <<>> /\ socket' = {}
  /\ bitmap' = [n \in Nodos |-> {}] /\ libres' = [n \in Nodos |-> 0]
  /\ archivos' = <<>> /\ puntero' = 1

-----------------------------------------------------------------------------
(* Storing a file                                                          *)

\* The beginning of enviarBloques, for file r and text t, which will make that many blocks.
Empieza(r, t, h, bloques) ==
  /\ fs = "vivo" /\ op = Nulo /\ r \notin DOMAIN archivos
  /\ HayEspacio(Pedidos(t), libres, socket)
  /\ op' = [ruta |-> r, hilo |-> h, pedidos |-> Pedidos(t), hechos |-> <<>>, faltan |-> bloques]
  /\ UNCHANGED <<fs, nombres, socket, bitmap, libres, archivos, puntero, varsDN>>

cpfrom(r, t, h) == Empieza(r, t, h, Trozos(t))
cpfromBinary(r, t) == "consola" \in Hilos /\ Empieza(r, t, "consola", Pedidos(t))

\* Mutant of TrasError: the status is not looked at, and the file is registered.
TrasErrorRegistra(o) == [o EXCEPT !.faltan = 0]

\* enviarBloques returns at once when _enviarArchivo fails.
TrasError(o) == Nulo

(***************************************************************************)
(* _crearBloque and _manejarEnvioBloque: each copy is sent and its answer  *)
(* read.  On an error destruirArchivo frees the blocks already stored, but *)
(* not this one.                                                           *)
(***************************************************************************)
enviarBloque ==
  /\ fs = "vivo" /\ op # Nulo /\ op.faltan > 0
  /\ \E u \in Ubicaciones :
       LET n0 == nombres[u[1]]
           n1 == nombres[u[2]]
           k0 == BitLibre(bitmap[n0])
           M0 == [bitmap EXCEPT ![n0] = @ \cup {k0}]
           k1 == BitLibre(M0[n1])
           M  == [M0 EXCEPT ![n1] = @ \cup {k1}]
           L  == [[libres EXCEPT ![n0] = @ - 1] EXCEPT ![n1] = @ - 1]
           x  == <<op.ruta, Len(op.hechos) + 1>>
           \* An error leaves the outcome of the first copy, or else that of the second.
           fin == UNION {IF e.ok THEN MandaYEspera(e.s, n1, k1, x) ELSE {e} :
                           e \in MandaYEspera(EstadoDN, n0, k0, x)}
       IN  /\ k0 < Capacidad[n0] + MaxDeriva /\ k1 < Capacidad[n1] + MaxDeriva
           /\ puntero' = Tras(u[2])
           /\ \E e \in fin :
                /\ NuevoDN(e.s)
                /\ \/ /\ e.ok
                      /\ op' = [op EXCEPT !.faltan = @ - 1,
                                  !.hechos = Append(@, [dato |-> x, c0 |-> Ubi(n0, k0),
                                                        c1 |-> Ubi(n1, k1), otras |-> Nulo])]
                      /\ bitmap' = M /\ libres' = L
                   \/ ~e.ok /\ op' = TrasError(op) /\ Liberar(op.hechos, M, L)
  /\ UNCHANGED <<fs, nombres, socket, archivos, muertes>>

\* A send to a DataNode that is gone raises SIGPIPE; or zrecv closes the socket, which
\* stays in the set of the next select.
enviarBloqueCae ==
  /\ fs = "vivo" /\ op # Nulo /\ op.faltan > 0
  /\ \E u \in Ubicaciones : ~({nombres[u[1]], nombres[u[2]]} \subseteq vivos)
  /\ CaeFS

registrarArchivo ==
  /\ fs = "vivo" /\ op # Nulo /\ op.faltan = 0
  /\ archivos' = [r \in DOMAIN archivos \cup {op.ruta} |->
                    IF r = op.ruta THEN op.hechos ELSE archivos[r]]
  /\ op' = Nulo
  /\ UNCHANGED <<fs, nombres, socket, bitmap, libres, puntero, varsDN>>

-----------------------------------------------------------------------------
(* The commands of the console                                             *)

\* rm and format do not take the mutex: the console only waits for itself.
ConsolaLibre(c) ==
  /\ fs = "vivo" /\ c \in Comandos
  /\ op # Nulo => op.hilo = "servidor"

rmArchivo(r) ==
  /\ ConsolaLibre("rm") /\ r \in DOMAIN archivos
  /\ LiberarSinMutex(archivos[r])
  /\ archivos' = [q \in DOMAIN archivos \ {r} |-> archivos[q]]
  /\ UNCHANGED <<fs, op, nombres, socket, puntero, varsDN>>

\* Its writes of the counters may be lost too, and the bitmaps are freed under whoever is
\* looking for a bit.
formatFileSystem ==
  /\ ConsolaLibre("format")
  /\ \/ /\ archivos' = <<>>
        /\ bitmap' = [n \in Nodos |-> {}]
        /\ \E S \in IF op = Nulo THEN {{}} ELSE SUBSET Range(nombres) :
             libres' = [n \in Nodos |-> IF n \in Range(nombres) \ S THEN Capacidad[n] ELSE libres[n]]
        /\ UNCHANGED <<fs, op, nombres, socket, puntero, varsDN>>
     \/ op # Nulo /\ CaeFS

\* Block b without copy c, 0 or 1: the first of the other copies takes its place.
SinCopia(b, c) ==
  LET queda == IF Otras(b) = <<>> THEN [(IF c = 0 THEN b.c0 ELSE b.c1) EXCEPT !.num = -1]
               ELSE Head(b.otras)
      otras == IF Otras(b) = <<>> THEN b.otras ELSE Tail(b.otras)
  IN  IF c = 0 THEN [b EXCEPT !.c0 = queda, !.otras = otras]
      ELSE [b EXCEPT !.c1 = queda, !.otras = otras]

\* The number the other of the first two copies has.
Restante(b, c) == IF c = 0 THEN b.c1.num ELSE b.c0.num

CambiaBloque(r, i, b) == archivos' = [archivos EXCEPT ![r][i] = b]

(***************************************************************************)
(* rm -b: the last of the first two copies stays.  The number of a further *)
(* copy is compared with the length of the list, which is one too many:    *)
(* list_remove returns NULL.                                               *)
(***************************************************************************)
rmBloque(r, i, c) ==
  /\ ConsolaLibre("rm -b") /\ r \in DOMAIN archivos /\ i \in DOMAIN archivos[r]
  /\ LET b == archivos[r][i]
         quita(u) == LiberarSinMutex(<<[b EXCEPT !.c0 = u, !.c1 = Ubi(u.nodo, -1), !.otras = Nulo]>>)
     IN  \/ /\ c \in {0, 1} /\ Restante(b, c) # -1
            /\ quita(IF c = 0 THEN b.c0 ELSE b.c1)
            /\ CambiaBloque(r, i, SinCopia(b, c))
            /\ UNCHANGED <<fs, op, nombres, socket, puntero, varsDN>>
         \/ /\ c >= 2 /\ b.otras # Nulo /\ c - 2 < Len(b.otras)
            /\ quita(b.otras[c - 1])
            /\ CambiaBloque(r, i, [b EXCEPT !.otras = RemoveAt(@, c - 1)])
            /\ UNCHANGED <<fs, op, nombres, socket, puntero, varsDN>>
         \/ c >= 2 /\ b.otras # Nulo /\ c - 2 = Len(b.otras) /\ CaeFS

\* Block b with one more copy: it goes where one was taken away, if any was.
ConCopia(b, u) ==
  CASE b.c0.num = -1 -> [b EXCEPT !.c0 = u]
    [] b.c0.num # -1 /\ b.c1.num = -1 -> [b EXCEPT !.c1 = u]
    [] OTHER -> [b EXCEPT !.otras = Append(Otras(b), u)]

\* generarCopia: where the data of block b comes from: the node of copy 0, even if that
\* copy was taken away, or else that of copy 1.
Fuente(b) == IF b.c0.nodo \in socket THEN b.c0 ELSE b.c1

PuedeCopiar(r, i, n) ==
  /\ fs = "vivo" /\ op = Nulo /\ "cpblock" \in Comandos
  /\ r \in DOMAIN archivos /\ i \in DOMAIN archivos[r]
  /\ n \in socket /\ libres[n] # 0
  /\ Len(Otras(archivos[r][i])) < MaxOtras /\ Len(sobra[n]) < MaxSobra

(***************************************************************************)
(* cpblock.  The bit is set first, and stays set when the copy fails.  The *)
(* answer of the node that gets the block is not read.                     *)
(***************************************************************************)
cpblock(r, i, n) ==
  /\ PuedeCopiar(r, i, n)
  /\ LET b == archivos[r][i]
         k == BitLibre(bitmap[n])
         o == Fuente(b)
         leidos == IF o.nodo \in socket THEN Lee(EstadoDN, o.nodo, o.num)
                   ELSE {[s |-> EstadoDN, ok |-> FALSE, dato |-> Basura]}
         fin == UNION {IF e.ok THEN Manda(e.s, n, k, e.dato) ELSE {e} : e \in leidos}
     IN  /\ k < Capacidad[n] + MaxDeriva
         /\ bitmap' = [bitmap EXCEPT ![n] = @ \cup {k}]
         /\ \E e \in fin :
              /\ NuevoDN(e.s)
              /\ \/ /\ e.ok
                    /\ libres' = [libres EXCEPT ![n] = @ - 1]
                    /\ CambiaBloque(r, i, ConCopia(b, Ubi(n, k)))
                 \/ ~e.ok /\ UNCHANGED <<libres, archivos>>
  /\ UNCHANGED <<fs, op, nombres, socket, puntero, muertes>>

\* SIGPIPE again.
cpblockCae(r, i, n) ==
  /\ PuedeCopiar(r, i, n)
  /\ LET o == Fuente(archivos[r][i]).nodo IN o \in socket /\ ~({o, n} \subseteq vivos)
  /\ CaeFS

-----------------------------------------------------------------------------
(* The thread of the server: nodes that come and go                        *)

\* pruebaConexion of a DataNode that has just started and was probed, or not.
PruebaTras(probada) == IF probada THEN 0 ELSE 2

(***************************************************************************)
(* asociarNodo, when DataNode n starts: the node is registered, or its     *)
(* descriptor gets the new socket; then _probarConexion stores, reads and  *)
(* removes archivo.txt, one block, which takes two from the counter and    *)
(* gives two back, whether it took them or not.  A descriptor that was     *)
(* there already is not the one the probe counts on.  Only the reading     *)
(* moves punteroNodo.                                                      *)
(***************************************************************************)
asociarNodo(n) ==
  /\ fs = "vivo" /\ op = Nulo /\ n \notin vivos
  /\ LET nuevo == n \notin Range(nombres)
         L == IF nuevo THEN [libres EXCEPT ![n] = Capacidad[n]] ELSE libres
         probada == HayPrueba /\ HayEspacio(1, L, socket \cup {n})
     IN  /\ nombres' = IF nuevo THEN Append(nombres, n) ELSE nombres
         /\ libres' = IF nuevo /\ ~probada THEN [L EXCEPT ![n] = @ + 2] ELSE L
         /\ prueba' = [prueba EXCEPT ![n] = PruebaTras(probada)]
         /\ puntero' = IF ~probada THEN puntero
                       ELSE ((CHOOSE p \in DOMAIN nombres' : nombres'[p] = n) % Len(nombres')) + 1
  /\ socket' = socket \cup {n} /\ vivos' = vivos \cup {n}
  /\ sobra' = [sobra EXCEPT ![n] = <<>>]
  /\ UNCHANGED <<fs, op, bitmap, archivos, disco, muertes>>

\* manejarCliente reads a word that was left: OK is only logged, and so is no other.
manejarCliente(n) ==
  /\ fs = "vivo" /\ op = Nulo /\ n \in socket /\ sobra[n] # <<>>
  /\ sobra' = [sobra EXCEPT ![n] = Tail(@)]
  /\ UNCHANGED <<fs, varsFS, vivos, disco, prueba, muertes>>

\* manejarCliente finds nothing to read, and what it sends fails.
marcarNodoDesconectado(n) ==
  /\ fs = "vivo" /\ op = Nulo /\ n \in socket \ vivos /\ sobra[n] = <<>>
  /\ socket' = socket \ {n}
  /\ UNCHANGED <<fs, op, nombres, bitmap, libres, archivos, puntero, varsDN>>

DataNodeMuere(n) ==
  /\ fs = "vivo" /\ n \in vivos /\ muertes < Muertes
  /\ vivos' = vivos \ {n} /\ muertes' = muertes + 1
  /\ UNCHANGED <<fs, varsFS, disco, prueba, sobra>>

-----------------------------------------------------------------------------
Next ==
  \/ \E r \in Rutas, t \in Textos : cpfromBinary(r, t) \/ \E h \in Hilos : cpfrom(r, t, h)
  \/ enviarBloque \/ enviarBloqueCae \/ registrarArchivo
  \/ \E r \in Rutas : rmArchivo(r)
  \/ formatFileSystem
  \/ \E r \in DOMAIN archivos : \E i \in DOMAIN archivos[r] :
       \/ \E c \in 0..(MaxOtras + 2) : rmBloque(r, i, c)
       \/ \E n \in Nodos : cpblock(r, i, n) \/ cpblockCae(r, i, n)
  \/ \E n \in Nodos : \/ asociarNodo(n) \/ manejarCliente(n)
                     \/ marcarNodoDesconectado(n) \/ DataNodeMuere(n)

Spec == Init /\ [][Next]_vars
=============================================================================
