---------------------------- MODULE FSConexiones ----------------------------
(***************************************************************************)
(* The connections of the FileSystem: DataNodes that come and go, the      *)
(* stable state, and YAMA, which waits to be accepted and then asks where  *)
(* the blocks of a file are.  The server's thread handles one message at a *)
(* time, under semaforoConsola.                                            *)
(***************************************************************************)
EXTENDS FSPersistencia

VARIABLES
  yama,   \* "apagada", "conectando", "espera" (to be accepted), "lista", "pide" (a
          \* file), "trabada" (it reads from a Master) or "indefinida"
  sockFS, \* what sock_fs is: "fs", "perdido" (the other end has gone), "cerrado", or
          \* "master", when accept gave a Master the number that was closed
  pedido, \* the file YAMA has asked for and the FileSystem has not read yet, or Nulo
  canal,  \* what the FileSystem answered and YAMA has not read, or Nulo
  semaforo \* "libre", or who took semaforoConsola and never gives it back: "servidor", "consola"

varsY == <<yama, sockFS, pedido, canal, semaforo>>
vars  == <<varsP, varsY>>

\* An answer: 0 (then where the blocks are, if it is about a file), -1 or -2.
Dice(cod, bloques) == [cod |-> cod, bloques |-> bloques]

InitC == Init /\ yama = "apagada" /\ sockFS = "cerrado" /\ pedido = Nulo /\ canal = Nulo
              /\ semaforo = "libre"

-----------------------------------------------------------------------------
(* DataNodes                                                               *)

\* archivoDisponible: it looks at nodes, and not at numbers.
archivoDisponible(s, con) ==
  \A i \in DOMAIN s : {u.nodo : u \in Copias(s[i])} \cap con # {}

\* Of a block before which it has not returned, archivoDisponible asks about a node that
\* is not in N, or follows otrasCopias, which nobody wrote.
Pierde(s, con, N) ==
  \E i \in DOMAIN s :
    LET u == s[i].c0.nodo
        v == s[i].c1.nodo
        o == Otras(s[i])
    IN  /\ archivoDisponible(SubSeq(s, 1, i - 1), con)
        /\ \/ u \notin N \/ (u \notin con /\ v \notin N)
           \/ {u, v} \cap con = {} /\ s[i].otras = Basura
           \/ /\ {u, v} \cap con = {}
              /\ \E k \in DOMAIN o : o[k].nodo \notin N /\ \A m \in 1..(k - 1) : o[m].nodo \notin con

\* Mutant of Conecta: the state is worked out before the node is in the table.
ConectaDespues(n) == conectados

Conecta(n) == conectados \cup {n}

\* The hello of a node, new or back.  One that is not known when there was data on disk is
\* turned away.  (What its probe does is in FSBloques.)
asociarNodo(n) ==
  /\ fs = "vivo" /\ semaforo = "libre"
  /\ n \in sesion.nodos \ conectados /\ (hayData => n \in conocidos)
  /\ conocidos' = conocidos \cup {n} /\ conectados' = conectados \cup {n}
  /\ IF hayData /\ \E r \in DOMAIN archivos : Pierde(archivos[r], conectados', conocidos')
     THEN fs' = "indefinido" /\ UNCHANGED estable
     ELSE /\ estable' = (~hayData \/ \A r \in DOMAIN archivos :
                                       archivoDisponible(archivos[r], Conecta(n)))
          /\ UNCHANGED fs
  /\ UNCHANGED <<sesion, arranques, hayData, bitmap, archivos, guardando, disco, viejos, dudas>>

\* manejarCliente finds nothing to read and, after two sends, nobody there.  (What is sent
\* to the node before that is in FSBloques and FSLectura.)
marcarNodoDesconectado(n) ==
  /\ fs = "vivo" /\ semaforo = "libre"
  /\ n \in conectados /\ conectados' = conectados \ {n}
  /\ UNCHANGED <<sesion, fs, arranques, hayData, estable, conocidos, bitmap, archivos, guardando,
                 disco, viejos, dudas, varsY>>

-----------------------------------------------------------------------------
(* YAMA                                                                    *)

\* A cpfrom of lines that do not fit ("cpfrom largo": typed, or asked for by a Worker) never
\* ends, nor a cpblock of a node whose mutex a failed read left taken.
trabaSemaforo ==
  /\ fs = "vivo" /\ semaforo = "libre"
  /\ \/ "cpfrom largo" \in sesion.comandos /\ semaforo' = "servidor"
     \/ (EnConsola("cpfrom largo") \/ EnConsola("cpblock")) /\ semaforo' = "consola"
  /\ UNCHANGED <<varsP, yama, sockFS, pedido, canal>>

yamaArranca ==
  /\ yama = "apagada" /\ pedido = Nulo /\ sesion.yama
  /\ yama' = "conectando" /\ sockFS' = "cerrado" /\ canal' = Nulo
  /\ UNCHANGED <<varsP, pedido, semaforo>>

\* doConnect ends YAMA if nobody listens.
doConnect ==
  /\ yama = "conectando"
  /\ IF fs = "vivo" THEN yama' = "espera" /\ sockFS' = "fs" ELSE yama' = "apagada" /\ UNCHANGED sockFS
  /\ UNCHANGED <<varsP, pedido, canal, semaforo>>

\* CONEXIONYAMA, in manejarDatos.
atenderYama ==
  /\ fs = "vivo" /\ semaforo = "libre" /\ yama = "espera" /\ sockFS = "fs" /\ canal = Nulo
  /\ canal' = Dice(IF estable THEN 0 ELSE -1, <<>>)
  /\ UNCHANGED <<varsP, yama, sockFS, pedido, semaforo>>

\* iniciarConexionAFS: refused, or the connection lost with respuesta still at -1, it
\* waits three seconds and tries again.
iniciarConexionAFS ==
  /\ yama = "espera" /\ (canal # Nulo \/ sockFS # "fs")
  /\ LET aceptada == canal # Nulo /\ canal.cod = 0
     IN  /\ yama' = IF aceptada THEN "lista" ELSE "conectando"
         /\ sockFS' = IF aceptada THEN sockFS ELSE "cerrado"
  /\ canal' = Nulo
  /\ UNCHANGED <<varsP, pedido, semaforo>>

\* enviarTablaTransformacion: the request, to whoever sock_fs is now.
pedir(r) ==
  /\ yama = "lista"
  /\ yama' = IF sockFS = "master" THEN "trabada" ELSE "pide"
  /\ pedido' = IF sockFS = "fs" THEN r ELSE Nulo
  /\ UNCHANGED <<varsP, sockFS, canal, semaforo>>

\* A new connection takes the lowest free number: perhaps the one that was closed.
aceptarMaster ==
  /\ yama = "lista" /\ sockFS = "cerrado" /\ sockFS' = "master"
  /\ UNCHANGED <<varsP, yama, pedido, canal, semaforo>>

\* Mutant of Ofrece: the first two copies, wherever they are.
OfreceDos(b, con) == <<b.c0, b.c1>>

\* buscarCopia: those of the other copies of b that are on a third node, and it is not away.
Terceras(b, con) ==
  {i \in DOMAIN Otras(b) : Otras(b)[i].nodo \in con \ {b.c0.nodo, b.c1.nodo}}

\* The copies of block b that are sent.  The first of those only if one of the two nodes of
\* the first copies is away.
Ofrece(b, con) ==
  LET primera == CHOOSE i \in Terceras(b, con) : \A k \in Terceras(b, con) : i <= k
      otra    == IF {b.c0.nodo, b.c1.nodo} \subseteq con \/ Terceras(b, con) = {} THEN <<>>
                 ELSE <<Otras(b)[primera]>>
      mala(u) == u.nodo \notin con \/ u.num = -1
  IN  IF mala(b.c0) THEN <<b.c1>> \o otra
      ELSE IF mala(b.c1) THEN <<b.c0>> \o otra ELSE <<b.c0, b.c1>>

\* It asks about both nodes of the first copies, and when one of them is away, follows
\* otrasCopias and asks about the third nodes, up to the first that is connected.
OfrecePerdida(s, con) ==
  \E i \in DOMAIN s :
    LET dos == {s[i].c0.nodo, s[i].c1.nodo}
        o   == Otras(s[i])
    IN  \/ ~(dos \subseteq conocidos)
        \/ ~(dos \subseteq con) /\ s[i].otras = Basura
        \/ /\ ~(dos \subseteq con)
           /\ \E k \in DOMAIN o : /\ o[k].nodo \notin conocidos \cup dos
                                 /\ \A m \in 1..(k - 1) : o[m].nodo \notin con \ dos

\* Mutant of NoEsta: the FileSystem only logs that the file is not there.
NoEstaCallado == canal

\* The answer for a file that is not there or not available, if YAMA still waits for it.
NoEsta == IF yama = "pide" THEN Dice(-2, <<>>) ELSE canal

\* With YAMA gone the first send is taken, and a later one may end the FileSystem (SIGPIPE).
responderYAMA ==
  /\ fs = "vivo" /\ semaforo = "libre" /\ pedido # Nulo /\ pedido' = Nulo
  /\ UNCHANGED <<yama, sockFS, semaforo>>
  /\ LET hay     == pedido \in DOMAIN archivos
         s       == archivos[pedido]
         pierde  == Pierde(s, conectados, conocidos)
         enviado == hay /\ ~pierde /\ archivoDisponible(s, conectados)
     IN  \/ /\ hay => ~pierde /\ ~archivoDisponible(s, conectados)
            /\ canal' = NoEsta /\ UNCHANGED varsP
         \/ /\ enviado /\ ~OfrecePerdida(s, conectados) /\ yama = "pide"
            /\ canal' = Dice(0, [i \in DOMAIN s |-> Ofrece(s[i], conectados)])
            /\ UNCHANGED varsP
         \/ /\ enviado /\ yama # "pide"
            /\ UNCHANGED varsP \/ (Apaga /\ UNCHANGED <<disco, viejos>>)
            /\ UNCHANGED canal
         \/ /\ hay /\ (pierde \/ (enviado /\ OfrecePerdida(s, conectados)))
            /\ Indefinido /\ UNCHANGED canal

\* YAMA plans the job, or tells the Master that the file is not there.
planificar ==
  /\ yama = "pide" /\ canal # Nulo
  /\ yama' = "lista" /\ canal' = Nulo
  /\ UNCHANGED <<varsP, sockFS, pedido, semaforo>>

\* The connection is lost while it waits, or was before it asked: yrecv closes sock_fs and
\* respuesta is what was on the stack.  If that is 0, so are the blocks.
respuestaSinLeer ==
  /\ yama = "pide" /\ sockFS # "fs" /\ canal = Nulo
  /\ yama' \in {"lista", "indefinida"} /\ sockFS' = "cerrado" /\ pedido' = Nulo
  /\ UNCHANGED <<varsP, canal, semaforo>>

yamaMuere ==
  /\ yama # "apagada" /\ yama' = "apagada" /\ sockFS' = "cerrado" /\ canal' = Nulo
  /\ UNCHANGED <<varsP, pedido, semaforo>>

-----------------------------------------------------------------------------

\* What the end of the FileSystem does to the other end of its connections.
Corta == IF fs = "vivo" /\ fs' # "vivo"
         THEN /\ sockFS' = IF sockFS = "fs" THEN "perdido" ELSE sockFS
              /\ pedido' = Nulo /\ semaforo' = "libre" /\ UNCHANGED <<yama, canal>>
         ELSE UNCHANGED varsY

DeYama == \/ yamaArranca \/ doConnect \/ iniciarConexionAFS \/ aceptarMaster \/ planificar
          \/ respuestaSinLeer \/ yamaMuere \/ \E r \in Rutas : pedir(r)

\* After "indefinido" there is nothing to say.
Next ==
  /\ fs # "indefinido"
  /\ \/ ConMutex /\ semaforo = "libre" /\ Corta
     \/ SinMutex /\ semaforo # "consola" /\ Corta
     \/ (Vida \/ \E n \in Nodos : asociarNodo(n)) /\ Corta
     \/ (\E n \in Nodos : marcarNodoDesconectado(n)) \/ trabaSemaforo
     \/ DeYama \/ atenderYama \/ responderYAMA

Spec == InitC /\ [][Next]_vars

\* The server's thread goes round its connections, and YAMA's main thread, then the one of
\* its server, goes on.  Nobody has to start a DataNode or to type a command.
SpecC == Spec /\ WF_vars(atenderYama) /\ WF_vars(responderYAMA) /\ WF_vars(doConnect)
              /\ WF_vars(iniciarConexionAFS) /\ WF_vars(planificar) /\ WF_vars(respuestaSinLeer)

-----------------------------------------------------------------------------
(* What is checked                                                         *)

\* Nodes are connected only if known; YAMA has an answer only to what it asked.
TypeOKConexiones ==
  /\ fs \in {"apagado", "vivo", "roto", "indefinido"} /\ arranques \in 0..sesion.arranques
  /\ hayData \in BOOLEAN /\ estable \in BOOLEAN
  /\ conectados \subseteq conocidos /\ conocidos \subseteq Nodos
  /\ \A n \in Nodos : bitmap[n] \subseteq 0..(Capacidad[n] - 1)
  /\ \A b \in BloquesDe(archivos) : b \in Bloque
  /\ yama \in {"apagada", "conectando", "espera", "lista", "pide", "trabada", "indefinida"}
  /\ sockFS \in {"fs", "perdido", "cerrado", "master"}
  /\ pedido \in Rutas \cup {Nulo}
  /\ canal # Nulo => yama \in {"espera", "pide"}
  /\ semaforo \in {"libre", "servidor", "consola"}

\* Whatever was saved, killed or started, and in whatever order: the blocks of every file
\* are of nodes that are known and have their bits set, so that nobody else gets them, and
\* no two files share one.  (Unless blocks of a saved file were released and exit did not
\* save it again, or a Worker stored a file while exit was saving.)
BloquesMarcados ==
  fs = "vivo" /\ dudas = {} =>
    Marcados(archivos, bitmap, conocidos) /\ Aparte(archivos)

\* Every block that the FileSystem offers to YAMA comes with a copy on a node that was
\* connected, and that exists (unless rm -b took one of the first two away).
RespuestaUtil ==
  [][canal' # canal /\ canal' # Nulo =>
       \A i \in DOMAIN canal'.bloques :
         LET b == archivos[pedido][i]
         IN  b.c0.num >= 0 /\ b.c1.num >= 0 =>
               \E u \in ToSet(canal'.bloques[i]) : u \in Reales(b) /\ u.nodo \in conectados]_vars

\* What YAMA asks is answered, or its wait ends because the FileSystem did (with a value
\* that nobody wrote, if so), whatever happens to the file, the nodes and the FileSystem in
\* between.  It may wait for ever only if it asked a Master that got the number of the closed
\* connection, or if somebody keeps semaforoConsola.
PreguntaRespondida ==
  yama \in {"pide", "trabada"}
    ~> \/ yama \notin {"pide", "trabada"}
       \/ sockFS = "master" \/ semaforo # "libre" \/ fs = "indefinido"

\* If from some moment on all the nodes that the FileSystem knows are connected whenever it
\* runs, and there are some, YAMA does not go on trying to be let in for ever, unless
\* somebody keeps semaforoConsola.
YamaEntra ==
  <>[](fs = "vivo" => conectados = conocidos /\ conectados # {})
    => (yama \in {"conectando", "espera"}
          ~> yama \notin {"conectando", "espera"} \/ semaforo # "libre" \/ fs = "indefinido")
=============================================================================
