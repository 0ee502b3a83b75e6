---------------------------- MODULE YamaTrabajos ----------------------------
(***************************************************************************)
(* YAMA, the Masters of its jobs and the Workers behind them.              *)
(*                                                                         *)
(* YAMA (src/YAMA) is one select() loop: it takes one message of one       *)
(* Master and runs its handler to the end.  A Master (src/Master) is a     *)
(* main thread that follows YAMA's orders and one thread for every         *)
(* operation it has sent to a Worker; the threads share the socket to YAMA *)
(* under a mutex, so each message is appended whole.  A Worker operation   *)
(* succeeds, leaving a temporary file, or fails.                           *)
(***************************************************************************)
EXTENDS YamaTabla

CONSTANTS PuedenFallar,  \* the stages whose Worker operations may fail
          PuedenMorir    \* the jobs whose Master may be killed

ASSUME SupuestoFallos == PuedenFallar \subseteq Etapas /\ PuedenMorir \subseteq Jobs

VARIABLES
  tabla,         \* YAMA: tablaEstado
  asociados,     \* YAMA: socketJobs, the jobs that have a SocketJob
  conectados,    \* YAMA: the Master sockets in the fd_set master
  copiasLibres,  \* YAMA: per job, the <<node, block>> left in InfoNodo.bloques
  yama,          \* "viva", "caida" (the process ended), "indefinida" (see below)
  replan,        \* YAMA inside the loop of replanificar: its job and failed node
  aYama,         \* per job, the messages on the socket from Master to YAMA
  aMaster,       \* per job, the messages on the socket from YAMA to Master
  maestro,       \* per job, where the main thread of the Master is
  hilos,         \* per job, the operations its threads wait for
  archivos       \* the temporary files the Workers have written

varsYama   == <<tabla, asociados, conectados, copiasLibres, yama, replan>>
varsMaster == <<maestro, hilos, archivos>>
vars       == <<varsYama, aYama, aMaster, varsMaster>>

(***************************************************************************)
(* Messages.  An operation names the temporary file it must write (temp)   *)
(* and the ones it reads (entradas).  The answers about global reduction   *)
(* and storage carry only the job's number: their temp is 0.               *)
(***************************************************************************)
Operacion == [etapa : Etapas, temp : Nat, bloque : Nat, entradas : SUBSET Nat]

Op(e, t, b, I) == [etapa |-> e, temp |-> t, bloque |-> b, entradas |-> I]

\* Mutant of Respuesta: the name of the file after it.
RespuestaCorrida(t, i) == [tipo |-> t, temp |-> i + 1]

Respuesta(t, i) == [tipo |-> t, temp |-> i]
Orden(t, O)     == [tipo |-> t, ops |-> O]

TiposOK    == {"TRANSFORMACIONOK", "REDLOCALOK", "REDGLOBALOK", "ALMACENAMIENTOOK"}
TiposFallo == {"FALLOTRANSFORMACION", "FALLOREDLOCAL", "FALLOREDGLOBAL", "ERRORALMACENAMIENTO"}
TiposOrden == {"PLAN", "REPLANIFICACION", "SOLICITUDREDUCCIONLOCAL",
               "SOLICITUDREDUCCIONGLOBAL", "SOLICITUDALMACENAMIENTO"} \cup TiposFallo

AvisoOK(e) == CASE e = "TRANSFORMACION"   -> "TRANSFORMACIONOK"
                [] e = "REDUCCIONLOCAL"   -> "REDLOCALOK"
                [] e = "REDUCGLOBAL"      -> "REDGLOBALOK"
                [] e = "ALMACENAMIENTOOP" -> "ALMACENAMIENTOOK"

AvisoFallo(e) == CASE e = "TRANSFORMACION"   -> "FALLOTRANSFORMACION"
                   [] e = "REDUCCIONLOCAL"   -> "FALLOREDLOCAL"
                   [] e = "REDUCGLOBAL"      -> "FALLOREDGLOBAL"
                   [] e = "ALMACENAMIENTOOP" -> "ERRORALMACENAMIENTO"

EtapasDeHilo == {"TRANSFORMACION", "REDUCCIONLOCAL"}

\* The states in which the Master's process no longer exists.
Salidas == {"fin", "sin_almacenar", "abortado", "muerto"}
Puntos  == {"inicio", "solicitando", "bucle", "global", "fallo_global",
            "espera_almacen", "almacenando", "fallo_almacen", "girando"} \cup Salidas

Vivo(j) == maestro[j] \notin Salidas

\* The blocks whose data went into the files named in I.
Contenido(I) == UNION {a.bloques : a \in {x \in archivos : x.temp \in I}}

Init ==
  /\ tabla = <<>> /\ asociados = {} /\ conectados = {}
  /\ copiasLibres = [j \in Jobs |-> {}]
  /\ yama = "viva" /\ replan = Nulo
  /\ aYama = [j \in Jobs |-> <<>>] /\ aMaster = [j \in Jobs |-> <<>>]
  /\ maestro = [j \in Jobs |-> "inicio"]
  /\ hilos = [j \in Jobs |-> {}] /\ archivos = {}

-----------------------------------------------------------------------------
(* YAMA: how a handler gets its message and answers the Master             *)

Llega(j, tipo) ==
  /\ yama = "viva" /\ replan = Nulo /\ j \in conectados
  /\ aYama[j] # <<>> /\ Head(aYama[j]).tipo = tipo

Leido(j) == aYama' = [aYama EXCEPT ![j] = Tail(@)]

\* ysend: what is sent to a Master that has exited is lost without an error ...
Manda(j, m) ==
  aMaster' = IF Vivo(j) THEN [aMaster EXCEPT ![j] = Append(@, m)] ELSE aMaster

Responde(j, m) == Manda(j, m) /\ Leido(j) /\ UNCHANGED <<conectados, yama, replan>>

\* ... or send() fails, and ysend closes the socket (and removes the SocketJob).
EnvioRoto(j) ==
  /\ ~Vivo(j)
  /\ conectados' = conectados \ {j}
  /\ aYama' = [aYama EXCEPT ![j] = <<>>]
  /\ UNCHANGED <<aMaster, yama, replan>>

\* A handler dereferences a NULL SocketJob: the process ends.
Cae == yama' = "caida" /\ UNCHANGED <<tabla, asociados, conectados, copiasLibres,
                                      replan, aYama, aMaster, varsMaster>>

-----------------------------------------------------------------------------
(* YAMA: the handlers of manejarDatos                                      *)

(***************************************************************************)
(* enviarTablaTransformacion: the file system says that the file is not    *)
(* available, or YAMA registers the job and plans every block.  Once       *)
(* ysend has removed the SocketJob of a Master that died, _enviarAMaster   *)
(* finds none and dereferences NULL.                                       *)
(***************************************************************************)
enviarTablaTransformacion(j) ==
  /\ Llega(j, "SOLICITUDJOB")
  /\ \/ /\ Responde(j, Orden("PLAN", {})) \/ EnvioRoto(j)
        /\ UNCHANGED <<tabla, asociados, copiasLibres, varsMaster>>
     \/ \E p \in Planes(j) :
          LET n == Len(tabla)
          IN  /\ tabla' = tabla \o Entradas(j, p)
              /\ asociados' = asociados \cup {j}
              /\ copiasLibres' = [copiasLibres EXCEPT ![j] = CopiasTras(j, p)]
              /\ Responde(j, Orden("PLAN",
                    {Op("TRANSFORMACION", n + b, b, {}) : b \in Bloques(j)}))
              /\ UNCHANGED varsMaster
     \/ ~Vivo(j) /\ Cae

(***************************************************************************)
(* matarPorReplanificacion, on table t: the job cannot go on.  YAMA says   *)
(* so and closes the socket; unread messages of the Master are lost.       *)
(***************************************************************************)
matarPorReplanificacion(j, t) ==
  /\ j \in asociados
  /\ tabla' = AjustarCarga(t, j)
  /\ replan' = Nulo
  /\ Manda(j, Orden("FALLOTRANSFORMACION", {}))
  /\ asociados' = asociados \ {j}
  /\ conectados' = conectados \ {j}
  /\ aYama' = [aYama EXCEPT ![j] = <<>>]
  /\ UNCHANGED <<copiasLibres, yama, varsMaster>>

(***************************************************************************)
(* Hand entry i of table t to its copy.  The dictionary of the copy gives  *)
(* the block back once; _enviarAMaster adds the new entry, with no copy.   *)
(***************************************************************************)
AsignarACopia(j, t, i) ==
  LET e == t[i]
  IN  /\ tabla' = Append(t, Nueva(j, "TRANSFORMACION", e.copia, e.bloque, Nulo))
      /\ copiasLibres' = [copiasLibres EXCEPT ![j] = @ \ {<<e.copia, e.bloque>>}]
      /\ Manda(j, Orden("REPLANIFICACION",
                        {Op("TRANSFORMACION", Len(t) + 1, e.bloque, {})}))

TieneCopia(j, e) == e.copia \in Nodos /\ <<e.copia, e.bloque>> \in copiasLibres[j]

(***************************************************************************)
(* replanificar, up to its final loop: the failed entry is cancelled and   *)
(* its block goes to the copy.  Without a SocketJob, or with the block     *)
(* gone from the copy's dictionary, it dereferences NULL.                  *)
(***************************************************************************)
replanificar(j) ==
  /\ Llega(j, "FALLOTRANSFORMACION")
  /\ LET i == Head(aYama[j]).temp
         t == Marcar(tabla, {i}, "ERRORYAMA")
     IN  IF tabla[i].copia = Nulo
         THEN \/ matarPorReplanificacion(j, t)
              \/ /\ j \notin asociados
                 /\ tabla' = AjustarCarga(t, j) /\ Leido(j)
                 /\ UNCHANGED <<asociados, conectados, copiasLibres, yama, replan, aMaster,
                                varsMaster>>
         ELSE \/ /\ j \in asociados /\ TieneCopia(j, tabla[i])
                 /\ AsignarACopia(j, t, i)
                 /\ Leido(j)
                 /\ replan' = [job |-> j, nodo |-> tabla[i].nodo]
                 /\ UNCHANGED <<asociados, conectados, yama, varsMaster>>
              \/ /\ j \notin asociados \/ ~TieneCopia(j, tabla[i]) \/ ~Vivo(j)
                 /\ Cae

(***************************************************************************)
(* replanificarFinalizadas, one iteration that matches: every finished     *)
(* entry of the job on the failed node is cancelled and handed to its      *)
(* copy.  The test has no stage: a finished local reduction would match    *)
(* too, and its nodoCopia was never written.                               *)
(***************************************************************************)
Finalizadas(r) ==
  {i \in DelJob(tabla, r.job) : tabla[i].nodo = r.nodo /\ tabla[i].estado = "FINALIZADO"}

replanificarFinalizadas(j) ==
  /\ yama = "viva" /\ replan # Nulo /\ replan.job = j
  /\ \E i \in Finalizadas(replan) :
       /\ \A k \in Finalizadas(replan) : i <= k
       /\ LET t == Marcar(tabla, {i}, "ERRORYAMA")
          IN  CASE tabla[i].copia = Basura ->
                     /\ yama' = "indefinida"
                     /\ UNCHANGED <<tabla, asociados, conectados, copiasLibres,
                                    replan, aYama, aMaster, varsMaster>>
                [] tabla[i].copia = Nulo -> matarPorReplanificacion(j, t)
                [] OTHER ->
                     \/ /\ IF TieneCopia(j, tabla[i]) THEN AsignarACopia(j, t, i)
                           ELSE tabla' = t /\ UNCHANGED <<copiasLibres, aMaster>>
                        /\ UNCHANGED <<asociados, conectados, yama, replan, aYama,
                                       varsMaster>>
                     \/ ~Vivo(j) /\ Cae

TerminarReplanificacion(j) ==
  /\ yama = "viva" /\ replan # Nulo /\ replan.job = j /\ Finalizadas(replan) = {}
  /\ replan' = Nulo
  /\ UNCHANGED <<tabla, asociados, conectados, copiasLibres, yama, aYama, aMaster, varsMaster>>

(***************************************************************************)
(* transformacionOK: the entry is finished, whatever it was; when every    *)
(* transformation of the job on that node is finished, the node reduces.   *)
(* Its new entry is added after the sends, hence after ysend has adjusted  *)
(* the load of a job whose Master is gone.                                 *)
(***************************************************************************)
transformacionOK(j) ==
  /\ Llega(j, "TRANSFORMACIONOK")
  /\ LET i == Head(aYama[j]).temp
         n == tabla[i].nodo
         t == Marcar(tabla, {i}, "FINALIZADO")
         grupo == Grupo(t, j, n)
         nueva == NuevaEtapa(j, "REDUCCIONLOCAL", n)
     IN  IF \A k \in grupo : t[k].estado = "FINALIZADO"
         THEN \/ /\ tabla' = Append(t, nueva)
                 /\ Responde(j, Orden("SOLICITUDREDUCCIONLOCAL",
                       {Op("REDUCCIONLOCAL", Len(t) + 1, 0, grupo)}))
                 /\ UNCHANGED asociados
              \/ /\ tabla' = Append(Desasociar(t, j, asociados), nueva)
                 /\ EnvioRoto(j)
                 /\ asociados' = asociados \ {j}
         ELSE tabla' = t /\ Leido(j) /\ UNCHANGED <<asociados, conectados, yama, replan, aMaster>>
  /\ UNCHANGED <<copiasLibres, varsMaster>>

(***************************************************************************)
(* reduccionLocalOK and, when everything is reduced, reduccionGlobal.      *)
(***************************************************************************)
reduccionLocalOK(j) ==
  /\ Llega(j, "REDLOCALOK")
  /\ LET i == Head(aYama[j]).temp
         u == Marcar(tabla, {i}, "FINALIZADO")
         t == Marcar(u, Canceladas(u, i), "ERRORYAMA")
         reducciones == ReduccionesListas(t, j)
     IN  IF TodoReducido(t, j)
         THEN \E k \in reducciones :
                /\ EsEncargado(t, reducciones, k)
                /\ LET nueva == NuevaEtapa(j, "REDUCGLOBAL", t[k].nodo)
                   IN  \/ /\ tabla' = Append(t, nueva)
                          /\ Responde(j, Orden("SOLICITUDREDUCCIONGLOBAL",
                                {Op("REDUCGLOBAL", Len(t) + 1, 0, reducciones)}))
                          /\ UNCHANGED asociados
                       \/ /\ tabla' = Append(Desasociar(t, j, asociados), nueva)
                          /\ EnvioRoto(j)
                          /\ asociados' = asociados \ {j}
         ELSE tabla' = t /\ Leido(j) /\ UNCHANGED <<asociados, conectados, yama, replan, aMaster>>
  /\ UNCHANGED <<copiasLibres, varsMaster>>

(***************************************************************************)
(* FALLOREDLOCAL: finalizarEntradasError reads the job's number through    *)
(* the SocketJob without testing that there is one; then matarMaster       *)
(* answers and desasociarSocketJob removes it.  The socket stays open.     *)
(***************************************************************************)
fallaReduccionLocal(j) ==
  /\ Llega(j, "FALLOREDLOCAL")
  /\ IF j \notin asociados THEN Cae
     ELSE /\ tabla' = Marcar(tabla, DelJob(tabla, j), "ERRORYAMA")
          /\ asociados' = asociados \ {j}
          /\ Responde(j, Orden("FALLOREDLOCAL", {})) \/ EnvioRoto(j)
          /\ UNCHANGED <<copiasLibres, varsMaster>>

\* FALLOREDGLOBAL: matarMasterGlobal and desasociarSocketJob.
fallaReduccionGlobal(j) ==
  /\ Llega(j, "FALLOREDGLOBAL")
  /\ tabla' = Desasociar(Marcar(tabla, Primera(tabla, j, "REDUCGLOBAL"), "ERRORYAMA"),
                         j, asociados)
  /\ asociados' = asociados \ {j}
  /\ Responde(j, Orden("FALLOREDGLOBAL", {})) \/ EnvioRoto(j)
  /\ UNCHANGED <<copiasLibres, varsMaster>>

(***************************************************************************)
(* reduccionGlobalOk and _enviarOperacionAlmacenamiento, which adds its    *)
(* entry before it sends (with zsend, which leaves the socket alone).      *)
(***************************************************************************)
reduccionGlobalOk(j) ==
  /\ Llega(j, "REDGLOBALOK")
  /\ Leido(j)
  /\ LET G == Primera(tabla, j, "REDUCGLOBAL")
         t == Marcar(tabla, G, "FINALIZADO")
     IN  \/ /\ G = {} /\ UNCHANGED <<tabla, aMaster>>
         \/ \E g \in G :
              /\ tabla' = Append(t, NuevaEtapa(j, "ALMACENAMIENTOOP", t[g].nodo))
              /\ Manda(j, Orden("SOLICITUDALMACENAMIENTO",
                                {Op("ALMACENAMIENTOOP", g, 0, {g})}))
  /\ UNCHANGED <<asociados, conectados, copiasLibres, yama, replan, varsMaster>>

\* almacenamientoOK and desasociarSocketJob.
almacenamientoOK(j) ==
  /\ Llega(j, "ALMACENAMIENTOOK")
  /\ Leido(j)
  /\ tabla' = Desasociar(Marcar(tabla, Primera(tabla, j, "ALMACENAMIENTOOP"), "FINALIZADO"),
                         j, asociados)
  /\ asociados' = asociados \ {j}
  /\ UNCHANGED <<conectados, copiasLibres, yama, replan, aMaster, varsMaster>>

\* almacenamientoError and desasociarSocketJob.
almacenamientoError(j) ==
  /\ Llega(j, "ERRORALMACENAMIENTO")
  /\ LET A == Primera(tabla, j, "ALMACENAMIENTOOP")
     IN  /\ tabla' = Desasociar(Marcar(tabla, A, "ERRORYAMA"), j, asociados)
         /\ \/ A # {} /\ Responde(j, Orden("ERRORALMACENAMIENTO", {}))
            \/ A # {} /\ EnvioRoto(j)
            \/ A = {} /\ Leido(j) /\ UNCHANGED <<aMaster, conectados, yama, replan>>
  /\ asociados' = asociados \ {j}
  /\ UNCHANGED <<copiasLibres, varsMaster>>

\* comprobarConexion: recv() finds the end of the stream.
comprobarConexion(j) ==
  /\ yama = "viva" /\ replan = Nulo /\ j \in conectados
  /\ ~Vivo(j) /\ aYama[j] = <<>>
  /\ tabla' = Desasociar(tabla, j, asociados)
  /\ asociados' = asociados \ {j}
  /\ conectados' = conectados \ {j}
  /\ UNCHANGED <<copiasLibres, yama, replan, aYama, aMaster, varsMaster>>

-----------------------------------------------------------------------------
(* The main thread of a Master                                             *)

\* The process ends: its threads and what it had not read go with it.
Sale(j, s) ==
  /\ maestro' = [maestro EXCEPT ![j] = s]
  /\ hilos' = [hilos EXCEPT ![j] = {}]
  /\ aMaster' = [aMaster EXCEPT ![j] = <<>>]
  /\ UNCHANGED archivos

\* main: connect to YAMA and ask for the job, or exit when nobody listens.
solicitudJob(j) ==
  /\ maestro[j] = "inicio"
  /\ \/ /\ yama = "viva"
        /\ maestro' = [maestro EXCEPT ![j] = "solicitando"]
        /\ conectados' = conectados \cup {j}
        /\ aYama' = [aYama EXCEPT ![j] = Append(@, Respuesta("SOLICITUDJOB", 0))]
        /\ UNCHANGED <<aMaster, hilos, archivos>>
     \/ yama # "viva" /\ Sale(j, "abortado") /\ UNCHANGED <<conectados, aYama>>
  /\ UNCHANGED <<tabla, asociados, copiasLibres, yama, replan>>

Recibe(j, punto, tipos) ==
  /\ maestro[j] = punto
  /\ aMaster[j] # <<>> /\ Head(aMaster[j]).tipo \in tipos

\* The main thread starts the operations of the message it has just read.
Lanza(j, punto) ==
  /\ maestro' = [maestro EXCEPT ![j] = punto]
  /\ hilos' = [hilos EXCEPT ![j] = @ \cup Head(aMaster[j]).ops]
  /\ aMaster' = [aMaster EXCEPT ![j] = Tail(@)]
  /\ UNCHANGED archivos

\* respuestaSolicitud and the first loop of mandarTransformacionNodo.
mandarTransformacionNodo(j) ==
  /\ Recibe(j, "solicitando", {"PLAN"})
  /\ IF Head(aMaster[j]).ops = {} THEN Sale(j, "abortado") ELSE Lanza(j, "bucle")
  /\ UNCHANGED <<varsYama, aYama>>

\* mandarReplanificado and reduccionLocal: one more thread.
mandarReplanificado(j) ==
  /\ Recibe(j, "bucle", {"REPLANIFICACION"})
  /\ Lanza(j, "bucle")
  /\ UNCHANGED <<varsYama, aYama>>

reduccionLocal(j) ==
  /\ Recibe(j, "bucle", {"SOLICITUDREDUCCIONLOCAL"})
  /\ Lanza(j, "bucle")
  /\ UNCHANGED <<varsYama, aYama>>

\* exit(1) on the orders that give the job up.
abortar(j) ==
  /\ \/ Recibe(j, "bucle", {"FALLOTRANSFORMACION", "FALLOREDLOCAL"})
     \/ Recibe(j, "fallo_global", {"FALLOREDGLOBAL"})
     \/ Recibe(j, "fallo_almacen", {"ERRORALMACENAMIENTO"})
  /\ Sale(j, "abortado")
  /\ UNCHANGED <<varsYama, aYama>>

\* reduccionGlobal: exit(1) if the Worker in charge does not accept.
reduccionGlobal(j) ==
  /\ Recibe(j, "bucle", {"SOLICITUDREDUCCIONGLOBAL"})
  /\ Lanza(j, "global") \/ ("REDUCGLOBAL" \in PuedenFallar /\ Sale(j, "abortado"))
  /\ UNCHANGED <<varsYama, aYama>>

\* _almacenamiento: any other order ends the program as if it had finished.
almacenamiento(j) ==
  /\ \/ /\ Recibe(j, "espera_almacen", {"SOLICITUDALMACENAMIENTO"})
        /\ \/ Lanza(j, "almacenando")
           \/ "ALMACENAMIENTOOP" \in PuedenFallar /\ Sale(j, "abortado")
     \/ /\ Recibe(j, "espera_almacen", TiposOrden \ {"SOLICITUDALMACENAMIENTO"})
        /\ Sale(j, "sin_almacenar")
  /\ UNCHANGED <<varsYama, aYama>>

(***************************************************************************)
(* YAMA has ended and there is nothing left to read.  The loop of          *)
(* mandarTransformacionNodo never looks at the result of zrecv and spins;  *)
(* the other waits compare a variable that nobody wrote.                   *)
(***************************************************************************)
yamaNoResponde(j) ==
  /\ yama # "viva" /\ aMaster[j] = <<>>
  /\ CASE maestro[j] = "solicitando" -> Sale(j, "abortado")
       [] maestro[j] = "bucle" ->
            /\ maestro' = [maestro EXCEPT ![j] = "girando"]
            /\ UNCHANGED <<hilos, archivos, aMaster>>
       [] maestro[j] \in {"fallo_global", "espera_almacen", "fallo_almacen"} ->
            Sale(j, "abortado") \/ Sale(j, "sin_almacenar")
       [] OTHER -> FALSE
  /\ UNCHANGED <<varsYama, aYama>>

\* The Master is killed.
MasterMuere(j) ==
  /\ j \in PuedenMorir /\ Vivo(j) /\ maestro[j] # "inicio"
  /\ Sale(j, "muerto")
  /\ UNCHANGED <<varsYama, aYama>>

-----------------------------------------------------------------------------
(* The threads that wait for a Worker                                      *)

Avisa(j, o, tipo) ==
  aYama' = IF j \in conectados /\ yama = "viva"
           THEN [aYama EXCEPT ![j] =
                   Append(@, Respuesta(tipo, IF o.etapa \in EtapasDeHilo THEN o.temp ELSE 0))]
           ELSE aYama

Sigue(j, e, punto) ==
  maestro' = IF e \in EtapasDeHilo THEN maestro ELSE [maestro EXCEPT ![j] = punto]

(***************************************************************************)
(* The Worker has done operation o: the temporary file is there and YAMA   *)
(* is told.                                                                *)
(***************************************************************************)
operacionOK(j, o) ==
  /\ o.etapa # "ALMACENAMIENTOOP"
  /\ Avisa(j, o, AvisoOK(o.etapa))
  /\ hilos' = [hilos EXCEPT ![j] = @ \ {o}]
  /\ archivos' = archivos \cup {[temp |-> o.temp, bloques |->
         IF o.etapa = "TRANSFORMACION" THEN {o.bloque} ELSE Contenido(o.entradas)]}
  /\ Sigue(j, o.etapa, "espera_almacen")
  /\ UNCHANGED <<varsYama, aMaster>>

\* The result is stored: the Master tells YAMA and main returns.
trabajoAlmacenado(j, o) ==
  /\ o.etapa = "ALMACENAMIENTOOP"
  /\ Avisa(j, o, AvisoOK(o.etapa))
  /\ Sale(j, "fin")
  /\ UNCHANGED varsYama

\* No connection, a broken one, or a status other than 0.
operacionFalla(j, o) ==
  /\ o.etapa \in PuedenFallar
  /\ Avisa(j, o, AvisoFallo(o.etapa))
  /\ hilos' = [hilos EXCEPT ![j] = @ \ {o}]
  /\ Sigue(j, o.etapa, IF o.etapa = "REDUCGLOBAL" THEN "fallo_global" ELSE "fallo_almacen")
  /\ UNCHANGED <<varsYama, aMaster, archivos>>

-----------------------------------------------------------------------------
ManejarDatos(j) ==
  \/ enviarTablaTransformacion(j)
  \/ replanificar(j) \/ replanificarFinalizadas(j) \/ TerminarReplanificacion(j)
  \/ transformacionOK(j) \/ reduccionLocalOK(j)
  \/ fallaReduccionLocal(j) \/ fallaReduccionGlobal(j)
  \/ reduccionGlobalOk(j) \/ almacenamientoOK(j) \/ almacenamientoError(j)
  \/ comprobarConexion(j)

HiloPrincipal(j) ==
  \/ solicitudJob(j) \/ mandarTransformacionNodo(j) \/ mandarReplanificado(j)
  \/ reduccionLocal(j) \/ abortar(j) \/ reduccionGlobal(j) \/ almacenamiento(j)
  \/ yamaNoResponde(j)

HiloDeOperacion(j) == \E o \in hilos[j] : operacionOK(j, o) \/ trabajoAlmacenado(j, o) \/ operacionFalla(j, o)

Next == \E j \in Jobs :
  ManejarDatos(j) \/ HiloPrincipal(j) \/ HiloDeOperacion(j) \/ MasterMuere(j)

Spec == Init /\ [][Next]_vars

(***************************************************************************)
(* select() returns every socket with data and the loop visits all of      *)
(* them; a main thread and the threads of a Master are scheduled by the    *)
(* system, and a Worker's operation ends, well or badly.  Nothing obliges  *)
(* a Master to be started or killed.                                       *)
(***************************************************************************)
Justicia ==
  \A j \in Jobs : /\ WF_vars(ManejarDatos(j))
                  /\ WF_vars(maestro[j] # "inicio" /\ HiloPrincipal(j))
                  /\ WF_vars(HiloDeOperacion(j))

SpecJusta == Spec /\ Justicia
=============================================================================
