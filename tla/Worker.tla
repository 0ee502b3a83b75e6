-------------------------------- MODULE Worker --------------------------------
(***************************************************************************)
(* The Workers of some jobs, from the blocks to the file stored in the     *)
(* FileSystem.  A Worker forks a child for each connection; all of them    *)
(* share the one socket it has with the FileSystem, whose only thread      *)
(* reads the parts of a storage one by one.  Which operation is ordered,   *)
(* and what follows a failure, is in YamaTrabajos: here a failure ends the *)
(* job, and Masters do not die.                                            *)
(***************************************************************************)
EXTENDS WorkerArchivos, FiniteSets

CONSTANTS Jobs, Workers,
          Repartos,  \* how the blocks may be spread: r[j][w] is a sequence of files
          Fallan,    \* the jobs whose scripts may fail
          Mueren,    \* the Workers that may be lost
          FsMuere,   \* the FileSystem may end
          Nulo

ASSUME SupuestoWorker ==
  /\ Fallan \subseteq Jobs /\ Mueren \subseteq Workers /\ FsMuere \in BOOLEAN
  /\ IsFiniteSet(Workers) /\ Repartos \subseteq [Jobs -> [Workers -> Seq(Seq(Lineas))]]
  /\ \A r \in Repartos, j \in Jobs : \E w \in Workers : r[j][w] # <<>>

VARIABLES
  bloques,    \* the blocks of each job in each Worker
  encargado,  \* the Worker of the global reduction and the storage of each job
  vivos,      \* the Workers that run
  archivos,   \* the temporaries, by name
  paso,       \* per job: "mapa", "global", "almacena", "bien", "mal", or "espera" for ever
  tocado,     \* the jobs where something failed and nobody tells: see ResultadoFiel
  hijo,       \* per job, the next part its child sends, "status" if it waits, or Nulo
  canal,      \* per Worker, what its children wrote on socketFS and nobody has read
  estados,    \* per Worker, the answers to them that no child has read
  revuelto,   \* the Workers where storages overlapped, or one had nothing to send
  fs,         \* "vivo" or "caido"
  hiloFS,     \* its server's thread: "bien", "cerrado" (it closed a socket that select still
              \* has) or "colgado" (for ever)
  leyendo,    \* what recibirArchivo reads next, and from which Worker, or Nulo
  corrido,    \* the Workers whose connection was read out of step
  almacen     \* the files of the jobs in the FileSystem

varsT == <<archivos, tocado>>
varsH == <<hijo, canal, estados, revuelto>>
varsF == <<fs, hiloFS, leyendo, corrido, almacen>>
fijas == <<bloques, encargado>>
vars  == <<fijas, vivos, paso, varsT, varsH, varsF>>

De(j)         == {w \in Workers : bloques[j][w] # <<>>}
T(j, w, i)    == <<"transformacion", j, w, i>>
RL(j, w)      == <<"reducido", j, w>>
Copia(j, w)   == <<"copia", j, w>>      \* of RL(j, w), in the Worker in charge
RG(j)         == <<"global", j>>
Esta(n)       == n \in DOMAIN archivos
Escribe(n, s) == archivos' = [x \in DOMAIN archivos \cup {n} |-> IF x = n THEN s ELSE archivos[x]]
Reducidos(j)  == paso[j] = "mapa" /\ \A w \in De(j) : Esta(RL(j, w))
Otros(j)      == De(j) \ {encargado[j]}

Init ==
  /\ bloques \in Repartos /\ encargado \in {e \in [Jobs -> Workers] : \A j \in Jobs : e[j] \in De(j)}
  /\ vivos = Workers /\ archivos = <<>> /\ paso = [j \in Jobs |-> "mapa"] /\ tocado = {}
  /\ hijo = [j \in Jobs |-> Nulo] /\ revuelto = {}
  /\ canal = [w \in Workers |-> <<>>] /\ estados = [w \in Workers |-> <<>>]
  /\ fs = "vivo" /\ hiloFS = "bien" /\ leyendo = Nulo /\ corrido = {} /\ almacen = <<>>

\* The Master is told that an operation failed.
Mal(j) == paso' = [paso EXCEPT ![j] = "mal"] /\ UNCHANGED varsT

\* The machine of w is lost, with the children and a part of what they wrote.
Pierde(w) ==
  /\ w \in vivos \cap Mueren /\ vivos' = vivos \ {w}
  /\ paso' = [j \in Jobs |-> IF hijo[j] # Nulo /\ encargado[j] = w THEN "mal" ELSE paso[j]]
  /\ hijo' = [j \in Jobs |-> IF encargado[j] = w THEN Nulo ELSE hijo[j]]
  /\ \E n \in 0..Len(canal[w]) : canal' = [canal EXCEPT ![w] = SubSeq(@, 1, n)]
  /\ UNCHANGED <<fijas, estados, revuelto, varsF>>

-----------------------------------------------------------------------------
(* Operations                                                              *)

\* iniciarTransformacion.  The status is that of sort, the last of the pipe: if the script
\* fails in the middle, the operation has ended well.
iniciarTransformacion(j, w, i) ==
  /\ paso[j] = "mapa" /\ i \in DOMAIN bloques[j][w] /\ ~Esta(T(j, w, i))
  /\ \/ w \notin vivos /\ Mal(j)
     \/ /\ w \in vivos /\ Escribe(T(j, w, i), Transformar(bloques[j][w][i]))
        /\ UNCHANGED <<paso, tocado>>
     \/ /\ w \in vivos /\ j \in Fallan
        /\ Escribe(T(j, w, i), Transformar(Front(bloques[j][w][i])))
        /\ tocado' = tocado \cup {j} /\ UNCHANGED paso
  /\ UNCHANGED <<fijas, vivos, varsF, varsH>>

\* iniciarReduccion.  With a single temporary nothing is merged, and the name of the file to
\* reduce is what was in memory: of no file, or empty, and then cat reads the terminal.
iniciarReduccion(j, w) ==
  /\ paso[j] = "mapa" /\ bloques[j][w] # <<>> /\ ~Esta(RL(j, w))
  /\ \A i \in DOMAIN bloques[j][w] : Esta(T(j, w, i))
  /\ LET temporales == [i \in DOMAIN bloques[j][w] |-> archivos[T(j, w, i)]]
     IN  \/ w \notin vivos /\ Mal(j)
         \/ w \in vivos /\ j \in Fallan /\ Mal(j)
         \/ /\ w \in vivos /\ Len(temporales) > 1
            /\ Escribe(RL(j, w), Reducir(Aparear(temporales)))
            /\ UNCHANGED <<paso, tocado>>
         \/ /\ w \in vivos /\ Len(temporales) = 1
            /\ \/ /\ Escribe(RL(j, w), Reducir(<<>>))
                  /\ tocado' = tocado \cup {j} /\ UNCHANGED paso
               \/ paso' = [paso EXCEPT ![j] = "espera"] /\ UNCHANGED varsT
  /\ UNCHANGED <<fijas, vivos, varsF, varsH>>

\* What the Worker in charge keeps of a file that w sends with rutinaNoEncargado: if nothing
\* comes, because the file is empty or w is lost, the length is what was in memory.
Guarda(j, w, s) ==
  /\ Escribe(Copia(j, w), s)
  /\ tocado' = IF s = archivos[RL(j, w)] THEN tocado ELSE tocado \cup {j}

pedirArchivo(j, w) ==
  /\ Reducidos(j) /\ w \in Otros(j) /\ ~Esta(Copia(j, w))
  /\ \/ {w, encargado[j]} \subseteq vivos
        /\ \E s \in IF archivos[RL(j, w)] = <<>> THEN {<<>>, Basura} ELSE {archivos[RL(j, w)]} :
             Guarda(j, w, s)
        /\ UNCHANGED paso
     \/ ~({w, encargado[j]} \subseteq vivos) /\ Mal(j)
  /\ UNCHANGED <<fijas, vivos, varsH, varsF>>

archivoCortado(j, w) ==
  /\ Reducidos(j) /\ w \in Otros(j) /\ ~Esta(Copia(j, w)) /\ encargado[j] \in vivos
  /\ \E s \in {<<>>, Basura} : Guarda(j, w, s)
  /\ Pierde(w)

iniciarGlobal(j) ==
  /\ Reducidos(j) /\ \A w \in Otros(j) : Esta(Copia(j, w))
  /\ LET otros == SetToSeq(Otros(j))
         todos == <<archivos[RL(j, encargado[j])]>>
                  \o [i \in DOMAIN otros |-> archivos[Copia(j, otros[i])]]
     IN  \/ encargado[j] \notin vivos /\ Mal(j)
         \/ encargado[j] \in vivos /\ j \in Fallan /\ Mal(j)
         \/ /\ encargado[j] \in vivos /\ Escribe(RG(j), Reducir(Aparear(todos)))
            /\ paso' = [paso EXCEPT ![j] = "global"] /\ UNCHANGED tocado
  /\ UNCHANGED <<fijas, vivos, varsH, varsF>>
-----------------------------------------------------------------------------
(* Storage                                                                 *)

\* Mutant of Partes: the length goes before the name.
PartesAlReves == <<"mensaje", "tamano", "nombre", "datos">>

\* What _almacenamiento and enviarArchivo send, and recibirArchivo reads, in this order.
Partes     == <<"mensaje", "nombre", "tamano", "datos">>
Lectura    == <<"mensaje", "nombre", "tamano", "datos">>
Tras(s, p) == s[(CHOOSE i \in DOMAIN s : s[i] = p) + 1]
DelWorker(w) == {j \in Jobs : hijo[j] # Nulo /\ encargado[j] = w}

\* What recibirArchivo may be reading: the rest of a storage, or bytes out of step.
Lecturas ==
  [worker : Workers, job : Jobs, parte : {"nombre", "tamano", "datos"}]
    \cup [worker : Workers, job : {Nulo}, parte : {"perdida"}]

ASSUME SupuestoNulo == Nulo \notin Lecturas /\ Nulo \notin ToSet(Partes) \cup {"status"}

\* The Master orders the storage, the Worker forks.
almacenamiento(j) ==
  /\ paso[j] = "global"
  /\ IF encargado[j] \in vivos
     THEN /\ paso' = [paso EXCEPT ![j] = "almacena"] /\ hijo' = [hijo EXCEPT ![j] = Partes[1]]
          /\ revuelto' = IF DelWorker(encargado[j]) # {} THEN revuelto \cup {encargado[j]} ELSE revuelto
          /\ UNCHANGED <<canal, estados, varsT>>
     ELSE Mal(j) /\ UNCHANGED varsH
  /\ UNCHANGED <<fijas, vivos, varsF>>

\* A child ends, after the answer to its Master.
Termina(j, r) == paso' = [paso EXCEPT ![j] = r] /\ hijo' = [hijo EXCEPT ![j] = Nulo]

\* A child sends the next part; of an empty file, enviarArchivo sends none.  Without the
\* FileSystem zsend goes on, and sendAll may raise SIGPIPE.
enviarParte(j) ==
  LET w     == encargado[j]
      parte == hijo[j]
      nada  == parte = "nombre" /\ archivos[RG(j)] = <<>>
  IN  /\ parte \in ToSet(Partes)
      /\ \/ /\ hijo' = [hijo EXCEPT ![j] = IF nada \/ parte = Last(Partes) THEN "status"
                                           ELSE Tras(Partes, parte)]
            /\ revuelto' = IF nada THEN revuelto \cup {w} ELSE revuelto
            /\ canal' = IF fs = "caido" THEN canal
                        ELSE [canal EXCEPT ![w] = Append(@, [job |-> j, parte |-> parte])]
            /\ UNCHANGED paso
         \/ fs = "caido" /\ parte = "datos" /\ Termina(j, "mal") /\ UNCHANGED <<canal, revuelto>>
      /\ UNCHANGED <<fijas, vivos, varsT, estados, varsF>>

\* A child of w gets the first status that comes.  If it is an error, or the FileSystem has
\* ended and none comes, the answer is a variable nobody has written.
recibirStatus(j) ==
  LET w == encargado[j]
  IN  /\ hijo[j] = "status"
      /\ \/ /\ estados[w] # <<>> /\ estados' = [estados EXCEPT ![w] = Tail(@)]
            /\ \E r \in IF Head(estados[w]) = 0 THEN {"bien"} ELSE {"bien", "mal"} : Termina(j, r)
         \/ /\ estados[w] = <<>> /\ fs = "caido" /\ UNCHANGED estados
            /\ \E r \in {"bien", "mal"} : Termina(j, r)
      /\ UNCHANGED <<fijas, vivos, varsT, canal, revuelto, varsF>>

-----------------------------------------------------------------------------
(* The FileSystem                                                          *)

Almacena(j, s) == almacen' = [k \in DOMAIN almacen \cup {j} |-> IF k = j THEN s ELSE almacen[k]]
Ocupado(w)     == leyendo # Nulo /\ leyendo.worker # w

\* Mutant of Contesta: a file that could not be stored is not answered.
ContestaSiBien(w, s) ==
  estados' = IF s = 0 THEN [estados EXCEPT ![w] = Append(@, s)] ELSE estados
Contesta(w, s) == estados' = [estados EXCEPT ![w] = Append(@, s)]

Atiende        == fs = "vivo" /\ hiloFS # "colgado"

\* cpfrom of what was received, and its answer.  (If there is none, see fsCuelga.)
Guardado(w, j, s) ==
  \/ Almacena(j, s) /\ Contesta(w, 0) /\ UNCHANGED tocado
  \/ Contesta(w, -1) /\ tocado' = tocado \cup {j} /\ UNCHANGED almacen

\* recibirArchivo reads the next part, in its place.
leerParte(w) ==
  /\ Atiende /\ canal[w] # <<>> /\ ~Ocupado(w) /\ w \notin corrido
  /\ LET t        == Head(canal[w])
         esperada == IF leyendo = Nulo THEN Lectura[1] ELSE leyendo.parte
     IN  /\ t.parte = esperada /\ (leyendo # Nulo => t.job = leyendo.job)
         /\ IF t.parte = "datos"
            THEN Guardado(w, t.job, archivos[RG(t.job)]) /\ leyendo' = Nulo
            ELSE /\ leyendo' = [worker |-> w, job |-> t.job, parte |-> Tras(Lectura, t.parte)]
                 /\ UNCHANGED <<estados, almacen, tocado>>
  /\ canal' = [canal EXCEPT ![w] = Tail(@)]
  /\ UNCHANGED <<fijas, vivos, paso, archivos, hijo, revuelto, fs, hiloFS, corrido>>

\* A part where another was expected: from here on a length may be a name, and anything may
\* be stored and answered, or the FileSystem may wait for ever for bytes that do not come.
leerCorrido(w) ==
  /\ Atiende /\ canal[w] # <<>> /\ ~Ocupado(w)
  /\ LET t        == Head(canal[w])
         esperada == IF leyendo = Nulo THEN Lectura[1] ELSE leyendo.parte
     IN  w \in corrido \/ t.parte # esperada \/ (leyendo # Nulo /\ t.job # leyendo.job)
  /\ corrido' = corrido \cup {w} /\ canal' = [canal EXCEPT ![w] = Tail(@)]
  /\ \/ /\ leyendo' = [worker |-> w, job |-> Nulo, parte |-> "perdida"]
        /\ UNCHANGED <<estados, almacen, tocado>>
     \/ leyendo' = Nulo /\ \E j \in DelWorker(w) : Guardado(w, j, Basura)
     \/ leyendo' = Nulo /\ UNCHANGED <<estados, almacen, tocado>>
  /\ UNCHANGED <<fijas, vivos, paso, archivos, hijo, revuelto, fs, hiloFS>>

\* The Worker was lost in the middle: what is missing is what was in memory, the length or
\* the name too, and it is stored all the same.  zrecv closes the socket if not a byte came.
leerCortado(w) ==
  /\ Atiende /\ leyendo # Nulo /\ leyendo.worker = w /\ w \notin vivos /\ canal[w] = <<>>
  /\ \/ leyendo.parte \in {"tamano", "datos"} /\ \E s \in {<<>>, Basura} : Guardado(w, leyendo.job, s)
     \/ leyendo.parte \in {"nombre", "perdida"} /\ UNCHANGED <<estados, almacen, tocado>>
  /\ leyendo' = Nulo /\ hiloFS' \in {hiloFS, "cerrado"}
  /\ UNCHANGED <<fijas, vivos, paso, archivos, hijo, canal, revuelto, fs, corrido>>

\* cpfrom goes round for ever if the lines need more blocks than it counted, and so does the
\* thread; or it waits for semaforoConsola, which a command keeps that reads a block of a
\* node whose mutex a failed read left taken.
fsCuelga ==
  /\ Atiende /\ hiloFS' = "colgado"
  /\ leyendo # Nulo => (leyendo.parte \in {"datos", "perdida"} \/ leyendo.worker \notin vivos)
  /\ UNCHANGED <<fijas, vivos, paso, varsT, varsH, fs, leyendo, corrido, almacen>>

Cae ==
  /\ fs = "vivo" /\ fs' = "caido" /\ leyendo' = Nulo
  /\ canal' = [w \in Workers |-> <<>>]
  /\ UNCHANGED <<fijas, vivos, paso, varsT, hijo, estados, revuelto, hiloFS, corrido, almacen>>

\* select fails.
fsSale  == hiloFS = "cerrado" /\ Cae
fsMuere == FsMuere /\ Cae

muere(w) == Pierde(w) /\ UNCHANGED varsT

Operacion(j) ==
  \/ \E w \in Workers : \/ \E i \in DOMAIN bloques[j][w] : iniciarTransformacion(j, w, i)
                        \/ iniciarReduccion(j, w) \/ pedirArchivo(j, w)
  \/ iniciarGlobal(j) \/ almacenamiento(j)
Hijo(j)       == enviarParte(j) \/ recibirStatus(j)
FileSystem(w) == leerParte(w) \/ leerCorrido(w) \/ leerCortado(w)
Fallo == fsCuelga \/ fsSale \/ fsMuere \/ \E w \in Workers : muere(w) \/ \E j \in Jobs : archivoCortado(j, w)

Next == (\E j \in Jobs : Operacion(j) \/ Hijo(j)) \/ (\E w \in Workers : FileSystem(w)) \/ Fallo

\* The children and the thread of the FileSystem run until they wait for each other.
Spec == /\ Init /\ [][Next]_vars
        /\ \A j \in Jobs : WF_vars(Hijo(j))
        /\ WF_vars(\E w \in Workers : FileSystem(w))
-----------------------------------------------------------------------------
(* Properties                                                              *)

TypeOKWorker ==
  /\ vivos \subseteq Workers /\ revuelto \subseteq Workers /\ corrido \subseteq Workers
  /\ paso \in [Jobs -> {"mapa", "global", "almacena", "bien", "mal", "espera"}]
  /\ hijo \in [Jobs -> ToSet(Partes) \cup {"status", Nulo}] /\ tocado \subseteq Jobs
  /\ hiloFS \in {"bien", "cerrado", "colgado"}
  /\ estados \in [Workers -> Seq({0, -1})] /\ DOMAIN almacen \subseteq Jobs

\* The socket of a Worker is one for all its children, and the FileSystem reads one storage
\* at a time.  As long as the storages of a Worker do not overlap, no other makes the
\* FileSystem read its connection out of step, and the only status there may be is that of
\* the child that waits, when all it sent has been read.
SinMezcla ==
  /\ TypeOKWorker /\ corrido \subseteq revuelto
  /\ \A w \in vivos \ revuelto : estados[w] # <<>> =>
       /\ Len(estados[w]) = 1 /\ canal[w] = <<>> /\ (leyendo # Nulo => leyendo.worker # w)
       /\ \A j \in DelWorker(w) : hijo[j] = "status"

\* All the blocks of a job, by Worker: the whole file, but for the order of its lines.
Entero(j) == FoldLeft(LAMBDA s, w : s \o bloques[j][w], <<>>, SetToSeq(Workers))

\* If sort orders lines as strcmp does, the file of a job whose Master is told that it is
\* stored is what the scripts make of the whole file at once: unless the storages of its
\* Worker overlapped, the FileSystem has ended, or a failure that nobody told touched it.
ResultadoFiel ==
  (\A k, l \in Lineas : Cotejo[k] < Cotejo[l] <=> k < l) =>
    \A j \in Jobs : paso[j] = "bien" /\ fs = "vivo" /\ j \notin tocado /\ encargado[j] \notin revuelto =>
      j \in DOMAIN almacen /\ almacen[j] = Resultado(Entero(j))

\* The child of a storage answers its Master, whatever is lost and whatever the other Workers
\* store; and though the FileSystem, that lost one of them, may end or not.  Three things may
\* keep it for ever: that in some Worker storages overlapped, that one had nothing to send,
\* or that the FileSystem's thread does not come back from what it does (fsCuelga).
AlmacenResponde ==
  \A j \in Jobs :
    paso[j] = "almacena" ~> (paso[j] \in {"bien", "mal"} \/ revuelto # {} \/ hiloFS = "colgado")
=============================================================================
