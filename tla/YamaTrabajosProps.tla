------------------------- MODULE YamaTrabajosProps -------------------------
(***************************************************************************)
(* What YAMA and its Masters keep, and what they do not.                   *)
(***************************************************************************)
EXTENDS YamaTrabajos

\* Every variable holds values of its type; in particular every temporary file
\* named in a message is the name of an entry of tablaEstado.
TypeOK ==
  /\ tabla \in Seq(Entrada)
  /\ asociados \subseteq Jobs /\ conectados \subseteq Jobs
  /\ copiasLibres \in [Jobs -> SUBSET (Nodos \X Nat)]
  /\ yama \in {"viva", "caida", "indefinida"}
  /\ replan \in {Nulo} \cup [job : Jobs, nodo : Nodos]
  /\ aYama \in [Jobs -> Seq([tipo : {"SOLICITUDJOB"} \cup TiposOK \cup TiposFallo,
                             temp : 0..Len(tabla)])]
  /\ aMaster \in [Jobs -> Seq([tipo : TiposOrden, ops : SUBSET Operacion])]
  /\ maestro \in [Jobs -> Puntos]
  /\ hilos \in [Jobs -> SUBSET Operacion]
  /\ archivos \subseteq [temp : 1..Len(tabla), bloques : SUBSET Nat]

\* The stage whose temporary files an operation of stage e reads.
EtapaPrevia(e) == CASE e = "TRANSFORMACION"   -> "NINGUNA"
                    [] e = "REDUCCIONLOCAL"   -> "TRANSFORMACION"
                    [] e = "REDUCGLOBAL"      -> "REDUCCIONLOCAL"
                    [] e = "ALMACENAMIENTOOP" -> "REDUCGLOBAL"

\* On table t, operation o writes a file of job j and its own stage, and reads
\* files of j and the previous stage; to store is to name the file that is read.
OpPropia(t, j, o) ==
  /\ o.entradas \subseteq DeEtapa(t, j, EtapaPrevia(o.etapa))
  /\ o.temp \in DeEtapa(t, j, IF o.etapa = "ALMACENAMIENTOOP" THEN "REDUCGLOBAL" ELSE o.etapa)

AvisoPropio(t, j, m) ==
  \A e \in EtapasDeHilo :
    m.tipo \in {AvisoOK(e), AvisoFallo(e)} => m.temp \in DeEtapa(t, j, e)

\* No job ever touches the files or the entries of another one, nor an operation those
\* of the wrong stage: orders on their way, threads at work and answers not read yet,
\* however late they are, all name entries of their own job and of the right stage.
BienDirigido ==
  \A j \in Jobs :
    /\ \A k \in DOMAIN aYama[j] : AvisoPropio(tabla, j, aYama[j][k])
    /\ \A k \in DOMAIN aMaster[j] : \A o \in aMaster[j][k].ops : OpPropia(tabla, j, o)
    /\ \A o \in hilos[j] : OpPropia(tabla, j, o)

-----------------------------------------------------------------------------
(* What YAMA's table says of a job it still follows                        *)

Atendidos == {j \in asociados : yama = "viva" /\ Vivo(j)}

Vigentes(j, b) ==
  {i \in DeEtapa(tabla, j, "TRANSFORMACION") :
     tabla[i].bloque = b /\ tabla[i].estado # "ERRORYAMA"}

\* Replanning neither drops a block nor hands it out twice: while a job has its
\* SocketJob, every block of its file has exactly one transformation entry that is
\* not cancelled, also halfway through the loop of replanificar.
UnaVigentePorBloque ==
  \A j \in asociados : \A b \in Bloques(j) :
    \E i \in DOMAIN tabla : Vigentes(j, b) = {i}

\* The temporaries somebody is still going to answer for: in an order on its way to
\* the Master, in a thread of the Master, or in an answer YAMA has not read.
PorLeer(j)    == UNION {{o.temp : o \in {p \in aMaster[j][k].ops : p.etapa \in EtapasDeHilo}} :
                          k \in DOMAIN aMaster[j]}
EnHilo(j)     == {o.temp : o \in {p \in hilos[j] : p.etapa \in EtapasDeHilo}}
Contestado(j) == {aYama[j][k].temp : k \in DOMAIN aYama[j]} \ {0}

EnProceso(j, E) ==
  {i \in DelJob(tabla, j) : tabla[i].etapa \in E /\ tabla[i].estado = "ENPROCESO"}

\* No transformation or local reduction is lost or answered twice: the entries in
\* process are exactly the ones somebody will answer for, each in one place.
EnProcesoConResponsable ==
  \A j \in Atendidos :
    /\ EnProceso(j, EtapasDeHilo) = PorLeer(j) \cup EnHilo(j) \cup Contestado(j)
    /\ PorLeer(j) \cap EnHilo(j) = {} /\ PorLeer(j) \cap Contestado(j) = {}
    /\ EnHilo(j) \cap Contestado(j) = {}
    /\ \A k, l \in DOMAIN aYama[j] :
         aYama[j][k].temp = aYama[j][l].temp /\ aYama[j][k].temp # 0 => k = l

\* The barrier: once YAMA has ordered the global reduction of a job it follows, no
\* transformation and no local reduction of the job is under way, and it orders one.
BarreraGlobal ==
  \A j \in Atendidos :
    DeEtapa(tabla, j, "REDUCGLOBAL") # {} =>
      /\ Cardinality(DeEtapa(tabla, j, "REDUCGLOBAL")) = 1
      /\ PorLeer(j) = {} /\ EnHilo(j) = {} /\ Contestado(j) = {}

\* Nothing is counted twice: the local reductions that count for a job hold disjoint
\* sets of blocks, whatever was replanned while they ran.
NingunBloqueDosVeces ==
  \A j \in asociados :
    \A i, k \in ReduccionesListas(tabla, j) :
      i # k => Contenido({i}) \cap Contenido({k}) = {}

\* The copy of every transformation that may still be replanned has the block in its
\* dictionary, so dictionary_remove in replanificar never returns NULL.
CopiaEnDiccionario ==
  \A j \in asociados : \A i \in DeEtapa(tabla, j, "TRANSFORMACION") :
    tabla[i].estado # "ERRORYAMA" /\ tabla[i].copia # Nulo => TieneCopia(j, tabla[i])

\* replanificarFinalizadas does not test the stage of an entry, and yet it never
\* follows the nodoCopia of a reduction, which nobody wrote.
SinPunteroBasura == yama # "indefinida"

\* A cancelled entry stays cancelled while its job is followed: no late answer brings
\* it back.
CanceladaNoRevive ==
  [][\A i \in DOMAIN tabla :
       tabla[i].estado = "ERRORYAMA" /\ tabla[i].job \in asociados \cap asociados'
         => tabla'[i].estado = "ERRORYAMA"]_vars

-----------------------------------------------------------------------------
(* YAMA implements TrabajoAbstracto                                        *)

FaseDe(j) ==
  CASE DelJob(tabla, j) = {} -> "nuevo"
    [] j \in asociados /\ DeEtapa(tabla, j, "ALMACENAMIENTOOP") # {} -> "almacen"
    [] j \in asociados /\ DeEtapa(tabla, j, "ALMACENAMIENTOOP") = {} ->
         IF DeEtapa(tabla, j, "REDUCGLOBAL") # {} THEN "global" ELSE "mapa"
    [] OTHER ->
         IF \E i \in DeEtapa(tabla, j, "ALMACENAMIENTOOP") : tabla[i].estado = "FINALIZADO"
         THEN "hecho" ELSE "dejado"

FaseYama == [j \in Jobs |-> FaseDe(j)]
ObraYama == [j \in Jobs |-> IF j \in asociados THEN EnProceso(j, Etapas) ELSE {}]

Contrato == INSTANCE TrabajoAbstracto WITH fase <- FaseYama, obra <- ObraYama

\* Every step of YAMA on its table is a step of the contract of one job, or none: the
\* phases follow one another, the global reduction waits for the last operation of the
\* map, and a job that was let go stays so, whatever late answers do to its entries.
CumpleContrato == Contrato!AbsSpec

-----------------------------------------------------------------------------
(* How a job ends                                                          *)

Resultado(j) == Contenido(DeEtapa(tabla, j, "REDUCGLOBAL"))

\* A job that ends has reduced its whole file: the result is that of the pipeline of
\* Master/README.md over every block.
BloquesCompletos ==
  \A j \in Jobs : maestro[j] = "fin" => Resultado(j) = Bloques(j)

\* A job that is given its plan ends, stored or given up.
TodoTrabajoTermina ==
  \A j \in Jobs : maestro[j] = "solicitando" ~> maestro[j] \in Salidas
=============================================================================
