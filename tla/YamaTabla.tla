----------------------------- MODULE YamaTabla -----------------------------
(***************************************************************************)
(* The table of states of YAMA (tablaEstado in src/YAMA/yama.h): the log   *)
(* of every operation YAMA has handed to a Master, and the questions its   *)
(* handlers ask of it.  An entry is never removed, so its position names   *)
(* it; the position also stands for the unique temporary file name that    *)
(* generarArchivoTemporal derives from the length of the list.             *)
(***************************************************************************)
EXTENDS Naturals, Sequences, FiniteSets

CONSTANTS Jobs,    \* one Master process, and one job, each
          Nodos,   \* the data nodes
          Copias,  \* Copias[j][b]: the nodes that hold block b of j's file
          Nulo,    \* a NULL pointer
          Basura   \* a pointer field that nobody wrote

ASSUME SupuestoTabla ==
  /\ Copias \in [Jobs -> Seq((SUBSET Nodos) \ {{}})]
  /\ \A j \in Jobs : Copias[j] # <<>>
  /\ Nulo \notin Nodos /\ Basura \notin Nodos /\ Nulo # Basura

Etapas  == {"TRANSFORMACION", "REDUCCIONLOCAL", "REDUCGLOBAL", "ALMACENAMIENTOOP"}
Estados == {"ENPROCESO", "ERRORYAMA", "FINALIZADO"}

Bloques(j) == DOMAIN Copias[j]

Entrada == [job : Jobs, etapa : Etapas, nodo : Nodos, bloque : Nat,
            copia : Nodos \cup {Nulo, Basura}, estado : Estados]

Nueva(j, e, n, b, c) ==
  [job |-> j, etapa |-> e, nodo |-> n, bloque |-> b, copia |-> c,
   estado |-> "ENPROCESO"]

\* numeroBloque is 0 and nodoCopia stays uninitialised outside TRANSFORMACION.
NuevaEtapa(j, e, n) == Nueva(j, e, n, 0, Basura)

DelJob(t, j)     == {i \in DOMAIN t : t[i].job = j}
DeEtapa(t, j, e) == {i \in DelJob(t, j) : t[i].etapa = e}
ReduccionesListas(t, j) ==
  {i \in DeEtapa(t, j, "REDUCCIONLOCAL") : t[i].estado = "FINALIZADO"}

\* Mutant of Grupo: filter on the finished entries instead of asking for all.
GrupoFinalizado(t, j, n) ==
  {i \in DeEtapa(t, j, "TRANSFORMACION") : t[i].nodo = n /\ t[i].estado = "FINALIZADO"}

\* The transformations of the job on a node, whatever their state.
Grupo(t, j, n) == {i \in DeEtapa(t, j, "TRANSFORMACION") : t[i].nodo = n}

\* Mutant of Marcar: an entry that has finished keeps its state.
MarcarEnProceso(t, I, s) ==
  [i \in DOMAIN t |-> IF i \in I /\ t[i].estado = "ENPROCESO"
                      THEN [t[i] EXCEPT !.estado = s] ELSE t[i]]

Marcar(t, I, s) == [i \in DOMAIN t |-> IF i \in I THEN [t[i] EXCEPT !.estado = s] ELSE t[i]]

\* list_find: the first entry of the job in that stage, if there is one.
Primera(t, j, e) ==
  {i \in DeEtapa(t, j, e) : \A k \in DeEtapa(t, j, e) : i <= k}

\* Mutant of AjustarCarga: the entries of every job.
AjustarCargaDeTodos(t, j) ==
  Marcar(t, {i \in DOMAIN t : t[i].estado # "ERRORYAMA"}, "FINALIZADO")

(***************************************************************************)
(* ajustarCarga: the same loop in desasociarSocketJob and in               *)
(* matarPorReplanificacion.                                                *)
(***************************************************************************)
AjustarCarga(t, j) ==
  Marcar(t, {i \in DelJob(t, j) : t[i].estado # "ERRORYAMA"}, "FINALIZADO")

\* desasociarSocketJob: nothing to adjust once the SocketJob has been removed.
Desasociar(t, j, asociados) == IF j \in asociados THEN AjustarCarga(t, j) ELSE t

\* Mutants of Canceladas: forget the state of the entry; cancel nothing.
CanceladasEnCurso(t, i) ==
  {k \in DeEtapa(t, t[i].job, "REDUCCIONLOCAL") : t[k].nodo = t[i].nodo /\ k # i}
SinCancelar(t, i) == {}

\* cancelarFinalizadasAnteriores, run when reduction i has just finished.
Canceladas(t, i) ==
  {k \in ReduccionesListas(t, t[i].job) : t[k].nodo = t[i].nodo /\ k # i}

\* Mutants of TodoReducido: look at the reductions only; forget that a cancelled
\* transformation will never finish.
TodoReducidoSinMapa(t, j) ==
  \A i \in DeEtapa(t, j, "REDUCCIONLOCAL") : t[i].estado # "ENPROCESO"
TodoReducidoEstricto(t, j) ==
  \A i \in DelJob(t, j) :
     t[i].estado = "FINALIZADO" \/ (t[i].etapa = "REDUCCIONLOCAL" /\ t[i].estado = "ERRORYAMA")

\* The test of reduccionLocalOK before it starts the global reduction.
TodoReducido(t, j) ==
  \A i \in DelJob(t, j) :
     \/ t[i].estado = "FINALIZADO"
     \/ t[i].estado = "ERRORYAMA" /\ t[i].etapa \in {"TRANSFORMACION", "REDUCCIONLOCAL"}

(***************************************************************************)
(* The load reduccionGlobal computes for a node: a REDUCGLOBAL in process  *)
(* overwrites what was counted before it instead of adding to it.          *)
(***************************************************************************)
CargaParaGlobal(t, n, cantidad) ==
  LET carga[k \in 0..Len(t)] ==
        IF k = 0 THEN 0
        ELSE IF t[k].estado # "ENPROCESO" \/ t[k].nodo # n THEN carga[k - 1]
        ELSE IF t[k].etapa = "REDUCGLOBAL" THEN (cantidad + 1) \div 2
        ELSE carga[k - 1] + 1
  IN  carga[Len(t)]

\* calcularIndiceConValorMinimo: the first reduction whose node has least load.
EsEncargado(t, I, i) ==
  LET carga(k) == CargaParaGlobal(t, t[k].nodo, Cardinality(I))
  IN  \A k \in I : carga(i) < carga(k) \/ (carga(i) = carga(k) /\ i <= k)

\* Mutant of Planes: buscarCopia before the block leaves the chosen node.
PlanesCopiaPropia(j) ==
  {p \in [Bloques(j) -> [nodo : Nodos, copia : Nodos \cup {Nulo}]] :
     \A b \in Bloques(j) : p[b].nodo \in Copias[j][b] /\ p[b].copia \in Copias[j][b]}

(***************************************************************************)
(* What planificarBloquesYEnviarAMaster may decide: each block goes to a   *)
(* node that holds it, and the copy is another node that holds it, if any. *)
(* Which one the clock picks is the business of module YamaPlanificador.   *)
(***************************************************************************)
Planes(j) ==
  {p \in [Bloques(j) -> [nodo : Nodos, copia : Nodos \cup {Nulo}]] :
     \A b \in Bloques(j) :
        /\ p[b].nodo \in Copias[j][b]
        /\ IF Copias[j][b] = {p[b].nodo} THEN p[b].copia = Nulo
           ELSE p[b].copia \in Copias[j][b] \ {p[b].nodo}}

\* The entries of plan p, in the order of the blocks, and what the plan leaves in the
\* dictionaries InfoNodo.bloques: each block on the nodes it was not given to.
Entradas(j, p) == [b \in Bloques(j) |-> Nueva(j, "TRANSFORMACION", p[b].nodo, b, p[b].copia)]
CopiasTras(j, p) ==
  {c \in Nodos \X Bloques(j) : c[1] \in Copias[j][c[2]] /\ c[1] # p[c[2]].nodo}
=============================================================================
