-------------------------- MODULE YamaPlanificador --------------------------
(***************************************************************************)
(* How YAMA plans one job: what enviarTablaTransformacion does once the    *)
(* file system has said where the blocks are (src/YAMA/serializacion.c and *)
(* planificacionYama.c).  The nodes are ordered by availability and a      *)
(* clock hand goes round them; a node without availability is given some   *)
(* and skipped.  YamaTrabajos takes the whole of it as one step.           *)
(*                                                                         *)
(* SIGUSR1 runs recargarConfiguracion on the main thread while the thread  *)
(* of the server plans: the algorithm and the base may change between any  *)
(* two steps of the plan, and the algorithm changes before the base does.  *)
(***************************************************************************)
EXTENDS YamaTabla

CONSTANTS Previas,     \* the tables YAMA may hold when the job arrives
          Bases,       \* the values of DISPONIBILIDAD_BASE in yama.conf
          Algoritmos,  \* the values of ALGORITMO_BALANCEO that YAMA knows
          MaxRecargas  \* how many times SIGUSR1 may arrive (bound)

ASSUME SupuestoPlanificador ==
  /\ Previas \subseteq Seq(Entrada)
  /\ IsFiniteSet(Nodos)
  /\ Bases \subseteq Nat
  /\ MaxRecargas \in Nat
  /\ Algoritmos \subseteq {"CLOCK", "WEIGHTEDCLOCK"}

VARIABLES
  algoritmo, \* algoritmoBalanceo
  base,      \* disponibilidad_base
  senal,     \* the signal's handler: "ninguna", or it has "leido" the algorithm only
  recargas,  \* how many times it has run
  job,     \* the job that is planned
  tabla,   \* tablaEstado
  fase,    \* "registrando", "planificando", "planificado", or "salida": YAMA ended
  lista,   \* listaNodos
  disp,    \* per node, InfoNodo.disponibilidad
  libres,  \* the <<node, block>> left in InfoNodo.bloques
  bloque,  \* i, the block being planned (from 1)
  reloj,   \* clock_, a position in lista (from 1)
  inicial, \* where the hand was when this block began
  fallos,  \* a node was skipped for want of availability
  sumados  \* how many nodes of lista _sumarDisponiblidadBase has reached

configuracion == <<algoritmo, base, senal, recargas>>
plan == <<job, tabla, fase, lista, disp, libres, bloque, reloj, inicial, fallos, sumados>>
varsPlan == <<configuracion, plan>>

\* The nodes that hold some block of the file.
ConBloques(j) == UNION {Copias[j][b] : b \in Bloques(j)}

\* _sumarTrabajos and getTareasHistoricas
TrabajosActuales(t, n)  == Cardinality({i \in DOMAIN t : t[i].nodo = n /\ t[i].estado = "ENPROCESO"})
TareasHistoricas(t, n) == Cardinality({i \in DOMAIN t : t[i].nodo = n /\ t[i].estado # "ENPROCESO"})

\* Mutant of pWl: the busiest node gets the most.
pWlInvertido(t, N, n) == TrabajosActuales(t, n)

\* _pWl: how much less the node has to do than the busiest of N.
pWl(t, N, n) ==
  (CHOOSE m \in {TrabajosActuales(t, k) : k \in N} :
     \A k \in N : TrabajosActuales(t, k) <= m) - TrabajosActuales(t, n)

\* _setAvailability, over what each node got when it was registered.
Disponibilidad(t, d) ==
  [n \in DOMAIN d |-> d[n] + IF algoritmo = "WEIGHTEDCLOCK" THEN pWl(t, DOMAIN d, n) ELSE 0]

\* _ordenarPorDisponibilidad; list_sort leaves ties in any order.
VaAntes(t, d, m, n) ==
  d[m] > d[n] \/ (d[m] = d[n] /\ TareasHistoricas(t, m) <= TareasHistoricas(t, n))

Ordenes(t, d, N) ==
  {l \in [1..Cardinality(N) -> N] :
     \A p, q \in 1..Cardinality(N) : p < q => l[p] # l[q] /\ VaAntes(t, d, l[p], l[q])}

Init ==
  /\ algoritmo \in Algoritmos /\ base \in Bases /\ senal = "ninguna" /\ recargas = 0
  /\ job \in Jobs /\ tabla \in Previas
  /\ fase = "registrando"
  /\ lista = <<>> /\ disp = <<>>
  /\ libres = {c \in Nodos \X Bloques(job) : c[1] \in Copias[job][c[2]]}
  /\ bloque = 1 /\ reloj = 1 /\ inicial = 1 /\ fallos = FALSE /\ sumados = 0

\* _registrarBloquePlanificacion meets the node for the first time.
registrarNodo(n) ==
  /\ fase = "registrando" /\ n \in ConBloques(job) \ DOMAIN disp
  /\ disp' = [k \in DOMAIN disp \cup {n} |-> IF k = n THEN base ELSE disp[k]]
  /\ UNCHANGED <<configuracion, job, tabla, fase, lista, libres, bloque, reloj, inicial,
                 fallos, sumados>>

ordenarNodos ==
  /\ fase = "registrando" /\ DOMAIN disp = ConBloques(job)
  /\ fase' = "planificando"
  /\ disp' = Disponibilidad(tabla, disp)
  /\ lista' \in Ordenes(tabla, disp', ConBloques(job))
  /\ UNCHANGED <<configuracion, job, tabla, libres, bloque, reloj, inicial, fallos, sumados>>

-----------------------------------------------------------------------------
(* SIGUSR1: recargarConfiguracion, step by step as the planner can see it  *)

recargarAlgoritmo ==
  /\ senal = "ninguna" /\ recargas < MaxRecargas /\ fase # "salida"
  /\ senal' = "leido" /\ recargas' = recargas + 1
  /\ algoritmo' \in Algoritmos
  /\ UNCHANGED <<base, plan>>

recargarBase ==
  /\ senal = "leido" /\ fase # "salida"
  /\ senal' = "ninguna"
  /\ base' \in Bases
  /\ UNCHANGED <<algoritmo, recargas, plan>>

\* A property is missing (exit 120), or the algorithm is not known (exit 121).
recargaMala ==
  /\ senal = "ninguna" /\ recargas < MaxRecargas /\ fase # "salida"
  /\ fase' = "salida" /\ recargas' = recargas + 1
  /\ UNCHANGED <<algoritmo, base, senal, job, tabla, lista, disp, libres, bloque, reloj,
                 inicial, fallos, sumados>>

-----------------------------------------------------------------------------
(* planificarBloquesYEnviarAMaster, one turn of its inner loop             *)

Mano == lista[reloj]

Avanza == reloj' = (reloj % Len(lista)) + 1

NoTieneElBloque ==
  /\ fase = "planificando" /\ <<Mano, bloque>> \notin libres
  /\ Avanza
  /\ UNCHANGED <<configuracion, job, tabla, fase, lista, disp, libres, bloque, inicial,
                 fallos, sumados>>

\* Mutant of Recarga: the skipped node gets nothing.
RecargaNula(d, n) == d

Recarga(d, n) == [d EXCEPT ![n] = @ + base]

SinDisponibilidad ==
  /\ fase = "planificando" /\ <<Mano, bloque>> \in libres /\ disp[Mano] = 0
  /\ disp' = Recarga(disp, Mano) /\ fallos' = TRUE
  /\ Avanza
  /\ UNCHANGED <<configuracion, job, tabla, fase, lista, libres, bloque, inicial, sumados>>

\* buscarCopia: the first node of the list that holds the block in L.
buscarCopia(L, b) ==
  LET P == {p \in DOMAIN lista : <<lista[p], b>> \in L}
  IN  IF P = {} THEN Nulo ELSE lista[CHOOSE p \in P : \A q \in P : p <= q]

\* Mutant of Quedan: the dictionary of the chosen node keeps the block.
QuedanTodos(n, b) == libres

\* dictionary_remove from the chosen node.
Quedan(n, b) == libres \ {<<n, b>>}

\* The hand is back where it began and some node was skipped.
HayQueSumar == reloj = inicial /\ fallos /\ sumados < Len(lista)

\* _sumarDisponiblidadBase, one node: it reads the base anew each time.
SumaBase ==
  /\ fase = "planificando" /\ <<Mano, bloque>> \in libres /\ disp[Mano] > 0 /\ HayQueSumar
  /\ sumados' = sumados + 1
  /\ disp' = [disp EXCEPT ![lista[sumados + 1]] = @ + base]
  /\ UNCHANGED <<configuracion, job, tabla, fase, lista, libres, bloque, reloj, inicial, fallos>>

\* The block goes to the node under the hand.
Asigna ==
  /\ fase = "planificando" /\ <<Mano, bloque>> \in libres /\ disp[Mano] > 0 /\ ~HayQueSumar
  /\ disp' = [disp EXCEPT ![Mano] = @ - 1]
  /\ libres' = Quedan(Mano, bloque)
  /\ tabla' = Append(tabla, Nueva(job, "TRANSFORMACION", Mano, bloque,
                                  buscarCopia(Quedan(Mano, bloque), bloque)))
  /\ Avanza /\ inicial' = reloj' /\ fallos' = FALSE /\ sumados' = 0
  /\ bloque' = bloque + 1
  /\ fase' = IF bloque = Len(Copias[job]) THEN "planificado" ELSE fase
  /\ UNCHANGED <<configuracion, job, lista>>

Planifica == \/ \E n \in Nodos : registrarNodo(n)
             \/ ordenarNodos \/ NoTieneElBloque \/ SinDisponibilidad \/ SumaBase \/ Asigna

SIGUSR1 == recargarAlgoritmo \/ recargarBase \/ recargaMala

Next == Planifica \/ SIGUSR1

Spec == Init /\ [][Next]_varsPlan

\* One thread of YAMA plans, and nothing stops it; nobody has to send the signal, but its
\* handler, once begun, ends.
SpecJusta == Spec /\ WF_varsPlan(Planifica) /\ WF_varsPlan(recargarBase)

-----------------------------------------------------------------------------
(* What the plan keeps                                                     *)

\* The hand stays on the list, and availability, an int, never goes below zero.
PlanTypeOK ==
  /\ tabla \in Seq(Entrada)
  /\ algoritmo \in Algoritmos /\ base \in Bases /\ senal \in {"ninguna", "leido"}
  /\ fase \in {"registrando", "planificando", "planificado", "salida"}
  /\ DOMAIN disp \subseteq ConBloques(job) /\ \A n \in DOMAIN disp : disp[n] \in Nat
  /\ libres \subseteq Nodos \X Bloques(job)
  /\ lista = <<>> \/ (DOMAIN disp = ConBloques(job) /\ reloj \in DOMAIN lista /\ inicial \in DOMAIN lista)
  /\ bloque \in 1..(Len(Copias[job]) + 1) /\ fallos \in BOOLEAN
  /\ recargas \in 0..MaxRecargas /\ sumados \in 0..Len(lista)

\* The table as it was when the job arrived.
Previa == SubSeq(tabla, 1, Len(tabla) - (bloque - 1))

Plan == [b \in Bloques(job) |-> [nodo  |-> tabla[Len(Previa) + b].nodo,
                                copia |-> tabla[Len(Previa) + b].copia]]

\* The loop implements the single step of enviarTablaTransformacion in YamaTrabajos:
\* when it ends, every block has one entry, on a node that holds it and with another
\* holder as its copy if there is one, and each copy still has the block in its
\* dictionary, where replanificar will look for it.  A reload at any moment changes none
\* of it.
PlanCumple ==
  fase = "planificado" =>
    /\ Plan \in Planes(job)
    /\ tabla = Previa \o Entradas(job, Plan)
    /\ libres = CopiasTras(job, Plan)

\* Every block finds a node with availability, however it is placed and whatever is
\* reloaded meanwhile: the loop ends, unless YAMA does or the base has come to be 0.
PlanTermina == <>(fase \in {"planificado", "salida"}) \/ <>[](base = 0)

\* The files every node holds whole: only availability decides.
Indiferente == \A b \in Bloques(job) : Copias[job][b] = ConBloques(job)

\* WEIGHTEDCLOCK: one node is at most one operation ahead of another, unless it was
\* already, and then the gap has not grown.
NoDesequilibra(m, n) ==
  LET ventaja(t) == TrabajosActuales(t, m) - TrabajosActuales(t, n)
  IN  ventaja(tabla) <= 1 \/ ventaja(tabla) <= ventaja(Previa)

\* CLOCK: no node has received two more blocks of the job than another.
RepartoParejo(m, n) ==
  LET recibidos(k) == TrabajosActuales(tabla, k) - TrabajosActuales(Previa, k)
  IN  recibidos(m) <= recibidos(n) + 1

\* The two algorithms share the work out as they are meant to, at every moment of the
\* plan: the weighted one evens the loads of the nodes, the plain one deals the blocks out
\* in turn.  (While nobody changes the algorithm in the middle.)
CargaPareja ==
  recargas = 0 /\ lista # <<>> /\ Indiferente =>
    \A m, n \in ConBloques(job) :
      IF algoritmo = "WEIGHTEDCLOCK" THEN NoDesequilibra(m, n) ELSE RepartoParejo(m, n)
=============================================================================
