--------------------------- MODULE YamaPlanPrueba ---------------------------
(***************************************************************************)
(* The planner of YAMA, for every file, every set of nodes, any base and   *)
(* any number of reloads: proofs that availability and the hand keep their *)
(* types (PlanTypeOK), that the loop, when it ends, has done what          *)
(* YamaTrabajos takes as a single step (PlanCumple), and that it balances  *)
(* the load while nobody reloads (CargaPareja).                            *)
(***************************************************************************)
EXTENDS YamaPlanificador, FiniteSetTheorems, SequenceTheorems, TLAPS

LEMMA MenorDe ==
  ASSUME NEW S \in SUBSET Nat, S # {}
  PROVE  \E x \in S : \A y \in S : x <= y
  <1>1. \E x \in S : \A y \in S : ~ (<<y, x>> \in OpToRel(<, Nat))
    BY WFMin, NatLessThanWellFounded
  <1>2. PICK x \in S : \A y \in S : ~ (<<y, x>> \in OpToRel(<, Nat))  BY <1>1
  <1>3. \A y \in S : ~ (y < x)  BY <1>2 DEF OpToRel
  <1> QED  BY <1>3

LEMMA MayorDe ==
  ASSUME NEW k \in Nat, NEW S \in SUBSET (0..k), S # {}
  PROVE  \E x \in S : \A y \in S : y <= x
  <1> DEFINE T == {k - x : x \in S}
  <1>0. \A x \in S : x \in Nat /\ k - x \in Nat  OBVIOUS
  <1>1. T \in SUBSET Nat /\ T # {}  BY <1>0
  <1>2. PICK z \in T : \A y \in T : z <= y  BY <1>1, MenorDe
  <1>3. PICK x \in S : z = k - x  BY <1>2
  <1>4. \A y \in S : k - x <= k - y  BY <1>2, <1>3
  <1>5. x \in 0..k /\ \A y \in S : y \in 0..k  OBVIOUS
  <1>6. \A y \in S : y <= x  BY <1>4, <1>5
  <1> QED  BY <1>6

-----------------------------------------------------------------------------
(* The file and the nodes that hold it                                     *)

LEMMA ArchivoEs ==
  ASSUME NEW j \in Jobs
  PROVE  /\ Len(Copias[j]) \in Nat \ {0} /\ Bloques(j) = 1..Len(Copias[j])
         /\ \A b \in Bloques(j) : /\ Copias[j][b] \subseteq Nodos /\ Copias[j][b] # {}
                                  /\ Copias[j][b] \subseteq ConBloques(j)
         /\ ConBloques(j) \subseteq Nodos /\ ConBloques(j) # {} /\ IsFiniteSet(ConBloques(j))
  <1>1. Copias[j] \in Seq((SUBSET Nodos) \ {{}}) /\ Copias[j] # <<>>  BY SupuestoTabla
  <1>2. Len(Copias[j]) \in Nat \ {0} /\ Bloques(j) = 1..Len(Copias[j])  BY <1>1 DEF Bloques
  <1>3. \A b \in Bloques(j) : Copias[j][b] \in (SUBSET Nodos) \ {{}}  BY <1>1, <1>2
  <1>4. \A b \in Bloques(j) : Copias[j][b] \subseteq ConBloques(j)  BY DEF ConBloques
  <1>5. ConBloques(j) \subseteq Nodos  BY <1>3 DEF ConBloques
  <1>6. 1 \in Bloques(j)  BY <1>2
  <1>7. ConBloques(j) # {}  BY <1>3, <1>4, <1>6
  <1>8. IsFiniteSet(ConBloques(j))  BY <1>5, SupuestoPlanificador, FS_Subset
  <1> QED  BY <1>2, <1>3, <1>4, <1>5, <1>7, <1>8

\* No list of nodes leaves one out.
LEMMA OrdenesSon ==
  ASSUME NEW t, NEW d, NEW N, IsFiniteSet(N), N # {}, NEW l \in Ordenes(t, d, N)
  PROVE  /\ l \in Seq(N) /\ Len(l) = Cardinality(N) /\ Len(l) \in Nat \ {0}
         /\ \A n \in N : \E p \in DOMAIN l : l[p] = n
  <1> DEFINE K == Cardinality(N)
  <1>1. K \in Nat \ {0}  BY FS_CardinalityType, FS_EmptySet
  <1>2. l \in [1..K -> N] /\ \A p, q \in 1..K : p < q => l[p] # l[q]  BY DEF Ordenes
  <1> HIDE DEF K
  <1>3. \A p, q \in 1..K : l[p] = l[q] => p = q
    <2>1. \A p, q \in 1..K : p < q \/ q < p \/ p = q  BY <1>1
    <2> QED  BY <1>2, <2>1
  <1>4. l \in Injection(1..K, N)  BY <1>2, <1>3 DEF Injection, IsInjective
  <1>5. IsFiniteSet(1..K) /\ Cardinality(1..K) = K  BY <1>1, FS_Interval
  <1>6. l \in Surjection(1..K, N)  BY <1>4, <1>5, FS_Injection DEF K
  <1>7. \A n \in N : \E p \in 1..K : l[p] = n  BY <1>6 DEF Surjection
  <1>8. l \in Seq(N) /\ Len(l) = K /\ DOMAIN l = 1..K  BY <1>1, <1>2
  <1> QED  BY <1>1, <1>7, <1>8 DEF K

LEMMA TrabajosSon ==
  ASSUME NEW t \in Seq(Entrada), NEW n
  PROVE  TrabajosActuales(t, n) \in 0..Len(t)
  <1> DEFINE S == {i \in DOMAIN t : t[i].nodo = n /\ t[i].estado = "ENPROCESO"}
  <1>1. Len(t) \in Nat /\ DOMAIN t = 1..Len(t)  OBVIOUS
  <1>2. IsFiniteSet(1..Len(t)) /\ Cardinality(1..Len(t)) = Len(t)  BY <1>1, FS_Interval
  <1>3. S \subseteq 1..Len(t)  BY <1>1
  <1> HIDE DEF S
  <1>4. IsFiniteSet(S) /\ Cardinality(S) <= Len(t)  BY <1>2, <1>3, FS_Subset
  <1>5. Cardinality(S) \in Nat  BY <1>4, FS_CardinalityType
  <1>6. Cardinality(S) \in 0..Len(t)  BY <1>1, <1>4, <1>5
  <1> QED  BY <1>6 DEF TrabajosActuales, S

\* There is a busiest node.
LEMMA MasCargado ==
  ASSUME NEW t \in Seq(Entrada), NEW N, N # {}
  PROVE  LET S == {TrabajosActuales(t, k) : k \in N}
             M == CHOOSE m \in S : \A k \in N : TrabajosActuales(t, k) <= m
         IN  M \in S /\ \A k \in N : TrabajosActuales(t, k) <= M
  <1> DEFINE S == {TrabajosActuales(t, k) : k \in N}
             M == CHOOSE m \in S : \A k \in N : TrabajosActuales(t, k) <= m
  <1>1. Len(t) \in Nat  OBVIOUS
  <1>2. S \in SUBSET (0..Len(t)) /\ S # {}  BY TrabajosSon
  <1>3. \E m \in S : \A y \in S : y <= m
    <2> HIDE DEF S
    <2> QED  BY <1>1, <1>2, MayorDe
  <1>4. M \in S /\ \A k \in N : TrabajosActuales(t, k) <= M  BY <1>3
  <1> QED  BY <1>4

\* What a node gets for being less loaded is never negative.
LEMMA PWlEs ==
  ASSUME NEW t \in Seq(Entrada), NEW N, NEW n \in N
  PROVE  pWl(t, N, n) \in Nat
  <1> DEFINE S == {TrabajosActuales(t, k) : k \in N}
             M == CHOOSE m \in S : \A k \in N : TrabajosActuales(t, k) <= m
  <1>1. Len(t) \in Nat  OBVIOUS
  <1>2. S \in SUBSET (0..Len(t))  BY TrabajosSon
  <1>4. M \in S /\ \A k \in N : TrabajosActuales(t, k) <= M  BY MasCargado
  <1>5. M \in Nat /\ TrabajosActuales(t, n) \in Nat
    <2>1. TrabajosActuales(t, n) \in 0..Len(t)  BY TrabajosSon
    <2> HIDE DEF S, M
    <2> QED  BY <1>1, <1>2, <1>4, <2>1
  <1>6. M - TrabajosActuales(t, n) \in Nat
    <2> HIDE DEF M
    <2> QED  BY <1>4, <1>5
  <1> QED  BY <1>6 DEF pWl

-----------------------------------------------------------------------------
(* The invariant                                                           *)

\* The entry of block b, once the loop has passed it: after those there were.
L0    == Len(tabla) - (bloque - 1)
Ya(b) == tabla[L0 + b]

TipoPlan ==
  /\ job \in Jobs /\ tabla \in Seq(Entrada) /\ L0 >= 0
  /\ algoritmo \in Algoritmos /\ base \in Bases /\ senal \in {"ninguna", "leido"}
  /\ fase \in {"registrando", "planificando", "planificado", "salida"}
  /\ DOMAIN disp \subseteq ConBloques(job) /\ disp \in [DOMAIN disp -> Nat]
  /\ bloque \in 1..(Len(Copias[job]) + 1) /\ fallos \in BOOLEAN
  /\ recargas \in 0..MaxRecargas /\ lista \in Seq(ConBloques(job)) /\ sumados \in 0..Len(lista)

\* The list has every node that holds a block, and the hand is on it.
EnLista ==
  lista # <<>> =>
    /\ DOMAIN disp = ConBloques(job) /\ reloj \in 1..Len(lista) /\ inicial \in 1..Len(lista)
    /\ \A n \in ConBloques(job) : \E p \in 1..Len(lista) : lista[p] = n

EnFase ==
  /\ fase = "registrando" => lista = <<>> /\ bloque = 1 /\ reloj = 1 /\ inicial = 1
  /\ fase = "planificando" => lista # <<>> /\ bloque <= Len(Copias[job])
  /\ fase = "planificado" => bloque = Len(Copias[job]) + 1

\* Entry e is what a plan may say of block b.
BienPuesto(e, b) ==
  /\ e.nodo \in Copias[job][b] /\ e = Nueva(job, "TRANSFORMACION", e.nodo, b, e.copia)
  /\ IF Copias[job][b] = {e.nodo} THEN e.copia = Nulo ELSE e.copia \in Copias[job][b] \ {e.nodo}

Puestos == \A b \in 1..(bloque - 1) : BienPuesto(Ya(b), b)

\* A dictionary has lost a block only to the node it went to.
Diccionarios ==
  libres = {c \in Nodos \X Bloques(job) :
              c[1] \in Copias[job][c[2]] /\ (c[2] < bloque => c[1] # Ya(c[2]).nodo)}

InvPlan == TipoPlan /\ EnLista /\ EnFase /\ Puestos /\ Diccionarios

-----------------------------------------------------------------------------
(* Steps that place no block                                               *)

LEMMA Inicio == Init => InvPlan
  <1> SUFFICES ASSUME Init PROVE InvPlan  OBVIOUS
  <1>1. job \in Jobs /\ tabla \in Seq(Entrada)  BY SupuestoPlanificador DEF Init
  <1>2. Len(Copias[job]) \in Nat \ {0} /\ Len(tabla) \in Nat  BY <1>1, ArchivoEs
  <1>3. L0 = Len(tabla) /\ bloque = 1 /\ lista = <<>> /\ sumados = 0 /\ disp = <<>>
    BY <1>2 DEF Init, L0
  <1>4. DOMAIN disp = {} /\ Len(lista) = 0 /\ lista \in Seq(ConBloques(job))  BY <1>3
  <1>5. TipoPlan
    <2>1. MaxRecargas \in Nat  BY SupuestoPlanificador
    <2>2. recargas \in 0..MaxRecargas /\ sumados \in 0..Len(lista)  BY <1>3, <1>4, <2>1 DEF Init
    <2>3. L0 >= 0 /\ bloque \in 1..(Len(Copias[job]) + 1)  BY <1>2, <1>3
    <2>4. disp \in [DOMAIN disp -> Nat]  BY <1>3, <1>4
    <2> QED  BY <1>1, <1>4, <2>2, <2>3, <2>4 DEF TipoPlan, Init
  <1>6. EnLista /\ EnFase  BY <1>3 DEF EnLista, EnFase, Init
  <1>7. Puestos  BY <1>3 DEF Puestos
  <1>8. Diccionarios
    <2>1. \A b \in Bloques(job) : ~ (b < 1)  BY <1>1, ArchivoEs
    <2> QED  BY <1>3, <2>1 DEF Diccionarios, Init
  <1> QED  BY <1>5, <1>6, <1>7, <1>8 DEF InvPlan

LEMMA NadaPuesto ==
  ASSUME Puestos, Diccionarios, UNCHANGED <<job, tabla, libres, bloque>>
  PROVE  Puestos' /\ Diccionarios' /\ L0' = L0
  BY DEF Puestos, Diccionarios, BienPuesto, Ya, L0, Bloques

LEMMA ManoEnLista ==
  ASSUME InvPlan, fase = "planificando"
  PROVE  /\ lista # <<>> /\ Len(lista) \in Nat \ {0} /\ reloj \in 1..Len(lista)
         /\ Mano \in ConBloques(job) /\ DOMAIN disp = ConBloques(job)
         /\ disp[Mano] \in Nat /\ bloque \in Bloques(job) /\ job \in Jobs
  <1>1. lista # <<>> /\ reloj \in 1..Len(lista) /\ DOMAIN disp = ConBloques(job)
    BY DEF InvPlan, EnFase, EnLista
  <1>2. lista \in Seq(ConBloques(job)) /\ disp \in [DOMAIN disp -> Nat] /\ job \in Jobs
    BY DEF InvPlan, TipoPlan
  <1>3. Len(lista) \in Nat \ {0} /\ Mano \in ConBloques(job)  BY <1>1, <1>2 DEF Mano
  <1>4. bloque \in Bloques(job)
    <2>1. bloque \in 1..(Len(Copias[job]) + 1) /\ bloque <= Len(Copias[job])
      BY DEF InvPlan, EnFase, TipoPlan
    <2> QED  BY <1>2, <2>1, ArchivoEs
  <1> QED  BY <1>1, <1>2, <1>3, <1>4

\* The hand goes round the list and never leaves it.
LEMMA AvanzaEnLista ==
  ASSUME NEW k \in Nat \ {0}, NEW r \in 1..k
  PROVE  (r % k) + 1 \in 1..k
  OBVIOUS

LEMMA Suma ==
  ASSUME NEW d, NEW D, d \in [D -> Nat], NEW n \in D, NEW x \in Nat
  PROVE  LET e == [d EXCEPT ![n] = @ + x] IN e \in [D -> Nat] /\ DOMAIN e = D
  OBVIOUS

LEMMA PasoRegistrar ==
  ASSUME InvPlan, NEW n \in Nodos, registrarNodo(n)
  PROVE  InvPlan'
  <1>1. Puestos' /\ Diccionarios' /\ L0' = L0  BY NadaPuesto DEF InvPlan, registrarNodo
  <1>2. lista = <<>> /\ bloque = 1 /\ reloj = 1 /\ inicial = 1
    BY DEF InvPlan, EnFase, registrarNodo
  <1>3. base \in Nat  BY SupuestoPlanificador DEF InvPlan, TipoPlan
  <1>4. DOMAIN disp' \subseteq ConBloques(job) /\ disp' \in [DOMAIN disp' -> Nat]
    <2>1. disp' = [k \in DOMAIN disp \cup {n} |-> IF k = n THEN base ELSE disp[k]]
      BY DEF registrarNodo
    <2>2. disp \in [DOMAIN disp -> Nat] /\ DOMAIN disp \subseteq ConBloques(job)
      BY DEF InvPlan, TipoPlan
    <2> QED  BY <1>3, <2>1, <2>2 DEF registrarNodo
  <1>5. TipoPlan'
    BY <1>1, <1>4 DEF InvPlan, TipoPlan, registrarNodo, configuracion, ConBloques, Bloques
  <1>6. EnLista' /\ EnFase'  BY <1>2 DEF EnLista, EnFase, registrarNodo
  <1> QED  BY <1>1, <1>5, <1>6 DEF InvPlan

LEMMA PasoOrdenar ==
  ASSUME InvPlan, ordenarNodos
  PROVE  InvPlan'
  <1> DEFINE N == ConBloques(job)
  <1>1. Puestos' /\ Diccionarios' /\ L0' = L0  BY NadaPuesto DEF InvPlan, ordenarNodos
  <1>2. bloque = 1 /\ reloj = 1 /\ inicial = 1 /\ lista = <<>>
    BY DEF InvPlan, EnFase, ordenarNodos
  <1>3. DOMAIN disp = N /\ disp \in [N -> Nat] /\ tabla \in Seq(Entrada) /\ job \in Jobs
    BY DEF InvPlan, TipoPlan, ordenarNodos
  <1>4. \A n \in N : pWl(tabla, N, n) \in Nat  BY <1>3, PWlEs
  <1>5. \A n \in N : disp[n] + (IF algoritmo = "WEIGHTEDCLOCK" THEN pWl(tabla, N, n) ELSE 0) \in Nat
    <2> TAKE n \in N
    <2>1. pWl(tabla, N, n) \in Nat /\ disp[n] \in Nat  BY <1>3, <1>4
    <2> QED  BY <2>1
  <1>6. disp' \in [N -> Nat] /\ DOMAIN disp' = N  BY <1>3, <1>5 DEF ordenarNodos, Disponibilidad
  <1>7. IsFiniteSet(N) /\ N # {} /\ Len(Copias[job]) \in Nat \ {0}  BY <1>3, ArchivoEs
  <1>8. lista' \in Ordenes(tabla, disp', N)  BY DEF ordenarNodos
  <1>9. /\ lista' \in Seq(N) /\ Len(lista') \in Nat \ {0}
        /\ \A n \in N : \E p \in DOMAIN lista' : lista'[p] = n
    <2> HIDE DEF N
    <2> QED  BY <1>7, <1>8, OrdenesSon
  <1>10. job' = job /\ N' = N  BY DEF ordenarNodos, ConBloques, Bloques
  <1>11. sumados = 0
    BY <1>2 DEF InvPlan, TipoPlan
  <1>12. TipoPlan'
    <2>1. sumados' \in 0..Len(lista')  BY <1>9, <1>11 DEF ordenarNodos
    <2>2. fase' = "planificando"  BY DEF ordenarNodos
    <2> QED
      BY <1>1, <1>6, <1>9, <1>10, <2>1, <2>2 DEF InvPlan, TipoPlan, ordenarNodos, configuracion
  <1>13. EnLista'
    <2>1. DOMAIN lista' = 1..Len(lista') /\ 1 \in 1..Len(lista')  BY <1>9
    <2>2. reloj' = 1 /\ inicial' = 1  BY <1>2 DEF ordenarNodos
    <2> QED  BY <1>6, <1>9, <1>10, <2>1, <2>2 DEF EnLista
  <1>14. EnFase'
    <2>1. fase' = "planificando" /\ bloque' = 1 /\ job' = job  BY <1>2 DEF ordenarNodos
    <2>2. lista' # <<>>  BY <1>9
    <2>3. 1 <= Len(Copias[job])  BY <1>7
    <2> QED  BY <2>1, <2>2, <2>3 DEF EnFase
  <1> QED  BY <1>1, <1>12, <1>13, <1>14 DEF InvPlan

LEMMA PasoNoTiene ==
  ASSUME InvPlan, NoTieneElBloque
  PROVE  InvPlan'
  <1>1. Puestos' /\ Diccionarios' /\ L0' = L0  BY NadaPuesto DEF InvPlan, NoTieneElBloque
  <1>2. fase = "planificando"  BY DEF NoTieneElBloque
  <1>3. Len(lista) \in Nat \ {0} /\ reloj \in 1..Len(lista)  BY <1>2, ManoEnLista
  <1>4. reloj' \in 1..Len(lista)  BY <1>3, AvanzaEnLista DEF NoTieneElBloque, Avanza
  <1>5. TipoPlan'
    BY <1>1 DEF InvPlan, TipoPlan, NoTieneElBloque, configuracion, ConBloques, Bloques
  <1>6. EnLista' /\ EnFase'
    BY <1>4 DEF InvPlan, EnLista, EnFase, NoTieneElBloque, ConBloques, Bloques
  <1> QED  BY <1>1, <1>5, <1>6 DEF InvPlan

LEMMA PasoSinDisponibilidad ==
  ASSUME InvPlan, SinDisponibilidad
  PROVE  InvPlan'
  <1>1. Puestos' /\ Diccionarios' /\ L0' = L0  BY NadaPuesto DEF InvPlan, SinDisponibilidad
  <1>2. fase = "planificando"  BY DEF SinDisponibilidad
  <1>3. /\ Len(lista) \in Nat \ {0} /\ reloj \in 1..Len(lista)
        /\ Mano \in DOMAIN disp /\ disp \in [DOMAIN disp -> Nat]
    BY <1>2, ManoEnLista DEF InvPlan, TipoPlan
  <1>4. reloj' \in 1..Len(lista)  BY <1>3, AvanzaEnLista DEF SinDisponibilidad, Avanza
  <1>5. base \in Nat  BY SupuestoPlanificador DEF InvPlan, TipoPlan
  <1>6. disp' = [disp EXCEPT ![Mano] = @ + base]  BY DEF SinDisponibilidad, Recarga
  <1>7. disp' \in [DOMAIN disp' -> Nat] /\ DOMAIN disp' = DOMAIN disp
    BY <1>3, <1>5, <1>6, Suma
  <1>8. TipoPlan'
    BY <1>1, <1>7 DEF InvPlan, TipoPlan, SinDisponibilidad, configuracion, ConBloques, Bloques
  <1>9. EnLista' /\ EnFase'
    BY <1>4, <1>7 DEF InvPlan, EnLista, EnFase, SinDisponibilidad, ConBloques, Bloques
  <1> QED  BY <1>1, <1>8, <1>9 DEF InvPlan

LEMMA PasoSumaBase ==
  ASSUME InvPlan, SumaBase
  PROVE  InvPlan'
  <1> DEFINE n == lista[sumados + 1]
  <1>1. Puestos' /\ Diccionarios' /\ L0' = L0  BY NadaPuesto DEF InvPlan, SumaBase
  <1>2. fase = "planificando"  BY DEF SumaBase
  <1>3. Len(lista) \in Nat \ {0} /\ DOMAIN disp = ConBloques(job)  BY <1>2, ManoEnLista
  <1>4. /\ sumados \in 0..Len(lista) /\ sumados < Len(lista)
        /\ lista \in Seq(ConBloques(job)) /\ disp \in [DOMAIN disp -> Nat]
    BY DEF InvPlan, TipoPlan, SumaBase, HayQueSumar
  <1>5. sumados + 1 \in 1..Len(lista)  BY <1>3, <1>4
  <1>6. n \in DOMAIN disp  BY <1>3, <1>4, <1>5
  <1>7. base \in Nat  BY SupuestoPlanificador DEF InvPlan, TipoPlan
  <1>8. disp' \in [DOMAIN disp' -> Nat] /\ DOMAIN disp' = DOMAIN disp
    <2>1. disp' = [disp EXCEPT ![n] = @ + base]  BY DEF SumaBase
    <2> HIDE DEF n
    <2> QED  BY <1>4, <1>6, <1>7, <2>1, Suma
  <1>9. sumados' \in 0..Len(lista)  BY <1>3, <1>5 DEF SumaBase
  <1>10. TipoPlan'
    BY <1>1, <1>8, <1>9 DEF InvPlan, TipoPlan, SumaBase, configuracion, ConBloques, Bloques
  <1>11. EnLista' /\ EnFase'
    BY <1>8 DEF InvPlan, EnLista, EnFase, SumaBase, ConBloques, Bloques
  <1> QED  BY <1>1, <1>10, <1>11 DEF InvPlan

\* The signal touches what the planner reads of the configuration, and nothing else.
LEMMA PasoSenal ==
  ASSUME InvPlan, SIGUSR1
  PROVE  InvPlan'
  <1>1. UNCHANGED <<job, tabla, lista, disp, libres, bloque, reloj, inicial, fallos, sumados>>
    BY DEF SIGUSR1, recargarAlgoritmo, recargarBase, recargaMala, plan
  <1>2. Puestos' /\ Diccionarios' /\ L0' = L0  BY <1>1, NadaPuesto DEF InvPlan
  <1>3. /\ algoritmo' \in Algoritmos /\ base' \in Bases /\ senal' \in {"ninguna", "leido"}
        /\ recargas' \in 0..MaxRecargas /\ fase' \in {fase, "salida"}
    BY SupuestoPlanificador
       DEF InvPlan, TipoPlan, SIGUSR1, recargarAlgoritmo, recargarBase, recargaMala, plan
  <1>4. TipoPlan'  BY <1>1, <1>2, <1>3 DEF InvPlan, TipoPlan, ConBloques, Bloques
  <1>5. EnLista' /\ EnFase'  BY <1>1, <1>3 DEF InvPlan, EnLista, EnFase, ConBloques, Bloques
  <1> QED  BY <1>2, <1>4, <1>5 DEF InvPlan

-----------------------------------------------------------------------------
(* The step that places a block                                            *)

\* buscarCopia finds another holder whenever there is one, for the list has every node.
LEMMA BuscarCopiaEs ==
  ASSUME NEW C, NEW n \in C, NEW L, NEW b, NEW N, lista \in Seq(N), C \subseteq N,
         \A k \in N : <<k, b>> \in L <=> k \in C \ {n},
         \A k \in N : \E p \in 1..Len(lista) : lista[p] = k
  PROVE  IF C = {n} THEN buscarCopia(L, b) = Nulo ELSE buscarCopia(L, b) \in C \ {n}
  <1> DEFINE P == {p \in DOMAIN lista : <<lista[p], b>> \in L}
  <1>1. DOMAIN lista = 1..Len(lista) /\ \A p \in DOMAIN lista : lista[p] \in N  OBVIOUS
  <1>2. \A p \in P : lista[p] \in C \ {n}  BY <1>1
  <1>3. CASE C = {n}
    <2>1. P = {}  BY <1>2, <1>3
    <2> QED  BY <1>3, <2>1 DEF buscarCopia
  <1>4. CASE C # {n}
    <2>1. PICK k \in C : k # n  BY <1>4
    <2>2. PICK p \in 1..Len(lista) : lista[p] = k  BY <2>1
    <2>3. p \in P  BY <1>1, <2>1, <2>2
    <2>4. P \in SUBSET Nat /\ P # {}  BY <1>1, <2>3
    <2> DEFINE m == CHOOSE p_1 \in P : \A q \in P : p_1 <= q
    <2>5. \E p_1 \in P : \A q \in P : p_1 <= q
      <3> HIDE DEF P
      <3> QED  BY <2>4, MenorDe
    <2>6. m \in P  BY <2>5
    <2>7. buscarCopia(L, b) = lista[m]  BY <2>4 DEF buscarCopia
    <2> HIDE DEF m
    <2> QED  BY <1>2, <1>4, <2>6, <2>7
  <1> QED  BY <1>3, <1>4

\* What the earlier entries say is not touched by the new one.
LEMMA UnaMas ==
  ASSUME NEW t \in Seq(Entrada), NEW e, NEW b \in Nat \ {0}, NEW l, l = Len(t) - (b - 1), l >= 0
  PROVE  /\ Len(Append(t, e)) - ((b + 1) - 1) = l
         /\ \A i \in 1..(b - 1) : Append(t, e)[l + i] = t[l + i]
         /\ Append(t, e)[l + b] = e
  <1>1. Len(t) \in Nat /\ Len(Append(t, e)) = Len(t) + 1  OBVIOUS
  <1>2. l \in Nat /\ l + b = Len(t) + 1  BY <1>1
  <1>3. \A i \in 1..(b - 1) : l + i \in 1..Len(t)  BY <1>1, <1>2
  <1>4. \A i \in 1..Len(t) : Append(t, e)[i] = t[i]  OBVIOUS
  <1>5. Append(t, e)[Len(t) + 1] = e  OBVIOUS
  <1>6. \A i \in 1..(b - 1) : Append(t, e)[l + i] = t[l + i]  BY <1>3, <1>4
  <1>7. Append(t, e)[l + b] = e  BY <1>2, <1>5
  <1>8. Len(Append(t, e)) - ((b + 1) - 1) = l  BY <1>1, <1>2
  <1> QED  BY <1>6, <1>7, <1>8

LEMMA PasoAsigna ==
  ASSUME InvPlan, Asigna
  PROVE  InvPlan'
  <1> DEFINE n == Mano
             C == Copias[job][bloque]
             c == buscarCopia(Quedan(n, bloque), bloque)
             e == Nueva(job, "TRANSFORMACION", n, bloque, c)
  <1>1. fase = "planificando" /\ <<n, bloque>> \in libres /\ disp[n] > 0  BY DEF Asigna
  <1>2. /\ Len(lista) \in Nat \ {0} /\ reloj \in 1..Len(lista) /\ n \in ConBloques(job)
        /\ DOMAIN disp = ConBloques(job) /\ disp[n] \in Nat /\ bloque \in Bloques(job)
        /\ job \in Jobs /\ lista # <<>>
    BY <1>1, ManoEnLista
  <1>3. /\ tabla \in Seq(Entrada) /\ lista \in Seq(ConBloques(job)) /\ L0 >= 0
        /\ disp \in [DOMAIN disp -> Nat]
    BY DEF InvPlan, TipoPlan
  <1>4. /\ Len(Copias[job]) \in Nat \ {0} /\ Bloques(job) = 1..Len(Copias[job])
        /\ C \subseteq Nodos /\ C # {} /\ C \subseteq ConBloques(job)
        /\ ConBloques(job) \subseteq Nodos
    BY <1>2, ArchivoEs
  <1>5. bloque \in Nat \ {0} /\ bloque <= Len(Copias[job])  BY <1>2, <1>4
  <1>6. /\ job' = job /\ lista' = lista /\ bloque' = bloque + 1 /\ tabla' = Append(tabla, e)
        /\ libres' = libres \ {<<n, bloque>>} /\ disp' = [disp EXCEPT ![n] = @ - 1]
        /\ sumados' = 0 /\ fallos' = FALSE /\ inicial' = reloj'
        /\ reloj' = (reloj % Len(lista)) + 1
        /\ fase' = IF bloque = Len(Copias[job]) THEN "planificado" ELSE fase
        /\ UNCHANGED configuracion
    BY DEF Asigna, Quedan, Avanza
  <1>7. n \in C /\ \A k \in ConBloques(job) : <<k, bloque>> \in libres <=> k \in C
    <2>1. ~ (bloque < bloque)  BY <1>5
    <2>2. \A k \in Nodos : <<k, bloque>> \in libres <=> k \in C
      BY <1>2, <2>1 DEF InvPlan, Diccionarios
    <2> QED  BY <1>1, <1>2, <1>4, <2>2
  <1>8. IF C = {n} THEN c = Nulo ELSE c \in C \ {n}
    <2>1. \A k \in ConBloques(job) : <<k, bloque>> \in Quedan(n, bloque) <=> k \in C \ {n}
      BY <1>7 DEF Quedan
    <2>2. \A k \in ConBloques(job) : \E p \in 1..Len(lista) : lista[p] = k
      BY <1>2 DEF InvPlan, EnLista
    <2> HIDE DEF n, C
    <2> QED  BY <1>3, <1>4, <1>7, <2>1, <2>2, BuscarCopiaEs
  <1>9. e \in Entrada
    <2>1. n \in Nodos /\ c \in Nodos \cup {Nulo, Basura}  BY <1>4, <1>7, <1>8
    <2> HIDE DEF n, c
    <2> QED  BY <1>2, <1>5, <2>1 DEF Nueva, Entrada, Etapas, Estados
  <1>10. BienPuesto(e, bloque)
    <2> HIDE DEF n, c
    <2> QED  BY <1>7, <1>8 DEF BienPuesto, Nueva
  <1> HIDE DEF n, C, c, e
  <1>11. /\ L0' = L0 /\ \A b \in 1..(bloque - 1) : Ya(b)' = Ya(b)
         /\ \A b \in {bloque} : Ya(b)' = e
    <2>1. /\ Len(Append(tabla, e)) - ((bloque + 1) - 1) = L0
          /\ \A i \in 1..(bloque - 1) : Append(tabla, e)[L0 + i] = tabla[L0 + i]
          /\ Append(tabla, e)[L0 + bloque] = e
      BY <1>3, <1>5, UnaMas DEF L0
    <2>2. L0' = L0  BY <1>6, <2>1 DEF L0
    <2> QED  BY <1>6, <2>1, <2>2 DEF Ya
  <1>12. ConBloques(job)' = ConBloques(job) /\ Bloques(job)' = Bloques(job)
    BY <1>6 DEF ConBloques, Bloques
  <1>13. disp' \in [DOMAIN disp' -> Nat] /\ DOMAIN disp' = ConBloques(job)
    <2>1. disp[n] - 1 \in Nat  BY <1>1, <1>2
    <2> QED  BY <1>2, <1>3, <1>6, <2>1
  <1>14. reloj' \in 1..Len(lista)  BY <1>2, <1>6, AvanzaEnLista
  <1>15. TipoPlan'
    <2>1. tabla' \in Seq(Entrada)  BY <1>3, <1>6, <1>9
    <2>2. bloque' \in 1..(Len(Copias[job]) + 1)  BY <1>4, <1>5, <1>6
    <2>3. sumados' \in 0..Len(lista)  BY <1>2, <1>6
    <2>4. fase' \in {"registrando", "planificando", "planificado", "salida"}  BY <1>1, <1>6
    <2>5. /\ algoritmo' \in Algoritmos /\ base' \in Bases /\ senal' \in {"ninguna", "leido"}
          /\ recargas' \in 0..MaxRecargas
      BY <1>6 DEF InvPlan, TipoPlan, configuracion
    <2> QED  BY <1>2, <1>3, <1>6, <1>11, <1>12, <1>13, <2>1, <2>2, <2>3, <2>4, <2>5 DEF TipoPlan
  <1>16. EnLista'
    <2>1. \A k \in ConBloques(job) : \E p \in 1..Len(lista) : lista[p] = k
      BY <1>2 DEF InvPlan, EnLista
    <2> QED  BY <1>6, <1>12, <1>13, <1>14, <2>1 DEF EnLista
  <1>17. EnFase'
    <2>1. bloque # Len(Copias[job]) => bloque + 1 <= Len(Copias[job])  BY <1>4, <1>5
    <2> QED  BY <1>1, <1>2, <1>6, <2>1 DEF EnFase
  <1>18. Puestos'
    <2> SUFFICES ASSUME NEW b \in 1..bloque PROVE BienPuesto(Ya(b), b)'
      BY <1>5, <1>6 DEF Puestos
    <2>2. CASE b = bloque  BY <1>6, <1>10, <1>11, <2>2 DEF BienPuesto
    <2>3. CASE b \in 1..(bloque - 1)
      <3>1. BienPuesto(Ya(b), b)  BY <2>3 DEF InvPlan, Puestos
      <3> QED  BY <1>6, <1>11, <2>3, <3>1 DEF BienPuesto
    <2>4. b = bloque \/ b \in 1..(bloque - 1)  BY <1>5
    <2> QED  BY <2>2, <2>3, <2>4
  <1>19. Diccionarios'
    <2>1. e.nodo = n  BY DEF e, Nueva
    <2>2. \A b \in Bloques(job) : /\ b < bloque => Ya(b)' = Ya(b)
                                  /\ b = bloque => Ya(b)'.nodo = n
                                  /\ b < bloque + 1 <=> b < bloque \/ b = bloque
      BY <1>4, <1>5, <1>11, <2>1
    <2>3. libres = {k \in Nodos \X Bloques(job) :
              k[1] \in Copias[job][k[2]] /\ (k[2] < bloque => k[1] # Ya(k[2]).nodo)}
      BY DEF InvPlan, Diccionarios
    <2>4. libres \ {<<n, bloque>>} = {k \in Nodos \X Bloques(job) :
              k[1] \in Copias[job][k[2]] /\ (k[2] < bloque + 1 => k[1] # (Ya(k[2])').nodo)}
      BY <2>2, <2>3
    <2> QED  BY <1>6, <1>12, <2>4 DEF Diccionarios
  <1> QED  BY <1>15, <1>16, <1>17, <1>18, <1>19 DEF InvPlan

-----------------------------------------------------------------------------
(* What the invariant gives                                                *)

LEMMA InvPlanPaso ==
  ASSUME InvPlan, [Next]_varsPlan
  PROVE  InvPlan'
  <1>1. CASE Planifica

      BY <1>1, PasoRegistrar, PasoOrdenar, PasoNoTiene, PasoSinDisponibilidad, PasoSumaBase, PasoAsigna
       DEF Planifica
  <1>2. CASE SIGUSR1  BY <1>2, PasoSenal
  <1>3. CASE UNCHANGED varsPlan
    <2>1. UNCHANGED <<algoritmo, base, senal, recargas, job, tabla, fase, lista, disp, libres,
                      bloque, reloj, inicial, fallos, sumados>>
      BY <1>3 DEF varsPlan, configuracion, plan
    <2>2. Puestos' /\ Diccionarios' /\ L0' = L0  BY <2>1, NadaPuesto DEF InvPlan
    <2> QED
      BY <2>1, <2>2 DEF InvPlan, TipoPlan, EnLista, EnFase, ConBloques, Bloques
  <1> QED  BY <1>1, <1>2, <1>3 DEF Next

LEMMA InvPlanSiempre == Spec => []InvPlan
  <1>1. InvPlan /\ [Next]_varsPlan => InvPlan'  BY InvPlanPaso
  <1> QED  BY Inicio, <1>1, PTL DEF Spec

LEMMA TipoDeInv ==
  ASSUME InvPlan
  PROVE  PlanTypeOK
  <1>1. libres \subseteq Nodos \X Bloques(job)  BY DEF InvPlan, Diccionarios
  <1>2. lista = <<>> \/ (DOMAIN disp = ConBloques(job) /\ reloj \in DOMAIN lista /\ inicial \in DOMAIN lista)
    <2>1. DOMAIN lista = 1..Len(lista)  BY DEF InvPlan, TipoPlan
    <2> QED  BY <2>1 DEF InvPlan, EnLista
  <1> QED  BY <1>1, <1>2 DEF InvPlan, TipoPlan, PlanTypeOK

LEMMA LenSubSeq ==
  ASSUME NEW S, NEW t \in Seq(S), NEW l \in Nat, NEW k \in Nat, l + k = Len(t)
  PROVE  /\ SubSeq(t, 1, l) \in Seq(S) /\ Len(SubSeq(t, 1, l)) = l
         /\ \A i \in 1..l : SubSeq(t, 1, l)[i] = t[i]
  <1>1. Len(t) \in Nat /\ l <= Len(t)  OBVIOUS
  <1>2. \A i \in 1..l : i \in 1..Len(t) /\ t[i] \in S  BY <1>1
  <1>3. SubSeq(t, 1, l) = [i \in 1..l |-> t[i]]  BY <1>1
  <1> QED  BY <1>2, <1>3

LEMMA EsSecuencia ==
  ASSUME NEW S, NEW k \in Nat, NEW e, e = [i \in 1..k |-> e[i]], \A i \in 1..k : e[i] \in S
  PROVE  e \in Seq(S) /\ Len(e) = k
  <1>1. e \in [1..k -> S]  OBVIOUS
  <1> QED  BY <1>1

LEMMA SubSeqMas ==
  ASSUME NEW S, NEW t \in Seq(S), NEW l \in Nat, NEW k \in Nat, l + k = Len(t),
         NEW e \in Seq(S), Len(e) = k, \A i \in 1..k : e[i] = t[l + i]
  PROVE  t = SubSeq(t, 1, l) \o e
  <1> DEFINE s == SubSeq(t, 1, l)
  <1>1. s \in Seq(S) /\ Len(s) = l /\ \A i \in 1..l : s[i] = t[i]  BY LenSubSeq
  <1> HIDE DEF s
  <1>2. s \o e \in Seq(S) /\ Len(s \o e) = Len(t)
    <2>1. s \o e \in Seq(S) /\ Len(s \o e) = Len(s) + Len(e)  BY <1>1, ConcatProperties
    <2> QED  BY <1>1, <2>1
  <1>3. \A i \in 1..l : (s \o e)[i] = s[i]  BY <1>1
  <1>4. \A i \in 1..k : (s \o e)[l + i] = e[i]  BY <1>1
  <1>5. \A i \in 1..Len(t) : (s \o e)[i] = t[i]
    <2> TAKE i \in 1..Len(t)
    <2>1. CASE i \in 1..l  BY <1>1, <1>3, <2>1
    <2>2. CASE i - l \in 1..k
      <3>1. (s \o e)[l + (i - l)] = e[i - l] /\ e[i - l] = t[l + (i - l)]  BY <1>4, <2>2
      <3>2. l + (i - l) = i  OBVIOUS
      <3> QED  BY <3>1, <3>2
    <2>3. i \in 1..l \/ i - l \in 1..k  OBVIOUS
    <2> QED  BY <2>1, <2>2, <2>3
  <1> QED  BY <1>2, <1>5, SeqEqual DEF s

\* When no block is left, the entries the loop added are those of a plan.
LEMMA CumpleDeInv ==
  ASSUME InvPlan
  PROVE  PlanCumple
  <1> SUFFICES ASSUME fase = "planificado"
               PROVE  /\ Plan \in Planes(job)
                      /\ tabla = Previa \o Entradas(job, Plan)
                      /\ libres = CopiasTras(job, Plan)
    BY DEF PlanCumple
  <1> DEFINE k == Len(Copias[job])
  <1>1. job \in Jobs /\ tabla \in Seq(Entrada) /\ L0 >= 0 /\ bloque = k + 1
    BY DEF InvPlan, TipoPlan, EnFase
  <1>2. k \in Nat \ {0} /\ Bloques(job) = 1..k  BY <1>1, ArchivoEs
  <1>3. \A b \in Bloques(job) : Copias[job][b] \subseteq Nodos  BY <1>1, ArchivoEs
  <1> HIDE DEF k
  <1>4. Len(tabla) \in Nat /\ L0 \in Nat /\ L0 + k = Len(tabla)  BY <1>1, <1>2 DEF L0
  <1>5. Previa = SubSeq(tabla, 1, L0)  BY DEF Previa, L0
  <1>6. Len(Previa) = L0  BY <1>1, <1>2, <1>4, <1>5, LenSubSeq
  <1>7. Plan = [b \in Bloques(job) |-> [nodo |-> Ya(b).nodo, copia |-> Ya(b).copia]]
    BY <1>6 DEF Plan, Ya
  <1>8. \A b \in Bloques(job) : BienPuesto(Ya(b), b)
    <2>1. 1..(bloque - 1) = 1..k  BY <1>1, <1>2
    <2> QED  BY <1>2, <2>1 DEF InvPlan, Puestos
  <1>9. Plan \in Planes(job)
    <2>1. \A b \in Bloques(job) :
             /\ Ya(b).nodo \in Copias[job][b]
             /\ IF Copias[job][b] = {Ya(b).nodo} THEN Ya(b).copia = Nulo
                ELSE Ya(b).copia \in Copias[job][b] \ {Ya(b).nodo}
      BY <1>8 DEF BienPuesto
    <2>2. \A b \in Bloques(job) : Ya(b).nodo \in Nodos /\ Ya(b).copia \in Nodos \cup {Nulo}
      BY <1>3, <2>1
    <2> QED  BY <1>7, <2>1, <2>2 DEF Planes
  <1>10. \A b \in Bloques(job) : Entradas(job, Plan)[b] = tabla[L0 + b]
    <2>1. \A b \in Bloques(job) : Ya(b) = Nueva(job, "TRANSFORMACION", Ya(b).nodo, b, Ya(b).copia)
      BY <1>8 DEF BienPuesto
    <2>2. \A b \in Bloques(job) : Entradas(job, Plan)[b] = Ya(b)
      BY <1>7, <2>1 DEF Entradas
    <2> QED  BY <2>2 DEF Ya
  <1>11. tabla = Previa \o Entradas(job, Plan)
    <2> DEFINE E == Entradas(job, Plan)
    <2>1. \A i \in 1..k : L0 + i \in 1..Len(tabla)  BY <1>2, <1>4
    <2>2. \A i \in 1..k : E[i] \in Entrada  BY <1>1, <1>2, <1>10, <2>1
    <2>3. E = [i \in 1..k |-> E[i]]  BY <1>2 DEF Entradas
    <2> HIDE DEF E
    <2>4. E \in Seq(Entrada) /\ Len(E) = k  BY <1>2, <2>2, <2>3, EsSecuencia
    <2>5. \A i \in 1..k : E[i] = tabla[L0 + i]  BY <1>2, <1>10 DEF E
    <2>6. k \in Nat /\ tabla \in Seq(Entrada)  BY <1>1, <1>2
    <2>7. tabla = SubSeq(tabla, 1, L0) \o E  BY <1>4, <2>4, <2>5, <2>6, SubSeqMas
    <2> QED  BY <1>5, <2>7 DEF E
  <1>12. libres = CopiasTras(job, Plan)
    <2>1. \A b \in Bloques(job) : b < bloque /\ Plan[b].nodo = Ya(b).nodo  BY <1>1, <1>2, <1>7
    <2> QED  BY <2>1 DEF InvPlan, Diccionarios, CopiasTras
  <1> QED  BY <1>9, <1>11, <1>12

-----------------------------------------------------------------------------
(* The balance of a plan: two nodes, seen by the hand                      *)

\* Of two nodes, m before n in the list, when the hand has passed both the same number of
\* times: a and b are their availabilities, l is how much more load m has, l0 how much more
\* it had, and B the base.  The one that will be skipped first has room to lose a turn.
Iguales(a, b, l, l0, B) ==
  /\ l0 <= l /\ l <= 0
  /\ a > b => l < 0
  /\ a < b => l0 < l
  /\ a > B => l <= b - a
  /\ b > B => b <= a

\* The same when the hand has passed m once more: it was given a block, or it was skipped.
Tras(a, b, l, l0, B) ==
  Iguales(a + 1, b, l - 1, l0, B) \/ (a = B /\ Iguales(0, b, l, l0, B))

\* Positions p < q of the list, with availabilities d, loads c and a, and the hand in r.
ParDe(d, c, a, B, r, p, q) ==
  IF p < r /\ r <= q THEN Tras(d[p], d[q], c[p] - c[q], a[p] - a[q], B)
                     ELSE Iguales(d[p], d[q], c[p] - c[q], a[p] - a[q], B)

LEMMA PasaPorElSegundo ==
  ASSUME NEW a \in Nat, NEW b \in Nat, NEW l \in Int, NEW l0 \in Int, NEW B \in Nat,
         Tras(a, b, l, l0, B)
  PROVE  IF b > 0 THEN Iguales(a, b - 1, l - 1, l0, B) ELSE Iguales(a, B, l, l0, B)
  BY DEF Tras, Iguales

LEMMA PasaPorElPrimero ==
  ASSUME NEW a \in Nat, NEW b \in Nat, NEW l \in Int, NEW l0 \in Int, NEW B \in Nat,
         Iguales(a, b, l, l0, B)
  PROVE  IF a > 0 THEN Tras(a - 1, b, l + 1, l0, B) ELSE Tras(B, b, l, l0, B)
  <1>1. (a - 1) + 1 = a /\ (l + 1) - 1 = l  OBVIOUS
  <1>2. a = 0 \/ a > 0  OBVIOUS
  <1> QED  BY <1>1, <1>2 DEF Tras

\* When every node was skipped, all have the base, and get it again.
LEMMA SumaATodos ==
  ASSUME NEW l \in Int, NEW l0 \in Int, NEW B \in Nat, B > 0
  PROVE  /\ Iguales(B, B, l, l0, B) => Iguales(B + B, B + B, l, l0, B)
         /\ Tras(B, B, l, l0, B) => Tras(B + B, B + B, l, l0, B)
  BY DEF Tras, Iguales

\* What is known of the loads at any moment.
LEMMA CotaDelPar ==
  ASSUME NEW a \in Nat, NEW b \in Nat, NEW l \in Int, NEW l0 \in Int, NEW B \in Nat,
         Iguales(a, b, l, l0, B) \/ Tras(a, b, l, l0, B)
  PROVE  l0 <= l /\ l <= 1
  BY DEF Tras, Iguales

LEMMA ManoSiguiente ==
  ASSUME NEW K \in Nat \ {0}, NEW r \in 1..K
  PROVE  (r % K) + 1 = IF r = K THEN 1 ELSE r + 1
  OBVIOUS

LEMMA TrasLaMano ==
  ASSUME NEW K \in Nat \ {0}, NEW r \in 1..K, NEW p \in 1..K, NEW q \in 1..K, p < q,
         NEW s, s = IF r = K THEN 1 ELSE r + 1
  PROVE  /\ r = p => p < s /\ s <= q /\ ~ (p < r)
         /\ r = q => ~ (p < s /\ s <= q) /\ p < r /\ r <= q
         /\ r # p /\ r # q => IF p < r /\ r <= q THEN p < s /\ s <= q ELSE ~ (p < s /\ s <= q)
  OBVIOUS

LEMMA Diferencia ==
  ASSUME NEW x \in Int, NEW y \in Int
  PROVE  x - y \in Int
  OBVIOUS

\* What the hand does to the node under it: a block less to give, or the base.
Pasa(d, e, c, f, B) == IF d > 0 THEN e = d - 1 /\ f = c + 1 ELSE e = B /\ f = c
Queda(d, e, c, f)   == e = d /\ f = c

LEMMA PasaElPrimero ==
  ASSUME NEW d \in Nat, NEW e, NEW c \in Int, NEW f, NEW B \in Nat, Pasa(d, e, c, f, B),
         NEW dq \in Nat, NEW cq \in Int, NEW l0 \in Int, Iguales(d, dq, c - cq, l0, B)
  PROVE  Tras(e, dq, f - cq, l0, B)
  <1>1. c - cq \in Int /\ (c + 1) - cq = (c - cq) + 1  OBVIOUS
  <1>2. IF d > 0 THEN Tras(d - 1, dq, (c - cq) + 1, l0, B) ELSE Tras(B, dq, c - cq, l0, B)
    BY <1>1, PasaPorElPrimero
  <1> QED  BY <1>1, <1>2 DEF Pasa

LEMMA PasaElSegundo ==
  ASSUME NEW d \in Nat, NEW e, NEW c \in Int, NEW f, NEW B \in Nat, Pasa(d, e, c, f, B),
         NEW dp \in Nat, NEW cp \in Int, NEW l0 \in Int, Tras(dp, d, cp - c, l0, B)
  PROVE  Iguales(dp, e, cp - f, l0, B)
  <1>1. cp - c \in Int /\ cp - (c + 1) = (cp - c) - 1  OBVIOUS
  <1>2. IF d > 0 THEN Iguales(dp, d - 1, (cp - c) - 1, l0, B) ELSE Iguales(dp, B, cp - c, l0, B)
    BY <1>1, PasaPorElSegundo
  <1> QED  BY <1>1, <1>2 DEF Pasa

\* The hand leaves position r for the next one: it gave it a block, or skipped it.
LEMMA PasaLaMano ==
  ASSUME NEW K \in Nat \ {0}, NEW r \in 1..K, NEW p \in 1..K, NEW q \in 1..K, p < q,
         NEW s, s = IF r = K THEN 1 ELSE r + 1,
         NEW d, d[p] \in Nat, d[q] \in Nat, NEW c, c[p] \in Int, c[q] \in Int,
         NEW a, a[p] - a[q] \in Int, NEW e, NEW f, NEW B \in Nat,
         IF r = p THEN Pasa(d[p], e[p], c[p], f[p], B) ELSE Queda(d[p], e[p], c[p], f[p]),
         IF r = q THEN Pasa(d[q], e[q], c[q], f[q], B) ELSE Queda(d[q], e[q], c[q], f[q]),
         ParDe(d, c, a, B, r, p, q)
  PROVE  ParDe(e, f, a, B, s, p, q)
  <1> DEFINE l0 == a[p] - a[q]
  <1>1. /\ r = p => p < s /\ s <= q /\ ~ (p < r) /\ r # q
        /\ r = q => ~ (p < s /\ s <= q) /\ p < r /\ r <= q /\ r # p
        /\ r # p /\ r # q => IF p < r /\ r <= q THEN p < s /\ s <= q ELSE ~ (p < s /\ s <= q)
    <2>1. p # q  OBVIOUS
    <2> QED  BY <2>1, TrasLaMano
  <1> HIDE DEF l0
  <1>2. CASE r = p
    <2>1. Iguales(d[p], d[q], c[p] - c[q], l0, B)  BY <1>1, <1>2 DEF ParDe, l0
    <2>2. Tras(e[p], d[q], f[p] - c[q], l0, B)  BY <1>2, <2>1, PasaElPrimero DEF l0
    <2> QED  BY <1>1, <1>2, <2>2 DEF ParDe, Queda, l0
  <1>3. CASE r = q
    <2>1. Tras(d[p], d[q], c[p] - c[q], l0, B)  BY <1>1, <1>3 DEF ParDe, l0
    <2>2. Iguales(d[p], e[q], c[p] - f[q], l0, B)  BY <1>3, <2>1, PasaElSegundo DEF l0
    <2> QED  BY <1>1, <1>3, <2>2 DEF ParDe, Queda, l0
  <1>4. CASE r # p /\ r # q
    <2>1. e[p] = d[p] /\ e[q] = d[q] /\ f[p] = c[p] /\ f[q] = c[q]  BY <1>4 DEF Queda
    <2> QED  BY <1>1, <1>4, <2>1 DEF ParDe, l0
  <1> QED  BY <1>2, <1>3, <1>4

-----------------------------------------------------------------------------
(* The balance of a plan: loads, and the invariant                         *)

\* The load a node had, for the algorithm that looks at it, and the load it has.
Antes(n) == IF algoritmo = "WEIGHTEDCLOCK" THEN TrabajosActuales(Previa, n) ELSE 0
Carga(n) == TrabajosActuales(tabla, n) - TrabajosActuales(Previa, n) + Antes(n)

\* The availability of position p of the list, but for what _sumarDisponiblidadBase has
\* added since the block began.
Quita(p) == IF p <= sumados THEN disp[lista[p]] - base ELSE disp[lista[p]]

Disps    == [p \in DOMAIN lista |-> Quita(p)]
Cargas   == [p \in DOMAIN lista |-> Carga(lista[p])]
Antiguas == [p \in DOMAIN lista |-> Antes(lista[p])]

\* The positions the hand has passed since the block began: all, when it is back.
Pasado(p) == IF inicial < reloj THEN inicial <= p /\ p < reloj ELSE p < reloj \/ inicial <= p

\* Every pair of nodes is as Iguales and Tras say; the nodes skipped since the block began
\* have exactly the base, and get more only when all of them have been.
EnOrden ==
  /\ \A p, q \in DOMAIN lista : lista[p] = lista[q] => p = q
  /\ \A p, q \in DOMAIN lista : p < q => ParDe(Disps, Cargas, Antiguas, base, reloj, p, q)
  /\ fallos => \A p \in DOMAIN lista : Pasado(p) => Quita(p) = base
  /\ ~fallos => reloj = inicial
  /\ sumados > 0 => fallos /\ reloj = inicial /\ base > 0

Reparto ==
  recargas = 0 /\ Indiferente =>
    /\ senal = "ninguna"
    /\ lista = <<>> => ~fallos /\ \A n \in DOMAIN disp : disp[n] = base
    /\ lista # <<>> => EnOrden

\* One entry more in process is one operation more on its node.
LEMMA CuentaUnaMas ==
  ASSUME NEW t \in Seq(Entrada), NEW e \in Entrada, e.estado = "ENPROCESO", NEW n
  PROVE  TrabajosActuales(Append(t, e), n) = TrabajosActuales(t, n) + IF e.nodo = n THEN 1 ELSE 0
  <1> DEFINE S(u) == {i \in DOMAIN u : u[i].nodo = n /\ u[i].estado = "ENPROCESO"}
             k == Len(t) + 1
  <1>1. /\ Len(t) \in Nat /\ DOMAIN t = 1..Len(t) /\ DOMAIN Append(t, e) = 1..k
        /\ \A i \in 1..Len(t) : Append(t, e)[i] = t[i]
        /\ Append(t, e)[k] = e /\ k \notin 1..Len(t) /\ 1..k = 1..Len(t) \cup {k}
    OBVIOUS
  <1>2. S(Append(t, e)) = IF e.nodo = n THEN S(t) \cup {k} ELSE S(t)
    <2> HIDE DEF k
    <2>1. \A i : i \in S(t) <=> i \in 1..Len(t) /\ t[i].nodo = n /\ t[i].estado = "ENPROCESO"
      BY <1>1
    <2>2. \A i : i \in S(Append(t, e)) <=> \/ i \in S(t)
                                           \/ i = k /\ e.nodo = n
      BY <1>1, <2>1
    <2> HIDE DEF S
    <2> QED  BY <2>2
  <1>3. IsFiniteSet(S(t)) /\ k \notin S(t)
    <2>1. IsFiniteSet(1..Len(t))  BY <1>1, FS_Interval
    <2>2. S(t) \subseteq 1..Len(t)  BY <1>1
    <2> HIDE DEF S, k
    <2> QED  BY <1>1, <2>1, <2>2, FS_Subset
  <1> HIDE DEF S, k
  <1>4. Cardinality(S(t) \cup {k}) = Cardinality(S(t)) + 1 /\ Cardinality(S(t)) \in Nat
    BY <1>3, FS_AddElement, FS_CardinalityType
  <1>5. Cardinality(S(Append(t, e))) = Cardinality(S(t)) + IF e.nodo = n THEN 1 ELSE 0
    BY <1>2, <1>4
  <1> QED  BY <1>5 DEF TrabajosActuales, S

LEMMA PreviaEs ==
  ASSUME InvPlan
  PROVE  Previa \in Seq(Entrada) /\ Previa = SubSeq(tabla, 1, L0) /\ L0 \in 0..Len(tabla)
  <1>1. tabla \in Seq(Entrada) /\ L0 >= 0 /\ bloque \in 1..(Len(Copias[job]) + 1) /\ job \in Jobs
    BY DEF InvPlan, TipoPlan
  <1>2. Len(Copias[job]) \in Nat  BY <1>1, ArchivoEs
  <1>3. bloque \in Nat \ {0} /\ Len(tabla) \in Nat  BY <1>1, <1>2
  <1>4. L0 \in Nat /\ bloque - 1 \in Nat /\ L0 + (bloque - 1) = Len(tabla)  BY <1>1, <1>3 DEF L0
  <1>5. SubSeq(tabla, 1, L0) \in Seq(Entrada)  BY <1>1, <1>4, LenSubSeq
  <1>6. Previa = SubSeq(tabla, 1, L0)  BY DEF Previa, L0
  <1> QED  BY <1>3, <1>4, <1>5, <1>6

LEMMA CargasSon ==
  ASSUME InvPlan, NEW n
  PROVE  Carga(n) \in Int /\ Antes(n) \in Nat
  <1>1. /\ TrabajosActuales(Previa, n) \in 0..Len(Previa) /\ Len(Previa) \in Nat
        /\ TrabajosActuales(tabla, n) \in 0..Len(tabla) /\ Len(tabla) \in Nat
    BY PreviaEs, TrabajosSon DEF InvPlan, TipoPlan
  <1>2. TrabajosActuales(Previa, n) \in Nat /\ TrabajosActuales(tabla, n) \in Nat  BY <1>1
  <1>3. Antes(n) \in Nat  BY <1>2 DEF Antes
  <1> QED  BY <1>2, <1>3 DEF Carga

LEMMA EnRepartoEs ==
  ASSUME InvPlan, EnOrden, lista # <<>>
  PROVE  /\ Len(lista) \in Nat \ {0} /\ DOMAIN lista = 1..Len(lista) /\ base \in Nat
         /\ reloj \in 1..Len(lista) /\ inicial \in 1..Len(lista) /\ sumados \in 0..Len(lista)
         /\ \A p \in DOMAIN lista : /\ Quita(p) \in Nat /\ disp[lista[p]] \in Nat
                                    /\ lista[p] \in DOMAIN disp
         /\ reloj = inicial => \A p \in DOMAIN lista : Pasado(p)
  <1>1. /\ lista \in Seq(ConBloques(job)) /\ disp \in [DOMAIN disp -> Nat]
        /\ DOMAIN disp = ConBloques(job) /\ sumados \in 0..Len(lista)
        /\ reloj \in 1..Len(lista) /\ inicial \in 1..Len(lista)
    BY DEF InvPlan, TipoPlan, EnLista
  <1>2. base \in Nat  BY SupuestoPlanificador DEF InvPlan, TipoPlan
  <1>3. Len(lista) \in Nat \ {0} /\ DOMAIN lista = 1..Len(lista)  BY <1>1
  <1>4. reloj = inicial => \A p \in DOMAIN lista : Pasado(p)
    <2> SUFFICES ASSUME reloj = inicial, NEW p \in 1..Len(lista) PROVE Pasado(p)  BY <1>3
    <2>1. p < reloj \/ reloj <= p  BY <1>1, <1>3
    <2>2. ~ (inicial < reloj)  BY <1>1
    <2> QED  BY <2>1, <2>2 DEF Pasado
  <1>5. \A p \in DOMAIN lista : disp[lista[p]] \in Nat /\ lista[p] \in DOMAIN disp  BY <1>1, <1>3
  <1>6. \A p \in DOMAIN lista : Quita(p) \in Nat
    <2> TAKE p \in DOMAIN lista
    <2>1. CASE sumados > 0  BY <1>2, <1>4, <2>1 DEF EnOrden
    <2>2. CASE ~ (sumados > 0)
      <3>1. ~ (p <= sumados)  BY <1>1, <1>3, <2>2
      <3> QED  BY <1>5, <3>1 DEF Quita
    <2> QED  BY <2>1, <2>2
  <1> QED  BY <1>1, <1>2, <1>3, <1>4, <1>5, <1>6

-----------------------------------------------------------------------------
(* The balance of a plan: what each step does to it                        *)

\* Where all nodes hold every block, the hand is always on one that has the block.
LEMMA TodosTienen ==
  ASSUME InvPlan, Indiferente, fase = "planificando"
  PROVE  <<Mano, bloque>> \in libres
  <1>1. Mano \in ConBloques(job) /\ bloque \in Bloques(job) /\ job \in Jobs  BY ManoEnLista
  <1>2. Mano \in Nodos /\ Mano \in Copias[job][bloque]  BY <1>1, ArchivoEs DEF Indiferente
  <1>3. ~ (bloque < bloque)  BY <1>1, ArchivoEs
  <1> QED  BY <1>1, <1>2, <1>3 DEF InvPlan, Diccionarios

LEMMA MismaTabla ==
  ASSUME UNCHANGED <<algoritmo, tabla, bloque>>
  PROVE  Previa' = Previa /\ \A n : Carga(n)' = Carga(n) /\ Antes(n)' = Antes(n)
  <1>1. Previa' = Previa  BY DEF Previa
  <1> QED  BY <1>1 DEF Carga, Antes, TrabajosActuales

LEMMA MismoArchivo ==
  ASSUME job' = job
  PROVE  Indiferente' = Indiferente /\ ConBloques(job)' = ConBloques(job)
  BY DEF Indiferente, ConBloques, Bloques

LEMMA RepartoInicio ==
  ASSUME Init
  PROVE  Reparto
  BY DEF Init, Reparto

LEMMA RepartoRegistrar ==
  ASSUME InvPlan, Reparto, NEW n \in Nodos, registrarNodo(n)
  PROVE  Reparto'
  <1> SUFFICES ASSUME (recargas = 0 /\ Indiferente)'
               PROVE  (/\ senal = "ninguna"
                       /\ lista = <<>> => ~fallos /\ \A k \in DOMAIN disp : disp[k] = base
                       /\ lista # <<>> => EnOrden)'
    BY DEF Reparto
  <1>1. /\ UNCHANGED <<base, senal, recargas, job, lista, fallos>> /\ lista = <<>>
        /\ disp' = [k \in DOMAIN disp \cup {n} |-> IF k = n THEN base ELSE disp[k]]
    BY DEF registrarNodo, configuracion, InvPlan, EnFase
  <1>2. senal = "ninguna" /\ ~fallos /\ \A k \in DOMAIN disp : disp[k] = base
    BY <1>1, MismoArchivo DEF Reparto
  <1> QED  BY <1>1, <1>2

\* The list begins with the nodes that had least to do, and the base makes up for the rest.
LEMMA RepartoOrdenar ==
  ASSUME InvPlan, Reparto, ordenarNodos
  PROVE  Reparto'
  <1> SUFFICES ASSUME (recargas = 0 /\ Indiferente)'
               PROVE  (/\ senal = "ninguna"
                       /\ lista = <<>> => ~fallos /\ \A k \in DOMAIN disp : disp[k] = base
                       /\ lista # <<>> => EnOrden)'
    BY DEF Reparto
  <1> DEFINE N == ConBloques(job)
  <1>1. /\ UNCHANGED <<algoritmo, base, senal, recargas, job, tabla, bloque, reloj, inicial, fallos, sumados>>
        /\ lista = <<>> /\ reloj = 1 /\ inicial = 1 /\ bloque = 1 /\ DOMAIN disp = N
        /\ disp' = Disponibilidad(tabla, disp) /\ lista' \in Ordenes(tabla, disp', N)
    BY DEF ordenarNodos, configuracion, InvPlan, EnFase
  <1>2. senal = "ninguna" /\ \A k \in N : disp[k] = base
    BY <1>1, MismoArchivo DEF Reparto
  <1>3. InvPlan'  BY PasoOrdenar
  <1>4. lista' # <<>> /\ fase' = "planificando" /\ base' \in Nat
    BY <1>3, SupuestoPlanificador DEF InvPlan, TipoPlan, EnFase, ordenarNodos
  <1>5. Previa' = tabla
    <2>1. tabla \in Seq(Entrada)  BY DEF InvPlan, TipoPlan
    <2>2. Len(tabla) \in Nat /\ Len(tabla) - (1 - 1) = Len(tabla)  BY <2>1
    <2>3. SubSeq(tabla, 1, Len(tabla)) = tabla  BY <2>1
    <2> QED  BY <1>1, <2>2, <2>3 DEF Previa
  <1>6. \A n : Carga(n)' = Antes(n)' /\ Antes(n)' \in Nat
    <2> TAKE n
    <2>1. TrabajosActuales(tabla, n) \in 0..Len(tabla) /\ Len(tabla) \in Nat
      BY TrabajosSon DEF InvPlan, TipoPlan
    <2>2. Antes(n)' \in Nat  BY <1>1, <1>5, <2>1 DEF Antes, TrabajosActuales
    <2>3. Carga(n)' = TrabajosActuales(tabla, n) - TrabajosActuales(tabla, n) + Antes(n)'
      BY <1>1, <1>5 DEF Carga, TrabajosActuales
    <2> QED  BY <2>1, <2>2, <2>3
  <1>7. \E M \in Int : \A n \in N : disp'[n] + Antes(n)' = M
    <2>1. CASE algoritmo = "WEIGHTEDCLOCK"
      <3> DEFINE M == CHOOSE m \in {TrabajosActuales(tabla, k) : k \in N} :
                        \A k \in N : TrabajosActuales(tabla, k) <= m
      <3>1. \A n \in N : disp'[n] = base + (M - TrabajosActuales(tabla, n))
        BY <1>1, <1>2, <2>1 DEF Disponibilidad, pWl
      <3>2. \A n \in N : Antes(n)' = TrabajosActuales(tabla, n)
        BY <1>1, <1>5, <2>1 DEF Antes, TrabajosActuales
      <3>3. \A n \in N : disp'[n] \in Nat /\ Antes(n)' \in Nat
        BY <1>1, <1>3, <1>4, <1>6, MismoArchivo DEF InvPlan, TipoPlan, EnLista
      <3>4. M \in Int
        <4>1. tabla \in Seq(Entrada) /\ N # {}  BY ArchivoEs DEF InvPlan, TipoPlan
        <4>2. M \in {TrabajosActuales(tabla, k) : k \in N}
          BY <4>1, MasCargado
        <4> HIDE DEF M
        <4> QED  BY <4>1, <4>2, TrabajosSon
      <3> HIDE DEF M
      <3>5. \A n \in N : disp'[n] + Antes(n)' = base + M
        <4> TAKE n \in N
        <4>1. disp'[n] = base + (M - Antes(n)')  BY <3>1, <3>2
        <4> QED  BY <1>1, <1>4, <3>3, <3>4, <4>1
      <3>6. base + M \in Int  BY <1>1, <1>4, <3>4
      <3> QED  BY <3>5, <3>6
    <2>2. CASE algoritmo # "WEIGHTEDCLOCK"
      <3>1. \A n \in N : disp'[n] = base + 0 /\ Antes(n)' = 0
        BY <1>1, <1>2, <2>2 DEF Disponibilidad, Antes
      <3>2. base \in Nat  BY <1>1, <1>4
      <3> QED  BY <3>1, <3>2
    <2> QED  BY <2>1, <2>2
  <1>8. EnOrden'
    <2> DEFINE K == Len(lista')
    <2>1. /\ K \in Nat \ {0} /\ DOMAIN lista' = 1..K /\ lista' \in Seq(N)
          /\ \A n \in N : disp'[n] \in Nat
      BY <1>1, <1>3, <1>4, MismoArchivo DEF InvPlan, TipoPlan, EnLista
    <2>2. \A p, q \in 1..K : p < q => lista'[p] # lista'[q] /\ disp'[lista'[p]] >= disp'[lista'[q]]
      <3>1. IsFiniteSet(N) /\ N # {}  BY ArchivoEs DEF InvPlan, TipoPlan
      <3>2. K = Cardinality(N)  BY <1>1, <3>1, OrdenesSon
      <3>3. \A p, q \in 1..K : p < q =>
               lista'[p] # lista'[q] /\ VaAntes(tabla, disp', lista'[p], lista'[q])
        BY <1>1, <3>2 DEF Ordenes
      <3> TAKE p, q \in 1..K
      <3> HAVE p < q
      <3>4. lista'[p] \in N /\ lista'[q] \in N  BY <2>1
      <3>5. disp'[lista'[p]] \in Nat /\ disp'[lista'[q]] \in Nat  BY <2>1, <3>4
      <3> QED  BY <3>3, <3>5 DEF VaAntes
    <2>3. \A p, q \in DOMAIN lista' : lista'[p] = lista'[q] => p = q
      <3> SUFFICES ASSUME NEW p \in 1..K, NEW q \in 1..K, lista'[p] = lista'[q] PROVE p = q
        BY <2>1
      <3>1. p < q \/ q < p \/ p = q  BY <2>1
      <3> QED  BY <2>2, <3>1
    <2>4. sumados' = 0 /\ fallos' = FALSE
      <3>1. sumados = 0  BY <1>1 DEF InvPlan, TipoPlan
      <3>2. ~fallos  BY <1>1, MismoArchivo DEF Reparto
      <3> QED  BY <1>1, <3>1, <3>2 DEF InvPlan, TipoPlan
    <2>5. \A p \in 1..K : Quita(p)' = disp'[lista'[p]]
      <3> TAKE p \in 1..K
      <3>1. ~ (p <= 0)  BY <2>1
      <3> QED  BY <2>4, <3>1 DEF Quita
    <2>6. ASSUME NEW p \in 1..K, NEW q \in 1..K, p < q
          PROVE  ParDe(Disps, Cargas, Antiguas, base, reloj, p, q)'
      <3>0. PICK m \in N : m = lista'[p]  BY <2>1
      <3>1. PICK n \in N : n = lista'[q]  BY <2>1
      <3> DEFINE a == disp'[m]
                 b == disp'[n]
                 x == Antes(m)'
                 y == Antes(n)'
      <3>2. PICK M \in Int : a + x = M /\ b + y = M  BY <1>7
      <3>3. a \in Nat /\ b \in Nat /\ x \in Nat /\ y \in Nat /\ a >= b
        BY <1>6, <2>1, <2>2, <2>6, <3>0, <3>1
      <3>4. Iguales(a, b, x - y, x - y, base)
        <4> HIDE DEF a, b, x, y
        <4>1. base \in Nat /\ x - y = b - a  BY <1>1, <1>4, <3>2, <3>3
        <4> QED  BY <3>3, <4>1 DEF Iguales
      <3>5. /\ Disps'[p] = a /\ Disps'[q] = b /\ Cargas'[p] = x /\ Cargas'[q] = y
            /\ Antiguas'[p] = x /\ Antiguas'[q] = y
        <4>1. Carga(lista[p])' = Carga(m)' /\ Antes(lista[p])' = Antes(m)'
          BY <3>0 DEF Carga, Antes, TrabajosActuales
        <4>2. Carga(lista[q])' = Carga(n)' /\ Antes(lista[q])' = Antes(n)'
          BY <3>1 DEF Carga, Antes, TrabajosActuales
        <4> QED  BY <1>6, <2>1, <2>5, <3>0, <3>1, <4>1, <4>2 DEF Disps, Cargas, Antiguas
      <3>6. ~ (p < 1)  BY <2>1
      <3> HIDE DEF a, b, x, y
      <3> QED  BY <1>1, <3>4, <3>5, <3>6 DEF ParDe
    <2> QED  BY <1>1, <2>1, <2>3, <2>4, <2>6 DEF EnOrden
  <1> QED  BY <1>1, <1>2, <1>4, <1>8

\* The hand leaves a node: what it does to it, position by position, keeps every pair.
LEMMA RepartoMano ==
  ASSUME InvPlan, EnOrden, lista # <<>>,
         UNCHANGED <<base, lista>>, reloj' = (reloj % Len(lista)) + 1,
         NEW d, NEW c,
         \A p \in DOMAIN lista :
           /\ d[p] \in Nat /\ c[p] \in Int
           /\ IF p = reloj THEN Pasa(d[p], Disps'[p], c[p], Cargas'[p], base)
                           ELSE Queda(d[p], Disps'[p], c[p], Cargas'[p]),
         Antiguas' = Antiguas,
         \A p, q \in DOMAIN lista : p < q => ParDe(d, c, Antiguas, base, reloj, p, q)
  PROVE  \A p, q \in DOMAIN lista : p < q => ParDe(Disps, Cargas, Antiguas, base, reloj, p, q)'
  <1> DEFINE K == Len(lista)
  <1>1. K \in Nat \ {0} /\ DOMAIN lista = 1..K /\ base \in Nat /\ reloj \in 1..K  BY EnRepartoEs
  <1>2. reloj' = IF reloj = K THEN 1 ELSE reloj + 1  BY <1>1, ManoSiguiente
  <1> HIDE DEF K
  <1>3. \A p \in 1..K : Antiguas[p] \in Nat  BY <1>1, CargasSon DEF Antiguas
  <1> SUFFICES ASSUME NEW p \in 1..K, NEW q \in 1..K, p < q
               PROVE  ParDe(Disps', Cargas', Antiguas, base, reloj', p, q)
    BY <1>1 DEF ParDe
  <1>4. Antiguas[p] - Antiguas[q] \in Int
    <2>1. Antiguas[p] \in Int /\ Antiguas[q] \in Int  BY <1>3
    <2> QED  BY <2>1, Diferencia
  <1>5. /\ d[p] \in Nat /\ d[q] \in Nat /\ c[p] \in Int /\ c[q] \in Int
        /\ IF reloj = p THEN Pasa(d[p], Disps'[p], c[p], Cargas'[p], base)
                        ELSE Queda(d[p], Disps'[p], c[p], Cargas'[p])
        /\ IF reloj = q THEN Pasa(d[q], Disps'[q], c[q], Cargas'[q], base)
                        ELSE Queda(d[q], Disps'[q], c[q], Cargas'[q])
        /\ ParDe(d, c, Antiguas, base, reloj, p, q)
    BY <1>1
  <1> QED  BY <1>1, <1>2, <1>4, <1>5, PasaLaMano

LEMMA RepartoNoTiene ==
  ASSUME InvPlan, Reparto, NoTieneElBloque
  PROVE  Reparto'
  <1> SUFFICES ASSUME (recargas = 0 /\ Indiferente)' PROVE FALSE  BY DEF Reparto
  <1>1. Indiferente  BY MismoArchivo DEF NoTieneElBloque
  <1> QED  BY <1>1, TodosTienen DEF NoTieneElBloque

LEMMA RepartoSinDisponibilidad ==
  ASSUME InvPlan, Reparto, SinDisponibilidad
  PROVE  Reparto'
  <1> SUFFICES ASSUME (recargas = 0 /\ Indiferente)'
               PROVE  (/\ senal = "ninguna"
                       /\ lista = <<>> => ~fallos /\ \A k \in DOMAIN disp : disp[k] = base
                       /\ lista # <<>> => EnOrden)'
    BY DEF Reparto
  <1> DEFINE K == Len(lista)
  <1>1. /\ UNCHANGED <<algoritmo, base, senal, recargas, job, tabla, lista, bloque, inicial, sumados>>
        /\ fase = "planificando" /\ disp[Mano] = 0 /\ disp' = [disp EXCEPT ![Mano] = @ + base]
        /\ fallos' = TRUE /\ reloj' = (reloj % K) + 1
    BY DEF SinDisponibilidad, configuracion, Recarga, Avanza
  <1>2. lista # <<>>  BY <1>1, ManoEnLista
  <1>3. senal = "ninguna" /\ EnOrden  BY <1>1, <1>2, MismoArchivo DEF Reparto
  <1>4. /\ K \in Nat \ {0} /\ DOMAIN lista = 1..K /\ base \in Nat
        /\ reloj \in 1..K /\ inicial \in 1..K /\ sumados \in 0..K
        /\ \A p \in 1..K : Quita(p) \in Nat /\ disp[lista[p]] \in Nat /\ lista[p] \in DOMAIN disp
        /\ reloj = inicial => \A p \in 1..K : Pasado(p)
    BY <1>2, <1>3, EnRepartoEs
  <1>5. reloj' = IF reloj = K THEN 1 ELSE reloj + 1  BY <1>1, <1>4, ManoSiguiente
  <1> HIDE DEF K
  <1>6. sumados = 0
    <2> SUFFICES ASSUME sumados > 0 PROVE FALSE  BY <1>4
    <2>1. base > 0 /\ Quita(reloj) = base  BY <1>3, <1>4 DEF EnOrden
    <2>2. Quita(reloj) = 0 \/ Quita(reloj) = 0 - base  BY <1>1, <1>4 DEF Quita, Mano
    <2> QED  BY <1>4, <2>1, <2>2
  <1>7. \A p \in 1..K : Quita(p) = disp[lista[p]] /\ Quita(p)' = disp'[lista[p]]
    <2> TAKE p \in 1..K
    <2>1. ~ (p <= 0)  BY <1>4
    <2> QED  BY <1>1, <1>6, <2>1 DEF Quita
  <1>8. \A p \in 1..K : IF p = reloj THEN Quita(p) = 0 /\ Quita(p)' = base ELSE Quita(p)' = Quita(p)
    <2> TAKE p \in 1..K
    <2>1. CASE p = reloj
      <3>1. Mano = lista[p] /\ disp'[lista[p]] = 0 + base  BY <1>1, <1>4, <2>1 DEF Mano
      <3> QED  BY <1>1, <1>4, <1>7, <2>1, <3>1
    <2>2. CASE p # reloj
      <3>1. lista[p] # Mano  BY <1>3, <1>4, <2>2 DEF EnOrden, Mano
      <3> QED  BY <1>1, <1>4, <1>7, <2>2, <3>1
    <2> QED  BY <2>1, <2>2
  <1>9. Cargas' = Cargas /\ Antiguas' = Antiguas
    <2>1. \A n : Carga(n)' = Carga(n) /\ Antes(n)' = Antes(n)  BY <1>1, MismaTabla
    <2> QED  BY <1>1, <2>1 DEF Cargas, Antiguas, Carga, Antes, TrabajosActuales, Previa
  <1>10. \A p, q \in DOMAIN lista : p < q => ParDe(Disps, Cargas, Antiguas, base, reloj, p, q)'
    <2>1. \A p \in DOMAIN lista :
            /\ Disps[p] \in Nat /\ Cargas[p] \in Int
            /\ IF p = reloj THEN Pasa(Disps[p], Disps'[p], Cargas[p], Cargas'[p], base)
                            ELSE Queda(Disps[p], Disps'[p], Cargas[p], Cargas'[p])
      <3> TAKE p \in DOMAIN lista
      <3>1. Disps[p] = Quita(p) /\ Disps'[p] = Quita(p)'  BY <1>1 DEF Disps
      <3>2. Cargas[p] \in Int  BY CargasSon DEF Cargas
      <3> QED  BY <1>4, <1>8, <1>9, <3>1, <3>2 DEF Pasa, Queda
    <2>2. \A p, q \in DOMAIN lista : p < q => ParDe(Disps, Cargas, Antiguas, base, reloj, p, q)
      BY <1>3 DEF EnOrden
    <2> QED  BY <1>1, <1>2, <1>3, <1>9, <2>1, <2>2, RepartoMano DEF K
  <1>11. \A p \in 1..K : Pasado(p)' => Quita(p)' = base
    <2> SUFFICES ASSUME NEW p \in 1..K, Pasado(p)' PROVE Quita(p)' = base  OBVIOUS
    <2>1. CASE p = reloj  BY <1>8, <2>1
    <2>2. CASE p # reloj
      <3>1. CASE fallos
        <4>1. Pasado(p)
          BY <1>1, <1>4, <1>5, <2>2 DEF Pasado
        <4> QED  BY <1>3, <1>4, <1>8, <2>2, <3>1, <4>1 DEF EnOrden
      <3>2. CASE ~fallos
        <4>1. reloj = inicial  BY <1>3, <3>2 DEF EnOrden
        <4> QED  BY <1>1, <1>4, <1>5, <2>2, <4>1 DEF Pasado
      <3> QED  BY <3>1, <3>2
    <2> QED  BY <2>1, <2>2
  <1>12. EnOrden'
    <2>1. ~ (sumados' > 0)  BY <1>1, <1>6
    <2> QED  BY <1>1, <1>3, <1>4, <1>10, <1>11, <2>1 DEF EnOrden
  <1> QED  BY <1>1, <1>2, <1>3, <1>12

\* Every node was skipped and has the base; one more gets it again.
LEMMA RepartoSumaBase ==
  ASSUME InvPlan, Reparto, SumaBase
  PROVE  Reparto'
  <1> SUFFICES ASSUME (recargas = 0 /\ Indiferente)'
               PROVE  (/\ senal = "ninguna"
                       /\ lista = <<>> => ~fallos /\ \A k \in DOMAIN disp : disp[k] = base
                       /\ lista # <<>> => EnOrden)'
    BY DEF Reparto
  <1>1. /\ UNCHANGED <<algoritmo, base, senal, recargas, job, tabla, lista, bloque, reloj, inicial, fallos>>
        /\ fase = "planificando" /\ disp[Mano] > 0 /\ sumados' = sumados + 1
        /\ disp' = [disp EXCEPT ![lista[sumados + 1]] = @ + base]
        /\ reloj = inicial /\ fallos /\ sumados < Len(lista)
    BY DEF SumaBase, configuracion, HayQueSumar
  <1>2. lista # <<>>  BY <1>1, ManoEnLista
  <1>3. senal = "ninguna" /\ EnOrden  BY <1>1, <1>2, MismoArchivo DEF Reparto
  <1>4. /\ Len(lista) \in Nat \ {0} /\ DOMAIN lista = 1..Len(lista) /\ base \in Nat
        /\ reloj \in DOMAIN lista /\ sumados \in 0..Len(lista)
        /\ \A p \in DOMAIN lista : /\ Quita(p) \in Nat /\ disp[lista[p]] \in Nat
                                   /\ lista[p] \in DOMAIN disp
    BY <1>2, <1>3, EnRepartoEs
  <1>5. \A p \in DOMAIN lista : Quita(p) = base
    BY <1>1, <1>2, <1>3, EnRepartoEs DEF EnOrden
  <1>6. base > 0
    <2>1. CASE sumados > 0  BY <1>3, <2>1 DEF EnOrden
    <2>2. CASE ~ (sumados > 0)
      <3>1. ~ (reloj <= sumados)  BY <1>4, <2>2
      <3> QED  BY <1>1, <1>4, <1>5, <3>1 DEF Quita, Mano
    <2> QED  BY <2>1, <2>2
  <1>7. \A p \in DOMAIN lista : Quita(p)' = Quita(p)
    <2> TAKE p \in DOMAIN lista
    <2>1. sumados + 1 \in DOMAIN lista /\ p \in Nat /\ sumados \in Nat  BY <1>1, <1>4
    <2>2. CASE p = sumados + 1
      <3>1. p <= sumados' /\ ~ (p <= sumados)  BY <1>1, <2>1, <2>2
      <3>2. disp'[lista[p]] = disp[lista[p]] + base  BY <1>1, <1>4, <2>2
      <3>3. (disp[lista[p]] + base) - base = disp[lista[p]]  BY <1>4
      <3> QED  BY <1>1, <3>1, <3>2, <3>3 DEF Quita
    <2>3. CASE p # sumados + 1
      <3>1. p <= sumados' <=> p <= sumados  BY <1>1, <2>1, <2>3
      <3>2. lista[p] # lista[sumados + 1]  BY <1>3, <2>1, <2>3 DEF EnOrden
      <3>3. disp'[lista[p]] = disp[lista[p]]  BY <1>1, <1>4, <3>2
      <3> QED  BY <1>1, <3>1, <3>3 DEF Quita
    <2> QED  BY <2>2, <2>3
  <1>8. Disps' = Disps /\ Cargas' = Cargas /\ Antiguas' = Antiguas
    <2>1. \A n : Carga(n)' = Carga(n) /\ Antes(n)' = Antes(n)  BY <1>1, MismaTabla
    <2>2. Cargas' = Cargas /\ Antiguas' = Antiguas
      BY <1>1, <2>1 DEF Cargas, Antiguas, Carga, Antes, TrabajosActuales, Previa
    <2>3. Disps' = Disps  BY <1>1, <1>7 DEF Disps
    <2> QED  BY <2>2, <2>3
  <1>9. EnOrden'
    <2>1. \A p, q \in DOMAIN lista : p < q => ParDe(Disps, Cargas, Antiguas, base, reloj, p, q)'
      BY <1>1, <1>3, <1>8 DEF EnOrden, ParDe
    <2>2. \A p \in DOMAIN lista : Quita(p)' = base  BY <1>5, <1>7
    <2> QED  BY <1>1, <1>3, <1>6, <2>1, <2>2 DEF EnOrden
  <1> QED  BY <1>1, <1>2, <1>3, <1>9

\* The entry of a block changes the load of its node, and of no other.
LEMMA CargaTrasAsigna ==
  ASSUME InvPlan, Asigna
  PROVE  \A n : /\ Antes(n)' = Antes(n)
                /\ Carga(n)' = Carga(n) + IF n = Mano THEN 1 ELSE 0
  <1> DEFINE e == Nueva(job, "TRANSFORMACION", Mano, bloque,
                        buscarCopia(Quedan(Mano, bloque), bloque))
  <1>1. /\ tabla' = Append(tabla, e) /\ bloque' = bloque + 1 /\ UNCHANGED algoritmo
        /\ fase = "planificando"
    BY DEF Asigna, configuracion
  <1>2. e.nodo = Mano /\ e.estado = "ENPROCESO"  BY DEF Nueva
  <1> HIDE DEF e
  <1>3. tabla \in Seq(Entrada) /\ tabla' \in Seq(Entrada)  BY PasoAsigna DEF InvPlan, TipoPlan
  <1>4. /\ Len(tabla) \in Nat /\ Len(tabla') = Len(tabla) + 1 /\ tabla'[Len(tabla) + 1] = e
        /\ \A i \in 1..Len(tabla) : tabla'[i] = tabla[i]
    BY <1>1, <1>3
  <1>5. e \in Entrada
    <2>1. Len(tabla) + 1 \in 1..Len(tabla')  BY <1>4
    <2> QED  BY <1>3, <1>4, <2>1
  <1>6. L0 \in 0..Len(tabla) /\ bloque \in Nat \ {0}
    <2>1. bloque \in Bloques(job) /\ job \in Jobs  BY <1>1, ManoEnLista
    <2> QED  BY <2>1, ArchivoEs, PreviaEs
  <1>7. Previa' = Previa
    <2>1. Len(tabla') - (bloque' - 1) = L0  BY <1>1, <1>4, <1>6 DEF L0
    <2>2. Previa' = SubSeq(tabla', 1, L0)  BY <2>1 DEF Previa
    <2>3. Previa = SubSeq(tabla, 1, L0)  BY PreviaEs
    <2>4. L0 \in Nat /\ \A i \in 1..L0 : i \in 1..Len(tabla)  BY <1>4, <1>6
    <2>5. SubSeq(tabla', 1, L0) = [i \in 1..L0 |-> tabla'[i]]  BY <1>3, <1>4, <1>6
    <2>6. SubSeq(tabla, 1, L0) = [i \in 1..L0 |-> tabla[i]]  BY <1>3, <1>4, <1>6
    <2> QED  BY <1>4, <2>2, <2>3, <2>4, <2>5, <2>6
  <1> TAKE n
  <1>8. Antes(n)' = Antes(n)
    BY <1>1, <1>7 DEF Antes, TrabajosActuales
  <1>9. TrabajosActuales(tabla', n) = TrabajosActuales(tabla, n) + IF n = Mano THEN 1 ELSE 0
    <2>1. TrabajosActuales(Append(tabla, e), n) = TrabajosActuales(tabla, n) + IF e.nodo = n THEN 1 ELSE 0
      BY <1>2, <1>3, <1>5, CuentaUnaMas
    <2> QED  BY <1>1, <1>2, <2>1
  <1>10. Carga(n)' = TrabajosActuales(tabla', n) - TrabajosActuales(Previa, n) + Antes(n)
    BY <1>7, <1>8 DEF Carga, TrabajosActuales
  <1>11. /\ TrabajosActuales(tabla, n) \in 0..Len(tabla)
         /\ TrabajosActuales(Previa, n) \in 0..Len(Previa)
         /\ Len(Previa) \in Nat /\ Antes(n) \in Nat
    BY <1>3, TrabajosSon, PreviaEs, CargasSon
  <1>12. Carga(n)' = Carga(n) + IF n = Mano THEN 1 ELSE 0
    BY <1>4, <1>9, <1>10, <1>11 DEF Carga
  <1> QED  BY <1>8, <1>12

LEMMA RepartoAsigna ==
  ASSUME InvPlan, Reparto, Asigna
  PROVE  Reparto'
  <1> SUFFICES ASSUME (recargas = 0 /\ Indiferente)'
               PROVE  (/\ senal = "ninguna"
                       /\ lista = <<>> => ~fallos /\ \A k \in DOMAIN disp : disp[k] = base
                       /\ lista # <<>> => EnOrden)'
    BY DEF Reparto
  <1> DEFINE d == [p \in DOMAIN lista |-> disp[lista[p]]]
  <1>1. /\ UNCHANGED <<base, senal, recargas, job, lista>>
        /\ fase = "planificando" /\ disp[Mano] > 0 /\ disp' = [disp EXCEPT ![Mano] = @ - 1]
        /\ sumados' = 0 /\ fallos' = FALSE /\ inicial' = reloj' /\ reloj' = (reloj % Len(lista)) + 1
        /\ ~HayQueSumar
    BY DEF Asigna, configuracion, Avanza
  <1>2. lista # <<>>  BY <1>1, ManoEnLista
  <1>3. senal = "ninguna" /\ EnOrden  BY <1>1, <1>2, MismoArchivo DEF Reparto
  <1>4. /\ Len(lista) \in Nat \ {0} /\ DOMAIN lista = 1..Len(lista) /\ base \in Nat
        /\ reloj \in DOMAIN lista /\ sumados \in 0..Len(lista)
        /\ \A p \in DOMAIN lista : /\ Quita(p) \in Nat /\ disp[lista[p]] \in Nat
                                   /\ lista[p] \in DOMAIN disp
    BY <1>2, <1>3, EnRepartoEs
  <1>5. \A p, q \in DOMAIN lista : p < q => ParDe(d, Cargas, Antiguas, base, reloj, p, q)
    <2>1. CASE sumados > 0
      <3>1. reloj = inicial /\ base > 0 /\ fallos /\ sumados = Len(lista)
        BY <1>1, <1>3, <1>4, <2>1 DEF EnOrden, HayQueSumar
      <3>2. \A p \in DOMAIN lista : Quita(p) = base
        BY <1>2, <1>3, <3>1, EnRepartoEs DEF EnOrden
      <3>3. \A p \in DOMAIN lista : d[p] = base + base
        <4> TAKE p \in DOMAIN lista
        <4>1. disp[lista[p]] - base = base /\ disp[lista[p]] \in Nat
          BY <1>4, <3>1, <3>2 DEF Quita
        <4> QED  BY <1>4, <4>1
      <3> SUFFICES ASSUME NEW p \in DOMAIN lista, NEW q \in DOMAIN lista, p < q
                   PROVE  ParDe(d, Cargas, Antiguas, base, reloj, p, q)
        OBVIOUS
      <3>4. ParDe(Disps, Cargas, Antiguas, base, reloj, p, q)  BY <1>3 DEF EnOrden
      <3>5. Disps[p] = base /\ Disps[q] = base  BY <3>2 DEF Disps
      <3>6. Cargas[p] - Cargas[q] \in Int /\ Antiguas[p] - Antiguas[q] \in Int
        <4>1. /\ Cargas[p] \in Int /\ Cargas[q] \in Int /\ Antiguas[p] \in Int
              /\ Antiguas[q] \in Int
          BY CargasSon DEF Cargas, Antiguas
        <4> QED  BY <4>1, Diferencia
      <3>7. d[p] = base + base /\ d[q] = base + base  BY <3>3
      <3> HIDE DEF d
      <3> QED  BY <1>4, <3>1, <3>4, <3>5, <3>6, <3>7, SumaATodos DEF ParDe
    <2>2. CASE ~ (sumados > 0)
      <3>1. \A p \in DOMAIN lista : ~ (p <= sumados)  BY <1>4, <2>2
      <3>2. \A p \in DOMAIN lista : Quita(p) = disp[lista[p]]  BY <3>1 DEF Quita
      <3>3. Disps = d  BY <3>2 DEF Disps
      <3> QED  BY <1>3, <3>3 DEF EnOrden
    <2> QED  BY <2>1, <2>2
  <1>6. \A n : Antes(n)' = Antes(n) /\ Carga(n)' = Carga(n) + IF n = Mano THEN 1 ELSE 0
    BY CargaTrasAsigna
  <1>7. Antiguas' = Antiguas
    <2>1. \A p \in DOMAIN lista : Antes(lista[p])' = Antes(lista[p])
      <3> TAKE p \in DOMAIN lista
      <3>1. PICK n : n = lista[p]  OBVIOUS
      <3>2. Antes(lista[p])' = Antes(n)'  BY <1>1, <3>1 DEF Antes, TrabajosActuales, Previa
      <3> QED  BY <1>6, <3>1, <3>2
    <2> QED  BY <1>1, <2>1 DEF Antiguas
  <1>8. \A p \in DOMAIN lista : Cargas'[p] = Cargas[p] + IF p = reloj THEN 1 ELSE 0
    <2> TAKE p \in DOMAIN lista
    <2>1. PICK n : n = lista[p]  OBVIOUS
    <2>2. Carga(lista[p])' = Carga(n)'  BY <1>1, <2>1 DEF Carga, Antes, TrabajosActuales, Previa
    <2>3. n = Mano <=> p = reloj  BY <1>3, <1>4, <2>1 DEF EnOrden, Mano
    <2> QED  BY <1>1, <1>6, <2>1, <2>2, <2>3 DEF Cargas
  <1>9. \A p \in DOMAIN lista : Disps'[p] = IF p = reloj THEN d[p] - 1 ELSE d[p]
    <2> TAKE p \in DOMAIN lista
    <2>1. ~ (p <= sumados')  BY <1>1, <1>4
    <2>2. Disps'[p] = disp'[lista[p]]  BY <1>1, <2>1 DEF Disps, Quita
    <2>3. lista[p] = Mano <=> p = reloj  BY <1>3, <1>4 DEF EnOrden, Mano
    <2> QED  BY <1>1, <1>4, <2>2, <2>3
  <1>10. \A p, q \in DOMAIN lista : p < q => ParDe(Disps, Cargas, Antiguas, base, reloj, p, q)'
    <2>1. \A p \in DOMAIN lista :
            /\ d[p] \in Nat /\ Cargas[p] \in Int
            /\ IF p = reloj THEN Pasa(d[p], Disps'[p], Cargas[p], Cargas'[p], base)
                            ELSE Queda(d[p], Disps'[p], Cargas[p], Cargas'[p])
      <3> TAKE p \in DOMAIN lista
      <3>1. Cargas[p] \in Int  BY CargasSon DEF Cargas
      <3>2. d[p] \in Nat /\ (p = reloj => d[p] > 0)  BY <1>1, <1>4 DEF Mano
      <3>3. Cargas[p] + 0 = Cargas[p]  BY <3>1
      <3> HIDE DEF d
      <3> QED  BY <1>8, <1>9, <3>1, <3>2, <3>3 DEF Pasa, Queda
    <2> HIDE DEF d
    <2> QED  BY <1>1, <1>2, <1>3, <1>5, <1>7, <2>1, RepartoMano
  <1>11. EnOrden'
    <2>1. ~ (sumados' > 0)  BY <1>1
    <2> QED  BY <1>1, <1>3, <1>10, <2>1 DEF EnOrden
  <1> QED  BY <1>1, <1>2, <1>3, <1>11

\* A reload takes the premise away.
LEMMA RepartoSenal ==
  ASSUME InvPlan, Reparto, SIGUSR1
  PROVE  Reparto'
  <1> SUFFICES ASSUME (recargas = 0 /\ Indiferente)' PROVE FALSE  BY DEF Reparto
  <1>1. recargas \in Nat  BY SupuestoPlanificador DEF InvPlan, TipoPlan
  <1>2. recargarBase
    BY <1>1 DEF SIGUSR1, recargarAlgoritmo, recargaMala
  <1>3. recargas = 0 /\ Indiferente  BY <1>2, MismoArchivo DEF recargarBase, plan
  <1> QED  BY <1>2, <1>3 DEF recargarBase, Reparto

LEMMA RepartoPaso ==
  ASSUME InvPlan, Reparto, [Next]_varsPlan
  PROVE  Reparto'
  <1>1. CASE Planifica
    BY <1>1, RepartoRegistrar, RepartoOrdenar, RepartoNoTiene, RepartoSinDisponibilidad,
       RepartoSumaBase, RepartoAsigna
       DEF Planifica
  <1>2. CASE SIGUSR1  BY <1>2, RepartoSenal
  <1>3. CASE UNCHANGED varsPlan
    <2>1. UNCHANGED <<algoritmo, base, senal, recargas, job, tabla, fase, lista, disp, libres,
                      bloque, reloj, inicial, fallos, sumados>>
      BY <1>3 DEF varsPlan, configuracion, plan
    <2>2. Disps' = Disps /\ Cargas' = Cargas /\ Antiguas' = Antiguas
      BY <2>1 DEF Disps, Cargas, Antiguas, Quita, Carga, Antes, TrabajosActuales, Previa
    <2>3. EnOrden => EnOrden'  BY <2>1, <2>2 DEF EnOrden, ParDe, Quita, Pasado
    <2> QED  BY <2>1, <2>3, MismoArchivo DEF Reparto
  <1> QED  BY <1>1, <1>2, <1>3 DEF Next

\* What the pairs say of the loads.
LEMMA ParejaDeInv ==
  ASSUME InvPlan, Reparto
  PROVE  CargaPareja
  <1> SUFFICES ASSUME recargas = 0, lista # <<>>, Indiferente,
                      NEW m \in ConBloques(job), NEW n \in ConBloques(job)
               PROVE  IF algoritmo = "WEIGHTEDCLOCK" THEN NoDesequilibra(m, n)
                                                     ELSE RepartoParejo(m, n)
    BY DEF CargaPareja
  <1>1. EnOrden  BY DEF Reparto
  <1>2. /\ Len(lista) \in Nat \ {0} /\ DOMAIN lista = 1..Len(lista) /\ base \in Nat
        /\ \A p \in DOMAIN lista : Quita(p) \in Nat
    BY <1>1, EnRepartoEs
  <1>3. PICK p \in DOMAIN lista, q \in DOMAIN lista : lista[p] = m /\ lista[q] = n
    BY <1>2 DEF InvPlan, EnLista
  <1>4. /\ Carga(m) \in Int /\ Carga(n) \in Int /\ Antes(m) \in Int /\ Antes(n) \in Int
    BY CargasSon
  <1>5. ASSUME NEW r \in DOMAIN lista, NEW s \in DOMAIN lista, r < s
        PROVE  LET l == Carga(lista[r]) - Carga(lista[s])
                   k == Antes(lista[r]) - Antes(lista[s])
               IN  k <= l /\ l <= 1
    <2> DEFINE l == Carga(lista[r]) - Carga(lista[s])
               k == Antes(lista[r]) - Antes(lista[s])
    <2>1. ParDe(Disps, Cargas, Antiguas, base, reloj, r, s)  BY <1>1, <1>5 DEF EnOrden
    <2>2. Iguales(Quita(r), Quita(s), l, k, base) \/ Tras(Quita(r), Quita(s), l, k, base)
      BY <2>1 DEF ParDe, Disps, Cargas, Antiguas
    <2>3. l \in Int /\ k \in Int
      <3>1. /\ Carga(lista[r]) \in Int /\ Carga(lista[s]) \in Int
            /\ Antes(lista[r]) \in Int /\ Antes(lista[s]) \in Int
        BY CargasSon
      <3> QED  BY <3>1, Diferencia
    <2> HIDE DEF l, k
    <2>4. k <= l /\ l <= 1  BY <1>2, <2>2, <2>3, CotaDelPar
    <2> QED  BY <2>4 DEF l, k
  <1>6. \/ Carga(m) - Carga(n) <= 1
        \/ Carga(m) - Carga(n) <= Antes(m) - Antes(n)
    <2>1. CASE p < q  BY <1>3, <1>5, <2>1
    <2>2. CASE q < p
      <3>1. Antes(n) - Antes(m) <= Carga(n) - Carga(m)  BY <1>3, <1>5, <2>2
      <3> QED  BY <1>4, <3>1
    <2>3. CASE p = q  BY <1>3, <1>4, <2>3
    <2>4. p < q \/ q < p \/ p = q  BY <1>2
    <2> QED  BY <2>1, <2>2, <2>3, <2>4
  <1>7. \A k : TrabajosActuales(tabla, k) \in Nat /\ TrabajosActuales(Previa, k) \in Nat
    <2> TAKE k
    <2>1. /\ TrabajosActuales(tabla, k) \in 0..Len(tabla) /\ Len(tabla) \in Nat
          /\ TrabajosActuales(Previa, k) \in 0..Len(Previa) /\ Len(Previa) \in Nat
      BY TrabajosSon, PreviaEs DEF InvPlan, TipoPlan
    <2> QED  BY <2>1
  <1>8. CASE algoritmo = "WEIGHTEDCLOCK"
    <2>1. \A k : Antes(k) = TrabajosActuales(Previa, k) /\ Carga(k) = TrabajosActuales(tabla, k)
      BY <1>7, <1>8 DEF Antes, Carga
    <2> QED  BY <1>6, <1>8, <2>1 DEF NoDesequilibra
  <1>9. CASE algoritmo # "WEIGHTEDCLOCK"
    <2> DEFINE x == TrabajosActuales(tabla, m) - TrabajosActuales(Previa, m)
               y == TrabajosActuales(tabla, n) - TrabajosActuales(Previa, n)
    <2>1. x \in Int /\ y \in Int  BY <1>7
    <2>2. Antes(m) = 0 /\ Antes(n) = 0 /\ Carga(m) = x + 0 /\ Carga(n) = y + 0
      BY <1>9 DEF Antes, Carga
    <2>3. RepartoParejo(m, n) <=> x <= y + 1  BY DEF RepartoParejo
    <2> HIDE DEF x, y
    <2>4. x <= y + 1  BY <1>6, <2>1, <2>2
    <2> QED  BY <1>9, <2>3, <2>4
  <1> QED  BY <1>8, <1>9

-----------------------------------------------------------------------------
(* The theorems                                                            *)

\* Whatever SIGUSR1 reloads, and whenever, the availability of a node (an int that is only
\* compared with zero) never goes below zero and the hand never leaves the list of nodes:
\* the loop of planificarBloquesYEnviarAMaster reads no element that is not there.
THEOREM PlanConTipo == Spec => []PlanTypeOK
  <1>1. InvPlan => PlanTypeOK  BY TipoDeInv
  <1> QED  BY InvPlanSiempre, <1>1, PTL

\* Going round the nodes one by one, with any balancing algorithm and any reload in the
\* middle, decides what enviarTablaTransformacion decides in one step in YamaTrabajos: when
\* it ends every block has one entry, in order, on a node that holds it, with another holder
\* as its copy whenever there is one, and the dictionaries keep exactly the other copies.
THEOREM PlanImplementaElPaso == Spec => []PlanCumple
  <1>1. InvPlan => PlanCumple  BY CumpleDeInv
  <1> QED  BY InvPlanSiempre, <1>1, PTL

\* While nobody reloads the configuration, the loop balances as its algorithm means to: for
\* any number of nodes, any base and any loads before, the clock never gives a node two
\* blocks more than another, and the weighted clock never lets a node get more than one
\* operation ahead of another, nor widens a gap there was.
THEOREM RepartoDelReloj == Spec => []CargaPareja
  <1>1. InvPlan /\ Reparto /\ [Next]_varsPlan => Reparto'  BY RepartoPaso
  <1>2. Init => Reparto  BY RepartoInicio
  <1>3. InvPlan /\ Reparto => CargaPareja  BY ParejaDeInv
  <1> QED  BY InvPlanSiempre, <1>1, <1>2, <1>3, PTL DEF Spec
=============================================================================
