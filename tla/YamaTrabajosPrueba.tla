------------------------- MODULE YamaTrabajosPrueba -------------------------
(***************************************************************************)
(* Theorems about YamaTrabajos, for every set of jobs, nodes and copies.   *)
(*                                                                         *)
(* The table is a log: a step may append entries and change the state of   *)
(* an entry, and never its job or its stage (CreceDesde).  What a channel  *)
(* or a thread says of the table therefore stays true as the table grows,  *)
(* and the invariant is a conjunction of one part per channel.             *)
(***************************************************************************)
EXTENDS YamaTrabajosProps, SequenceTheorems, FiniteSetTheorems, TLAPS

AvisosHasta(n) == [tipo : {"SOLICITUDJOB"} \cup TiposOK \cup TiposFallo, temp : 0..n]
Ordenes        == [tipo : TiposOrden, ops : SUBSET Operacion]

OrdenPropia(t, j, m) == \A o \in m.ops : OpPropia(t, j, o)

\* What channel c, the threads H of a Master and the files A say of table t.
AYamaOK(t, c) ==
  /\ c \in [Jobs -> Seq(AvisosHasta(Len(t)))]
  /\ \A j \in Jobs : \A k \in 1..Len(c[j]) : AvisoPropio(t, j, c[j][k])
AMasterOK(t, c) ==
  /\ c \in [Jobs -> Seq(Ordenes)]
  /\ \A j \in Jobs : \A k \in 1..Len(c[j]) : OrdenPropia(t, j, c[j][k])
HilosOK(t, H) ==
  /\ H \in [Jobs -> SUBSET Operacion]
  /\ \A j \in Jobs : \A o \in H[j] : OpPropia(t, j, o)
ArchivosOK(t, A) == A \subseteq [temp : 1..Len(t), bloques : SUBSET Nat]

EscalaresOK ==
  /\ asociados \subseteq Jobs /\ conectados \subseteq Jobs
  /\ copiasLibres \in [Jobs -> SUBSET (Nodos \X Nat)]
  /\ yama \in {"viva", "caida", "indefinida"}
  /\ replan \in {Nulo} \cup [job : Jobs, nodo : Nodos]
  /\ maestro \in [Jobs -> Puntos]

\* The inductive invariant: TypeOK and BienDirigido, channel by channel.
Inv ==
  /\ EscalaresOK
  /\ tabla \in Seq(Entrada)
  /\ AYamaOK(tabla, aYama)
  /\ AMasterOK(tabla, aMaster)
  /\ HilosOK(tabla, hilos)
  /\ ArchivosOK(tabla, archivos)

CreceDesde(t, u) ==
  /\ u \in Seq(Entrada)
  /\ Len(t) <= Len(u)
  /\ \A i \in 1..Len(t) : u[i].job = t[i].job /\ u[i].etapa = t[i].etapa

-----------------------------------------------------------------------------
(* The operators of the table                                              *)

LEMMA CreceRefl == ASSUME NEW t \in Seq(Entrada) PROVE CreceDesde(t, t)
  BY LenProperties DEF CreceDesde

LEMMA CreceTrans ==
  ASSUME NEW t \in Seq(Entrada), NEW u \in Seq(Entrada), NEW v \in Seq(Entrada),
         CreceDesde(t, u), CreceDesde(u, v)
  PROVE  CreceDesde(t, v)
  <1>1. Len(t) \in Nat /\ Len(u) \in Nat /\ Len(v) \in Nat  BY LenProperties
  <1> QED  BY <1>1 DEF CreceDesde

LEMMA MarcarCrece ==
  ASSUME NEW t \in Seq(Entrada), NEW I, NEW s \in Estados
  PROVE  /\ CreceDesde(t, Marcar(t, I, s))
         /\ Len(Marcar(t, I, s)) = Len(t)
         /\ \A i \in 1..Len(t) : /\ Marcar(t, I, s)[i].job = t[i].job
                                 /\ Marcar(t, I, s)[i].etapa = t[i].etapa
                                 /\ Marcar(t, I, s)[i].nodo = t[i].nodo
                                 /\ Marcar(t, I, s)[i].copia = t[i].copia
                                 /\ Marcar(t, I, s)[i].bloque = t[i].bloque
  <1> DEFINE u == Marcar(t, I, s)
  <1>1. Len(t) \in Nat /\ DOMAIN t = 1..Len(t) /\ t \in [1..Len(t) -> Entrada]
    BY LenProperties
  <1>2. \A i \in 1..Len(t) : u[i] = IF i \in I THEN [t[i] EXCEPT !.estado = s] ELSE t[i]
    BY <1>1 DEF Marcar
  <1>3. \A i \in 1..Len(t) : u[i] \in Entrada
    BY <1>1, <1>2 DEF Entrada
  <1>4. u \in [1..Len(t) -> Entrada]
    BY <1>1, <1>3 DEF Marcar
  <1>5. u \in Seq(Entrada)
    BY <1>1, <1>4, SeqDef
  <1>6. Len(u) = Len(t)
    BY <1>1, <1>4, <1>5, LenProperties
  <1>7. \A i \in 1..Len(t) : /\ u[i].job = t[i].job /\ u[i].etapa = t[i].etapa
                             /\ u[i].nodo = t[i].nodo /\ u[i].copia = t[i].copia
                             /\ u[i].bloque = t[i].bloque
    BY <1>1, <1>2 DEF Entrada
  <1> QED  BY <1>1, <1>5, <1>6, <1>7 DEF CreceDesde

LEMMA AgregarCrece ==
  ASSUME NEW t \in Seq(Entrada), NEW e \in Entrada
  PROVE  /\ CreceDesde(t, Append(t, e))
         /\ Len(Append(t, e)) = Len(t) + 1
         /\ Append(t, e)[Len(t) + 1] = e
         /\ \A i \in 1..Len(t) : Append(t, e)[i] = t[i]
  BY LenProperties DEF CreceDesde

LEMMA DesasociarCrece ==
  ASSUME NEW t \in Seq(Entrada), NEW j, NEW A
  PROVE  /\ AjustarCarga(t, j) \in Seq(Entrada) /\ CreceDesde(t, AjustarCarga(t, j))
         /\ Desasociar(t, j, A) \in Seq(Entrada) /\ CreceDesde(t, Desasociar(t, j, A))
         /\ Len(Desasociar(t, j, A)) = Len(t)
  <1>1. "FINALIZADO" \in Estados  BY DEF Estados
  <1>2. CreceDesde(t, AjustarCarga(t, j)) /\ Len(AjustarCarga(t, j)) = Len(t)
    BY <1>1, MarcarCrece DEF AjustarCarga
  <1> QED  BY <1>2, CreceRefl DEF Desasociar, CreceDesde

LEMMA NuevaEtapaEntrada ==
  ASSUME NEW j \in Jobs, NEW e \in Etapas, NEW n \in Nodos
  PROVE  NuevaEtapa(j, e, n) \in Entrada
  BY DEF NuevaEtapa, Nueva, Entrada, Estados

-----------------------------------------------------------------------------
(* What is said of a table stays true when it grows                        *)

LEMMA DeEtapaCrece ==
  ASSUME NEW t \in Seq(Entrada), NEW u \in Seq(Entrada), CreceDesde(t, u), NEW j, NEW e
  PROVE  DeEtapa(t, j, e) \subseteq DeEtapa(u, j, e)
  <1>1. /\ Len(t) \in Nat /\ Len(u) \in Nat
        /\ DOMAIN t = 1..Len(t) /\ DOMAIN u = 1..Len(u)
    BY LenProperties
  <1> QED  BY <1>1 DEF DeEtapa, DelJob, CreceDesde

LEMMA CanalesCrecen ==
  ASSUME NEW t \in Seq(Entrada), NEW u \in Seq(Entrada), CreceDesde(t, u)
  PROVE  /\ \A c : AYamaOK(t, c) => AYamaOK(u, c)
         /\ \A c : AMasterOK(t, c) => AMasterOK(u, c)
         /\ \A H : HilosOK(t, H) => HilosOK(u, H)
         /\ \A A : ArchivosOK(t, A) => ArchivosOK(u, A)
  <1>1. Len(t) \in Nat /\ Len(u) \in Nat /\ Len(t) <= Len(u)
    BY LenProperties DEF CreceDesde
  <1>2. \A j, e : DeEtapa(t, j, e) \subseteq DeEtapa(u, j, e)
    BY DeEtapaCrece
  <1>3. \A j, o : OpPropia(t, j, o) => OpPropia(u, j, o)
    BY <1>2 DEF OpPropia
  <1>4. \A j, m : AvisoPropio(t, j, m) => AvisoPropio(u, j, m)
    BY <1>2 DEF AvisoPropio
  <1>5. AvisosHasta(Len(t)) \subseteq AvisosHasta(Len(u))
    BY <1>1 DEF AvisosHasta
  <1>6. \A c : AYamaOK(t, c) => AYamaOK(u, c)
    BY <1>4, <1>5, SeqMonotonic DEF AYamaOK
  <1>7. \A c : AMasterOK(t, c) => AMasterOK(u, c)
    BY <1>3 DEF AMasterOK, OrdenPropia
  <1>8. \A H : HilosOK(t, H) => HilosOK(u, H)
    BY <1>3 DEF HilosOK
  <1>9. \A A : ArchivosOK(t, A) => ArchivosOK(u, A)
    BY <1>1 DEF ArchivosOK
  <1> QED  BY <1>6, <1>7, <1>8, <1>9

-----------------------------------------------------------------------------
(* Reading from a channel and writing to it                                *)

LEMMA AvisoLeido ==
  ASSUME NEW t, NEW c, AYamaOK(t, c), NEW j \in Jobs, c[j] # <<>>
  PROVE  /\ AYamaOK(t, [c EXCEPT ![j] = Tail(@)])
         /\ Head(c[j]) \in AvisosHasta(Len(t))
         /\ AvisoPropio(t, j, Head(c[j]))
  <1>1. c[j] \in Seq(AvisosHasta(Len(t)))  BY DEF AYamaOK
  <1>2. /\ Tail(c[j]) \in Seq(AvisosHasta(Len(t)))
        /\ Len(Tail(c[j])) = Len(c[j]) - 1 /\ Len(c[j]) \in Nat \ {0}
        /\ \A i \in 1..Len(Tail(c[j])) : Tail(c[j])[i] = c[j][i + 1]
        /\ Head(c[j]) \in AvisosHasta(Len(t)) /\ Head(c[j]) = c[j][1]
    BY <1>1, HeadTailProperties, EmptySeq
  <1>3. \A k \in 1..Len(Tail(c[j])) : AvisoPropio(t, j, Tail(c[j])[k])
    BY <1>2 DEF AYamaOK
  <1> QED  BY <1>2, <1>3 DEF AYamaOK

LEMMA OrdenLeida ==
  ASSUME NEW t, NEW c, AMasterOK(t, c), NEW j \in Jobs, c[j] # <<>>
  PROVE  /\ AMasterOK(t, [c EXCEPT ![j] = Tail(@)])
         /\ Head(c[j]) \in Ordenes
         /\ OrdenPropia(t, j, Head(c[j]))
  <1>1. c[j] \in Seq(Ordenes)  BY DEF AMasterOK
  <1>2. /\ Tail(c[j]) \in Seq(Ordenes)
        /\ Len(Tail(c[j])) = Len(c[j]) - 1 /\ Len(c[j]) \in Nat \ {0}
        /\ \A i \in 1..Len(Tail(c[j])) : Tail(c[j])[i] = c[j][i + 1]
        /\ Head(c[j]) \in Ordenes /\ Head(c[j]) = c[j][1]
    BY <1>1, HeadTailProperties, EmptySeq
  <1>3. \A k \in 1..Len(Tail(c[j])) : OrdenPropia(t, j, Tail(c[j])[k])
    BY <1>2 DEF AMasterOK
  <1> QED  BY <1>2, <1>3 DEF AMasterOK

LEMMA CanalVacio ==
  ASSUME NEW t, NEW c, NEW j \in Jobs
  PROVE  /\ AYamaOK(t, c) => AYamaOK(t, [c EXCEPT ![j] = <<>>])
         /\ AMasterOK(t, c) => AMasterOK(t, [c EXCEPT ![j] = <<>>])
  BY EmptySeq DEF AYamaOK, AMasterOK

LEMMA AvisoEscrito ==
  ASSUME NEW t, NEW c, AYamaOK(t, c), NEW j \in Jobs,
         NEW m \in AvisosHasta(Len(t)), AvisoPropio(t, j, m)
  PROVE  AYamaOK(t, [c EXCEPT ![j] = Append(@, m)])
  <1> DEFINE s == Append(c[j], m)
  <1>1. c[j] \in Seq(AvisosHasta(Len(t)))  BY DEF AYamaOK
  <1>2. /\ s \in Seq(AvisosHasta(Len(t))) /\ Len(s) = Len(c[j]) + 1 /\ Len(c[j]) \in Nat
        /\ \A i \in 1..Len(c[j]) : s[i] = c[j][i]
        /\ s[Len(c[j]) + 1] = m
    BY <1>1, LenProperties
  <1>3. \A k \in 1..Len(s) : AvisoPropio(t, j, s[k])
    BY <1>2 DEF AYamaOK
  <1> QED  BY <1>2, <1>3 DEF AYamaOK

LEMMA OrdenEscrita ==
  ASSUME NEW t, NEW c, AMasterOK(t, c), NEW j \in Jobs,
         NEW m \in Ordenes, OrdenPropia(t, j, m)
  PROVE  AMasterOK(t, [c EXCEPT ![j] = Append(@, m)])
  <1> DEFINE s == Append(c[j], m)
  <1>1. c[j] \in Seq(Ordenes)  BY DEF AMasterOK
  <1>2. /\ s \in Seq(Ordenes) /\ Len(s) = Len(c[j]) + 1 /\ Len(c[j]) \in Nat
        /\ \A i \in 1..Len(c[j]) : s[i] = c[j][i]
        /\ s[Len(c[j]) + 1] = m
    BY <1>1, LenProperties
  <1>3. \A k \in 1..Len(s) : OrdenPropia(t, j, s[k])
    BY <1>2 DEF AMasterOK
  <1> QED  BY <1>2, <1>3 DEF AMasterOK

(***************************************************************************)
(* The shape of every step of YAMA: the table grows, the message of one    *)
(* Master is taken and at most one order is sent to it.                    *)
(***************************************************************************)
LEMMA PasoDeYama ==
  ASSUME Inv, NEW j \in Jobs, EscalaresOK', CreceDesde(tabla, tabla'), UNCHANGED varsMaster,
         \/ aYama' = aYama
         \/ aYama[j] # <<>> /\ Leido(j)
         \/ aYama' = [aYama EXCEPT ![j] = <<>>],
         \/ aMaster' = aMaster
         \/ \E m \in Ordenes : OrdenPropia(tabla', j, m) /\ Manda(j, m)
  PROVE  Inv'
  <1>1. tabla \in Seq(Entrada) /\ tabla' \in Seq(Entrada)
    BY DEF Inv, CreceDesde
  <1>2. /\ AYamaOK(tabla', aYama) /\ AMasterOK(tabla', aMaster)
        /\ HilosOK(tabla', hilos) /\ ArchivosOK(tabla', archivos)
    BY <1>1, CanalesCrecen DEF Inv
  <1>3. AYamaOK(tabla', aYama')
    <2>1. CASE aYama' = aYama  BY <2>1, <1>2 DEF Inv
    <2>2. CASE aYama[j] # <<>> /\ Leido(j)
      BY <2>2, <1>2, AvisoLeido DEF Inv, Leido
    <2>3. CASE aYama' = [aYama EXCEPT ![j] = <<>>]
      BY <2>3, <1>2, CanalVacio DEF Inv
    <2> QED  BY <2>1, <2>2, <2>3
  <1>4. AMasterOK(tabla', aMaster')
    <2>1. CASE aMaster' = aMaster  BY <2>1, <1>2 DEF Inv
    <2>2. ASSUME NEW m \in Ordenes, OrdenPropia(tabla', j, m), Manda(j, m)
          PROVE  AMasterOK(tabla', aMaster')
      BY <2>2, <1>2, OrdenEscrita DEF Inv, Manda
    <2> QED  BY <2>1, <2>2
  <1> QED  BY <1>1, <1>2, <1>3, <1>4 DEF Inv, varsMaster

LEMMA OrdenVacia ==
  ASSUME NEW t, NEW j, NEW tipo \in TiposOrden
  PROVE  Orden(tipo, {}) \in Ordenes /\ OrdenPropia(t, j, Orden(tipo, {}))
  BY DEF Orden, Ordenes, OrdenPropia

LEMMA OrdenDeUna ==
  ASSUME NEW t, NEW j, NEW tipo \in TiposOrden, NEW o \in Operacion, OpPropia(t, j, o)
  PROVE  Orden(tipo, {o}) \in Ordenes /\ OrdenPropia(t, j, Orden(tipo, {o}))
  BY DEF Orden, Ordenes, OrdenPropia

LEMMA AvisoDeHilo ==
  ASSUME Inv, NEW j \in Jobs, NEW e \in EtapasDeHilo,
         Llega(j, AvisoOK(e)) \/ Llega(j, AvisoFallo(e)), NEW i, i = Head(aYama[j]).temp
  PROVE  /\ aYama[j] # <<>> /\ i \in DeEtapa(tabla, j, e)
         /\ i \in 1..Len(tabla) /\ tabla[i] \in Entrada
         /\ tabla[i].job = j /\ tabla[i].etapa = e
  <1>1. aYama[j] # <<>> /\ Head(aYama[j]).tipo \in {AvisoOK(e), AvisoFallo(e)}
    BY DEF Llega
  <1>2. AvisoPropio(tabla, j, Head(aYama[j]))
    BY <1>1, AvisoLeido DEF Inv
  <1>3. i \in DeEtapa(tabla, j, e)
    BY <1>1, <1>2 DEF AvisoPropio
  <1>4. i \in 1..Len(tabla) /\ tabla[i].job = j /\ tabla[i].etapa = e
    BY <1>3, LenProperties DEF DeEtapa, DelJob, Inv
  <1> QED  BY <1>1, <1>3, <1>4, ElementOfSeq DEF Inv

-----------------------------------------------------------------------------
(* The handlers of YAMA                                                    *)

LEMMA PasoSolicitud ==
  ASSUME Inv, NEW j \in Jobs, enviarTablaTransformacion(j) PROVE Inv'
  <1>1. Llega(j, "SOLICITUDJOB") /\ aYama[j] # <<>>
    BY DEF enviarTablaTransformacion, Llega
  <1>2. CASE /\ Responde(j, Orden("PLAN", {})) \/ EnvioRoto(j)
             /\ UNCHANGED <<tabla, asociados, copiasLibres, varsMaster>>
    <2>1. "PLAN" \in TiposOrden  BY DEF TiposOrden
    <2>2. CreceDesde(tabla, tabla')  BY <1>2, CreceRefl DEF Inv
    <2>3. EscalaresOK'
      BY <1>2 DEF Inv, EscalaresOK, Responde, EnvioRoto, varsMaster
    <2> QED  BY <1>1, <1>2, <2>1, <2>2, <2>3, OrdenVacia, PasoDeYama DEF Responde, EnvioRoto
  <1>3. ASSUME NEW p \in Planes(j),
               tabla' = tabla \o Entradas(j, p),
               asociados' = asociados \cup {j},
               copiasLibres' = [copiasLibres EXCEPT ![j] = CopiasTras(j, p)],
               Responde(j, Orden("PLAN",
                  {Op("TRANSFORMACION", Len(tabla) + b, b, {}) : b \in Bloques(j)})),
               UNCHANGED varsMaster
        PROVE  Inv'
    <2> DEFINE n == Len(tabla)
               m == Len(Copias[j])
               nuevas == Entradas(j, p)
               ops == {Op("TRANSFORMACION", n + b, b, {}) : b \in Bloques(j)}
    <2>1. m \in Nat /\ n \in Nat /\ Bloques(j) = 1..m
      <3>1. Copias[j] \in Seq((SUBSET Nodos) \ {{}})  BY SupuestoTabla
      <3> QED  BY <3>1, LenProperties DEF Bloques, Inv
    <2>2. \A b \in 1..m : nuevas[b] \in Entrada /\ nuevas[b].job = j
                                      /\ nuevas[b].etapa = "TRANSFORMACION"
      BY <2>1 DEF Entradas, Planes, Nueva, Entrada, Etapas, Estados
    <2>3. nuevas \in [1..m -> Entrada]
      BY <2>1, <2>2 DEF Entradas
    <2>4. nuevas \in Seq(Entrada) /\ Len(nuevas) = m
      <3>1. nuevas \in Seq(Entrada)  BY <2>1, <2>3, SeqDef
      <3> QED  BY <2>1, <2>3, <3>1, LenProperties
    <2>5. /\ tabla' \in Seq(Entrada) /\ Len(tabla') = n + m
          /\ \A i \in 1..(n + m) : tabla'[i] = IF i <= n THEN tabla[i] ELSE nuevas[i - n]
      <3>1. tabla \in Seq(Entrada) /\ tabla' = tabla \o nuevas  BY <1>3 DEF Inv
      <3> HIDE DEF nuevas, m
      <3>2. /\ tabla \o nuevas \in Seq(Entrada)
            /\ Len(tabla \o nuevas) = Len(tabla) + Len(nuevas)
            /\ \A i \in 1..(Len(tabla) + Len(nuevas)) :
                 (tabla \o nuevas)[i] = IF i <= Len(tabla) THEN tabla[i] ELSE nuevas[i - Len(tabla)]
        BY <2>4, <3>1, ConcatProperties, Zenon
      <3> QED  BY <2>4, <3>1, <3>2
    <2> HIDE DEF n, m, nuevas
    <2>6. CreceDesde(tabla, tabla')
      BY <2>1, <2>5 DEF CreceDesde, n
    <2>7. \A b \in 1..m : n + b \in DeEtapa(tabla', j, "TRANSFORMACION")
      <3>1. DOMAIN tabla' = 1..(n + m)  BY <2>5, LenProperties
      <3>2. ASSUME NEW b \in 1..m
            PROVE  n + b \in 1..(n + m) /\ tabla'[n + b] = nuevas[b]
        BY <2>1, <2>5
      <3> QED  BY <2>2, <3>1, <3>2 DEF DeEtapa, DelJob
    <2>8. \A o \in ops : o \in Operacion /\ OpPropia(tabla', j, o)
      BY <2>1, <2>7 DEF Op, Operacion, OpPropia, Etapas
    <2> USE DEF n
    <2>9. Orden("PLAN", ops) \in Ordenes /\ OrdenPropia(tabla', j, Orden("PLAN", ops))
      BY <2>8 DEF Orden, Ordenes, OrdenPropia, TiposOrden
    <2>10. EscalaresOK'
      <3>1. CopiasTras(j, p) \in SUBSET (Nodos \X Nat)  BY <2>1 DEF CopiasTras
      <3> QED  BY <1>3, <3>1 DEF Inv, EscalaresOK, Responde, varsMaster
    <2> QED  BY <1>1, <1>3, <2>6, <2>9, <2>10, PasoDeYama DEF Responde
  <1>4. CASE Cae
    <2>1. EscalaresOK'  BY <1>4 DEF Cae, Inv, EscalaresOK, varsMaster
    <2>2. CreceDesde(tabla, tabla')  BY <1>4, CreceRefl DEF Inv, Cae
    <2> QED  BY <1>4, <2>1, <2>2, PasoDeYama DEF Cae
  <1> QED  BY <1>2, <1>3, <1>4 DEF enviarTablaTransformacion

LEMMA MatarCumple ==
  ASSUME Inv, NEW j \in Jobs, NEW t \in Seq(Entrada), CreceDesde(tabla, t),
         matarPorReplanificacion(j, t)
  PROVE  Inv'
  <1>1. tabla' \in Seq(Entrada) /\ CreceDesde(tabla, tabla')
    BY DesasociarCrece, CreceTrans DEF matarPorReplanificacion, Inv
  <1>2. "FALLOTRANSFORMACION" \in TiposOrden  BY DEF TiposOrden, TiposFallo
  <1>3. EscalaresOK'
    BY DEF matarPorReplanificacion, Inv, EscalaresOK, varsMaster
  <1> QED  BY <1>1, <1>2, <1>3, OrdenVacia, PasoDeYama DEF matarPorReplanificacion

\* Handing entry i to its copy adds one entry, and its order names it.
LEMMA CopiaCumple ==
  ASSUME Inv, NEW j \in Jobs, NEW t \in Seq(Entrada), CreceDesde(tabla, t),
         NEW i \in 1..Len(t), TieneCopia(j, t[i]), AsignarACopia(j, t, i)
  PROVE  /\ CreceDesde(tabla, tabla')
         /\ copiasLibres' \in [Jobs -> SUBSET (Nodos \X Nat)]
         /\ \E m \in Ordenes : OrdenPropia(tabla', j, m) /\ Manda(j, m)
  <1> DEFINE e == Nueva(j, "TRANSFORMACION", t[i].copia, t[i].bloque, Nulo)
             o == Op("TRANSFORMACION", Len(t) + 1, t[i].bloque, {})
  <1>1. Len(t) \in Nat /\ t[i] \in Entrada  BY LenProperties, ElementOfSeq
  <1>2. e \in Entrada
    BY <1>1 DEF Nueva, Entrada, Etapas, Estados, TieneCopia
  <1>3. /\ tabla' \in Seq(Entrada) /\ CreceDesde(t, tabla')
        /\ Len(tabla') = Len(t) + 1 /\ tabla'[Len(t) + 1] = e
    BY <1>2, AgregarCrece DEF AsignarACopia, CreceDesde
  <1>4. CreceDesde(tabla, tabla')
    BY <1>3, CreceTrans DEF Inv
  <1>5. o \in Operacion
    BY <1>1 DEF Op, Operacion, Entrada, Etapas
  <1>6. Len(t) + 1 \in DeEtapa(tabla', j, "TRANSFORMACION")
    BY <1>1, <1>3, LenProperties DEF DeEtapa, DelJob, Nueva
  <1>7. OpPropia(tabla', j, o)
    BY <1>6 DEF OpPropia, Op
  <1>8. "REPLANIFICACION" \in TiposOrden  BY DEF TiposOrden
  <1>9. Orden("REPLANIFICACION", {o}) \in Ordenes /\ OrdenPropia(tabla', j, Orden("REPLANIFICACION", {o}))
    BY <1>5, <1>7, <1>8, OrdenDeUna
  <1>10. copiasLibres' \in [Jobs -> SUBSET (Nodos \X Nat)]
    BY DEF AsignarACopia, Inv, EscalaresOK
  <1> QED  BY <1>4, <1>9, <1>10 DEF AsignarACopia

LEMMA PasoCae ==
  ASSUME Inv, NEW j \in Jobs, Cae
  PROVE  Inv'
  <1>1. EscalaresOK'  BY DEF Cae, Inv, EscalaresOK, varsMaster
  <1>2. CreceDesde(tabla, tabla')  BY CreceRefl DEF Inv, Cae
  <1> QED  BY <1>1, <1>2, PasoDeYama DEF Cae

LEMMA PasoReplanificar ==
  ASSUME Inv, NEW j \in Jobs, replanificar(j) PROVE Inv'
  <1> DEFINE i == Head(aYama[j]).temp
             t == Marcar(tabla, {i}, "ERRORYAMA")
  <1>1. AvisoFallo("TRANSFORMACION") = "FALLOTRANSFORMACION" /\ "TRANSFORMACION" \in EtapasDeHilo
    BY DEF AvisoFallo, EtapasDeHilo
  <1>2. aYama[j] # <<>> /\ i \in 1..Len(tabla) /\ tabla[i] \in Entrada
    BY <1>1, AvisoDeHilo DEF replanificar
  <1>3. /\ t \in Seq(Entrada) /\ CreceDesde(tabla, t) /\ Len(t) = Len(tabla)
        /\ t[i].copia = tabla[i].copia /\ t[i].bloque = tabla[i].bloque
    <2>1. "ERRORYAMA" \in Estados  BY DEF Estados
    <2> QED  BY <1>2, <2>1, MarcarCrece DEF Inv, CreceDesde
  <1> HIDE DEF i, t
  <1>4. CASE matarPorReplanificacion(j, t)
    BY <1>3, <1>4, MatarCumple
  <1>5. CASE /\ tabla' = AjustarCarga(t, j) /\ Leido(j)
             /\ UNCHANGED <<asociados, conectados, copiasLibres, yama, replan, aMaster, varsMaster>>
    <2>1. CreceDesde(tabla, tabla')
      BY <1>3, <1>5, DesasociarCrece, CreceTrans DEF Inv
    <2>2. EscalaresOK'  BY <1>5 DEF Inv, EscalaresOK, varsMaster
    <2> QED  BY <1>2, <1>5, <2>1, <2>2, PasoDeYama
  <1>6. CASE /\ j \in asociados /\ TieneCopia(j, tabla[i])
             /\ AsignarACopia(j, t, i)
             /\ Leido(j)
             /\ replan' = [job |-> j, nodo |-> tabla[i].nodo]
             /\ UNCHANGED <<asociados, conectados, yama, varsMaster>>
    <2>1. TieneCopia(j, t[i])  BY <1>3, <1>6 DEF TieneCopia
    <2>2. /\ CreceDesde(tabla, tabla') /\ copiasLibres' \in [Jobs -> SUBSET (Nodos \X Nat)]
          /\ \E m \in Ordenes : OrdenPropia(tabla', j, m) /\ Manda(j, m)
      BY <1>2, <1>3, <1>6, <2>1, CopiaCumple
    <2>3. EscalaresOK'
      BY <1>2, <1>6, <2>2 DEF Inv, EscalaresOK, varsMaster, Entrada
    <2> QED  BY <1>2, <1>6, <2>2, <2>3, PasoDeYama
  <1>7. CASE Cae  BY <1>7, PasoCae
  <1> QED  BY <1>4, <1>5, <1>6, <1>7 DEF replanificar, i, t

LEMMA PasoReplanificarFinalizadas ==
  ASSUME Inv, NEW j \in Jobs, replanificarFinalizadas(j) PROVE Inv'
  <1>1. PICK i \in Finalizadas(replan) :
          LET t == Marcar(tabla, {i}, "ERRORYAMA")
          IN  \/ /\ yama' = "indefinida"
                 /\ UNCHANGED <<tabla, asociados, conectados, copiasLibres,
                                replan, aYama, aMaster, varsMaster>>
              \/ matarPorReplanificacion(j, t)
              \/ /\ \/ TieneCopia(j, tabla[i]) /\ AsignarACopia(j, t, i)
                    \/ tabla' = t /\ UNCHANGED <<copiasLibres, aMaster>>
                 /\ UNCHANGED <<asociados, conectados, yama, replan, aYama, varsMaster>>
              \/ Cae
    BY DEF replanificarFinalizadas
  <1> DEFINE t == Marcar(tabla, {i}, "ERRORYAMA")
  <1>2. i \in 1..Len(tabla)
    BY LenProperties DEF Finalizadas, DelJob, Inv
  <1>3. /\ t \in Seq(Entrada) /\ CreceDesde(tabla, t) /\ Len(t) = Len(tabla)
        /\ t[i].copia = tabla[i].copia /\ t[i].bloque = tabla[i].bloque
    <2>1. "ERRORYAMA" \in Estados  BY DEF Estados
    <2> QED  BY <1>2, <2>1, MarcarCrece DEF Inv, CreceDesde
  <1> HIDE DEF t
  <1>4. CASE /\ yama' = "indefinida"
             /\ UNCHANGED <<tabla, asociados, conectados, copiasLibres,
                            replan, aYama, aMaster, varsMaster>>
    <2>1. EscalaresOK'  BY <1>4 DEF Inv, EscalaresOK, varsMaster
    <2>2. CreceDesde(tabla, tabla')  BY <1>4, CreceRefl DEF Inv
    <2> QED  BY <1>4, <2>1, <2>2, PasoDeYama
  <1>5. CASE matarPorReplanificacion(j, t)  BY <1>3, <1>5, MatarCumple
  <1>6. CASE /\ TieneCopia(j, tabla[i]) /\ AsignarACopia(j, t, i)
             /\ UNCHANGED <<asociados, conectados, yama, replan, aYama, varsMaster>>
    <2>1. TieneCopia(j, t[i])  BY <1>3, <1>6 DEF TieneCopia
    <2>2. /\ CreceDesde(tabla, tabla') /\ copiasLibres' \in [Jobs -> SUBSET (Nodos \X Nat)]
          /\ \E m \in Ordenes : OrdenPropia(tabla', j, m) /\ Manda(j, m)
      BY <1>2, <1>3, <1>6, <2>1, CopiaCumple
    <2>3. EscalaresOK'
      BY <1>6, <2>2 DEF Inv, EscalaresOK, varsMaster
    <2> QED  BY <1>6, <2>2, <2>3, PasoDeYama
  <1>7. CASE /\ tabla' = t /\ UNCHANGED <<copiasLibres, aMaster>>
             /\ UNCHANGED <<asociados, conectados, yama, replan, aYama, varsMaster>>
    <2>1. EscalaresOK'  BY <1>7 DEF Inv, EscalaresOK, varsMaster
    <2> QED  BY <1>3, <1>7, <2>1, PasoDeYama
  <1>8. CASE Cae  BY <1>8, PasoCae
  <1> QED  BY <1>1, <1>4, <1>5, <1>6, <1>7, <1>8 DEF t

LEMMA PasoTerminarReplanificacion ==
  ASSUME Inv, NEW j \in Jobs, TerminarReplanificacion(j) PROVE Inv'
  <1>1. EscalaresOK'  BY DEF TerminarReplanificacion, Inv, EscalaresOK, varsMaster
  <1>2. CreceDesde(tabla, tabla')  BY CreceRefl DEF Inv, TerminarReplanificacion
  <1> QED  BY <1>1, <1>2, PasoDeYama DEF TerminarReplanificacion

(***************************************************************************)
(* A handler that adds an entry of a new stage to table t and orders the   *)
(* operation, or finds the Master gone.                                    *)
(***************************************************************************)
LEMMA EtapaNuevaCumple ==
  ASSUME Inv, NEW j \in Jobs, aYama[j] # <<>>, UNCHANGED <<copiasLibres, varsMaster>>,
         NEW t \in Seq(Entrada), CreceDesde(tabla, t),
         NEW e \in {"REDUCCIONLOCAL", "REDUCGLOBAL"}, NEW n \in Nodos,
         NEW I \in SUBSET DeEtapa(t, j, EtapaPrevia(e)), NEW tipo \in TiposOrden,
         \/ /\ tabla' = Append(t, NuevaEtapa(j, e, n))
            /\ Responde(j, Orden(tipo, {Op(e, Len(t) + 1, 0, I)}))
            /\ UNCHANGED asociados
         \/ /\ tabla' = Append(Desasociar(t, j, asociados), NuevaEtapa(j, e, n))
            /\ EnvioRoto(j)
            /\ asociados' = asociados \ {j}
  PROVE  Inv'
  <1> DEFINE nueva == NuevaEtapa(j, e, n)
             o == Op(e, Len(t) + 1, 0, I)
  <1>1. nueva \in Entrada /\ nueva.job = j /\ nueva.etapa = e
    BY NuevaEtapaEntrada DEF Etapas, NuevaEtapa, Nueva
  <1>2. Len(t) \in Nat /\ DOMAIN t = 1..Len(t)  BY LenProperties
  <1> HIDE DEF nueva
  <1>3. CASE /\ tabla' = Append(t, nueva)
             /\ Responde(j, Orden(tipo, {o}))
             /\ UNCHANGED asociados
    <2>1. /\ tabla' \in Seq(Entrada) /\ CreceDesde(t, tabla')
          /\ Len(tabla') = Len(t) + 1 /\ tabla'[Len(t) + 1] = nueva
      BY <1>1, <1>3, AgregarCrece DEF CreceDesde
    <2>2. CreceDesde(tabla, tabla')  BY <2>1, CreceTrans DEF Inv
    <2>3. Len(t) + 1 \in DeEtapa(tabla', j, e)
      BY <1>1, <1>2, <2>1, LenProperties DEF DeEtapa, DelJob
    <2>4. I \subseteq DeEtapa(tabla', j, EtapaPrevia(e))
      BY <2>1, DeEtapaCrece
    <2>5. o \in Operacion
      BY <1>2 DEF Op, Operacion, Etapas, DeEtapa, DelJob
    <2>6. OpPropia(tabla', j, o)
      BY <2>3, <2>4 DEF OpPropia, Op
    <2>7. Orden(tipo, {o}) \in Ordenes /\ OrdenPropia(tabla', j, Orden(tipo, {o}))
      BY <2>5, <2>6, OrdenDeUna
    <2>8. EscalaresOK'  BY <1>3 DEF Inv, EscalaresOK, Responde, varsMaster
    <2> QED  BY <1>3, <2>2, <2>7, <2>8, PasoDeYama DEF Responde
  <1>4. CASE /\ tabla' = Append(Desasociar(t, j, asociados), nueva)
             /\ EnvioRoto(j)
             /\ asociados' = asociados \ {j}
    <2>1. /\ Desasociar(t, j, asociados) \in Seq(Entrada)
          /\ CreceDesde(tabla, Desasociar(t, j, asociados))
      BY DesasociarCrece, CreceTrans DEF Inv
    <2>2. CreceDesde(tabla, tabla')
      BY <1>1, <1>4, <2>1, AgregarCrece, CreceTrans DEF Inv, CreceDesde
    <2>3. EscalaresOK'  BY <1>4 DEF Inv, EscalaresOK, EnvioRoto, varsMaster
    <2> QED  BY <1>4, <2>2, <2>3, PasoDeYama DEF EnvioRoto
  <1> QED  BY <1>3, <1>4 DEF nueva

\* A handler that only reads its message, on a table that has grown.
LEMMA SoloLeeCumple ==
  ASSUME Inv, NEW j \in Jobs, aYama[j] # <<>>, Leido(j), CreceDesde(tabla, tabla'),
         UNCHANGED <<asociados, conectados, copiasLibres, yama, replan, aMaster, varsMaster>>
  PROVE  Inv'
  <1>1. EscalaresOK'  BY DEF Inv, EscalaresOK, varsMaster
  <1> QED  BY <1>1, PasoDeYama

LEMMA PasoTransformacionOK ==
  ASSUME Inv, NEW j \in Jobs, transformacionOK(j) PROVE Inv'
  <1> DEFINE i == Head(aYama[j]).temp
             n == tabla[i].nodo
             t == Marcar(tabla, {i}, "FINALIZADO")
             I == Grupo(t, j, n)
  <1>1. AvisoOK("TRANSFORMACION") = "TRANSFORMACIONOK" /\ "TRANSFORMACION" \in EtapasDeHilo
    BY DEF AvisoOK, EtapasDeHilo
  <1>2. aYama[j] # <<>> /\ i \in 1..Len(tabla) /\ tabla[i] \in Entrada
    BY <1>1, AvisoDeHilo DEF transformacionOK
  <1>3. n \in Nodos  BY <1>2 DEF Entrada
  <1>4. t \in Seq(Entrada) /\ CreceDesde(tabla, t)
    <2>1. "FINALIZADO" \in Estados  BY DEF Estados
    <2> QED  BY <2>1, MarcarCrece DEF Inv, CreceDesde
  <1>5. I \subseteq DeEtapa(t, j, EtapaPrevia("REDUCCIONLOCAL"))
    BY DEF Grupo, EtapaPrevia
  <1>6. "SOLICITUDREDUCCIONLOCAL" \in TiposOrden  BY DEF TiposOrden
  <1>7. UNCHANGED <<copiasLibres, varsMaster>>  BY DEF transformacionOK
  <1>8. \/ /\ tabla' = Append(t, NuevaEtapa(j, "REDUCCIONLOCAL", n))
           /\ Responde(j, Orden("SOLICITUDREDUCCIONLOCAL", {Op("REDUCCIONLOCAL", Len(t) + 1, 0, I)}))
           /\ UNCHANGED asociados
        \/ /\ tabla' = Append(Desasociar(t, j, asociados), NuevaEtapa(j, "REDUCCIONLOCAL", n))
           /\ EnvioRoto(j)
           /\ asociados' = asociados \ {j}
        \/ tabla' = t /\ Leido(j) /\ UNCHANGED <<asociados, conectados, yama, replan, aMaster>>
    BY DEF transformacionOK
  <1> HIDE DEF i, n, t, I
  <1>9. CASE tabla' = t /\ Leido(j) /\ UNCHANGED <<asociados, conectados, yama, replan, aMaster>>
    BY <1>2, <1>4, <1>7, <1>9, SoloLeeCumple
  <1> QED  BY <1>2, <1>3, <1>4, <1>5, <1>6, <1>7, <1>8, <1>9, EtapaNuevaCumple

LEMMA PasoReduccionLocalOK ==
  ASSUME Inv, NEW j \in Jobs, reduccionLocalOK(j) PROVE Inv'
  <1> DEFINE i == Head(aYama[j]).temp
             u == Marcar(tabla, {i}, "FINALIZADO")
             t == Marcar(u, Canceladas(u, i), "ERRORYAMA")
             I == ReduccionesListas(t, j)
  <1>1. aYama[j] # <<>>  BY DEF reduccionLocalOK, Llega
  <1>2. t \in Seq(Entrada) /\ CreceDesde(tabla, t)
    <2>1. "FINALIZADO" \in Estados /\ "ERRORYAMA" \in Estados  BY DEF Estados
    <2>2. u \in Seq(Entrada) /\ CreceDesde(tabla, u)
      BY <2>1, MarcarCrece DEF Inv, CreceDesde
    <2> HIDE DEF u
    <2>3. t \in Seq(Entrada) /\ CreceDesde(u, t)
      BY <2>1, <2>2, MarcarCrece DEF CreceDesde
    <2> QED  BY <2>2, <2>3, CreceTrans DEF Inv
  <1>3. I \subseteq DeEtapa(t, j, EtapaPrevia("REDUCGLOBAL"))
    BY DEF ReduccionesListas, EtapaPrevia
  <1>4. \A k \in I : t[k].nodo \in Nodos
    <2> HIDE DEF i, u, t
    <2>1. DOMAIN t = 1..Len(t) /\ \A k \in 1..Len(t) : t[k] \in Entrada
      BY <1>2, ElementOfSeq, LenProperties
    <2> QED  BY <2>1 DEF ReduccionesListas, DeEtapa, DelJob, Entrada
  <1>5. "SOLICITUDREDUCCIONGLOBAL" \in TiposOrden  BY DEF TiposOrden
  <1>6. UNCHANGED <<copiasLibres, varsMaster>>  BY DEF reduccionLocalOK
  <1>7. \/ \E k \in I :
             \/ /\ tabla' = Append(t, NuevaEtapa(j, "REDUCGLOBAL", t[k].nodo))
                /\ Responde(j, Orden("SOLICITUDREDUCCIONGLOBAL", {Op("REDUCGLOBAL", Len(t) + 1, 0, I)}))
                /\ UNCHANGED asociados
             \/ /\ tabla' = Append(Desasociar(t, j, asociados), NuevaEtapa(j, "REDUCGLOBAL", t[k].nodo))
                /\ EnvioRoto(j)
                /\ asociados' = asociados \ {j}
        \/ tabla' = t /\ Leido(j) /\ UNCHANGED <<asociados, conectados, yama, replan, aMaster>>
    BY DEF reduccionLocalOK
  <1> HIDE DEF i, u, t, I
  <1>8. CASE tabla' = t /\ Leido(j) /\ UNCHANGED <<asociados, conectados, yama, replan, aMaster>>
    BY <1>1, <1>2, <1>6, <1>8, SoloLeeCumple
  <1> QED  BY <1>1, <1>2, <1>3, <1>4, <1>5, <1>6, <1>7, <1>8, EtapaNuevaCumple

\* FALLOREDLOCAL, FALLOREDGLOBAL and the end of storage: the table keeps its length.
LEMMA PasoFallaReduccionLocal ==
  ASSUME Inv, NEW j \in Jobs, fallaReduccionLocal(j) PROVE Inv'
  <1>1. aYama[j] # <<>>  BY DEF fallaReduccionLocal, Llega
  <1>2. CASE Cae  BY <1>2, PasoCae
  <1>3. CASE /\ tabla' = Marcar(tabla, DelJob(tabla, j), "ERRORYAMA")
             /\ asociados' = asociados \ {j}
             /\ Responde(j, Orden("FALLOREDLOCAL", {})) \/ EnvioRoto(j)
             /\ UNCHANGED <<copiasLibres, varsMaster>>
    <2>1. "ERRORYAMA" \in Estados /\ "FALLOREDLOCAL" \in TiposOrden
      BY DEF Estados, TiposOrden, TiposFallo
    <2>2. CreceDesde(tabla, tabla')  BY <1>3, <2>1, MarcarCrece DEF Inv
    <2>3. EscalaresOK'
      BY <1>3 DEF Inv, EscalaresOK, Responde, EnvioRoto, varsMaster
    <2> QED  BY <1>1, <1>3, <2>1, <2>2, <2>3, OrdenVacia, PasoDeYama DEF Responde, EnvioRoto
  <1> QED  BY <1>2, <1>3 DEF fallaReduccionLocal

LEMMA DesasociarTrasMarcar ==
  ASSUME Inv, NEW j, NEW I, NEW s \in Estados,
         tabla' = Desasociar(Marcar(tabla, I, s), j, asociados)
  PROVE  CreceDesde(tabla, tabla')
  <1>1. Marcar(tabla, I, s) \in Seq(Entrada) /\ CreceDesde(tabla, Marcar(tabla, I, s))
    BY MarcarCrece DEF Inv, CreceDesde
  <1> QED  BY <1>1, DesasociarCrece, CreceTrans DEF Inv

LEMMA PasoFallaReduccionGlobal ==
  ASSUME Inv, NEW j \in Jobs, fallaReduccionGlobal(j) PROVE Inv'
  <1>1. aYama[j] # <<>>  BY DEF fallaReduccionGlobal, Llega
  <1>2. "ERRORYAMA" \in Estados /\ "FALLOREDGLOBAL" \in TiposOrden
    BY DEF Estados, TiposOrden, TiposFallo
  <1>3. CreceDesde(tabla, tabla')
    BY <1>2, DesasociarTrasMarcar DEF fallaReduccionGlobal
  <1>4. EscalaresOK'
    BY DEF fallaReduccionGlobal, Inv, EscalaresOK, Responde, EnvioRoto, varsMaster
  <1> QED  BY <1>1, <1>2, <1>3, <1>4, OrdenVacia, PasoDeYama
           DEF fallaReduccionGlobal, Responde, EnvioRoto

LEMMA PasoReduccionGlobalOk ==
  ASSUME Inv, NEW j \in Jobs, reduccionGlobalOk(j) PROVE Inv'
  <1> DEFINE G == Primera(tabla, j, "REDUCGLOBAL")
             t == Marcar(tabla, G, "FINALIZADO")
  <1>1. aYama[j] # <<>> /\ Leido(j)
    BY DEF reduccionGlobalOk, Llega
  <1>2. EscalaresOK'
    BY DEF reduccionGlobalOk, Inv, EscalaresOK, varsMaster
  <1>3. UNCHANGED varsMaster  BY DEF reduccionGlobalOk
  <1>4. t \in Seq(Entrada) /\ CreceDesde(tabla, t)
        /\ \A i \in 1..Len(tabla) : t[i].nodo = tabla[i].nodo
    <2>1. "FINALIZADO" \in Estados  BY DEF Estados
    <2> QED  BY <2>1, MarcarCrece DEF Inv, CreceDesde
  <1>5. CASE UNCHANGED <<tabla, aMaster>>
    <2>1. CreceDesde(tabla, tabla')  BY <1>5, CreceRefl DEF Inv
    <2> QED  BY <1>1, <1>2, <1>3, <1>5, <2>1, PasoDeYama
  <1>6. ASSUME NEW g \in G,
               tabla' = Append(t, NuevaEtapa(j, "ALMACENAMIENTOOP", t[g].nodo)),
               Manda(j, Orden("SOLICITUDALMACENAMIENTO", {Op("ALMACENAMIENTOOP", g, 0, {g})}))
        PROVE  Inv'
    <2> DEFINE o == Op("ALMACENAMIENTOOP", g, 0, {g})
    <2>1. g \in 1..Len(tabla) /\ g \in DeEtapa(tabla, j, "REDUCGLOBAL") /\ Len(tabla) \in Nat
      BY LenProperties DEF Primera, DeEtapa, DelJob, Inv
    <2> HIDE DEF t
    <2>2. t[g].nodo \in Nodos
      <3>1. tabla[g] \in Entrada  BY <2>1, ElementOfSeq DEF Inv
      <3> QED  BY <1>4, <2>1, <3>1 DEF Entrada
    <2>3. CreceDesde(t, tabla')
      BY <1>4, <1>6, <2>2, NuevaEtapaEntrada, AgregarCrece DEF Etapas
    <2>4. tabla' \in Seq(Entrada) /\ CreceDesde(tabla, tabla')
      BY <1>4, <2>3, CreceTrans DEF Inv, CreceDesde
    <2>5. g \in DeEtapa(tabla', j, "REDUCGLOBAL")
      BY <2>1, <2>4, DeEtapaCrece DEF Inv
    <2>6. o \in Operacion /\ OpPropia(tabla', j, o)
      BY <2>1, <2>5 DEF Op, Operacion, OpPropia, Etapas, EtapaPrevia
    <2>7. "SOLICITUDALMACENAMIENTO" \in TiposOrden  BY DEF TiposOrden
    <2> QED  BY <1>1, <1>2, <1>3, <1>6, <2>4, <2>6, <2>7, OrdenDeUna, PasoDeYama
  <1> QED  BY <1>5, <1>6 DEF reduccionGlobalOk

LEMMA PasoAlmacenamientoOK ==
  ASSUME Inv, NEW j \in Jobs, almacenamientoOK(j) PROVE Inv'
  <1>1. aYama[j] # <<>> /\ Leido(j)  BY DEF almacenamientoOK, Llega
  <1>2. "FINALIZADO" \in Estados  BY DEF Estados
  <1>3. CreceDesde(tabla, tabla')
    BY <1>2, DesasociarTrasMarcar DEF almacenamientoOK
  <1>4. EscalaresOK'
    BY DEF almacenamientoOK, Inv, EscalaresOK, varsMaster
  <1> QED  BY <1>1, <1>3, <1>4, PasoDeYama DEF almacenamientoOK

LEMMA PasoAlmacenamientoError ==
  ASSUME Inv, NEW j \in Jobs, almacenamientoError(j) PROVE Inv'
  <1>1. aYama[j] # <<>>  BY DEF almacenamientoError, Llega
  <1>2. "ERRORYAMA" \in Estados /\ "ERRORALMACENAMIENTO" \in TiposOrden
    BY DEF Estados, TiposOrden, TiposFallo
  <1>3. CreceDesde(tabla, tabla')
    BY <1>2, DesasociarTrasMarcar DEF almacenamientoError
  <1>4. EscalaresOK'
    BY DEF almacenamientoError, Inv, EscalaresOK, Responde, EnvioRoto, varsMaster
  <1> QED  BY <1>1, <1>2, <1>3, <1>4, OrdenVacia, PasoDeYama
           DEF almacenamientoError, Responde, EnvioRoto

LEMMA PasoComprobarConexion ==
  ASSUME Inv, NEW j \in Jobs, comprobarConexion(j) PROVE Inv'
  <1>1. CreceDesde(tabla, tabla')
    BY DesasociarCrece DEF comprobarConexion, Inv
  <1>2. EscalaresOK'
    BY DEF comprobarConexion, Inv, EscalaresOK, varsMaster
  <1> QED  BY <1>1, <1>2, PasoDeYama DEF comprobarConexion

LEMMA PasoManejarDatos ==
  ASSUME Inv, NEW j \in Jobs, ManejarDatos(j) PROVE Inv'
  BY PasoSolicitud, PasoReplanificar, PasoReplanificarFinalizadas, PasoTerminarReplanificacion,
     PasoTransformacionOK, PasoReduccionLocalOK, PasoFallaReduccionLocal,
     PasoFallaReduccionGlobal, PasoReduccionGlobalOk, PasoAlmacenamientoOK,
     PasoAlmacenamientoError, PasoComprobarConexion
  DEF ManejarDatos

-----------------------------------------------------------------------------
(* The Masters.  They leave the table alone.                               *)

LEMMA PasoDeMaster ==
  ASSUME Inv, UNCHANGED tabla, EscalaresOK',
         AYamaOK(tabla, aYama'),
         AMasterOK(tabla, aMaster'),
         HilosOK(tabla, hilos'), ArchivosOK(tabla, archivos')
  PROVE  Inv'
  BY DEF Inv

LEMMA SaleCumple ==
  ASSUME Inv, NEW j \in Jobs, NEW s \in Puntos, Sale(j, s)
  PROVE  /\ maestro' \in [Jobs -> Puntos]
         /\ AMasterOK(tabla, aMaster')
         /\ HilosOK(tabla, hilos')
         /\ ArchivosOK(tabla, archivos')
  <1>1. maestro' \in [Jobs -> Puntos]  BY DEF Sale, Inv, EscalaresOK
  <1>2. AMasterOK(tabla, aMaster')
    BY CanalVacio DEF Sale, Inv
  <1>3. HilosOK(tabla, hilos')
    BY DEF Sale, Inv, HilosOK
  <1> QED  BY <1>1, <1>2, <1>3 DEF Sale, Inv

LEMMA LanzaCumple ==
  ASSUME Inv, NEW j \in Jobs, NEW s \in Puntos, aMaster[j] # <<>>, Lanza(j, s)
  PROVE  /\ maestro' \in [Jobs -> Puntos]
         /\ AMasterOK(tabla, aMaster')
         /\ HilosOK(tabla, hilos')
         /\ ArchivosOK(tabla, archivos')
  <1>1. maestro' \in [Jobs -> Puntos]  BY DEF Lanza, Inv, EscalaresOK
  <1>2. /\ AMasterOK(tabla, [aMaster EXCEPT ![j] = Tail(@)])
        /\ Head(aMaster[j]) \in Ordenes /\ OrdenPropia(tabla, j, Head(aMaster[j]))
    BY OrdenLeida DEF Inv
  <1>3. HilosOK(tabla, hilos')
    BY <1>2 DEF Lanza, Inv, HilosOK, Ordenes, OrdenPropia
  <1> QED  BY <1>1, <1>2, <1>3 DEF Lanza, Inv

LEMMA PasoSolicitudJob ==
  ASSUME Inv, NEW j \in Jobs, solicitudJob(j) PROVE Inv'
  <1> DEFINE m == Respuesta("SOLICITUDJOB", 0)
  <1>1. CASE /\ maestro' = [maestro EXCEPT ![j] = "solicitando"]
             /\ conectados' = conectados \cup {j}
             /\ aYama' = [aYama EXCEPT ![j] = Append(@, m)]
             /\ UNCHANGED <<aMaster, hilos, archivos>>
    <2>1. m \in AvisosHasta(Len(tabla))
      BY LenProperties DEF Respuesta, AvisosHasta, Inv
    <2>2. AvisoPropio(tabla, j, m)
      BY DEF AvisoPropio, Respuesta, EtapasDeHilo, AvisoOK, AvisoFallo
    <2>3. AYamaOK(tabla, aYama')
      BY <1>1, <2>1, <2>2, AvisoEscrito DEF Inv
    <2>4. EscalaresOK'
      BY <1>1 DEF Inv, EscalaresOK, solicitudJob, Puntos
    <2> QED  BY <1>1, <2>3, <2>4, PasoDeMaster DEF Inv, solicitudJob
  <1>2. CASE Sale(j, "abortado") /\ UNCHANGED <<conectados, aYama>>
    <2>1. "abortado" \in Puntos  BY DEF Puntos, Salidas
    <2> QED  BY <1>2, <2>1, SaleCumple, PasoDeMaster DEF Inv, EscalaresOK, solicitudJob
  <1> QED  BY <1>1, <1>2 DEF solicitudJob

\* A step of a Master that touches neither YAMA nor its own channel to YAMA.
LEMMA SaleOLanza ==
  ASSUME Inv, NEW j \in Jobs, NEW s \in Puntos, UNCHANGED <<varsYama, aYama>>,
         Sale(j, s) \/ (aMaster[j] # <<>> /\ Lanza(j, s))
  PROVE  Inv'
  BY SaleCumple, LanzaCumple, PasoDeMaster DEF Inv, EscalaresOK, varsYama

LEMMA PasoHiloPrincipal ==
  ASSUME Inv, NEW j \in Jobs, HiloPrincipal(j) PROVE Inv'
  <1> USE DEF Recibe, Puntos, Salidas
  <1>1. CASE solicitudJob(j)  BY <1>1, PasoSolicitudJob
  <1>2. CASE mandarTransformacionNodo(j)
    BY <1>2, SaleOLanza DEF mandarTransformacionNodo
  <1>3. CASE mandarReplanificado(j)  BY <1>3, SaleOLanza DEF mandarReplanificado
  <1>4. CASE reduccionLocal(j)  BY <1>4, SaleOLanza DEF reduccionLocal
  <1>5. CASE abortar(j)  BY <1>5, SaleOLanza DEF abortar
  <1>6. CASE reduccionGlobal(j)  BY <1>6, SaleOLanza DEF reduccionGlobal
  <1>7. CASE almacenamiento(j)  BY <1>7, SaleOLanza DEF almacenamiento
  <1>8. CASE yamaNoResponde(j)
    <2>1. \/ Sale(j, "abortado") \/ Sale(j, "sin_almacenar")
          \/ /\ maestro' = [maestro EXCEPT ![j] = "girando"]
             /\ UNCHANGED <<hilos, archivos, aMaster>>
      BY <1>8 DEF yamaNoResponde
    <2>2. CASE /\ maestro' = [maestro EXCEPT ![j] = "girando"]
               /\ UNCHANGED <<hilos, archivos, aMaster>>
      <3>1. EscalaresOK'
        BY <1>8, <2>2 DEF Inv, EscalaresOK, yamaNoResponde, varsYama
      <3> QED  BY <1>8, <2>2, <3>1, PasoDeMaster DEF Inv, yamaNoResponde, varsYama
    <2> QED  BY <1>8, <2>1, <2>2, SaleOLanza DEF yamaNoResponde
  <1> QED  BY <1>1, <1>2, <1>3, <1>4, <1>5, <1>6, <1>7, <1>8 DEF HiloPrincipal

\* The answer of a thread names the entry its operation was about.
LEMMA AvisaCumple ==
  ASSUME Inv, NEW j \in Jobs, NEW o \in hilos[j],
         NEW tipo \in {AvisoOK(o.etapa), AvisoFallo(o.etapa)}, Avisa(j, o, tipo)
  PROVE  AYamaOK(tabla, aYama')
  <1> DEFINE m == Respuesta(tipo, IF o.etapa \in EtapasDeHilo THEN o.temp ELSE 0)
  <1>1. o \in Operacion /\ OpPropia(tabla, j, o)
    BY DEF Inv, HilosOK
  <1>2. o.temp \in 1..Len(tabla) /\ Len(tabla) \in Nat
    BY <1>1, LenProperties DEF OpPropia, DeEtapa, DelJob, Inv
  <1>3. o.etapa \in Etapas  BY <1>1 DEF Operacion
  <1>4. m \in AvisosHasta(Len(tabla))
    BY <1>2, <1>3 DEF Respuesta, AvisosHasta, TiposOK, TiposFallo, AvisoOK, AvisoFallo, Etapas
  <1>5. ASSUME NEW e \in EtapasDeHilo, m.tipo \in {AvisoOK(e), AvisoFallo(e)}
        PROVE  m.temp \in DeEtapa(tabla, j, e)
    <2>1. e = o.etapa
      BY <1>3, <1>5 DEF Respuesta, AvisoOK, AvisoFallo, Etapas, EtapasDeHilo
    <2> QED  BY <1>1, <1>5, <2>1 DEF Respuesta, OpPropia, EtapasDeHilo
  <1>6. AvisoPropio(tabla, j, m)  BY <1>5 DEF AvisoPropio
  <1> QED  BY <1>4, <1>6, AvisoEscrito DEF Avisa, Inv

LEMMA ContenidoDeBloques ==
  ASSUME Inv, NEW I PROVE Contenido(I) \subseteq Nat
  BY DEF Contenido, Inv, ArchivosOK

LEMMA PasoHiloDeOperacion ==
  ASSUME Inv, NEW j \in Jobs, HiloDeOperacion(j) PROVE Inv'
  <1>1. PICK o \in hilos[j] : operacionOK(j, o) \/ trabajoAlmacenado(j, o) \/ operacionFalla(j, o)
    BY DEF HiloDeOperacion
  <1>2. o \in Operacion /\ OpPropia(tabla, j, o)
    BY DEF Inv, HilosOK
  <1>3. HilosOK(tabla, [hilos EXCEPT ![j] = @ \ {o}])
    BY DEF Inv, HilosOK
  <1>4. CASE operacionOK(j, o)
    <2>1. AYamaOK(tabla, aYama')
      BY <1>4, AvisaCumple DEF operacionOK
    <2>2. o.temp \in 1..Len(tabla)
      BY <1>2, LenProperties DEF OpPropia, DeEtapa, DelJob, Inv
    <2>3. ArchivosOK(tabla, archivos')
      <3>1. Contenido(o.entradas) \in SUBSET Nat /\ {o.bloque} \in SUBSET Nat
        BY <1>2, ContenidoDeBloques DEF Operacion
      <3> QED  BY <1>4, <2>2, <3>1 DEF operacionOK, ArchivosOK, Inv
    <2>4. EscalaresOK'
      BY <1>4 DEF operacionOK, Sigue, Inv, EscalaresOK, varsYama, Puntos
    <2> QED  BY <1>3, <1>4, <2>1, <2>3, <2>4, PasoDeMaster DEF operacionOK, Inv, varsYama
  <1>5. CASE trabajoAlmacenado(j, o)
    <2>1. AYamaOK(tabla, aYama')
      BY <1>5, AvisaCumple DEF trabajoAlmacenado
    <2>2. "fin" \in Puntos  BY DEF Puntos, Salidas
    <2> QED  BY <1>5, <2>1, <2>2, SaleCumple, PasoDeMaster
             DEF trabajoAlmacenado, Inv, EscalaresOK, varsYama
  <1>6. CASE operacionFalla(j, o)
    <2>1. AYamaOK(tabla, aYama')
      BY <1>6, AvisaCumple DEF operacionFalla
    <2>2. EscalaresOK'
      BY <1>6 DEF operacionFalla, Sigue, Inv, EscalaresOK, varsYama, Puntos
    <2> QED  BY <1>3, <1>6, <2>1, <2>2, PasoDeMaster DEF operacionFalla, Inv, varsYama
  <1> QED  BY <1>1, <1>4, <1>5, <1>6

LEMMA PasoMasterMuere ==
  ASSUME Inv, NEW j \in Jobs, MasterMuere(j) PROVE Inv'
  <1>1. "muerto" \in Puntos  BY DEF Puntos, Salidas
  <1> QED  BY <1>1, SaleOLanza DEF MasterMuere

-----------------------------------------------------------------------------
(* The theorems                                                            *)

LEMMA InicioCumple == Init => Inv
  <1> SUFFICES ASSUME Init PROVE Inv  OBVIOUS
  <1>1. EscalaresOK
    BY DEF Init, EscalaresOK, Puntos
  <1>2. tabla \in Seq(Entrada)  BY EmptySeq DEF Init
  <1>3. AYamaOK(tabla, aYama) /\ AMasterOK(tabla, aMaster)
    BY EmptySeq DEF Init, AYamaOK, AMasterOK
  <1>4. HilosOK(tabla, hilos) /\ ArchivosOK(tabla, archivos)
    BY DEF Init, HilosOK, ArchivosOK
  <1> QED  BY <1>1, <1>2, <1>3, <1>4 DEF Init, Inv

LEMMA PasoCumple == Inv /\ [Next]_vars => Inv'
  <1> SUFFICES ASSUME Inv, [Next]_vars PROVE Inv'  OBVIOUS
  <1>1. CASE Next
    BY <1>1, PasoManejarDatos, PasoHiloPrincipal, PasoHiloDeOperacion, PasoMasterMuere DEF Next
  <1>2. CASE UNCHANGED vars
    <2>1. UNCHANGED <<tabla, asociados, conectados, copiasLibres, yama, replan, aYama, aMaster,
                      maestro, hilos, archivos>>
      BY <1>2 DEF vars, varsYama, varsMaster
    <2> QED  BY <2>1 DEF Inv, EscalaresOK, AYamaOK, AMasterOK, HilosOK, ArchivosOK
  <1> QED  BY <1>1, <1>2

LEMMA InvEsBuena == Inv => TypeOK /\ BienDirigido
  <1> SUFFICES ASSUME Inv PROVE TypeOK /\ BienDirigido  OBVIOUS
  <1>1. TypeOK
    BY DEF Inv, TypeOK, EscalaresOK, AYamaOK, AMasterOK, HilosOK, ArchivosOK, AvisosHasta, Ordenes
  <1>2. BienDirigido
    BY LenProperties DEF Inv, BienDirigido, AYamaOK, AMasterOK, HilosOK, OrdenPropia
  <1> QED  BY <1>1, <1>2

LEMMA InvSiempre == Spec => []Inv
  BY InicioCumple, PasoCumple, PTL DEF Spec

\* Every variable of YAMA, of the Masters and of the channels keeps its type, and no
\* message or file names a temporary that tablaEstado does not hold.
THEOREM TipoCorrecto == Spec => []TypeOK
  BY InvSiempre, InvEsBuena, PTL

\* Whatever fails, dies or comes late, an order, a thread or an answer of a job names
\* entries of that job and of the stage it is about, so no handler of YAMA ever marks
\* an entry of another job or of another stage because of a message.
THEOREM MensajesBienDirigidos == Spec => []BienDirigido
  BY InvSiempre, InvEsBuena, PTL

-----------------------------------------------------------------------------
(* What YAMA knows of a job it follows, whatever fails, is replanned or    *)
(* dies: proofs of the safety properties of YamaTrabajosProps.             *)
(*                                                                         *)
(* The invariant has four parts for each job: what the table says of it    *)
(* (Seguido), who answers for each entry in process (Reparto, Completo),   *)
(* what its temporary files hold (OpLista, ArchivoL) and that a job is     *)
(* asked for once (Nuevo).                                                 *)

Vigente(t, i) == t[i].estado # "ERRORYAMA"

Mapa(t, j)        == DeEtapa(t, j, "TRANSFORMACION")
EnCurso(t, j)     == {i \in DelJob(t, j) : t[i].etapa \in EtapasDeHilo /\ t[i].estado = "ENPROCESO"}
Hechas(t, j, n)   == {i \in Grupo(t, j, n) : t[i].estado = "FINALIZADO"}

-----------------------------------------------------------------------------
(* What table t says of a job j that YAMA follows, with the copies C left  *)

Cubre(t, j) == \A b \in Bloques(j) : \E i \in Mapa(t, j) : t[i].bloque = b /\ Vigente(t, i)

Unica(t, j) ==
  \A i, k \in Mapa(t, j) :
    t[i].bloque = t[k].bloque /\ Vigente(t, i) /\ Vigente(t, k) => i = k

ConCopia(t, j, C) ==
  \A i \in Mapa(t, j) : Vigente(t, i) /\ t[i].copia # Nulo =>
    t[i].copia \in Nodos /\ <<t[i].copia, t[i].bloque>> \in C

\* Where something has been reduced, what still runs has no other copy.
SinVuelta(t, j) ==
  \A i \in Mapa(t, j), k \in DelJob(t, j) :
    t[k].etapa # "TRANSFORMACION" /\ t[k].nodo = t[i].nodo /\ t[i].copia # Nulo =>
      t[i].estado # "ENPROCESO"

Barrera(t, j) ==
  \A g \in DeEtapa(t, j, "REDUCGLOBAL") :
    EnCurso(t, j) = {} /\ \A k \in DeEtapa(t, j, "REDUCGLOBAL") : k = g

SoloHilosCancelados(t, j) == \A i \in DelJob(t, j) : ~Vigente(t, i) => t[i].etapa \in EtapasDeHilo

UnaPorNodo(t, j) == \A i, k \in ReduccionesListas(t, j) : t[i].nodo = t[k].nodo => i = k

Seguido(t, j, C) ==
  /\ Cubre(t, j) /\ Unica(t, j) /\ ConCopia(t, j, C) /\ SinVuelta(t, j) /\ Barrera(t, j)
  /\ SoloHilosCancelados(t, j) /\ UnaPorNodo(t, j)

-----------------------------------------------------------------------------
(* Who answers for the entries E: orders s, threads H, answers a           *)

DeHilo(O) == {o \in O : o.etapa \in EtapasDeHilo}

Reparto(s, H, a, E) ==
  /\ \A k \in 1..Len(s) : \A o \in DeHilo(s[k].ops) : o.temp \in E
  /\ \A o \in DeHilo(H) : o.temp \in E
  /\ \A k \in 1..Len(a) : a[k].temp # 0 => a[k].temp \in E
  /\ \A k, l \in 1..Len(s) : \A o \in DeHilo(s[k].ops), p \in DeHilo(s[l].ops) :
       o.temp = p.temp => k = l /\ o = p
  /\ \A o, p \in DeHilo(H) : o.temp = p.temp => o = p
  /\ \A k, l \in 1..Len(a) : a[k].temp # 0 /\ a[k].temp = a[l].temp => k = l
  /\ \A k \in 1..Len(s) : \A o \in DeHilo(s[k].ops), p \in DeHilo(H) : o.temp # p.temp
  /\ \A k \in 1..Len(s), l \in 1..Len(a) : \A o \in DeHilo(s[k].ops) : o.temp # a[l].temp
  /\ \A l \in 1..Len(a) : \A o \in DeHilo(H) : o.temp # a[l].temp

Completo(s, H, a, E) ==
  \A i \in E : \/ \E k \in 1..Len(s) : \E o \in DeHilo(s[k].ops) : o.temp = i
               \/ \E o \in DeHilo(H) : o.temp = i
               \/ \E k \in 1..Len(a) : a[k].temp = i

-----------------------------------------------------------------------------
(* What operations and files hold                                          *)

OpFiel(t, o)     == o.etapa = "TRANSFORMACION" => o.bloque = t[o.temp].bloque
OpLista(t, j, o) == o.etapa = "REDUCCIONLOCAL" => o.entradas \subseteq Hechas(t, j, t[o.temp].nodo)

\* P(o) for every operation of job j that is ordered or running.
OpsDe(s, H) == H \cup UNION {s[k].ops : k \in 1..Len(s)}

ArchivoT(t, A) == \A f \in A : t[f.temp].etapa = "TRANSFORMACION" => f.bloques \subseteq {t[f.temp].bloque}
ArchivoL(t, j, A) ==
  \A f \in A : f.temp \in DeEtapa(t, j, "REDUCCIONLOCAL") =>
    f.bloques \subseteq {t[i].bloque : i \in Hechas(t, j, t[f.temp].nodo)}

-----------------------------------------------------------------------------
(* The invariant                                                           *)

CopiasEscritas(t) == \A i \in 1..Len(t) : t[i].etapa = "TRANSFORMACION" <=> t[i].copia # Basura

\* Only the answers of the threads name an entry.
SinNombre(j) ==
  \A k \in 1..Len(aYama[j]) :
    aYama[j][k].temp # 0 =>
      aYama[j][k].tipo \in {AvisoOK(e) : e \in EtapasDeHilo} \cup {AvisoFallo(e) : e \in EtapasDeHilo}

Nuevo(j) == DelJob(tabla, j) = {} /\ j \notin asociados /\ aMaster[j] = <<>> /\ hilos[j] = {}

UnaSolicitud(j) ==
  /\ maestro[j] = "inicio" => Nuevo(j) /\ aYama[j] = <<>>
  /\ \A k \in 1..Len(aYama[j]) :
       aYama[j][k].tipo = "SOLICITUDJOB" => Nuevo(j) /\ Len(aYama[j]) = 1

Fieles(j) == \A o \in OpsDe(aMaster[j], hilos[j]) : OpFiel(tabla, o)

Seguimiento(j) ==
  /\ j \in conectados
  /\ Seguido(tabla, j, copiasLibres[j])
  /\ Reparto(aMaster[j], hilos[j], aYama[j], EnCurso(tabla, j))
  /\ Vivo(j) /\ yama = "viva" => Completo(aMaster[j], hilos[j], aYama[j], EnCurso(tabla, j))
  /\ \A o \in OpsDe(aMaster[j], hilos[j]) : OpLista(tabla, j, o)
  /\ ArchivoL(tabla, j, archivos)

\* Inside the loop of replanificar: nothing has been reduced where the operation failed.
EnReplan ==
  replan # Nulo =>
    /\ replan.job \in asociados
    /\ DeEtapa(tabla, replan.job, "REDUCGLOBAL") = {}
    /\ \A k \in DelJob(tabla, replan.job) : tabla[k].nodo = replan.nodo => tabla[k].etapa = "TRANSFORMACION"

TrabajoOK(j) == UnaSolicitud(j) /\ SinNombre(j) /\ Fieles(j) /\ (j \in asociados => Seguimiento(j))

IInv ==
  /\ Inv
  /\ SinPunteroBasura /\ CopiasEscritas(tabla) /\ ArchivoT(tabla, archivos) /\ EnReplan
  /\ \A j \in Jobs : TrabajoOK(j)

-----------------------------------------------------------------------------
(* How a step changes what the table says of one job                       *)

MismaFila(a, b) ==
  a.job = b.job /\ a.etapa = b.etapa /\ a.nodo = b.nodo /\ a.bloque = b.bloque /\ a.copia = b.copia

\* The table only grows, and an entry changes nothing but its state.
Conserva(t, u) ==
  /\ u \in Seq(Entrada) /\ Len(t) <= Len(u)
  /\ \A i \in 1..Len(t) : MismaFila(u[i], t[i])

Ajena(t, u, q) == DelJob(u, q) = DelJob(t, q) /\ \A i \in DelJob(t, q) : u[i] = t[i]

\* From t to u the entries I of job j go to state s.
Cambia(t, u, j, I, s) ==
  /\ DelJob(u, j) = DelJob(t, j)
  /\ \A i \in DelJob(t, j) :
       MismaFila(u[i], t[i]) /\ u[i].estado = IF i \in I THEN s ELSE t[i].estado

\* From t to u job j gets entry n, which is e.
Suma(t, u, j, n, e) ==
  /\ n \notin DelJob(t, j) /\ DelJob(u, j) = DelJob(t, j) \cup {n} /\ u[n] = e
  /\ \A i \in DelJob(t, j) : u[i] = t[i]

LEMMA DominioTabla ==
  ASSUME NEW t \in Seq(Entrada)
  PROVE  /\ Len(t) \in Nat /\ DOMAIN t = 1..Len(t)
         /\ \A i \in 1..Len(t) : t[i] \in Entrada
         /\ \A j : DelJob(t, j) \subseteq 1..Len(t)
  <1>1. Len(t) \in Nat /\ DOMAIN t = 1..Len(t)  BY LenProperties
  <1>2. \A i \in 1..Len(t) : t[i] \in Entrada  BY ElementOfSeq
  <1> QED  BY <1>1, <1>2 DEF DelJob

LEMMA MarcarCambia ==
  ASSUME NEW t \in Seq(Entrada), NEW I, NEW s \in Estados, NEW j, I \subseteq DelJob(t, j)
  PROVE  /\ Conserva(t, Marcar(t, I, s)) /\ Len(Marcar(t, I, s)) = Len(t)
         /\ Cambia(t, Marcar(t, I, s), j, I, s)
         /\ \A q : q # j => Ajena(t, Marcar(t, I, s), q)
  <1> DEFINE u == Marcar(t, I, s)
  <1>1. Len(t) \in Nat /\ DOMAIN t = 1..Len(t) /\ \A i \in 1..Len(t) : t[i] \in Entrada
    BY DominioTabla
  <1>2. /\ u \in Seq(Entrada) /\ Len(u) = Len(t)
        /\ \A i \in 1..Len(t) : MismaFila(u[i], t[i])
    BY MarcarCrece DEF CreceDesde, MismaFila
  <1>3. DOMAIN u = 1..Len(t)  BY <1>1, <1>2, DominioTabla
  <1>4. \A i \in 1..Len(t) : u[i] = IF i \in I THEN [t[i] EXCEPT !.estado = s] ELSE t[i]
    BY <1>1 DEF Marcar
  <1>5. \A i \in 1..Len(t) : u[i].estado = IF i \in I THEN s ELSE t[i].estado
    BY <1>1, <1>4 DEF Entrada
  <1> HIDE DEF u
  <1>6. \A q : DelJob(u, q) = DelJob(t, q)
    BY <1>1, <1>2, <1>3 DEF DelJob, MismaFila
  <1>7. Cambia(t, u, j, I, s)
    BY <1>1, <1>2, <1>5, <1>6, DominioTabla DEF Cambia
  <1>8. ASSUME NEW q, q # j PROVE Ajena(t, u, q)
    <2>1. \A i \in DelJob(t, q) : i \in 1..Len(t) /\ i \notin I
      BY <1>1, <1>8 DEF DelJob
    <2> QED  BY <1>4, <1>6, <2>1 DEF Ajena
  <1> QED  BY <1>1, <1>2, <1>7, <1>8 DEF Conserva, u

LEMMA AgregarSuma ==
  ASSUME NEW t \in Seq(Entrada), NEW e \in Entrada
  PROVE  /\ Conserva(t, Append(t, e))
         /\ Suma(t, Append(t, e), e.job, Len(t) + 1, e)
         /\ \A q : q # e.job => Ajena(t, Append(t, e), q)
  <1> DEFINE u == Append(t, e)
  <1>1. Len(t) \in Nat /\ DOMAIN t = 1..Len(t)  BY DominioTabla
  <1>2. /\ u \in Seq(Entrada) /\ Len(u) = Len(t) + 1 /\ u[Len(t) + 1] = e
        /\ \A i \in 1..Len(t) : u[i] = t[i]
    BY AgregarCrece DEF CreceDesde
  <1> HIDE DEF u
  <1>3. DOMAIN u = 1..(Len(t) + 1)  BY <1>2, DominioTabla
  <1>4. DelJob(u, e.job) = DelJob(t, e.job) \cup {Len(t) + 1} /\ Len(t) + 1 \notin DelJob(t, e.job)
    BY <1>1, <1>2, <1>3 DEF DelJob
  <1>5. ASSUME NEW q, q # e.job PROVE DelJob(u, q) = DelJob(t, q)
    BY <1>1, <1>2, <1>3, <1>5 DEF DelJob
  <1>6. \A q : \A i \in DelJob(t, q) : u[i] = t[i]
    BY <1>1, <1>2 DEF DelJob
  <1>7. Conserva(t, u)  BY <1>1, <1>2 DEF Conserva, MismaFila
  <1>8. Suma(t, u, e.job, Len(t) + 1, e)  BY <1>2, <1>4, <1>6 DEF Suma
  <1>9. \A q : q # e.job => Ajena(t, u, q)  BY <1>5, <1>6 DEF Ajena
  <1> QED  BY <1>7, <1>8, <1>9 DEF u

LEMMA ConservaTrans ==
  ASSUME NEW t \in Seq(Entrada), NEW u, NEW v, Conserva(t, u), Conserva(u, v)
  PROVE  Conserva(t, v)
  <1>1. Len(t) \in Nat /\ Len(u) \in Nat /\ Len(v) \in Nat
    BY LenProperties DEF Conserva
  <1> QED  BY <1>1 DEF Conserva, MismaFila

LEMMA AjenaTrans ==
  ASSUME NEW t, NEW u, NEW v, NEW q, Ajena(t, u, q), Ajena(u, v, q)
  PROVE  Ajena(t, v, q)
  BY DEF Ajena

LEMMA Igual ==
  ASSUME NEW t \in Seq(Entrada)
  PROVE  Conserva(t, t) /\ \A q : Ajena(t, t, q)
  BY LenProperties DEF Conserva, MismaFila, Ajena

\* To let a job go only marks its own entries.
LEMMA AjustarCambia ==
  ASSUME NEW t \in Seq(Entrada), NEW j, NEW A
  PROVE  /\ Conserva(t, AjustarCarga(t, j)) /\ \A q : q # j => Ajena(t, AjustarCarga(t, j), q)
         /\ Conserva(t, Desasociar(t, j, A)) /\ \A q : q # j => Ajena(t, Desasociar(t, j, A), q)
         /\ Len(AjustarCarga(t, j)) = Len(t) /\ Len(Desasociar(t, j, A)) = Len(t)
  <1>1. "FINALIZADO" \in Estados  BY DEF Estados
  <1>2. {i \in DelJob(t, j) : t[i].estado # "ERRORYAMA"} \subseteq DelJob(t, j)  OBVIOUS
  <1>3. /\ Conserva(t, AjustarCarga(t, j)) /\ Len(AjustarCarga(t, j)) = Len(t)
        /\ \A q : q # j => Ajena(t, AjustarCarga(t, j), q)
    BY <1>1, <1>2, MarcarCambia DEF AjustarCarga
  <1> QED  BY <1>3, Igual DEF Desasociar

-----------------------------------------------------------------------------
(* The table of a followed job, step by step                               *)

LEMMA SeguidoAjeno ==
  ASSUME NEW t, NEW u, NEW j, NEW C, Ajena(t, u, j)
  PROVE  /\ Mapa(u, j) = Mapa(t, j) /\ EnCurso(u, j) = EnCurso(t, j)
         /\ \A e : DeEtapa(u, j, e) = DeEtapa(t, j, e)
         /\ \A n : Hechas(u, j, n) = Hechas(t, j, n)
         /\ ReduccionesListas(u, j) = ReduccionesListas(t, j)
         /\ Seguido(t, j, C) => Seguido(u, j, C)
  <1>1. DelJob(u, j) = DelJob(t, j) /\ \A i \in DelJob(t, j) : u[i] = t[i]
    BY DEF Ajena
  <1>2. \A e : DeEtapa(u, j, e) = DeEtapa(t, j, e)
    BY <1>1 DEF DeEtapa
  <1>3. \A e : \A i \in DeEtapa(t, j, e) : u[i] = t[i]
    BY <1>1 DEF DeEtapa
  <1>4. Mapa(u, j) = Mapa(t, j) /\ EnCurso(u, j) = EnCurso(t, j)
    BY <1>1, <1>2 DEF Mapa, EnCurso
  <1>5. \A n : Hechas(u, j, n) = Hechas(t, j, n)
    BY <1>2, <1>3 DEF Hechas, Grupo
  <1>6. ReduccionesListas(u, j) = ReduccionesListas(t, j)
    BY <1>2, <1>3 DEF ReduccionesListas
  <1>7. ASSUME Seguido(t, j, C) PROVE Seguido(u, j, C)
    <2>1. \A i \in Mapa(t, j) : u[i] = t[i]  BY <1>3 DEF Mapa
    <2>2. Cubre(u, j) /\ Unica(u, j) /\ ConCopia(u, j, C)
      BY <1>4, <1>7, <2>1 DEF Seguido, Cubre, Unica, ConCopia, Vigente
    <2>3. SinVuelta(u, j)
      BY <1>1, <1>4, <1>7, <2>1 DEF Seguido, SinVuelta
    <2>4. Barrera(u, j)
      BY <1>2, <1>4, <1>7 DEF Seguido, Barrera
    <2>5. SoloHilosCancelados(u, j)
      BY <1>1, <1>7 DEF Seguido, SoloHilosCancelados, Vigente
    <2>6. UnaPorNodo(u, j)
      <3>1. \A i \in ReduccionesListas(t, j) : u[i] = t[i]  BY <1>3 DEF ReduccionesListas
      <3> QED  BY <1>6, <1>7, <3>1 DEF Seguido, UnaPorNodo
    <2> QED  BY <2>2, <2>3, <2>4, <2>5, <2>6 DEF Seguido
  <1> QED  BY <1>2, <1>4, <1>5, <1>6, <1>7

\* What does not change when entries only change their state.
LEMMA CambiaFila ==
  ASSUME NEW t, NEW u, NEW j, NEW I, NEW s, Cambia(t, u, j, I, s)
  PROVE  /\ Mapa(u, j) = Mapa(t, j) /\ \A e : DeEtapa(u, j, e) = DeEtapa(t, j, e)
         /\ \A n : Grupo(u, j, n) = Grupo(t, j, n)
         /\ \A i \in DelJob(t, j) : MismaFila(u[i], t[i])
         /\ \A i \in Mapa(t, j) : /\ i \in DelJob(t, j) /\ u[i].nodo = t[i].nodo
                                  /\ u[i].bloque = t[i].bloque /\ u[i].copia = t[i].copia
         /\ \A e : \A i \in DeEtapa(t, j, e) : i \in DelJob(t, j) /\ t[i].etapa = e
  <1>1. \A e : DeEtapa(u, j, e) = DeEtapa(t, j, e)
    BY DEF Cambia, DeEtapa, MismaFila
  <1>2. \A e : \A i \in DeEtapa(t, j, e) : i \in DelJob(t, j) /\ t[i].etapa = e
    BY DEF DeEtapa
  <1>3. \A n : Grupo(u, j, n) = Grupo(t, j, n)
    BY <1>1, <1>2 DEF Grupo, Cambia, MismaFila
  <1>4. \A i \in DelJob(t, j) : MismaFila(u[i], t[i])
    BY DEF Cambia
  <1> QED  BY <1>1, <1>2, <1>3, <1>4 DEF Mapa, MismaFila

\* A transformation under way ends well.
LEMMA SeguidoTermina ==
  ASSUME NEW t, NEW u, NEW j, NEW C, Seguido(t, j, C),
         NEW i \in EnCurso(t, j), t[i].etapa = "TRANSFORMACION",
         Cambia(t, u, j, {i}, "FINALIZADO")
  PROVE  /\ Seguido(u, j, C) /\ EnCurso(u, j) = EnCurso(t, j) \ {i}
         /\ DeEtapa(u, j, "REDUCGLOBAL") = {}
         /\ \A n : Hechas(t, j, n) \subseteq Hechas(u, j, n)
  <1>1. \A k \in DelJob(t, j) : u[k].estado = IF k = i THEN "FINALIZADO" ELSE t[k].estado
    BY DEF Cambia
  <1>2. i \in DelJob(t, j) /\ t[i].estado = "ENPROCESO"
    BY DEF EnCurso
  <1>3. \A k \in DelJob(t, j) : Vigente(u, k) <=> Vigente(t, k)
    BY <1>1, <1>2 DEF Vigente
  <1>4. DeEtapa(t, j, "REDUCGLOBAL") = {}
    BY DEF Seguido, Barrera
  <1>5. DelJob(u, j) = DelJob(t, j)  BY DEF Cambia
  <1>6. EnCurso(u, j) = EnCurso(t, j) \ {i}
    BY <1>1, <1>5, CambiaFila DEF EnCurso, MismaFila
  <1>7. \A n : Hechas(t, j, n) \subseteq Hechas(u, j, n)
    BY <1>1, CambiaFila DEF Hechas, Grupo
  <1>8. Cubre(u, j) /\ Unica(u, j) /\ ConCopia(u, j, C)
    <2>1. Cubre(u, j)  BY <1>3, CambiaFila DEF Seguido, Cubre
    <2>2. Unica(u, j)  BY <1>3, CambiaFila DEF Seguido, Unica
    <2>3. ConCopia(u, j, C)  BY <1>3, CambiaFila DEF Seguido, ConCopia
    <2> QED  BY <2>1, <2>2, <2>3
  <1>9. SinVuelta(u, j)
    BY <1>1, <1>5, CambiaFila DEF Seguido, SinVuelta, MismaFila
  <1>10. Barrera(u, j)
    BY <1>4, CambiaFila DEF Barrera
  <1>11. SoloHilosCancelados(u, j)
    BY <1>3, <1>5, CambiaFila DEF Seguido, SoloHilosCancelados, MismaFila
  <1>12. UnaPorNodo(u, j)
    <2>1. ReduccionesListas(u, j) = ReduccionesListas(t, j)
      BY <1>1, CambiaFila DEF ReduccionesListas
    <2>2. \A k \in ReduccionesListas(t, j) : u[k].nodo = t[k].nodo
      BY CambiaFila DEF ReduccionesListas, MismaFila
    <2> QED  BY <2>1, <2>2 DEF Seguido, UnaPorNodo
  <1> QED  BY <1>4, <1>6, <1>7, <1>8, <1>9, <1>10, <1>11, <1>12, CambiaFila DEF Seguido

\* What an entry added to the job leaves as it was.
LEMMA SumaFila ==
  ASSUME NEW t, NEW u, NEW j, NEW n, NEW e, Suma(t, u, j, n, e)
  PROVE  /\ \A p : DeEtapa(u, j, p) = DeEtapa(t, j, p) \cup {x \in {n} : e.etapa = p}
         /\ \A p : \A i \in DeEtapa(t, j, p) : i \in DelJob(t, j) /\ u[i] = t[i] /\ i # n
         /\ u[n] = e /\ n \in DelJob(u, j) /\ n \notin DelJob(t, j)
         /\ \A i \in DelJob(u, j) : i = n \/ (i \in DelJob(t, j) /\ u[i] = t[i])
         /\ \A p : e.estado # "FINALIZADO" => Hechas(u, j, p) = Hechas(t, j, p)
         /\ e.estado # "FINALIZADO" => ReduccionesListas(u, j) = ReduccionesListas(t, j)
         /\ EnCurso(u, j) = EnCurso(t, j) \cup
              {x \in {n} : e.etapa \in EtapasDeHilo /\ e.estado = "ENPROCESO"}
  <1>1. /\ n \notin DelJob(t, j) /\ DelJob(u, j) = DelJob(t, j) \cup {n} /\ u[n] = e
        /\ \A i \in DelJob(t, j) : u[i] = t[i]
    BY DEF Suma
  <1>2. \A p : DeEtapa(u, j, p) = DeEtapa(t, j, p) \cup {x \in {n} : e.etapa = p}
    BY <1>1 DEF DeEtapa
  <1>3. \A p : \A i \in DeEtapa(t, j, p) : i \in DelJob(t, j) /\ u[i] = t[i] /\ i # n
    BY <1>1 DEF DeEtapa
  <1>4. ASSUME e.estado # "FINALIZADO", NEW p
        PROVE  Hechas(u, j, p) = Hechas(t, j, p)
    BY <1>1, <1>2, <1>3, <1>4 DEF Hechas, Grupo
  <1>5. ASSUME e.estado # "FINALIZADO"
        PROVE  ReduccionesListas(u, j) = ReduccionesListas(t, j)
    BY <1>1, <1>2, <1>3, <1>5 DEF ReduccionesListas
  <1>6. EnCurso(u, j) = EnCurso(t, j) \cup
              {x \in {n} : e.etapa \in EtapasDeHilo /\ e.estado = "ENPROCESO"}
    BY <1>1 DEF EnCurso
  <1> QED  BY <1>1, <1>2, <1>3, <1>4, <1>5, <1>6

\* From t, through u, to v: transformation i is cancelled and entry n, which is e, takes
\* its block over; C and D are the copies left before and after.
PasaACopia(t, u, v, j, C, D, i, n, e) ==
  /\ Seguido(t, j, C) /\ DeEtapa(t, j, "REDUCGLOBAL") = {}
  /\ i \in Mapa(t, j) /\ Vigente(t, i) /\ t[i].copia # Nulo
  /\ Cambia(t, u, j, {i}, "ERRORYAMA") /\ Suma(u, v, j, n, e)
  /\ e = Nueva(j, "TRANSFORMACION", t[i].copia, t[i].bloque, Nulo)
  /\ D = C \ {<<t[i].copia, t[i].bloque>>}

LEMMA SeguidoCopia ==
  ASSUME NEW t, NEW u, NEW v, NEW j, NEW C, NEW D, NEW i, NEW n, NEW e,
         PasaACopia(t, u, v, j, C, D, i, n, e)
  PROVE  /\ Seguido(v, j, D)
         /\ EnCurso(v, j) = (EnCurso(t, j) \ {i}) \cup {n} /\ n \notin DelJob(t, j)
         /\ DeEtapa(v, j, "REDUCGLOBAL") = {}
         /\ \A p : p # t[i].nodo \/ t[i].estado # "FINALIZADO" => Hechas(v, j, p) = Hechas(t, j, p)
  <1> USE DEF PasaACopia
  <1>1. /\ e.job = j /\ e.etapa = "TRANSFORMACION" /\ e.nodo = t[i].copia
        /\ e.bloque = t[i].bloque /\ e.copia = Nulo /\ e.estado = "ENPROCESO"
    BY DEF Nueva
  <1>2. DelJob(u, j) = DelJob(t, j) /\ i \in DelJob(t, j) /\ t[i].etapa = "TRANSFORMACION"
    BY DEF Cambia, Mapa, DeEtapa
  <1>3. \A k \in DelJob(t, j) : u[k].estado = IF k = i THEN "ERRORYAMA" ELSE t[k].estado
    BY DEF Cambia
  <1>4. Suma(u, v, j, n, e)  OBVIOUS
  <1>5. /\ v[n] = e /\ n \notin DelJob(t, j) /\ DelJob(v, j) = DelJob(t, j) \cup {n}
        /\ \A k \in DelJob(t, j) : v[k] = u[k]
    BY <1>2, <1>4 DEF Suma
  <1>6. /\ Mapa(v, j) = Mapa(t, j) \cup {n} /\ Mapa(t, j) \subseteq DelJob(t, j)
        /\ \A p : p # "TRANSFORMACION" => DeEtapa(v, j, p) = DeEtapa(t, j, p)
    <2>1. \A p : DeEtapa(u, j, p) = DeEtapa(t, j, p)  BY CambiaFila
    <2>2. \A p : DeEtapa(v, j, p) = DeEtapa(u, j, p) \cup {x \in {n} : e.etapa = p}
      BY <1>4, SumaFila
    <2>3. DeEtapa(t, j, "TRANSFORMACION") \subseteq DelJob(t, j)  BY DEF DeEtapa
    <2> QED  BY <1>1, <2>1, <2>2, <2>3 DEF Mapa
  <1>7. /\ \A k \in DelJob(t, j) : MismaFila(v[k], t[k])
        /\ \A k \in DelJob(t, j) : v[k].estado = IF k = i THEN "ERRORYAMA" ELSE t[k].estado
    BY <1>3, <1>5, CambiaFila
  <1>8. \A k \in Mapa(v, j) :
          Vigente(v, k) <=> k = n \/ (k # i /\ k \in Mapa(t, j) /\ Vigente(t, k))
    BY <1>1, <1>2, <1>5, <1>6, <1>7 DEF Vigente
  <1>9. \A k \in Mapa(t, j) : v[k].bloque = t[k].bloque /\ v[k].copia = t[k].copia
    BY <1>6, <1>7 DEF MismaFila
  <1>10. \A b \in Bloques(j) : \E k \in Mapa(t, j) : t[k].bloque = b /\ Vigente(t, k)
    BY DEF Seguido, Cubre
  <1>11. \A k, l \in Mapa(t, j) :
           t[k].bloque = t[l].bloque /\ Vigente(t, k) /\ Vigente(t, l) => k = l
    BY DEF Seguido, Unica
  <1>12. Cubre(v, j)
    <2> SUFFICES ASSUME NEW b \in Bloques(j)
                 PROVE  \E k \in Mapa(v, j) : v[k].bloque = b /\ Vigente(v, k)
      BY DEF Cubre
    <2>1. CASE b = t[i].bloque  BY <1>1, <1>5, <1>6, <1>8, <2>1
    <2>2. CASE b # t[i].bloque
      <3>1. PICK k \in Mapa(t, j) : t[k].bloque = b /\ Vigente(t, k)  BY <1>10
      <3> QED  BY <1>6, <1>8, <1>9, <2>2, <3>1
    <2> QED  BY <2>1, <2>2
  <1>13. Unica(v, j)
    <2> SUFFICES ASSUME NEW k \in Mapa(v, j), NEW l \in Mapa(v, j),
                        v[k].bloque = v[l].bloque, Vigente(v, k), Vigente(v, l)
                 PROVE  k = l
      BY DEF Unica
    <2>1. v[n].bloque = t[i].bloque  BY <1>1, <1>5
    <2> QED  BY <1>8, <1>9, <1>11, <2>1
  <1>14. ConCopia(v, j, D)
    <2> SUFFICES ASSUME NEW k \in Mapa(v, j), Vigente(v, k), v[k].copia # Nulo
                 PROVE  v[k].copia \in Nodos /\ <<v[k].copia, v[k].bloque>> \in D
      BY DEF ConCopia
    <2>1. k # n  BY <1>1, <1>5
    <2>2. k # i /\ k \in Mapa(t, j) /\ Vigente(t, k)  BY <1>8, <2>1
    <2>3. t[k].bloque # t[i].bloque  BY <1>11, <2>2
    <2>4. v[k].copia \in Nodos /\ <<t[k].copia, t[k].bloque>> \in C
      BY <1>9, <2>2 DEF Seguido, ConCopia
    <2>5. <<t[k].copia, t[k].bloque>> # <<t[i].copia, t[i].bloque>>  BY <2>3
    <2> QED  BY <1>9, <2>2, <2>4, <2>5
  <1>15. SinVuelta(v, j)
    <2> SUFFICES ASSUME NEW k \in Mapa(v, j), NEW l \in DelJob(v, j),
                        v[l].etapa # "TRANSFORMACION", v[l].nodo = v[k].nodo, v[k].copia # Nulo
                 PROVE  v[k].estado # "ENPROCESO"
      BY DEF SinVuelta
    <2>1. k # n /\ l # n  BY <1>1, <1>5
    <2>2. k \in Mapa(t, j) /\ k \in DelJob(t, j) /\ l \in DelJob(t, j)
      BY <1>5, <1>6, <2>1
    <2>3. /\ t[l].etapa # "TRANSFORMACION" /\ t[l].nodo = t[k].nodo /\ t[k].copia # Nulo
          /\ v[k].estado = "ENPROCESO" => t[k].estado = "ENPROCESO"
      BY <1>7, <2>2 DEF MismaFila
    <2> QED  BY <2>2, <2>3 DEF Seguido, SinVuelta
  <1>16. Barrera(v, j) /\ DeEtapa(v, j, "REDUCGLOBAL") = {}
    BY <1>6 DEF Barrera
  <1>17. SoloHilosCancelados(v, j)
    <2> SUFFICES ASSUME NEW k \in DelJob(v, j), ~Vigente(v, k)
                 PROVE  v[k].etapa \in EtapasDeHilo
      BY DEF SoloHilosCancelados
    <2>1. k # n  BY <1>1, <1>5 DEF Vigente
    <2>2. k \in DelJob(t, j) /\ v[k].etapa = t[k].etapa  BY <1>5, <1>7, <2>1 DEF MismaFila
    <2>3. CASE k = i  BY <1>2, <2>2, <2>3 DEF EtapasDeHilo
    <2>4. CASE k # i
      BY <1>7, <2>2, <2>4 DEF Vigente, Seguido, SoloHilosCancelados
    <2> QED  BY <2>3, <2>4
  <1>18. UnaPorNodo(v, j)
    <2>1. \A k \in DeEtapa(t, j, "REDUCCIONLOCAL") : k \in DelJob(t, j) /\ k # i
      BY <1>2 DEF DeEtapa
    <2>2. ReduccionesListas(v, j) = ReduccionesListas(t, j)
      BY <1>6, <1>7, <2>1 DEF ReduccionesListas
    <2>3. \A k \in ReduccionesListas(t, j) : v[k].nodo = t[k].nodo
      BY <1>7, <2>1 DEF ReduccionesListas, MismaFila
    <2> QED  BY <2>2, <2>3 DEF Seguido, UnaPorNodo
  <1>19. EnCurso(v, j) = (EnCurso(t, j) \ {i}) \cup {n}
    <2>1. \A k \in DelJob(t, j) : v[k].etapa = t[k].etapa  BY <1>7 DEF MismaFila
    <2> QED  BY <1>1, <1>5, <1>7, <2>1 DEF EnCurso, EtapasDeHilo
  <1>20. ASSUME NEW p, p # t[i].nodo \/ t[i].estado # "FINALIZADO"
         PROVE  Hechas(v, j, p) = Hechas(t, j, p)
    <2>1. Hechas(v, j, p) = Hechas(u, j, p)  BY <1>1, <1>4, SumaFila
    <2>2. Hechas(u, j, p) = Hechas(t, j, p)
      BY <1>2, <1>3, <1>20, CambiaFila DEF Hechas, Grupo
    <2> QED  BY <2>1, <2>2
  <1> QED  BY <1>5, <1>12, <1>13, <1>14, <1>15, <1>16, <1>17, <1>18, <1>19, <1>20 DEF Seguido

\* Every transformation of a node has ended and the node reduces.
LEMMA SeguidoReduce ==
  ASSUME NEW t, NEW u, NEW j, NEW C, NEW n, NEW m, Seguido(t, j, C),
         DeEtapa(t, j, "REDUCGLOBAL") = {},
         \A k \in Grupo(t, j, n) : t[k].estado = "FINALIZADO",
         Suma(t, u, j, m, NuevaEtapa(j, "REDUCCIONLOCAL", n))
  PROVE  /\ Seguido(u, j, C) /\ EnCurso(u, j) = EnCurso(t, j) \cup {m}
         /\ \A p : Hechas(u, j, p) = Hechas(t, j, p)
  <1> DEFINE e == NuevaEtapa(j, "REDUCCIONLOCAL", n)
  <1>1. e.etapa = "REDUCCIONLOCAL" /\ e.nodo = n /\ e.estado = "ENPROCESO"
    BY DEF NuevaEtapa, Nueva
  <1> HIDE DEF e
  <1>2. Suma(t, u, j, m, e)  BY DEF e
  <1>3. /\ u[m] = e /\ m \notin DelJob(t, j) /\ DelJob(u, j) = DelJob(t, j) \cup {m}
        /\ \A k \in DelJob(t, j) : u[k] = t[k]
    BY <1>2 DEF Suma
  <1>4. /\ Mapa(u, j) = Mapa(t, j) /\ DeEtapa(u, j, "REDUCGLOBAL") = {}
        /\ \A k \in Mapa(t, j) : k \in DelJob(t, j) /\ u[k] = t[k]
    <2>1. \A p : DeEtapa(u, j, p) = DeEtapa(t, j, p) \cup {x \in {m} : e.etapa = p}
      BY <1>2, SumaFila
    <2>2. \A k \in DeEtapa(t, j, "TRANSFORMACION") : k \in DelJob(t, j) /\ u[k] = t[k]
      BY <1>2, SumaFila
    <2> QED  BY <1>1, <2>1, <2>2 DEF Mapa
  <1>5. Cubre(u, j) /\ Unica(u, j) /\ ConCopia(u, j, C)
    BY <1>4 DEF Seguido, Cubre, Unica, ConCopia, Vigente
  <1>6. SinVuelta(u, j)
    <2> SUFFICES ASSUME NEW k \in Mapa(u, j), NEW l \in DelJob(u, j),
                        u[l].etapa # "TRANSFORMACION", u[l].nodo = u[k].nodo, u[k].copia # Nulo
                 PROVE  u[k].estado # "ENPROCESO"
      BY DEF SinVuelta
    <2>1. CASE l = m
      <3>1. k \in Grupo(t, j, n)  BY <1>1, <1>3, <1>4, <2>1 DEF Mapa, Grupo
      <3> QED  BY <1>4, <3>1
    <2>2. CASE l # m  BY <1>3, <1>4, <2>2 DEF Seguido, SinVuelta
    <2> QED  BY <2>1, <2>2
  <1>7. Barrera(u, j)  BY <1>4 DEF Barrera
  <1>8. SoloHilosCancelados(u, j)
    BY <1>1, <1>3 DEF Seguido, SoloHilosCancelados, Vigente
  <1>9. UnaPorNodo(u, j)
    <2>1. ReduccionesListas(u, j) = ReduccionesListas(t, j)  BY <1>1, <1>2, SumaFila
    <2>2. \A k \in ReduccionesListas(t, j) : u[k] = t[k]
      BY <1>3 DEF ReduccionesListas, DeEtapa
    <2> QED  BY <2>1, <2>2 DEF Seguido, UnaPorNodo
  <1>10. EnCurso(u, j) = EnCurso(t, j) \cup {m} /\ \A p : Hechas(u, j, p) = Hechas(t, j, p)
    BY <1>1, <1>2, SumaFila DEF EtapasDeHilo
  <1> QED  BY <1>5, <1>6, <1>7, <1>8, <1>9, <1>10 DEF Seguido

\* A local reduction ends and cancels the one it replaces.
LEMMA SeguidoReducida ==
  ASSUME NEW t, NEW u, NEW v, NEW j, NEW C, Seguido(t, j, C),
         NEW i \in EnCurso(t, j), t[i].etapa = "REDUCCIONLOCAL", t[i].job = j,
         Cambia(t, u, j, {i}, "FINALIZADO"),
         Cambia(u, v, j, Canceladas(u, i), "ERRORYAMA")
  PROVE  /\ Seguido(v, j, C) /\ EnCurso(v, j) = EnCurso(t, j) \ {i}
         /\ DeEtapa(v, j, "REDUCGLOBAL") = {}
         /\ \A n : Hechas(v, j, n) = Hechas(t, j, n)
  <1> DEFINE K == Canceladas(u, i)
  <1>1. i \in DelJob(t, j) /\ t[i].estado = "ENPROCESO" /\ u[i].job = j /\ u[i].nodo = t[i].nodo
    BY CambiaFila DEF EnCurso, MismaFila
  <1>2. /\ DelJob(u, j) = DelJob(t, j) /\ DelJob(v, j) = DelJob(t, j)
        /\ \A k \in DelJob(t, j) : u[k].estado = IF k = i THEN "FINALIZADO" ELSE t[k].estado
        /\ \A k \in DelJob(t, j) : v[k].estado = IF k \in K THEN "ERRORYAMA" ELSE u[k].estado
    BY DEF Cambia
  <1>3. /\ Mapa(v, j) = Mapa(t, j) /\ \A e : DeEtapa(v, j, e) = DeEtapa(t, j, e)
        /\ \A e : DeEtapa(u, j, e) = DeEtapa(t, j, e)
        /\ \A n : Grupo(v, j, n) = Grupo(t, j, n)
    BY CambiaFila
  <1>4. \A k \in DelJob(t, j) : MismaFila(v[k], t[k]) /\ MismaFila(u[k], t[k])
    BY <1>2, CambiaFila DEF MismaFila
  <1>5. \A k : k \in K <=> /\ k \in DeEtapa(t, j, "REDUCCIONLOCAL") /\ k # i
                           /\ t[k].estado = "FINALIZADO" /\ t[k].nodo = t[i].nodo
    <2>1. \A k \in DeEtapa(t, j, "REDUCCIONLOCAL") : k \in DelJob(t, j)  BY DEF DeEtapa
    <2> QED  BY <1>1, <1>2, <1>3, <1>4, <2>1 DEF Canceladas, ReduccionesListas, MismaFila
  <1> HIDE DEF K
  <1>6. \A k \in Mapa(t, j) : /\ k \in DelJob(t, j) /\ t[k].etapa = "TRANSFORMACION"
                              /\ k # i /\ k \notin K
    BY <1>5 DEF Mapa, DeEtapa
  <1>7. \A k \in Mapa(t, j) : /\ v[k].estado = t[k].estado /\ v[k].bloque = t[k].bloque
                              /\ v[k].copia = t[k].copia /\ v[k].nodo = t[k].nodo
    BY <1>2, <1>4, <1>6 DEF MismaFila
  <1>8. DeEtapa(t, j, "REDUCGLOBAL") = {}  BY DEF Seguido, Barrera
  <1>9. Cubre(v, j) /\ Unica(v, j) /\ ConCopia(v, j, C)
    BY <1>3, <1>7 DEF Seguido, Cubre, Unica, ConCopia, Vigente
  <1>10. SinVuelta(v, j)
    <2> SUFFICES ASSUME NEW k \in Mapa(v, j), NEW l \in DelJob(v, j),
                        v[l].etapa # "TRANSFORMACION", v[l].nodo = v[k].nodo, v[k].copia # Nulo
                 PROVE  v[k].estado # "ENPROCESO"
      BY DEF SinVuelta
    <2>1. k \in Mapa(t, j) /\ l \in DelJob(t, j)  BY <1>2, <1>3
    <2> QED  BY <1>4, <1>7, <2>1 DEF Seguido, SinVuelta, MismaFila
  <1>11. Barrera(v, j)  BY <1>3, <1>8 DEF Barrera
  <1>12. SoloHilosCancelados(v, j)
    <2> SUFFICES ASSUME NEW k \in DelJob(v, j), ~Vigente(v, k)
                 PROVE  v[k].etapa \in EtapasDeHilo
      BY DEF SoloHilosCancelados
    <2>1. k \in DelJob(t, j) /\ v[k].etapa = t[k].etapa  BY <1>2, <1>4 DEF MismaFila
    <2>2. CASE k \in K  BY <1>5, <2>1, <2>2 DEF EtapasDeHilo, DeEtapa
    <2>3. CASE k \notin K
      BY <1>2, <2>1, <2>3 DEF Vigente, Seguido, SoloHilosCancelados
    <2> QED  BY <2>2, <2>3
  <1>13. UnaPorNodo(v, j)
    <2>1. \A k : k \in ReduccionesListas(v, j) =>
                   /\ k \in DeEtapa(t, j, "REDUCCIONLOCAL") /\ k \notin K
                   /\ k = i \/ t[k].estado = "FINALIZADO"
                   /\ v[k].nodo = t[k].nodo
      <3>1. \A k \in DeEtapa(t, j, "REDUCCIONLOCAL") : k \in DelJob(t, j)  BY DEF DeEtapa
      <3> QED  BY <1>2, <1>3, <1>4, <3>1 DEF ReduccionesListas, MismaFila
    <2>2. \A k, l \in DeEtapa(t, j, "REDUCCIONLOCAL") :
            t[k].estado = "FINALIZADO" /\ t[l].estado = "FINALIZADO" /\ t[k].nodo = t[l].nodo
              => k = l
      BY DEF Seguido, UnaPorNodo, ReduccionesListas
    <2> SUFFICES ASSUME NEW k \in ReduccionesListas(v, j), NEW l \in ReduccionesListas(v, j),
                        v[k].nodo = v[l].nodo
                 PROVE  k = l
      BY DEF UnaPorNodo
    <2> QED  BY <1>5, <2>1, <2>2
  <1>14. EnCurso(v, j) = EnCurso(t, j) \ {i}
    <2>1. \A k \in DelJob(t, j) : v[k].etapa = t[k].etapa  BY <1>4 DEF MismaFila
    <2> QED  BY <1>2, <1>5, <2>1 DEF EnCurso
  <1>15. \A n : Hechas(v, j, n) = Hechas(t, j, n)
    BY <1>3, <1>7 DEF Hechas, Grupo, Mapa
  <1> QED  BY <1>3, <1>8, <1>9, <1>10, <1>11, <1>12, <1>13, <1>14, <1>15 DEF Seguido

\* From t to u an entry of the last two stages is added, with nothing of the map under way.
AgregaUltima(t, u, j, C, m, e, n) ==
  /\ Seguido(t, j, C) /\ EnCurso(t, j) = {} /\ Suma(t, u, j, m, NuevaEtapa(j, e, n))
  /\ \/ e = "REDUCGLOBAL" /\ DeEtapa(t, j, "REDUCGLOBAL") = {}
     \/ e = "ALMACENAMIENTOOP"

LEMMA SeguidoUltimas ==
  ASSUME NEW t, NEW u, NEW j, NEW C, NEW m, NEW e, NEW n, AgregaUltima(t, u, j, C, m, e, n)
  PROVE  /\ Seguido(u, j, C) /\ EnCurso(u, j) = {}
         /\ \A p : Hechas(u, j, p) = Hechas(t, j, p)
  <1> USE DEF AgregaUltima
  <1> DEFINE f == NuevaEtapa(j, e, n)
  <1>1. f.etapa = e /\ f.nodo = n /\ f.estado = "ENPROCESO"
    BY DEF NuevaEtapa, Nueva
  <1> HIDE DEF f
  <1>2. Suma(t, u, j, m, f)  BY DEF f
  <1>3. /\ u[m] = f /\ m \notin DelJob(t, j) /\ DelJob(u, j) = DelJob(t, j) \cup {m}
        /\ \A k \in DelJob(t, j) : u[k] = t[k]
    BY <1>2 DEF Suma
  <1>4. \A p : DeEtapa(u, j, p) = DeEtapa(t, j, p) \cup {x \in {m} : e = p}
    BY <1>1, <1>2, SumaFila
  <1>5. Mapa(u, j) = Mapa(t, j) /\ \A k \in Mapa(t, j) : k \in DelJob(t, j) /\ u[k] = t[k]
    BY <1>3, <1>4 DEF Mapa, DeEtapa
  <1>6. EnCurso(u, j) = {} /\ \A p : Hechas(u, j, p) = Hechas(t, j, p)
    BY <1>1, <1>2, SumaFila DEF EtapasDeHilo
  <1>7. Cubre(u, j) /\ Unica(u, j) /\ ConCopia(u, j, C)
    BY <1>5 DEF Seguido, Cubre, Unica, ConCopia, Vigente
  <1>8. SinVuelta(u, j)
    BY <1>3, <1>5, <1>6 DEF SinVuelta, EnCurso, Mapa, DeEtapa, EtapasDeHilo
  <1>9. Barrera(u, j)
    <2>1. CASE e = "REDUCGLOBAL"
      <3>1. DeEtapa(u, j, "REDUCGLOBAL") = {m}  BY <1>4, <2>1
      <3> QED  BY <1>6, <3>1 DEF Barrera
    <2>2. CASE e # "REDUCGLOBAL"
      <3>1. DeEtapa(u, j, "REDUCGLOBAL") = DeEtapa(t, j, "REDUCGLOBAL")  BY <1>4, <2>2
      <3> QED  BY <1>6, <3>1 DEF Barrera, Seguido
    <2> QED  BY <2>1, <2>2
  <1>10. SoloHilosCancelados(u, j)
    BY <1>1, <1>3 DEF Seguido, SoloHilosCancelados, Vigente
  <1>11. UnaPorNodo(u, j)
    <2>1. ReduccionesListas(u, j) = ReduccionesListas(t, j)  BY <1>1, <1>2, SumaFila
    <2>2. \A k \in ReduccionesListas(t, j) : u[k] = t[k]
      BY <1>3 DEF ReduccionesListas, DeEtapa
    <2> QED  BY <2>1, <2>2 DEF Seguido, UnaPorNodo
  <1> QED  BY <1>6, <1>7, <1>8, <1>9, <1>10, <1>11 DEF Seguido

\* The global reduction ends.
LEMMA SeguidoGlobal ==
  ASSUME NEW t, NEW u, NEW j, NEW C, Seguido(t, j, C),
         NEW g \in DeEtapa(t, j, "REDUCGLOBAL"), Cambia(t, u, j, {g}, "FINALIZADO")
  PROVE  /\ Seguido(u, j, C) /\ EnCurso(u, j) = {} /\ EnCurso(t, j) = {}
         /\ \A p : Hechas(u, j, p) = Hechas(t, j, p)
  <1>1. EnCurso(t, j) = {}  BY DEF Seguido, Barrera
  <1>2. /\ DelJob(u, j) = DelJob(t, j)
        /\ \A k \in DelJob(t, j) : u[k].estado = IF k = g THEN "FINALIZADO" ELSE t[k].estado
    BY DEF Cambia
  <1>3. /\ Mapa(u, j) = Mapa(t, j) /\ \A e : DeEtapa(u, j, e) = DeEtapa(t, j, e)
        /\ \A n : Grupo(u, j, n) = Grupo(t, j, n)
        /\ \A k \in DelJob(t, j) : MismaFila(u[k], t[k])
    BY CambiaFila
  <1>4. \A e : \A k \in DeEtapa(t, j, e) :
           k \in DelJob(t, j) /\ (e # "REDUCGLOBAL" => k # g /\ u[k].estado = t[k].estado)
    BY <1>2 DEF DeEtapa
  <1>5. \A k \in Mapa(t, j) : /\ u[k].estado = t[k].estado /\ u[k].bloque = t[k].bloque
                              /\ u[k].copia = t[k].copia /\ u[k].nodo = t[k].nodo
    BY <1>3, <1>4 DEF Mapa, MismaFila
  <1>6. EnCurso(u, j) = {}
    BY <1>1, <1>2, <1>3 DEF EnCurso, MismaFila
  <1>7. Cubre(u, j) /\ Unica(u, j) /\ ConCopia(u, j, C)
    BY <1>3, <1>5 DEF Seguido, Cubre, Unica, ConCopia, Vigente
  <1>8. SinVuelta(u, j)
    BY <1>6 DEF SinVuelta, EnCurso, Mapa, DeEtapa, EtapasDeHilo
  <1>9. Barrera(u, j)  BY <1>3, <1>6 DEF Barrera, Seguido
  <1>10. SoloHilosCancelados(u, j)
    BY <1>2, <1>3 DEF Seguido, SoloHilosCancelados, Vigente, MismaFila
  <1>11. UnaPorNodo(u, j)
    <2>1. ReduccionesListas(u, j) = ReduccionesListas(t, j)
      BY <1>3, <1>4 DEF ReduccionesListas
    <2>2. \A k \in ReduccionesListas(t, j) : u[k].nodo = t[k].nodo
      BY <1>3, <1>4 DEF ReduccionesListas, MismaFila
    <2> QED  BY <2>1, <2>2 DEF Seguido, UnaPorNodo
  <1>12. \A p : Hechas(u, j, p) = Hechas(t, j, p)
    BY <1>3, <1>5 DEF Hechas, Grupo, Mapa
  <1> QED  BY <1>1, <1>6, <1>7, <1>8, <1>9, <1>10, <1>11, <1>12 DEF Seguido

-----------------------------------------------------------------------------
(* Who answers, message by message                                         *)

LEMMA ColaDe ==
  ASSUME NEW S, NEW s \in Seq(S), s # <<>>
  PROVE  /\ Len(s) \in Nat \ {0} /\ Len(Tail(s)) = Len(s) - 1 /\ 1 \in 1..Len(s)
         /\ Head(s) = s[1]
         /\ \A k \in 1..Len(Tail(s)) : Tail(s)[k] = s[k + 1] /\ k + 1 \in 1..Len(s) /\ k + 1 # 1
         /\ \A k \in 1..Len(s) : k = 1 \/ (k - 1 \in 1..Len(Tail(s)) /\ Tail(s)[k - 1] = s[k])
  <1>1. Len(s) \in Nat \ {0} /\ Len(Tail(s)) = Len(s) - 1 /\ Head(s) = s[1]
        /\ \A k \in 1..Len(Tail(s)) : Tail(s)[k] = s[k + 1]
    BY HeadTailProperties, EmptySeq
  <1>2. \A k \in 1..Len(Tail(s)) : k + 1 \in 1..Len(s) /\ k + 1 # 1
    BY <1>1
  <1>3. ASSUME NEW k \in 1..Len(s), k # 1
        PROVE  k - 1 \in 1..Len(Tail(s)) /\ Tail(s)[k - 1] = s[k]
    <2>1. k - 1 \in 1..Len(Tail(s)) /\ (k - 1) + 1 = k  BY <1>1, <1>3
    <2> QED  BY <1>1, <2>1
  <1> QED  BY <1>1, <1>2, <1>3

LEMMA AlFinalDe ==
  ASSUME NEW S, NEW s \in Seq(S), NEW m
  PROVE  /\ Len(s) \in Nat /\ Len(Append(s, m)) = Len(s) + 1
         /\ Append(s, m)[Len(s) + 1] = m
         /\ \A k \in 1..Len(s) : Append(s, m)[k] = s[k]
         /\ \A k \in 1..Len(Append(s, m)) : k = Len(s) + 1 \/ k \in 1..Len(s)
         /\ \A k \in 1..Len(s) : k \in 1..Len(Append(s, m)) /\ k # Len(s) + 1
         /\ Len(s) + 1 \in 1..Len(Append(s, m))
  BY LenProperties

\* YAMA reads the first answer, and the entry it names is nobody's any more.
LEMMA RepartoLeeAviso ==
  ASSUME NEW S, NEW s, NEW H, NEW a \in Seq(S), a # <<>>, NEW E, 0 \notin E, Reparto(s, H, a, E)
  PROVE  /\ Reparto(s, H, Tail(a), E \ {Head(a).temp})
         /\ Completo(s, H, a, E) => Completo(s, H, Tail(a), E \ {Head(a).temp})
  <1> DEFINE b == Tail(a)
             h == Head(a).temp
  <1>1. /\ 1 \in 1..Len(a) /\ h = a[1].temp
        /\ \A k \in 1..Len(b) : b[k] = a[k + 1] /\ k + 1 \in 1..Len(a) /\ k + 1 # 1
        /\ \A k \in 1..Len(a) : k = 1 \/ (k - 1 \in 1..Len(b) /\ b[k - 1] = a[k])
    BY ColaDe
  <1> HIDE DEF b, h
  <1>2. /\ \A k \in 1..Len(s) : \A o \in DeHilo(s[k].ops) : o.temp \in E /\ o.temp # h
        /\ \A o \in DeHilo(H) : o.temp \in E /\ o.temp # h
    BY <1>1 DEF Reparto
  <1>3. \A k \in 1..Len(b) : b[k].temp # 0 => b[k].temp \in E /\ b[k].temp # h
    BY <1>1 DEF Reparto
  <1>4. \A k, l \in 1..Len(b) : b[k].temp # 0 /\ b[k].temp = b[l].temp => k = l
    <2> SUFFICES ASSUME NEW k \in 1..Len(b), NEW l \in 1..Len(b), b[k].temp # 0,
                        b[k].temp = b[l].temp
                 PROVE  k = l
      OBVIOUS
    <2>1. k + 1 = l + 1  BY <1>1 DEF Reparto
    <2> QED  BY <2>1
  <1>5. Reparto(s, H, b, E \ {h})
    BY <1>1, <1>2, <1>3, <1>4 DEF Reparto
  <1>6. ASSUME Completo(s, H, a, E) PROVE Completo(s, H, b, E \ {h})
    <2>1. ASSUME NEW i \in E \ {h}, NEW k \in 1..Len(a), a[k].temp = i
          PROVE  \E l \in 1..Len(b) : b[l].temp = i
      <3>1. k - 1 \in 1..Len(b) /\ b[k - 1] = a[k]  BY <1>1, <2>1
      <3> QED  BY <2>1, <3>1
    <2> QED  BY <1>6, <2>1 DEF Completo
  <1> QED  BY <1>5, <1>6 DEF b, h

\* YAMA orders the operations of m, whose entries nobody else answers for.
LEMMA RepartoMandaOrden ==
  ASSUME NEW S, NEW s \in Seq(S), NEW H, NEW a, NEW E, NEW N, NEW m, 0 \notin N,
         Reparto(s, H, a, E), E \cap N = {}, N = {o.temp : o \in DeHilo(m.ops)},
         \A o, p \in DeHilo(m.ops) : o.temp = p.temp => o = p
  PROVE  /\ Reparto(Append(s, m), H, a, E \cup N)
         /\ Completo(s, H, a, E) => Completo(Append(s, m), H, a, E \cup N)
  <1> DEFINE u == Append(s, m)
  <1>1. /\ Len(s) + 1 \in 1..Len(u) /\ u[Len(s) + 1] = m
        /\ \A k \in 1..Len(s) : k \in 1..Len(u) /\ u[k] = s[k]
        /\ \A k \in 1..Len(u) : k = Len(s) + 1 \/ (k \in 1..Len(s) /\ u[k] = s[k])
    BY AlFinalDe
  <1> HIDE DEF u
  <1>2. \A o \in DeHilo(m.ops) : o.temp \in N /\ o.temp \notin E /\ o.temp # 0
    OBVIOUS
  <1>3. \A k \in 1..Len(u) : \A o \in DeHilo(u[k].ops) : o.temp \in E \cup N
    BY <1>1, <1>2 DEF Reparto
  <1>4. \A k, l \in 1..Len(u) : \A o \in DeHilo(u[k].ops), p \in DeHilo(u[l].ops) :
          o.temp = p.temp => k = l /\ o = p
    BY <1>1, <1>2 DEF Reparto
  <1>5. \A k \in 1..Len(u) : \A o \in DeHilo(u[k].ops), p \in DeHilo(H) : o.temp # p.temp
    BY <1>1, <1>2 DEF Reparto
  <1>6. \A k \in 1..Len(u), l \in 1..Len(a) : \A o \in DeHilo(u[k].ops) : o.temp # a[l].temp
    BY <1>1, <1>2 DEF Reparto
  <1>7. Reparto(u, H, a, E \cup N)
    BY <1>3, <1>4, <1>5, <1>6 DEF Reparto
  <1>8. ASSUME Completo(s, H, a, E) PROVE Completo(u, H, a, E \cup N)
    <2>1. ASSUME NEW i \in E
          PROVE  \/ \E k \in 1..Len(u) : \E o \in DeHilo(u[k].ops) : o.temp = i
                 \/ \E o \in DeHilo(H) : o.temp = i
                 \/ \E k \in 1..Len(a) : a[k].temp = i
      BY <1>1, <1>8 DEF Completo
    <2>2. ASSUME NEW i \in N
          PROVE  \E k \in 1..Len(u) : \E o \in DeHilo(u[k].ops) : o.temp = i
      BY <1>1
    <2> QED  BY <2>1, <2>2 DEF Completo
  <1> QED  BY <1>7, <1>8 DEF u

\* The Master starts the operations of its first order.
LEMMA RepartoLanza ==
  ASSUME NEW S, NEW s \in Seq(S), s # <<>>, NEW H, NEW a, NEW E, Reparto(s, H, a, E)
  PROVE  /\ Reparto(Tail(s), H \cup Head(s).ops, a, E)
         /\ Completo(s, H, a, E) => Completo(Tail(s), H \cup Head(s).ops, a, E)
  <1> DEFINE u == Tail(s)
             G == H \cup Head(s).ops
  <1>1. /\ 1 \in 1..Len(s) /\ Head(s) = s[1]
        /\ \A k \in 1..Len(u) : u[k] = s[k + 1] /\ k + 1 \in 1..Len(s) /\ k + 1 # 1
        /\ \A k \in 1..Len(s) : k = 1 \/ (k - 1 \in 1..Len(u) /\ u[k - 1] = s[k])
    BY ColaDe
  <1>2. \A o : o \in DeHilo(G) <=> o \in DeHilo(H) \/ o \in DeHilo(s[1].ops)
    BY <1>1 DEF DeHilo
  <1> HIDE DEF u, G
  <1>3. \A k \in 1..Len(u) : \A o \in DeHilo(u[k].ops) : o.temp \in E
    BY <1>1 DEF Reparto
  <1>4. \A o \in DeHilo(G) : o.temp \in E
    BY <1>1, <1>2 DEF Reparto
  <1>5. \A k, l \in 1..Len(u) : \A o \in DeHilo(u[k].ops), p \in DeHilo(u[l].ops) :
          o.temp = p.temp => k = l /\ o = p
    <2> SUFFICES ASSUME NEW k \in 1..Len(u), NEW l \in 1..Len(u), NEW o \in DeHilo(u[k].ops),
                        NEW p \in DeHilo(u[l].ops), o.temp = p.temp
                 PROVE  k = l /\ o = p
      OBVIOUS
    <2>1. /\ k + 1 \in 1..Len(s) /\ l + 1 \in 1..Len(s)
          /\ o \in DeHilo(s[k + 1].ops) /\ p \in DeHilo(s[l + 1].ops)
      BY <1>1
    <2>2. k + 1 = l + 1 /\ o = p  BY <2>1 DEF Reparto
    <2> QED  BY <2>2
  <1>6. \A o, p \in DeHilo(G) : o.temp = p.temp => o = p
    BY <1>1, <1>2 DEF Reparto
  <1>7. \A k \in 1..Len(u) : \A o \in DeHilo(u[k].ops), p \in DeHilo(G) : o.temp # p.temp
    BY <1>1, <1>2 DEF Reparto
  <1>8. \A k \in 1..Len(u), l \in 1..Len(a) : \A o \in DeHilo(u[k].ops) : o.temp # a[l].temp
    <2> SUFFICES ASSUME NEW k \in 1..Len(u), NEW l \in 1..Len(a), NEW o \in DeHilo(u[k].ops)
                 PROVE  o.temp # a[l].temp
      OBVIOUS
    <2>1. k + 1 \in 1..Len(s) /\ o \in DeHilo(s[k + 1].ops)  BY <1>1
    <2> QED  BY <2>1 DEF Reparto
  <1>9. \A l \in 1..Len(a) : \A o \in DeHilo(G) : o.temp # a[l].temp
    BY <1>1, <1>2 DEF Reparto
  <1>10. Reparto(u, G, a, E)
    BY <1>3, <1>4, <1>5, <1>6, <1>7, <1>8, <1>9 DEF Reparto
  <1>11. ASSUME Completo(s, H, a, E) PROVE Completo(u, G, a, E)
    <2> SUFFICES ASSUME NEW i \in E
                 PROVE  \/ \E k \in 1..Len(u) : \E o \in DeHilo(u[k].ops) : o.temp = i
                        \/ \E o \in DeHilo(G) : o.temp = i
                        \/ \E k \in 1..Len(a) : a[k].temp = i
      BY DEF Completo
    <2>1. ASSUME NEW k \in 1..Len(s), NEW o \in DeHilo(s[k].ops), o.temp = i
          PROVE  \/ \E l \in 1..Len(u) : \E p \in DeHilo(u[l].ops) : p.temp = i
                 \/ \E p \in DeHilo(G) : p.temp = i
      <3>1. CASE k = 1  BY <1>2, <2>1, <3>1
      <3>2. CASE k # 1  BY <1>1, <2>1, <3>2
      <3> QED  BY <3>1, <3>2
    <2>2. ASSUME NEW o \in DeHilo(H), o.temp = i
          PROVE  \E p \in DeHilo(G) : p.temp = i
      BY <1>2, <2>2
    <2> QED  BY <1>11, <2>1, <2>2 DEF Completo
  <1> QED  BY <1>10, <1>11 DEF u, G

\* A thread ends: its answer is written, or is lost.
LEMMA RepartoContesta ==
  ASSUME NEW S, NEW s, NEW H, NEW a \in Seq(S), NEW E, 0 \notin E, Reparto(s, H, a, E),
         NEW o \in H, NEW m, m.temp = IF o.etapa \in EtapasDeHilo THEN o.temp ELSE 0
  PROVE  /\ Reparto(s, H \ {o}, a, E) /\ Reparto(s, H \ {o}, Append(a, m), E)
         /\ Completo(s, H, a, E) => Completo(s, H \ {o}, Append(a, m), E)
  <1> DEFINE b == Append(a, m)
             G == H \ {o}
  <1>1. /\ Len(a) + 1 \in 1..Len(b) /\ b[Len(a) + 1] = m
        /\ \A k \in 1..Len(a) : k \in 1..Len(b) /\ b[k] = a[k]
        /\ \A k \in 1..Len(b) : k = Len(a) + 1 \/ (k \in 1..Len(a) /\ b[k] = a[k])
    BY AlFinalDe
  <1>2. \A p : p \in DeHilo(G) <=> p \in DeHilo(H) /\ p # o
    BY DEF DeHilo
  <1>3. IF o \in DeHilo(H) THEN m.temp = o.temp ELSE m.temp = 0
    BY DEF DeHilo
  <1> HIDE DEF b, G
  <1>4. Reparto(s, G, a, E)  BY <1>2 DEF Reparto
  <1>5. \A k \in 1..Len(b) : b[k].temp # 0 => b[k].temp \in E
    BY <1>1, <1>3 DEF Reparto
  <1>6. \A k, l \in 1..Len(b) : b[k].temp # 0 /\ b[k].temp = b[l].temp => k = l
    BY <1>1, <1>3 DEF Reparto
  <1>7. \A k \in 1..Len(s), l \in 1..Len(b) : \A p \in DeHilo(s[k].ops) : p.temp # b[l].temp
    BY <1>1, <1>3 DEF Reparto
  <1>8. \A l \in 1..Len(b) : \A p \in DeHilo(G) : p.temp # b[l].temp
    BY <1>1, <1>2, <1>3 DEF Reparto
  <1>9. Reparto(s, G, b, E)
    BY <1>4, <1>5, <1>6, <1>7, <1>8 DEF Reparto
  <1>10. ASSUME Completo(s, H, a, E) PROVE Completo(s, G, b, E)
    BY <1>1, <1>2, <1>3, <1>10 DEF Completo
  <1> QED  BY <1>4, <1>9, <1>10 DEF b, G

\* The Master exits, or an order is lost.
LEMMA RepartoPierde ==
  ASSUME NEW s, NEW H, NEW a, NEW E, NEW F, E \subseteq F, Reparto(s, H, a, E)
  PROVE  Reparto(<<>>, {}, a, F) /\ Reparto(s, H, a, F)
  <1>1. Len(<<>>) = 0 /\ 1..0 = {} /\ DeHilo({}) = {}  BY DEF DeHilo
  <1> QED  BY <1>1 DEF Reparto

-----------------------------------------------------------------------------
(* What operations and files hold, as the table grows                      *)

LEMMA OperacionesPropias ==
  ASSUME Inv, NEW j \in Jobs, NEW o \in OpsDe(aMaster[j], hilos[j])
  PROVE  /\ o \in Operacion /\ OpPropia(tabla, j, o) /\ o.temp \in 1..Len(tabla)
         /\ o.etapa = "REDUCCIONLOCAL" => o.temp \in DeEtapa(tabla, j, "REDUCCIONLOCAL")
  <1>1. OpPropia(tabla, j, o) /\ o \in Operacion
    <2>1. CASE o \in hilos[j]  BY <2>1 DEF Inv, HilosOK
    <2>2. ASSUME NEW k \in 1..Len(aMaster[j]), o \in aMaster[j][k].ops
          PROVE  OpPropia(tabla, j, o) /\ o \in Operacion
      <3>1. aMaster[j] \in Seq(Ordenes)  BY DEF Inv, AMasterOK
      <3>2. aMaster[j][k] \in Ordenes  BY <3>1, ElementOfSeq
      <3> QED  BY <2>2, <3>2 DEF Inv, AMasterOK, OrdenPropia, Ordenes
    <2> QED  BY <2>1, <2>2 DEF OpsDe
  <1>2. DelJob(tabla, j) \subseteq 1..Len(tabla)  BY DominioTabla DEF Inv
  <1> QED  BY <1>1, <1>2 DEF OpPropia, DeEtapa

LEMMA CreceFiel ==
  ASSUME NEW t, NEW u, Conserva(t, u), NEW o, o.temp \in 1..Len(t), OpFiel(t, o)
  PROVE  OpFiel(u, o)
  BY DEF Conserva, MismaFila, OpFiel

\* What is finished on the nodes that reduce stays finished.
HechasCrecen(t, u, j) ==
  \A k \in DeEtapa(t, j, "REDUCCIONLOCAL") : Hechas(t, j, t[k].nodo) \subseteq Hechas(u, j, t[k].nodo)

LEMMA CreceLista ==
  ASSUME NEW t, NEW u, NEW j, Conserva(t, u), HechasCrecen(t, u, j),
         NEW o, o.temp \in 1..Len(t),
         o.etapa = "REDUCCIONLOCAL" => o.temp \in DeEtapa(t, j, "REDUCCIONLOCAL"),
         OpLista(t, j, o)
  PROVE  OpLista(u, j, o)
  BY DEF Conserva, MismaFila, OpLista, HechasCrecen

LEMMA CreceArchivo ==
  ASSUME NEW t \in Seq(Entrada), NEW u, NEW j, Conserva(t, u), NEW A, ArchivosOK(t, A)
  PROVE  /\ ArchivoT(t, A) => ArchivoT(u, A)
         /\ ArchivoL(t, j, A) /\ HechasCrecen(t, u, j) => ArchivoL(u, j, A)
  <1>1. \A f \in A : f.temp \in 1..Len(t)  BY DEF ArchivosOK
  <1>2. ArchivoT(t, A) => ArchivoT(u, A)
    BY <1>1 DEF ArchivoT, Conserva, MismaFila
  <1>3. ASSUME ArchivoL(t, j, A), HechasCrecen(t, u, j) PROVE ArchivoL(u, j, A)
    <2> SUFFICES ASSUME NEW f \in A, f.temp \in DeEtapa(u, j, "REDUCCIONLOCAL")
                 PROVE  f.bloques \subseteq {u[i].bloque : i \in Hechas(u, j, u[f.temp].nodo)}
      BY DEF ArchivoL
    <2>1. f.temp \in DeEtapa(t, j, "REDUCCIONLOCAL") /\ u[f.temp].nodo = t[f.temp].nodo
      BY <1>1, DominioTabla DEF Conserva, MismaFila, DeEtapa, DelJob
    <2>2. f.bloques \subseteq {t[i].bloque : i \in Hechas(t, j, t[f.temp].nodo)}
      BY <1>3, <2>1 DEF ArchivoL
    <2>3. \A i \in Hechas(t, j, t[f.temp].nodo) :
            i \in Hechas(u, j, u[f.temp].nodo) /\ u[i].bloque = t[i].bloque
      <3>1. \A i \in Hechas(t, j, t[f.temp].nodo) : i \in 1..Len(t)
        BY DominioTabla DEF Hechas, Grupo, DeEtapa
      <3> QED  BY <1>3, <2>1, <3>1 DEF HechasCrecen, Conserva, MismaFila
    <2> QED  BY <2>2, <2>3
  <1> QED  BY <1>2, <1>3

LEMMA CopiasCrecen ==
  ASSUME NEW t \in Seq(Entrada), CopiasEscritas(t)
  PROVE  /\ \A u : Conserva(t, u) /\ Len(u) = Len(t) => CopiasEscritas(u)
         /\ \A e \in Entrada : (e.etapa = "TRANSFORMACION" <=> e.copia # Basura)
              => CopiasEscritas(Append(t, e))
  <1>1. Len(t) \in Nat  BY LenProperties
  <1>2. ASSUME NEW u, Conserva(t, u), Len(u) = Len(t) PROVE CopiasEscritas(u)
    BY <1>2 DEF Conserva, MismaFila, CopiasEscritas
  <1>3. ASSUME NEW e \in Entrada, e.etapa = "TRANSFORMACION" <=> e.copia # Basura
        PROVE  CopiasEscritas(Append(t, e))
    BY <1>1, <1>3, AgregarCrece DEF CopiasEscritas
  <1> QED  BY <1>2, <1>3

-----------------------------------------------------------------------------
(* The jobs a step is not about, and the job it is about                   *)

LEMMA TrabajoAjeno ==
  ASSUME IInv, NEW j \in Jobs, NEW q \in Jobs, q # j,
         Conserva(tabla, tabla'), Ajena(tabla, tabla', q),
         q \in asociados' <=> q \in asociados, q \in conectados' <=> q \in conectados,
         copiasLibres'[q] = copiasLibres[q], aYama'[q] = aYama[q], aMaster'[q] = aMaster[q],
         maestro'[q] = maestro[q], hilos'[q] = hilos[q],
         yama' = "viva" => yama = "viva",
         \A f \in archivos' : f \in archivos \/ f.temp \in DelJob(tabla, j)
  PROVE  TrabajoOK(q)'
  <1>1. tabla \in Seq(Entrada) /\ TrabajoOK(q)  BY DEF IInv, Inv
  <1>2. DelJob(tabla', q) = DelJob(tabla, q)  BY DEF Ajena
  <1>3. UnaSolicitud(q)' /\ SinNombre(q)'
    BY <1>1, <1>2 DEF TrabajoOK, UnaSolicitud, SinNombre, Nuevo
  <1>4. OpsDe(aMaster'[q], hilos'[q]) = OpsDe(aMaster[q], hilos[q])  OBVIOUS
  <1>5. Fieles(q)'
    <2> SUFFICES ASSUME NEW o \in OpsDe(aMaster[q], hilos[q]) PROVE OpFiel(tabla', o)
      BY <1>4 DEF Fieles
    <2>1. OpFiel(tabla, o) /\ o.temp \in 1..Len(tabla)
      BY <1>1, OperacionesPropias DEF TrabajoOK, Fieles, IInv
    <2> QED  BY <2>1, CreceFiel
  <1>6. ASSUME q \in asociados' PROVE Seguimiento(q)'
    <2>1. Seguimiento(q)  BY <1>1, <1>6 DEF TrabajoOK
    <2>2. /\ EnCurso(tabla', q) = EnCurso(tabla, q)
          /\ \A n : Hechas(tabla', q, n) = Hechas(tabla, q, n)
          /\ DeEtapa(tabla', q, "REDUCCIONLOCAL") = DeEtapa(tabla, q, "REDUCCIONLOCAL")
          /\ Seguido(tabla', q, copiasLibres'[q])
      BY <2>1, SeguidoAjeno DEF Seguimiento
    <2>3. q \in conectados'  BY <2>1 DEF Seguimiento
    <2>4. Reparto(aMaster'[q], hilos'[q], aYama'[q], EnCurso(tabla', q))
      BY <2>1, <2>2 DEF Seguimiento
    <2>5. ASSUME Vivo(q)', yama' = "viva"
          PROVE  Completo(aMaster'[q], hilos'[q], aYama'[q], EnCurso(tabla', q))
      BY <2>1, <2>2, <2>5 DEF Seguimiento, Vivo
    <2>6. HechasCrecen(tabla, tabla', q)  BY <2>2 DEF HechasCrecen
    <2>7. ASSUME NEW o \in OpsDe(aMaster[q], hilos[q]) PROVE OpLista(tabla', q, o)
      <3>1. OpLista(tabla, q, o)  BY <2>1 DEF Seguimiento
      <3>2. /\ o.temp \in 1..Len(tabla)
            /\ o.etapa = "REDUCCIONLOCAL" => o.temp \in DeEtapa(tabla, q, "REDUCCIONLOCAL")
        BY OperacionesPropias DEF IInv
      <3> QED  BY <2>6, <3>1, <3>2, CreceLista
    <2>8. ArchivoL(tabla', q, archivos')
      <3>1. ArchivoL(tabla', q, archivos)
        BY <1>1, <2>1, <2>6, CreceArchivo DEF Seguimiento, IInv, Inv
      <3>2. \A f \in archivos' : f.temp \in DeEtapa(tabla', q, "REDUCCIONLOCAL") => f \in archivos
        BY <1>2 DEF DeEtapa, DelJob
      <3> QED  BY <3>1, <3>2 DEF ArchivoL
    <2> QED  BY <1>4, <2>2, <2>3, <2>4, <2>5, <2>7, <2>8 DEF Seguimiento
  <1> QED  BY <1>3, <1>5, <1>6 DEF TrabajoOK

\* The messages of a Master to YAMA after a step of either.
LEMMA MensajesCumplen ==
  ASSUME Inv, NEW j \in Jobs, UnaSolicitud(j), SinNombre(j), maestro'[j] # "inicio",
         \/ /\ aYama'[j] = aYama[j] /\ ~Nuevo(j)
         \/ aYama[j] # <<>> /\ aYama'[j] = Tail(aYama[j])
         \/ aYama'[j] = <<>>
         \/ /\ ~Nuevo(j)
            /\ \E m : /\ aYama'[j] = Append(aYama[j], m) /\ m.tipo # "SOLICITUDJOB"
                      /\ m.temp # 0 => m.tipo \in {AvisoOK(e) : e \in EtapasDeHilo}
                                                    \cup {AvisoFallo(e) : e \in EtapasDeHilo}
  PROVE  UnaSolicitud(j)' /\ SinNombre(j)'
  <1>1. aYama[j] \in Seq(AvisosHasta(Len(tabla)))  BY DEF Inv, AYamaOK
  <1>2. CASE aYama'[j] = aYama[j] /\ ~Nuevo(j)
    BY <1>2 DEF UnaSolicitud, SinNombre
  <1>3. CASE aYama[j] # <<>> /\ aYama'[j] = Tail(aYama[j])
    <2>1. /\ Len(aYama[j]) \in Nat \ {0} /\ Len(aYama'[j]) = Len(aYama[j]) - 1
          /\ \A k \in 1..Len(aYama'[j]) : aYama'[j][k] = aYama[j][k + 1] /\ k + 1 \in 1..Len(aYama[j])
      BY <1>1, <1>3, ColaDe
    <2>2. \A k \in 1..Len(aYama'[j]) : aYama'[j][k].tipo # "SOLICITUDJOB"
      BY <2>1 DEF UnaSolicitud
    <2> QED  BY <2>1, <2>2 DEF UnaSolicitud, SinNombre
  <1>4. CASE aYama'[j] = <<>>
    <2>1. 1..Len(aYama'[j]) = {}  BY <1>4
    <2> QED  BY <2>1 DEF UnaSolicitud, SinNombre
  <1>5. ASSUME ~Nuevo(j), NEW m, aYama'[j] = Append(aYama[j], m), m.tipo # "SOLICITUDJOB",
               m.temp # 0 => m.tipo \in {AvisoOK(e) : e \in EtapasDeHilo}
                                          \cup {AvisoFallo(e) : e \in EtapasDeHilo}
        PROVE  UnaSolicitud(j)' /\ SinNombre(j)'
    <2>1. \A k \in 1..Len(aYama'[j]) :
            aYama'[j][k] = m \/ (k \in 1..Len(aYama[j]) /\ aYama'[j][k] = aYama[j][k])
      BY <1>1, <1>5, AlFinalDe
    <2>2. \A k \in 1..Len(aYama'[j]) : aYama'[j][k].tipo # "SOLICITUDJOB"
      BY <1>5, <2>1 DEF UnaSolicitud
    <2> QED  BY <1>5, <2>1, <2>2 DEF UnaSolicitud, SinNombre
  <1> QED  BY <1>2, <1>3, <1>4, <1>5

\* No step brings a cancelled entry of a followed job back.
NoRevive ==
  \A i \in DOMAIN tabla :
    tabla[i].estado = "ERRORYAMA" /\ tabla[i].job \in asociados \cap asociados'
      => tabla'[i].estado = "ERRORYAMA"

\* A step of job j leaves every other job as it is.
SoloDe(j) ==
  /\ Conserva(tabla, tabla')
  /\ \A q \in Jobs : q # j =>
       /\ Ajena(tabla, tabla', q)
       /\ q \in asociados' <=> q \in asociados
       /\ q \in conectados' <=> q \in conectados
       /\ aYama'[q] = aYama[q] /\ aMaster'[q] = aMaster[q]
       /\ maestro'[q] = maestro[q] /\ hilos'[q] = hilos[q]

\* What is left to prove of a handler once its table, its answer and its order are known.
LEMMA PasoDeYamaSigue ==
  ASSUME IInv, Inv', NEW j \in Jobs, UNCHANGED varsMaster,
         Conserva(tabla, tabla'), \A q \in Jobs : q # j => Ajena(tabla, tabla', q),
         \A q \in Jobs : q # j =>
           /\ q \in asociados' <=> q \in asociados
           /\ q \in conectados' <=> q \in conectados
           /\ copiasLibres'[q] = copiasLibres[q],
         \/ aYama' = aYama /\ ~Nuevo(j)
         \/ aYama[j] # <<>> /\ Leido(j)
         \/ aYama' = [aYama EXCEPT ![j] = <<>>] /\ maestro[j] # "inicio",
         \/ aMaster' = aMaster
         \/ \E m : Manda(j, m) /\ \A o \in m.ops : OpFiel(tabla', o),
         yama' \in {yama, "caida"}, CopiasEscritas(tabla'), EnReplan',
         j \in asociados' => Seguimiento(j)',
         j \in asociados /\ j \in asociados' =>
           \A i \in DelJob(tabla, j) : ~Vigente(tabla, i) => ~Vigente(tabla', i)
  PROVE  IInv' /\ NoRevive /\ SoloDe(j)
  <1>1. /\ maestro' = maestro /\ hilos' = hilos /\ archivos' = archivos
        /\ aYama \in [Jobs -> Seq(AvisosHasta(Len(tabla)))]
        /\ aMaster \in [Jobs -> Seq(Ordenes)] /\ tabla \in Seq(Entrada)
        /\ ArchivosOK(tabla, archivos)
    BY DEF varsMaster, IInv, Inv, AYamaOK, AMasterOK
  <1>2. \A q \in Jobs : q # j => aYama'[q] = aYama[q]
    BY <1>1 DEF Leido
  <1>3. \A q \in Jobs : q # j => aMaster'[q] = aMaster[q]
    BY <1>1 DEF Manda
  <1>4. yama' = "viva" => yama = "viva"
    OBVIOUS
  <1>5. ASSUME NEW q \in Jobs, q # j PROVE TrabajoOK(q)'
    BY <1>1, <1>2, <1>3, <1>4, <1>5, TrabajoAjeno
  <1>6. UnaSolicitud(j) /\ SinNombre(j) /\ Fieles(j)
    BY DEF IInv, TrabajoOK
  <1>7. maestro'[j] # "inicio"
    <2>1. aYama[j] # <<>> \/ ~Nuevo(j) \/ maestro[j] # "inicio"  OBVIOUS
    <2> QED  BY <1>1, <1>6, <2>1 DEF UnaSolicitud
  <1>8. UnaSolicitud(j)' /\ SinNombre(j)'
    <2>1. \/ aYama'[j] = aYama[j] /\ ~Nuevo(j)
          \/ aYama[j] # <<>> /\ aYama'[j] = Tail(aYama[j])
          \/ aYama'[j] = <<>>
      BY <1>1 DEF Leido
    <2> QED  BY <1>6, <1>7, <2>1, MensajesCumplen DEF IInv
  <1>9. Fieles(j)'
    <2>1. ASSUME NEW o \in OpsDe(aMaster[j], hilos[j]) PROVE OpFiel(tabla', o)
      BY <1>6, CreceFiel, OperacionesPropias DEF Fieles, IInv
    <2>2. CASE aMaster' = aMaster  BY <1>1, <2>1, <2>2 DEF Fieles
    <2>3. ASSUME NEW m, Manda(j, m), \A o \in m.ops : OpFiel(tabla', o) PROVE Fieles(j)'
      <3>1. CASE aMaster' = aMaster  BY <1>1, <2>1, <3>1 DEF Fieles
      <3>2. CASE aMaster'[j] = Append(aMaster[j], m)
        <4>1. \A k \in 1..Len(aMaster'[j]) :
                aMaster'[j][k] = m \/ (k \in 1..Len(aMaster[j]) /\ aMaster'[j][k] = aMaster[j][k])
          BY <1>1, <3>2, AlFinalDe
        <4>2. \A o \in OpsDe(aMaster'[j], hilos[j]) : o \in m.ops \/ o \in OpsDe(aMaster[j], hilos[j])
          BY <4>1 DEF OpsDe
        <4> QED  BY <1>1, <2>1, <2>3, <4>2 DEF Fieles
      <3> QED  BY <1>1, <2>3, <3>1, <3>2 DEF Manda
    <2> QED  BY <2>2, <2>3
  <1>10. \A q \in Jobs : TrabajoOK(q)'
    BY <1>5, <1>8, <1>9 DEF TrabajoOK
  <1>11. SinPunteroBasura'
    BY DEF IInv, SinPunteroBasura
  <1>12. ArchivoT(tabla', archivos')
    BY <1>1, CreceArchivo DEF IInv
  <1>13. NoRevive
    BY <1>1 DEF NoRevive, Inv, EscalaresOK, IInv, DelJob, Ajena, Vigente
  <1>14. SoloDe(j)  BY <1>1, <1>2, <1>3 DEF SoloDe
  <1> QED  BY <1>10, <1>11, <1>12, <1>13, <1>14 DEF IInv

\* The job of the handler is still followed.
LEMMA SeguimientoSigue ==
  ASSUME Inv, NEW j \in Jobs, UNCHANGED <<varsMaster, yama>>, Conserva(tabla, tabla'),
         NEW F, NEW N, F \cap N = {}, 0 \notin N, EnCurso(tabla', j) = F \cup N,
         Reparto(aMaster[j], hilos[j], aYama'[j], F),
         Vivo(j) /\ yama = "viva" => Completo(aMaster[j], hilos[j], aYama'[j], F),
         \/ aMaster' = aMaster /\ N = {}
         \/ \E m : /\ Manda(j, m) /\ N = {o.temp : o \in DeHilo(m.ops)}
                   /\ \A o, p \in DeHilo(m.ops) : o.temp = p.temp => o = p
                   /\ \A o \in m.ops : OpLista(tabla', j, o),
         \A o \in OpsDe(aMaster[j], hilos[j]) : OpLista(tabla, j, o),
         ArchivoL(tabla, j, archivos), HechasCrecen(tabla, tabla', j),
         j \in conectados', Seguido(tabla', j, copiasLibres'[j])
  PROVE  Seguimiento(j)'
  <1>1. /\ maestro' = maestro /\ hilos' = hilos /\ archivos' = archivos
        /\ aMaster \in [Jobs -> Seq(Ordenes)] /\ tabla \in Seq(Entrada)
        /\ ArchivosOK(tabla, archivos)
    BY DEF varsMaster, Inv, AMasterOK
  <1>2. ArchivoL(tabla', j, archivos')
    BY <1>1, CreceArchivo
  <1>3. ASSUME NEW o \in OpsDe(aMaster[j], hilos[j]) PROVE OpLista(tabla', j, o)
    BY CreceLista, OperacionesPropias
  <1>4. Vivo(j)' <=> Vivo(j)  BY <1>1 DEF Vivo
  <1>5. CASE aMaster' = aMaster
    <2>1. Reparto(aMaster[j], hilos[j], aYama'[j], F \cup N)  BY RepartoPierde
    <2>2. \A o \in OpsDe(aMaster'[j], hilos'[j]) : OpLista(tabla', j, o)  BY <1>1, <1>3, <1>5
    <2>3. (Vivo(j) => N = {}) => Seguimiento(j)'
      BY <1>1, <1>2, <1>4, <1>5, <2>1, <2>2 DEF Seguimiento
    <2>4. CASE N = {}  BY <2>3, <2>4
    <2>5. CASE Vivo(j) /\ N # {}
      <3>1. PICK m : Manda(j, m)  BY <2>5
      <3>2. aMaster'[j] = Append(aMaster[j], m)  BY <1>1, <2>5, <3>1 DEF Manda
      <3>3. Len(aMaster'[j]) = Len(aMaster[j]) + 1 /\ Len(aMaster[j]) \in Nat
        BY <1>1, <3>2, AlFinalDe
      <3> QED  BY <1>5, <3>3
    <2> QED  BY <2>3, <2>4, <2>5
  <1>6. ASSUME NEW m, aMaster'[j] = Append(aMaster[j], m), N = {o.temp : o \in DeHilo(m.ops)},
               \A o, p \in DeHilo(m.ops) : o.temp = p.temp => o = p,
               \A o \in m.ops : OpLista(tabla', j, o)
        PROVE  Seguimiento(j)'
    <2>1. /\ Reparto(aMaster'[j], hilos[j], aYama'[j], F \cup N)
          /\ Completo(aMaster[j], hilos[j], aYama'[j], F)
               => Completo(aMaster'[j], hilos[j], aYama'[j], F \cup N)
      <3>1. aMaster[j] \in Seq(Ordenes)  BY <1>1
      <3> DEFINE s == aMaster[j]
                 H == hilos[j]
                 a == aYama'[j]
      <3>2. s \in Seq(Ordenes) /\ Reparto(s, H, a, F)  BY <3>1
      <3> HIDE DEF s, H, a
      <3>3. /\ Reparto(Append(s, m), H, a, F \cup N)
            /\ Completo(s, H, a, F) => Completo(Append(s, m), H, a, F \cup N)
        BY <1>6, <3>2, RepartoMandaOrden
      <3> QED  BY <1>6, <3>3 DEF s, H, a
    <2>2. \A k \in 1..Len(aMaster'[j]) :
            aMaster'[j][k] = m \/ (k \in 1..Len(aMaster[j]) /\ aMaster'[j][k] = aMaster[j][k])
      BY <1>1, <1>6, AlFinalDe
    <2>3. \A o \in OpsDe(aMaster'[j], hilos[j]) : OpLista(tabla', j, o)
      <3>1. \A o \in OpsDe(aMaster'[j], hilos[j]) : o \in m.ops \/ o \in OpsDe(aMaster[j], hilos[j])
        BY <2>2 DEF OpsDe
      <3> QED  BY <1>3, <1>6, <3>1
    <2> QED  BY <1>1, <1>2, <1>4, <2>1, <2>3 DEF Seguimiento
  <1> QED  BY <1>1, <1>5, <1>6 DEF Manda

-----------------------------------------------------------------------------
(* The handlers of YAMA                                                    *)

LEMMA CaeSigue ==
  ASSUME IInv, Inv', Cae, NEW j \in Jobs PROVE IInv' /\ NoRevive /\ SoloDe(j)
  <1>1. /\ tabla' = tabla /\ asociados' = asociados /\ conectados' = conectados
        /\ copiasLibres' = copiasLibres /\ replan' = replan /\ aYama' = aYama
        /\ aMaster' = aMaster /\ maestro' = maestro /\ hilos' = hilos /\ archivos' = archivos
        /\ yama' = "caida"
    BY DEF Cae, varsMaster
  <1>2. ASSUME NEW q \in Jobs PROVE TrabajoOK(q)'
    <2>1. TrabajoOK(q)  BY DEF IInv
    <2> QED  BY <1>1, <2>1 DEF TrabajoOK, UnaSolicitud, SinNombre, Nuevo, Fieles, Seguimiento
  <1>3. SinPunteroBasura' /\ CopiasEscritas(tabla') /\ ArchivoT(tabla', archivos') /\ EnReplan'
    BY <1>1 DEF IInv, SinPunteroBasura, EnReplan
  <1>4. SoloDe(j)  BY <1>1, Igual DEF SoloDe, IInv, Inv
  <1> QED  BY <1>1, <1>2, <1>3, <1>4 DEF IInv, NoRevive

LEMMA AvisoEnCurso ==
  ASSUME IInv, NEW j \in Jobs, j \in asociados, aYama[j] # <<>>
  PROVE  LET i == Head(aYama[j]).temp
             F == EnCurso(tabla, j) \ {i}
         IN  /\ 0 \notin EnCurso(tabla, j) /\ EnCurso(tabla, j) \subseteq 1..Len(tabla)
             /\ i # 0 => i \in EnCurso(tabla, j)
             /\ Reparto(aMaster[j], hilos[j], Tail(aYama[j]), F)
             /\ Vivo(j) /\ yama = "viva" => Completo(aMaster[j], hilos[j], Tail(aYama[j]), F)
  <1>1. aYama[j] \in Seq(AvisosHasta(Len(tabla)))  BY DEF IInv, Inv, AYamaOK
  <1>2. Seguimiento(j)  BY DEF IInv, TrabajoOK
  <1>3. EnCurso(tabla, j) \subseteq 1..Len(tabla)
    BY DominioTabla DEF EnCurso, IInv, Inv
  <1>4. 0 \notin EnCurso(tabla, j)  BY <1>3
  <1>5. 1 \in 1..Len(aYama[j]) /\ Head(aYama[j]) = aYama[j][1]  BY <1>1, ColaDe
  <1>6. Head(aYama[j]).temp # 0 => Head(aYama[j]).temp \in EnCurso(tabla, j)
    BY <1>2, <1>5 DEF Seguimiento, Reparto
  <1> QED  BY <1>1, <1>2, <1>3, <1>4, <1>6, RepartoLeeAviso DEF Seguimiento

LEMMA EntradasDePlan ==
  ASSUME NEW j \in Jobs, NEW p \in Planes(j)
  PROVE  Entradas(j, p) \in Seq(Entrada) /\ Len(Entradas(j, p)) = Len(Copias[j])
  <1> DEFINE m == Len(Copias[j])
  <1>1. m \in Nat /\ Bloques(j) = 1..m
    <2>1. Copias[j] \in Seq((SUBSET Nodos) \ {{}})  BY SupuestoTabla
    <2> QED  BY <2>1, LenProperties DEF Bloques
  <1>2. \A b \in 1..m : Entradas(j, p)[b] \in Entrada
    BY <1>1 DEF Entradas, Planes, Nueva, Entrada, Etapas, Estados
  <1>3. Entradas(j, p) \in [1..m -> Entrada]
    BY <1>1, <1>2 DEF Entradas
  <1>4. Entradas(j, p) \in Seq(Entrada)  BY <1>1, <1>3, SeqDef
  <1> QED  BY <1>1, <1>3, <1>4, LenProperties

\* Table u is t and then the entries of plan p.
ConPlan(t, u, j, p) ==
  /\ u \in Seq(Entrada) /\ Len(u) = Len(t) + Len(Copias[j])
  /\ \A i \in 1..Len(t) : u[i] = t[i]
  /\ \A b \in 1..Len(Copias[j]) : u[Len(t) + b] = Entradas(j, p)[b]

LEMMA TablaConPlan ==
  ASSUME NEW t \in Seq(Entrada), NEW j \in Jobs, NEW p \in Planes(j), NEW u,
         u = t \o Entradas(j, p)
  PROVE  ConPlan(t, u, j, p)
  <1>1. PICK r : r = Entradas(j, p)  OBVIOUS
  <1>2. r \in Seq(Entrada) /\ Len(r) = Len(Copias[j])  BY <1>1, EntradasDePlan
  <1>3. /\ t \o r \in Seq(Entrada) /\ Len(t \o r) = Len(t) + Len(r)
        /\ \A i \in 1..(Len(t) + Len(r)) :
             (t \o r)[i] = IF i <= Len(t) THEN t[i] ELSE r[i - Len(t)]
    BY <1>2, ConcatProperties, Zenon
  <1>4. Len(t) \in Nat /\ Len(r) \in Nat  BY <1>2, LenProperties
  <1>5. u = t \o r  BY <1>1
  <1>6. /\ \A i \in 1..Len(t) : u[i] = t[i]
        /\ \A b \in 1..Len(r) : u[Len(t) + b] = r[b]
    BY <1>3, <1>4, <1>5
  <1> QED  BY <1>1, <1>2, <1>3, <1>5, <1>6, Zenon DEF ConPlan

\* From t to u job j gets the entries N, block b at n + b, and nothing else changes.
EsPlan(t, u, j, N, n, C) ==
  /\ DelJob(t, j) = {}
  /\ \A i \in N :
       /\ u[i].job = j /\ u[i].etapa = "TRANSFORMACION"
       /\ u[i].estado = "ENPROCESO" /\ u[i].copia # Basura
       /\ i = n + u[i].bloque
       /\ u[i].copia # Nulo => u[i].copia \in Nodos /\ <<u[i].copia, u[i].bloque>> \in C
  /\ \A b \in Bloques(j) : \E i \in N : u[i].bloque = b
  /\ \A i \in DOMAIN u : i \in N \/ (i \in DOMAIN t /\ u[i] = t[i])
  /\ \A i \in DOMAIN t : i \in DOMAIN u /\ u[i] = t[i]
  /\ \A i \in N : i \in DOMAIN u /\ i \notin DOMAIN t

LEMMA PlanSeguido ==
  ASSUME NEW t, NEW u, NEW j, NEW N, NEW n \in Nat, NEW C, EsPlan(t, u, j, N, n, C)
  PROVE  /\ DelJob(u, j) = N /\ EnCurso(u, j) = N /\ Seguido(u, j, C)
         /\ \A q : q # j => Ajena(t, u, q)
  <1> USE DEF EsPlan
  <1>1. DelJob(u, j) = N
    <2>1. \A i \in DOMAIN u : u[i].job = j => i \in N  BY DEF DelJob
    <2>2. \A i \in N : i \in DOMAIN u /\ u[i].job = j  OBVIOUS
    <2> QED  BY <2>1, <2>2 DEF DelJob
  <1>2. ASSUME NEW q, q # j PROVE Ajena(t, u, q)
    <2>1. \A i \in N : u[i].job # q  BY <1>2
    <2>2. DelJob(u, q) = DelJob(t, q)  BY <2>1 DEF DelJob
    <2> QED  BY <2>2 DEF Ajena, DelJob
  <1>3. /\ \A e : e # "TRANSFORMACION" => DeEtapa(u, j, e) = {}
        /\ Mapa(u, j) = N /\ EnCurso(u, j) = N
    BY <1>1 DEF DeEtapa, Mapa, EnCurso, EtapasDeHilo
  <1>4. Cubre(u, j)
    <2> SUFFICES ASSUME NEW b \in Bloques(j)
                 PROVE  \E i \in N : u[i].bloque = b /\ Vigente(u, i)
      BY <1>3 DEF Cubre
    <2> QED  BY DEF Vigente
  <1>5. Unica(u, j)
    <2> SUFFICES ASSUME NEW i \in N, NEW k \in N, u[i].bloque = u[k].bloque PROVE i = k
      BY <1>3 DEF Unica
    <2>1. i = n + u[i].bloque /\ k = n + u[k].bloque  OBVIOUS
    <2> QED  BY <2>1
  <1>6. ConCopia(u, j, C)  BY <1>3 DEF ConCopia
  <1>7. SinVuelta(u, j)  BY <1>1 DEF SinVuelta
  <1>8. Barrera(u, j)  BY <1>3 DEF Barrera
  <1>9. SoloHilosCancelados(u, j)  BY <1>1 DEF SoloHilosCancelados, Vigente
  <1>10. UnaPorNodo(u, j)  BY <1>3 DEF UnaPorNodo, ReduccionesListas
  <1> QED  BY <1>1, <1>2, <1>3, <1>4, <1>5, <1>6, <1>7, <1>8, <1>9, <1>10 DEF Seguido

\* The entries of a plan: the job is followed from the start.
LEMMA PlanDeTabla ==
  ASSUME NEW t \in Seq(Entrada), CopiasEscritas(t), NEW j \in Jobs, NEW p \in Planes(j),
         DelJob(t, j) = {}, NEW u, ConPlan(t, u, j, p)
  PROVE  /\ Conserva(t, u) /\ \A q : q # j => Ajena(t, u, q)
         /\ Seguido(u, j, CopiasTras(j, p)) /\ CopiasEscritas(u)
         /\ EnCurso(u, j) = {Len(t) + b : b \in Bloques(j)}
         /\ Len(t) \in Nat /\ Bloques(j) \subseteq Nat \ {0}
         /\ \A b \in Bloques(j) : u[Len(t) + b].bloque = b
  <1> DEFINE n == Len(t)
             m == Len(Copias[j])
             nuevas == Entradas(j, p)
  <1>1. m \in Nat /\ n \in Nat /\ Bloques(j) = 1..m
    <2>1. Copias[j] \in Seq((SUBSET Nodos) \ {{}})  BY SupuestoTabla
    <2> QED  BY <2>1, LenProperties DEF Bloques
  <1>2. \A b \in 1..m :
          /\ nuevas[b] \in Entrada /\ nuevas[b].job = j /\ nuevas[b].etapa = "TRANSFORMACION"
          /\ nuevas[b].bloque = b /\ nuevas[b].estado = "ENPROCESO" /\ nuevas[b].copia # Basura
          /\ nuevas[b].copia # Nulo =>
               nuevas[b].copia \in Nodos /\ <<nuevas[b].copia, b>> \in CopiasTras(j, p)
    <2> SUFFICES ASSUME NEW b \in 1..m
                 PROVE  /\ nuevas[b] \in Entrada /\ nuevas[b].job = j
                        /\ nuevas[b].etapa = "TRANSFORMACION"
                        /\ nuevas[b].bloque = b /\ nuevas[b].estado = "ENPROCESO"
                        /\ nuevas[b].copia # Basura
                        /\ nuevas[b].copia # Nulo =>
                             /\ nuevas[b].copia \in Nodos
                             /\ <<nuevas[b].copia, b>> \in CopiasTras(j, p)
      OBVIOUS
    <2>1. nuevas[b] = Nueva(j, "TRANSFORMACION", p[b].nodo, b, p[b].copia)
      BY <1>1 DEF Entradas
    <2>2. /\ p[b].nodo \in Nodos /\ p[b].copia \in Nodos \cup {Nulo}
          /\ p[b].copia # Nulo => p[b].copia \in Copias[j][b] \ {p[b].nodo}
      BY <1>1 DEF Planes
    <2>3. p[b].copia # Basura  BY <2>2, SupuestoTabla
    <2>4. p[b].copia # Nulo => <<p[b].copia, b>> \in CopiasTras(j, p)
      BY <1>1, <2>2 DEF CopiasTras
    <2> HIDE DEF nuevas
    <2> QED  BY <2>1, <2>2, <2>3, <2>4 DEF Nueva, Entrada, Etapas, Estados
  <1> HIDE DEF nuevas
  <1>3. u \in Seq(Entrada) /\ Len(u) = n + m  BY DEF ConPlan
  <1>4. /\ \A i \in 1..n : u[i] = t[i]
        /\ \A b \in 1..m : u[n + b] = nuevas[b]
    BY DEF nuevas, ConPlan
  <1> HIDE DEF m
  <1>5. DOMAIN t = 1..n /\ DOMAIN u = 1..(n + m)
    BY <1>1, <1>3, DominioTabla
  <1> HIDE DEF n
  <1>6. /\ \A i \in 1..n : i \in 1..(n + m) /\ u[i] = t[i]
        /\ \A b \in 1..m : n + b \in 1..(n + m) /\ n + b \notin 1..n /\ u[n + b] = nuevas[b]
        /\ \A i \in 1..(n + m) : i \in 1..n \/ \E b \in 1..m : i = n + b
    <2>1. \A i \in 1..n : i \in 1..(n + m) /\ u[i] = t[i]  BY <1>1, <1>4
    <2>2. ASSUME NEW b \in 1..m
          PROVE  n + b \in 1..(n + m) /\ n + b \notin 1..n /\ u[n + b] = nuevas[b]
      BY <1>1, <1>4
    <2>3. ASSUME NEW i \in 1..(n + m), i \notin 1..n PROVE \E b \in 1..m : i = n + b
      <3>1. i - n \in 1..m /\ i = n + (i - n)  BY <1>1, <2>3
      <3> QED  BY <3>1
    <2> QED  BY <2>1, <2>2, <2>3
  <1> DEFINE N == {n + b : b \in 1..m}
  <1>7. ASSUME NEW i \in N
        PROVE  /\ u[i].job = j /\ u[i].etapa = "TRANSFORMACION"
               /\ u[i].estado = "ENPROCESO" /\ u[i].copia # Basura
               /\ i = n + u[i].bloque
               /\ u[i].copia # Nulo =>
                    u[i].copia \in Nodos /\ <<u[i].copia, u[i].bloque>> \in CopiasTras(j, p)
    <2>1. PICK b \in 1..m : i = n + b  OBVIOUS
    <2>2. u[i] = nuevas[b]  BY <1>6, <2>1
    <2>3. /\ u[i].job = j /\ u[i].etapa = "TRANSFORMACION" /\ u[i].bloque = b
          /\ u[i].estado = "ENPROCESO" /\ u[i].copia # Basura
          /\ u[i].copia # Nulo =>
               u[i].copia \in Nodos /\ <<u[i].copia, b>> \in CopiasTras(j, p)
      <3> DEFINE e == nuevas[b]
      <3>1. /\ e.job = j /\ e.etapa = "TRANSFORMACION" /\ e.bloque = b
            /\ e.estado = "ENPROCESO" /\ e.copia # Basura
        BY <1>2
      <3>2. e.copia # Nulo => e.copia \in Nodos /\ <<e.copia, b>> \in CopiasTras(j, p)
        BY <1>2
      <3>3. u[i] = e  BY <2>2
      <3> HIDE DEF e
      <3> QED  BY <3>1, <3>2, <3>3
    <2> QED  BY <2>1, <2>3
  <1>8. \A b \in Bloques(j) : n + b \in N /\ u[n + b].bloque = b
    <2> SUFFICES ASSUME NEW b \in 1..m PROVE n + b \in N /\ u[n + b].bloque = b
      BY <1>1
    <2>1. u[n + b] = nuevas[b] /\ nuevas[b].bloque = b  BY <1>2, <1>6
    <2> QED  BY <2>1
  <1>9. /\ \A i \in DOMAIN u : i \in N \/ (i \in DOMAIN t /\ u[i] = t[i])
        /\ \A i \in DOMAIN t : i \in DOMAIN u /\ u[i] = t[i]
        /\ \A i \in N : i \in DOMAIN u /\ i \notin DOMAIN t
    <2>1. \A i \in DOMAIN u : i \in N \/ (i \in DOMAIN t /\ u[i] = t[i])
      BY <1>5, <1>6
    <2>2. \A i \in N : i \in DOMAIN u /\ i \notin DOMAIN t
      BY <1>5, <1>6
    <2> QED  BY <1>5, <1>6, <2>1, <2>2
  <1>10. Conserva(t, u)
    <2>1. \A i \in 1..n : MismaFila(u[i], t[i])  BY <1>6 DEF MismaFila
    <2> QED  BY <1>1, <1>3, <2>1 DEF Conserva, n
  <1>11. CopiasEscritas(u)
    <2>1. ASSUME NEW i \in DOMAIN u PROVE u[i].etapa = "TRANSFORMACION" <=> u[i].copia # Basura
      <3>1. CASE i \in N  BY <1>7, <3>1
      <3>2. CASE i \in DOMAIN t /\ u[i] = t[i]  BY <1>5, <3>2 DEF CopiasEscritas, n
      <3> QED  BY <1>9, <3>1, <3>2
    <2>2. DOMAIN u = 1..Len(u)  BY <1>3, <1>5
    <2> QED  BY <2>1, <2>2 DEF CopiasEscritas
  <1>12. N = {Len(t) + b : b \in Bloques(j)}  BY <1>1 DEF n
  <1> HIDE DEF N
  <1>13. /\ EnCurso(u, j) = N /\ Seguido(u, j, CopiasTras(j, p))
         /\ \A q : q # j => Ajena(t, u, q)
    <2>1. \A b \in Bloques(j) : \E i \in N : u[i].bloque = b  BY <1>8
    <2>2. \A i \in N :
            /\ u[i].job = j /\ u[i].etapa = "TRANSFORMACION"
            /\ u[i].estado = "ENPROCESO" /\ u[i].copia # Basura
            /\ i = n + u[i].bloque
            /\ u[i].copia # Nulo =>
                 u[i].copia \in Nodos /\ <<u[i].copia, u[i].bloque>> \in CopiasTras(j, p)
      BY <1>7
    <2> DEFINE C == CopiasTras(j, p)
    <2>3. \A i \in N :
            /\ u[i].job = j /\ u[i].etapa = "TRANSFORMACION"
            /\ u[i].estado = "ENPROCESO" /\ u[i].copia # Basura
            /\ i = n + u[i].bloque
            /\ u[i].copia # Nulo => u[i].copia \in Nodos /\ <<u[i].copia, u[i].bloque>> \in C
      BY <2>2
    <2> HIDE DEF C
    <2>4. EsPlan(t, u, j, N, n, C)  BY <1>9, <2>1, <2>3 DEF EsPlan
    <2>5. EnCurso(u, j) = N /\ Seguido(u, j, C) /\ \A q : q # j => Ajena(t, u, q)
      BY <1>1, <2>4, PlanSeguido
    <2> QED  BY <2>5 DEF C
  <1>14. Len(t) \in Nat /\ Bloques(j) \subseteq Nat \ {0}  BY <1>1 DEF n
  <1>15. \A b \in Bloques(j) : u[Len(t) + b].bloque = b  BY <1>8 DEF n
  <1> QED  BY <1>10, <1>11, <1>12, <1>13, <1>14, <1>15

LEMMA SolicitudSigue ==
  ASSUME IInv, Inv', NEW j \in Jobs, enviarTablaTransformacion(j)
  PROVE  IInv' /\ NoRevive /\ SoloDe(j)
  <1>1. /\ aYama[j] # <<>> /\ Head(aYama[j]).tipo = "SOLICITUDJOB"
        /\ replan = Nulo /\ yama = "viva" /\ j \in conectados
    BY DEF enviarTablaTransformacion, Llega
  <1>2. Nuevo(j) /\ Len(aYama[j]) = 1 /\ maestro[j] # "inicio"
    <2>1. aYama[j] \in Seq(AvisosHasta(Len(tabla)))  BY DEF IInv, Inv, AYamaOK
    <2>2. 1 \in 1..Len(aYama[j]) /\ Head(aYama[j]) = aYama[j][1]  BY <1>1, <2>1, ColaDe
    <2> QED  BY <1>1, <2>2 DEF IInv, TrabajoOK, UnaSolicitud
  <1>3. tabla \in Seq(Entrada) /\ CopiasEscritas(tabla)  BY DEF IInv, Inv
  <1>4. CASE /\ Responde(j, Orden("PLAN", {})) \/ EnvioRoto(j)
             /\ UNCHANGED <<tabla, asociados, copiasLibres, varsMaster>>
    <2>1. Conserva(tabla, tabla') /\ \A q : Ajena(tabla, tabla', q)
      BY <1>3, <1>4, Igual
    <2>2. j \notin asociados'  BY <1>2, <1>4 DEF Nuevo
    <2>3. EnReplan' /\ CopiasEscritas(tabla') /\ yama' = yama
      BY <1>1, <1>3, <1>4 DEF EnReplan, Responde, EnvioRoto
    <2>4. /\ Leido(j) \/ aYama' = [aYama EXCEPT ![j] = <<>>]
          /\ \/ aMaster' = aMaster
             \/ \E m : Manda(j, m) /\ \A o \in m.ops : OpFiel(tabla', o)
      BY <1>4 DEF Responde, EnvioRoto, Orden
    <2>5. \A q \in Jobs : q # j => (q \in conectados' <=> q \in conectados)
      BY <1>4 DEF Responde, EnvioRoto
    <2> QED  BY <1>1, <1>2, <1>4, <2>1, <2>2, <2>3, <2>4, <2>5, PasoDeYamaSigue
  <1>5. ASSUME NEW p \in Planes(j),
               tabla' = tabla \o Entradas(j, p),
               asociados' = asociados \cup {j},
               copiasLibres' = [copiasLibres EXCEPT ![j] = CopiasTras(j, p)],
               Responde(j, Orden("PLAN",
                  {Op("TRANSFORMACION", Len(tabla) + b, b, {}) : b \in Bloques(j)})),
               UNCHANGED varsMaster
        PROVE  IInv' /\ NoRevive /\ SoloDe(j)
    <2> DEFINE N == {Len(tabla) + b : b \in Bloques(j)}
               ops == {Op("TRANSFORMACION", Len(tabla) + b, b, {}) : b \in Bloques(j)}
               m == Orden("PLAN", ops)
    <2>1. /\ Conserva(tabla, tabla') /\ \A q : q # j => Ajena(tabla, tabla', q)
          /\ Seguido(tabla', j, copiasLibres'[j]) /\ CopiasEscritas(tabla')
          /\ EnCurso(tabla', j) = N /\ Len(tabla) \in Nat /\ Bloques(j) \subseteq Nat \ {0}
          /\ \A b \in Bloques(j) : tabla'[Len(tabla) + b].bloque = b
          /\ DeEtapa(tabla, j, "REDUCCIONLOCAL") = {}
      <3>1. copiasLibres'[j] = CopiasTras(j, p)
        BY <1>5 DEF IInv, Inv, EscalaresOK
      <3>2. DelJob(tabla, j) = {}  BY <1>2 DEF Nuevo
      <3>3. DeEtapa(tabla, j, "REDUCCIONLOCAL") = {}  BY <3>2 DEF DeEtapa
      <3>4. PICK u : u = tabla'  OBVIOUS
      <3>5. /\ Conserva(tabla, u) /\ \A q : q # j => Ajena(tabla, u, q)
            /\ Seguido(u, j, CopiasTras(j, p)) /\ CopiasEscritas(u)
            /\ EnCurso(u, j) = N /\ Len(tabla) \in Nat /\ Bloques(j) \subseteq Nat \ {0}
            /\ \A b \in Bloques(j) : u[Len(tabla) + b].bloque = b
        <4>1. ConPlan(tabla, u, j, p)  BY <1>3, <1>5, <3>4, TablaConPlan
        <4> QED  BY <1>3, <3>2, <4>1, PlanDeTabla
      <3> QED  BY <3>1, <3>3, <3>4, <3>5
    <2>2. /\ aYama'[j] = <<>> /\ aMaster[j] = <<>> /\ hilos[j] = {} /\ j \in conectados'
          /\ yama' = yama /\ conectados' = conectados /\ replan' = Nulo /\ Manda(j, m) /\ Leido(j)
      <3>1. aYama[j] \in Seq(AvisosHasta(Len(tabla))) /\ aYama'[j] = Tail(aYama[j])
        BY <1>5 DEF IInv, Inv, AYamaOK, Responde, Leido
      <3>2. Tail(aYama[j]) \in Seq(AvisosHasta(Len(tabla))) /\ Len(Tail(aYama[j])) = 0
        BY <1>1, <1>2, <3>1, HeadTailProperties, EmptySeq
      <3>3. Tail(aYama[j]) = <<>>  BY <3>2, EmptySeq
      <3> QED  BY <1>1, <1>2, <1>5, <3>1, <3>3 DEF Responde, Nuevo
    <2>3. m.ops = ops  BY DEF Orden
    <2>4. /\ DeHilo(ops) = ops /\ N = {o.temp : o \in ops} /\ 0 \notin N
          /\ \A o, q \in ops : o.temp = q.temp => o = q
          /\ \A o \in ops : OpFiel(tabla', o) /\ OpLista(tabla', j, o)
      <3>1. \A b \in Bloques(j) : b \in Nat \ {0} /\ Len(tabla) + b # 0  BY <2>1
      <3>2. \A o \in ops : \E b \in Bloques(j) :
              /\ o.temp = Len(tabla) + b /\ o.bloque = b /\ o.etapa = "TRANSFORMACION"
              /\ o = Op("TRANSFORMACION", Len(tabla) + b, b, {})
        BY DEF Op
      <3>3. DeHilo(ops) = ops  BY <3>2 DEF DeHilo, EtapasDeHilo
      <3>4. N = {o.temp : o \in ops}
        <4>1. \A b \in Bloques(j) :
                /\ Op("TRANSFORMACION", Len(tabla) + b, b, {}) \in ops
                /\ Op("TRANSFORMACION", Len(tabla) + b, b, {}).temp = Len(tabla) + b
          BY DEF Op
        <4> QED  BY <3>2, <4>1
      <3>5. ASSUME NEW o \in ops, NEW q \in ops, o.temp = q.temp PROVE o = q
        <4>1. PICK b \in Bloques(j) : o.temp = Len(tabla) + b
                                       /\ o = Op("TRANSFORMACION", Len(tabla) + b, b, {})
          BY <3>2
        <4>2. PICK c \in Bloques(j) : q.temp = Len(tabla) + c
                                       /\ q = Op("TRANSFORMACION", Len(tabla) + c, c, {})
          BY <3>2
        <4>3. b = c  BY <2>1, <3>1, <3>5, <4>1, <4>2
        <4> QED  BY <4>1, <4>2, <4>3
      <3>6. \A o \in ops : OpFiel(tabla', o) /\ OpLista(tabla', j, o)
        BY <2>1, <3>2 DEF OpFiel, OpLista
      <3> QED  BY <3>1, <3>3, <3>4, <3>5, <3>6
    <2> HIDE DEF N, ops, m
    <2>5. /\ Reparto(aMaster[j], hilos[j], aYama'[j], {}) /\ OpsDe(aMaster[j], hilos[j]) = {}
          /\ Completo(aMaster[j], hilos[j], aYama'[j], {})
      <3>1. Len(<<>>) = 0 /\ 1..0 = {} /\ DeHilo({}) = {}  BY DEF DeHilo
      <3> QED  BY <2>2, <3>1 DEF Reparto, Completo, OpsDe
    <2>6. ArchivoL(tabla, j, archivos) /\ HechasCrecen(tabla, tabla', j)
      BY <2>1 DEF ArchivoL, HechasCrecen
    <2>7. Seguimiento(j)'
      <3>1. /\ Inv /\ UNCHANGED <<varsMaster, yama>> /\ Conserva(tabla, tabla')
            /\ {} \cap N = {} /\ 0 \notin N /\ EnCurso(tabla', j) = {} \cup N
        BY <1>5, <2>1, <2>2, <2>4 DEF IInv
      <3>2. /\ Manda(j, m) /\ N = {o.temp : o \in DeHilo(m.ops)}
            /\ \A o, q \in DeHilo(m.ops) : o.temp = q.temp => o = q
            /\ \A o \in m.ops : OpLista(tabla', j, o)
        BY <2>2, <2>3, <2>4
      <3> QED  BY <2>1, <2>2, <2>5, <2>6, <3>1, <3>2, SeguimientoSigue
    <2>8. EnReplan'  BY <2>2 DEF EnReplan
    <2>9. \A q \in Jobs : q # j =>
            /\ q \in asociados' <=> q \in asociados
            /\ q \in conectados' <=> q \in conectados
            /\ copiasLibres'[q] = copiasLibres[q]
      BY <1>5, <2>2 DEF IInv, Inv, EscalaresOK
    <2>10. Manda(j, m) /\ \A o \in m.ops : OpFiel(tabla', o)
      BY <2>2, <2>3, <2>4
    <2>11. j \notin asociados  BY <1>2 DEF Nuevo
    <2> QED  BY <1>1, <1>2, <1>5, <2>1, <2>2, <2>7, <2>8, <2>9, <2>10, <2>11, PasoDeYamaSigue
  <1>6. CASE Cae  BY <1>6, CaeSigue
  <1> QED  BY <1>4, <1>5, <1>6 DEF enviarTablaTransformacion

\* A handler after which YAMA does not follow the job: its order, if there is one, is true.
LEMMA DejadoSigue ==
  ASSUME IInv, Inv', NEW j \in Jobs, UNCHANGED <<copiasLibres, varsMaster>>, replan = Nulo,
         aYama[j] # <<>>, j \notin asociados',
         \A q \in Jobs : q # j => (q \in asociados' <=> q \in asociados),
         Conserva(tabla, tabla'), \A q \in Jobs : q # j => Ajena(tabla, tabla', q),
         CopiasEscritas(tabla'),
         \/ \E m : Responde(j, m) /\ \A o \in m.ops : OpFiel(tabla', o)
         \/ EnvioRoto(j)
         \/ Leido(j) /\ UNCHANGED <<conectados, yama, replan, aMaster>>
  PROVE  IInv' /\ NoRevive /\ SoloDe(j)
  <1>1. CASE \E m : Responde(j, m) /\ \A o \in m.ops : OpFiel(tabla', o)
    <2>1. PICK m : Responde(j, m) /\ \A o \in m.ops : OpFiel(tabla', o)  BY <1>1
    <2>2. EnReplan'  BY <2>1 DEF EnReplan, Responde
    <2> QED  BY <2>1, <2>2, PasoDeYamaSigue DEF Responde
  <1>2. CASE EnvioRoto(j)
    <2>1. EnReplan'  BY <1>2 DEF EnReplan, EnvioRoto
    <2>2. maestro[j] # "inicio"  BY <1>2 DEF EnvioRoto, Vivo, Salidas
    <2>3. \A q \in Jobs : q # j => (q \in conectados' <=> q \in conectados)
      BY <1>2 DEF EnvioRoto
    <2> QED  BY <1>2, <2>1, <2>2, <2>3, PasoDeYamaSigue DEF EnvioRoto
  <1>3. CASE Leido(j) /\ UNCHANGED <<conectados, yama, replan, aMaster>>
    <2>1. EnReplan'  BY <1>3 DEF EnReplan
    <2> QED  BY <1>3, <2>1, PasoDeYamaSigue
  <1> QED  BY <1>1, <1>2, <1>3

\* A handler that reads an answer of a job YAMA goes on following; N are its new entries.
LEMMA AtendidoSigue ==
  ASSUME IInv, Inv', NEW j \in Jobs, j \in asociados, aYama[j] # <<>>, Leido(j),
         UNCHANGED <<asociados, conectados, yama, varsMaster>>,
         \A q \in Jobs : q # j => copiasLibres'[q] = copiasLibres[q],
         Conserva(tabla, tabla'), \A q \in Jobs : q # j => Ajena(tabla, tabla', q),
         CopiasEscritas(tabla'), EnReplan',
         NEW N, EnCurso(tabla, j) \cap N = {}, 0 \notin N,
         EnCurso(tabla', j) = (EnCurso(tabla, j) \ {Head(aYama[j]).temp}) \cup N,
         \/ aMaster' = aMaster /\ N = {}
         \/ \E m : /\ Manda(j, m) /\ N = {o.temp : o \in DeHilo(m.ops)}
                   /\ \A o, p \in DeHilo(m.ops) : o.temp = p.temp => o = p
                   /\ \A o \in m.ops : OpLista(tabla', j, o) /\ OpFiel(tabla', o),
         HechasCrecen(tabla, tabla', j), Seguido(tabla', j, copiasLibres'[j]),
         \A i \in DelJob(tabla, j) : ~Vigente(tabla, i) => ~Vigente(tabla', i)
  PROVE  IInv' /\ NoRevive /\ SoloDe(j)
  <1> DEFINE F == EnCurso(tabla, j) \ {Head(aYama[j]).temp}
  <1>1. aYama'[j] = Tail(aYama[j])  BY DEF Leido, IInv, Inv, AYamaOK
  <1>2. /\ Reparto(aMaster[j], hilos[j], aYama'[j], F)
        /\ Vivo(j) /\ yama = "viva" => Completo(aMaster[j], hilos[j], aYama'[j], F)
    BY <1>1, AvisoEnCurso
  <1>3. /\ Seguimiento(j) /\ Inv
        /\ \A o \in OpsDe(aMaster[j], hilos[j]) : OpLista(tabla, j, o)
        /\ ArchivoL(tabla, j, archivos) /\ j \in conectados'
    BY DEF IInv, TrabajoOK, Seguimiento
  <1>4. F \cap N = {} /\ EnCurso(tabla', j) = F \cup N  OBVIOUS
  <1> HIDE DEF F
  <1>5. \/ aMaster' = aMaster /\ N = {}
        \/ \E m : /\ Manda(j, m) /\ N = {o.temp : o \in DeHilo(m.ops)}
                  /\ \A o, p \in DeHilo(m.ops) : o.temp = p.temp => o = p
                  /\ \A o \in m.ops : OpLista(tabla', j, o)
    OBVIOUS
  <1>6. Seguimiento(j)'
    BY <1>2, <1>3, <1>4, <1>5, SeguimientoSigue
  <1>7. aMaster' = aMaster \/ \E m : Manda(j, m) /\ \A o \in m.ops : OpFiel(tabla', o)
    OBVIOUS
  <1> QED  BY <1>6, <1>7, PasoDeYamaSigue

\* The order of one operation, on what a thread will answer for.
LEMMA UnaOperacion ==
  ASSUME NEW tipo, NEW o
  PROVE  LET m == Orden(tipo, {o})
         IN  /\ m.ops = {o} /\ \A p, q \in DeHilo(m.ops) : p.temp = q.temp => p = q
             /\ o.etapa \in EtapasDeHilo => {p.temp : p \in DeHilo(m.ops)} = {o.temp}
             /\ o.etapa \notin EtapasDeHilo => {p.temp : p \in DeHilo(m.ops)} = {}
  <1>1. Orden(tipo, {o}).ops = {o}  BY DEF Orden
  <1> QED  BY <1>1 DEF DeHilo

\* matarPorReplanificacion, on a table that only differs in entries of the job.
LEMMA MatarSigue ==
  ASSUME IInv, Inv', NEW j \in Jobs, NEW t \in Seq(Entrada), maestro[j] # "inicio",
         Conserva(tabla, t), \A q \in Jobs : q # j => Ajena(tabla, t, q), Len(t) = Len(tabla),
         matarPorReplanificacion(j, t)
  PROVE  IInv' /\ NoRevive /\ SoloDe(j)
  <1>1. /\ tabla' = AjustarCarga(t, j) /\ tabla \in Seq(Entrada) /\ CopiasEscritas(tabla)
    BY DEF matarPorReplanificacion, IInv, Inv
  <1>2. Conserva(tabla, tabla') /\ Len(tabla') = Len(tabla)
    BY <1>1, AjustarCambia, ConservaTrans
  <1>3. \A q \in Jobs : q # j => Ajena(tabla, tabla', q)
    BY <1>1, AjustarCambia, AjenaTrans
  <1>4. CopiasEscritas(tabla')  BY <1>1, <1>2, CopiasCrecen
  <1>5. /\ aYama' = [aYama EXCEPT ![j] = <<>>] /\ j \notin asociados'
        /\ yama' = yama /\ UNCHANGED varsMaster /\ copiasLibres' = copiasLibres
        /\ \A q \in Jobs : q # j => /\ q \in asociados' <=> q \in asociados
                                    /\ q \in conectados' <=> q \in conectados
    BY DEF matarPorReplanificacion
  <1>6. EnReplan'  BY DEF matarPorReplanificacion, EnReplan
  <1>7. \E m : Manda(j, m) /\ \A o \in m.ops : OpFiel(tabla', o)
    BY DEF matarPorReplanificacion, Orden
  <1> QED  BY <1>2, <1>3, <1>4, <1>5, <1>6, <1>7, PasoDeYamaSigue

\* Entry i of a followed job is cancelled and handed to its copy, as entry n.
LEMMA CopiaSigue ==
  ASSUME IInv, NEW j \in Jobs, j \in asociados, NEW i \in Mapa(tabla, j), Vigente(tabla, i),
         DeEtapa(tabla, j, "REDUCGLOBAL") = {}, TieneCopia(j, tabla[i]),
         NEW t, t = Marcar(tabla, {i}, "ERRORYAMA"), AsignarACopia(j, t, i),
         NEW n, n = Len(tabla) + 1
  PROVE  /\ Conserva(tabla, tabla') /\ \A q \in Jobs : q # j => Ajena(tabla, tabla', q)
         /\ CopiasEscritas(tabla')
         /\ \A q \in Jobs : q # j => copiasLibres'[q] = copiasLibres[q]
         /\ Seguido(tabla', j, copiasLibres'[j])
         /\ EnCurso(tabla', j) = (EnCurso(tabla, j) \ {i}) \cup {n}
         /\ n \notin EnCurso(tabla, j) /\ n # 0
         /\ \E m : /\ Manda(j, m) /\ {n} = {o.temp : o \in DeHilo(m.ops)}
                   /\ \A o, p \in DeHilo(m.ops) : o.temp = p.temp => o = p
                   /\ \A o \in m.ops : OpLista(tabla', j, o) /\ OpFiel(tabla', o)
         /\ \A p : p # tabla[i].nodo \/ tabla[i].estado # "FINALIZADO" =>
              Hechas(tabla', j, p) = Hechas(tabla, j, p)
         /\ \A k \in DelJob(tabla, j) : ~Vigente(tabla, k) => ~Vigente(tabla', k)
         /\ DeEtapa(tabla', j, "REDUCGLOBAL") = {}
         /\ \A k \in DelJob(tabla', j) :
              \/ tabla'[k].etapa = "TRANSFORMACION"
              \/ k \in DelJob(tabla, j) /\ MismaFila(tabla'[k], tabla[k])
  <1>1. tabla \in Seq(Entrada) /\ CopiasEscritas(tabla) /\ Seguido(tabla, j, copiasLibres[j])
    BY DEF IInv, Inv, TrabajoOK, Seguimiento
  <1>2. i \in DelJob(tabla, j) /\ tabla[i].etapa = "TRANSFORMACION" /\ {i} \subseteq DelJob(tabla, j)
    BY DEF Mapa, DeEtapa
  <1>3. "ERRORYAMA" \in Estados  BY DEF Estados
  <1>4. /\ Conserva(tabla, t) /\ Len(t) = Len(tabla) /\ Cambia(tabla, t, j, {i}, "ERRORYAMA")
        /\ \A q : q # j => Ajena(tabla, t, q)
    BY <1>1, <1>2, <1>3, MarcarCambia
  <1>5. MismaFila(t[i], tabla[i]) /\ i \in 1..Len(tabla) /\ tabla[i] \in Entrada /\ Len(tabla) \in Nat
        /\ t[i].copia = tabla[i].copia /\ t[i].bloque = tabla[i].bloque
    <2>1. i \in 1..Len(tabla) /\ tabla[i] \in Entrada /\ Len(tabla) \in Nat
      BY <1>1, <1>2, DominioTabla
    <2> QED  BY <1>4, <2>1 DEF Conserva, MismaFila
  <1> DEFINE e == Nueva(j, "TRANSFORMACION", tabla[i].copia, tabla[i].bloque, Nulo)
             o == Op("TRANSFORMACION", n, tabla[i].bloque, {})
  <1>6. tabla[i].copia \in Nodos /\ tabla[i].copia # Nulo
    BY SupuestoTabla DEF TieneCopia
  <1>7. e \in Entrada /\ e.job = j /\ e.etapa = "TRANSFORMACION" /\ e.copia # Basura
        /\ e.bloque = tabla[i].bloque
    BY <1>5, <1>6, SupuestoTabla DEF Nueva, Entrada, Etapas, Estados
  <1>8. /\ tabla' = Append(t, e) /\ Manda(j, Orden("REPLANIFICACION", {o}))
        /\ copiasLibres' = [copiasLibres EXCEPT ![j] = @ \ {<<tabla[i].copia, tabla[i].bloque>>}]
    BY <1>4, <1>5 DEF AsignarACopia
  <1> HIDE DEF e
  <1>9. t \in Seq(Entrada)  BY <1>4 DEF Conserva
  <1>10. /\ Conserva(t, tabla') /\ Suma(t, tabla', j, n, e)
         /\ \A q : q # j => Ajena(t, tabla', q)
    BY <1>4, <1>7, <1>8, <1>9, AgregarSuma
  <1>11. Conserva(tabla, tabla') /\ \A q \in Jobs : q # j => Ajena(tabla, tabla', q)
    BY <1>1, <1>4, <1>10, ConservaTrans, AjenaTrans
  <1>12. CopiasEscritas(tabla')
    <2>1. CopiasEscritas(t)  BY <1>1, <1>4, CopiasCrecen
    <2> QED  BY <1>7, <1>8, <1>9, <2>1, CopiasCrecen
  <1>13. /\ \A q \in Jobs : q # j => copiasLibres'[q] = copiasLibres[q]
         /\ copiasLibres'[j] = copiasLibres[j] \ {<<tabla[i].copia, tabla[i].bloque>>}
    BY <1>8 DEF IInv, Inv, EscalaresOK
  <1>14. /\ Seguido(tabla', j, copiasLibres'[j])
         /\ EnCurso(tabla', j) = (EnCurso(tabla, j) \ {i}) \cup {n} /\ n \notin DelJob(tabla, j)
         /\ DeEtapa(tabla', j, "REDUCGLOBAL") = {}
         /\ \A p : p # tabla[i].nodo \/ tabla[i].estado # "FINALIZADO" =>
              Hechas(tabla', j, p) = Hechas(tabla, j, p)
    <2>1. PICK D : D = copiasLibres[j] \ {<<tabla[i].copia, tabla[i].bloque>>}  OBVIOUS
    <2>2. e = Nueva(j, "TRANSFORMACION", tabla[i].copia, tabla[i].bloque, Nulo)  BY DEF e
    <2>3. /\ Seguido(tabla', j, D)
          /\ EnCurso(tabla', j) = (EnCurso(tabla, j) \ {i}) \cup {n} /\ n \notin DelJob(tabla, j)
          /\ DeEtapa(tabla', j, "REDUCGLOBAL") = {}
          /\ \A p : p # tabla[i].nodo \/ tabla[i].estado # "FINALIZADO" =>
               Hechas(tabla', j, p) = Hechas(tabla, j, p)
      <3>1. PasaACopia(tabla, t, tabla', j, copiasLibres[j], D, i, n, e)
        BY <1>1, <1>4, <1>6, <1>10, <2>1, <2>2 DEF PasaACopia
      <3> QED  BY <3>1, SeguidoCopia
    <2> QED  BY <1>13, <2>1, <2>3
  <1>15. n \notin EnCurso(tabla, j) /\ n # 0
    BY <1>5, <1>14 DEF EnCurso
  <1>16. tabla'[n] = e /\ \A k \in DelJob(tabla, j) : tabla'[k] = t[k]
    BY <1>4, <1>10 DEF Suma, Cambia
  <1>17. DelJob(tabla', j) = DelJob(tabla, j) \cup {n}
    BY <1>4, <1>10 DEF Suma, Cambia
  <1>18. o.etapa = "TRANSFORMACION" /\ o.temp = n /\ o.bloque = tabla[i].bloque
    BY DEF Op
  <1> HIDE DEF o
  <1>19. OpLista(tabla', j, o) /\ OpFiel(tabla', o)
    BY <1>7, <1>16, <1>18 DEF OpLista, OpFiel
  <1>20. \E m : /\ Manda(j, m) /\ {n} = {p.temp : p \in DeHilo(m.ops)}
                /\ \A p, q \in DeHilo(m.ops) : p.temp = q.temp => p = q
                /\ \A p \in m.ops : OpLista(tabla', j, p) /\ OpFiel(tabla', p)
    <2>1. o.etapa \in EtapasDeHilo  BY <1>18 DEF EtapasDeHilo
    <2>2. LET m == Orden("REPLANIFICACION", {o})
          IN  /\ m.ops = {o} /\ \A p, q \in DeHilo(m.ops) : p.temp = q.temp => p = q
              /\ {p.temp : p \in DeHilo(m.ops)} = {n}
      BY <1>18, <2>1, UnaOperacion
    <2> QED  BY <1>8, <1>19, <2>2
  <1>21. \A k \in DelJob(tabla, j) : ~Vigente(tabla, k) => ~Vigente(tabla', k)
    BY <1>4, <1>16 DEF Vigente, Cambia
  <1>22. \A k \in DelJob(tabla', j) :
              \/ tabla'[k].etapa = "TRANSFORMACION"
              \/ k \in DelJob(tabla, j) /\ MismaFila(tabla'[k], tabla[k])
    BY <1>4, <1>7, <1>16, <1>17 DEF Cambia
  <1> QED  BY <1>11, <1>12, <1>13, <1>14, <1>15, <1>20, <1>21, <1>22

LEMMA ReplanificarSigue ==
  ASSUME IInv, Inv', NEW j \in Jobs, replanificar(j)
  PROVE  IInv' /\ NoRevive /\ SoloDe(j)
  <1> DEFINE i == Head(aYama[j]).temp
             t == Marcar(tabla, {i}, "ERRORYAMA")
  <1>1. AvisoFallo("TRANSFORMACION") = "FALLOTRANSFORMACION" /\ "TRANSFORMACION" \in EtapasDeHilo
    BY DEF AvisoFallo, EtapasDeHilo
  <1>2. /\ aYama[j] # <<>> /\ replan = Nulo /\ Llega(j, "FALLOTRANSFORMACION")
        /\ i \in DeEtapa(tabla, j, "TRANSFORMACION") /\ i \in 1..Len(tabla) /\ tabla[i] \in Entrada
    <2>1. Llega(j, "FALLOTRANSFORMACION")  BY DEF replanificar
    <2> QED  BY <1>1, <2>1, AvisoDeHilo DEF IInv, Llega
  <1>3. tabla \in Seq(Entrada) /\ CopiasEscritas(tabla)  BY DEF IInv, Inv
  <1>4. i \in DelJob(tabla, j) /\ i \in Mapa(tabla, j) /\ i # 0
    BY <1>2 DEF DeEtapa, Mapa
  <1>5. /\ t \in Seq(Entrada) /\ Conserva(tabla, t) /\ Len(t) = Len(tabla)
        /\ \A q : q # j => Ajena(tabla, t, q)
    <2>1. "ERRORYAMA" \in Estados /\ {i} \subseteq DelJob(tabla, j)  BY <1>4 DEF Estados
    <2> QED  BY <1>3, <2>1, MarcarCambia DEF Conserva
  <1>6. maestro[j] # "inicio"
    BY <1>2 DEF IInv, TrabajoOK, UnaSolicitud
  <1>7. \/ matarPorReplanificacion(j, t)
        \/ /\ j \notin asociados
           /\ tabla' = AjustarCarga(t, j) /\ Leido(j)
           /\ UNCHANGED <<asociados, conectados, copiasLibres, yama, replan, aMaster, varsMaster>>
        \/ /\ j \in asociados /\ TieneCopia(j, tabla[i])
           /\ AsignarACopia(j, t, i)
           /\ Leido(j)
           /\ replan' = [job |-> j, nodo |-> tabla[i].nodo]
           /\ UNCHANGED <<asociados, conectados, yama, varsMaster>>
        \/ Cae
    BY DEF replanificar
  <1> HIDE DEF i, t
  <1>8. CASE matarPorReplanificacion(j, t)
    BY <1>5, <1>6, <1>8, MatarSigue
  <1>9. CASE /\ j \notin asociados
             /\ tabla' = AjustarCarga(t, j) /\ Leido(j)
             /\ UNCHANGED <<asociados, conectados, copiasLibres, yama, replan, aMaster, varsMaster>>
    <2>1. Conserva(tabla, tabla') /\ Len(tabla') = Len(tabla)
      BY <1>3, <1>5, <1>9, AjustarCambia, ConservaTrans
    <2>2. \A q \in Jobs : q # j => Ajena(tabla, tabla', q)
      BY <1>5, <1>9, AjustarCambia, AjenaTrans
    <2>3. CopiasEscritas(tabla')  BY <1>3, <2>1, CopiasCrecen
    <2> QED  BY <1>2, <1>9, <2>1, <2>2, <2>3, DejadoSigue
  <1>10. CASE /\ j \in asociados /\ TieneCopia(j, tabla[i])
              /\ AsignarACopia(j, t, i)
              /\ Leido(j)
              /\ replan' = [job |-> j, nodo |-> tabla[i].nodo]
              /\ UNCHANGED <<asociados, conectados, yama, varsMaster>>
    <2> DEFINE n == Len(tabla) + 1
    <2>1. i \in EnCurso(tabla, j) /\ tabla[i].estado = "ENPROCESO" /\ tabla[i].etapa = "TRANSFORMACION"
      <3>1. i \in EnCurso(tabla, j)  BY <1>2, <1>4, <1>10, AvisoEnCurso DEF i
      <3> QED  BY <1>2, <3>1 DEF EnCurso, DeEtapa
    <2>2. Vigente(tabla, i) /\ Seguido(tabla, j, copiasLibres[j])
      BY <1>10, <2>1 DEF Vigente, IInv, TrabajoOK, Seguimiento
    <2>3. DeEtapa(tabla, j, "REDUCGLOBAL") = {}
      BY <2>1, <2>2 DEF Seguido, Barrera
    <2> HIDE DEF n
    <2>4. /\ Conserva(tabla, tabla') /\ \A q \in Jobs : q # j => Ajena(tabla, tabla', q)
          /\ CopiasEscritas(tabla')
          /\ \A q \in Jobs : q # j => copiasLibres'[q] = copiasLibres[q]
          /\ Seguido(tabla', j, copiasLibres'[j])
          /\ EnCurso(tabla', j) = (EnCurso(tabla, j) \ {i}) \cup {n}
          /\ n \notin EnCurso(tabla, j) /\ n # 0
          /\ \E m : /\ Manda(j, m) /\ {n} = {o.temp : o \in DeHilo(m.ops)}
                    /\ \A o, p \in DeHilo(m.ops) : o.temp = p.temp => o = p
                    /\ \A o \in m.ops : OpLista(tabla', j, o) /\ OpFiel(tabla', o)
          /\ \A p : Hechas(tabla', j, p) = Hechas(tabla, j, p)
          /\ \A k \in DelJob(tabla, j) : ~Vigente(tabla, k) => ~Vigente(tabla', k)
          /\ DeEtapa(tabla', j, "REDUCGLOBAL") = {}
          /\ \A k \in DelJob(tabla', j) :
               \/ tabla'[k].etapa = "TRANSFORMACION"
               \/ k \in DelJob(tabla, j) /\ MismaFila(tabla'[k], tabla[k])
      BY <1>4, <1>10, <2>1, <2>2, <2>3, CopiaSigue DEF t, n
    <2>5. HechasCrecen(tabla, tabla', j)  BY <2>4 DEF HechasCrecen
    <2>6. EnReplan'
      <3>1. ASSUME NEW k \in DelJob(tabla', j), tabla'[k].nodo = tabla[i].nodo
            PROVE  tabla'[k].etapa = "TRANSFORMACION"
        <4>1. CASE k \in DelJob(tabla, j) /\ MismaFila(tabla'[k], tabla[k])
          <5>1. tabla[i].copia # Nulo  BY <1>10, SupuestoTabla DEF TieneCopia
          <5> QED  BY <1>4, <2>1, <2>2, <3>1, <4>1, <5>1 DEF Seguido, SinVuelta, MismaFila
        <4> QED  BY <2>4, <4>1
      <3>2. replan'.job = j /\ replan'.nodo = tabla[i].nodo  BY <1>10
      <3> QED  BY <1>10, <2>4, <3>1, <3>2 DEF EnReplan
    <2>7. EnCurso(tabla, j) \cap {n} = {} /\ 0 \notin {n}  BY <2>4
    <2>8. EnCurso(tabla', j) = (EnCurso(tabla, j) \ {Head(aYama[j]).temp}) \cup {n}
      BY <2>4 DEF i
    <2> QED  BY <1>2, <1>10, <2>4, <2>5, <2>6, <2>7, <2>8, AtendidoSigue
  <1>11. CASE Cae  BY <1>11, CaeSigue
  <1> QED  BY <1>7, <1>8, <1>9, <1>10, <1>11

\* An entry that replanificarFinalizadas takes is a transformation with a true copy.
LEMMA FinalizadaTieneCopia ==
  ASSUME IInv, replan # Nulo, NEW j, j = replan.job, NEW i \in Finalizadas(replan)
  PROVE  /\ j \in asociados /\ j \in Jobs /\ i \in Mapa(tabla, j) /\ i \in 1..Len(tabla)
         /\ tabla[i].estado = "FINALIZADO" /\ tabla[i].nodo = replan.nodo /\ Vigente(tabla, i)
         /\ tabla[i].copia # Basura
         /\ tabla[i].copia # Nulo => TieneCopia(j, tabla[i])
  <1>1. i \in DelJob(tabla, j) /\ tabla[i].nodo = replan.nodo /\ tabla[i].estado = "FINALIZADO"
    BY DEF Finalizadas
  <1>2. j \in asociados /\ j \in Jobs /\ tabla[i].etapa = "TRANSFORMACION"
    BY <1>1 DEF IInv, Inv, EscalaresOK, EnReplan
  <1>3. i \in Mapa(tabla, j) /\ i \in 1..Len(tabla) /\ Vigente(tabla, i)
    BY <1>1, <1>2, DominioTabla DEF Mapa, DeEtapa, Vigente, IInv, Inv
  <1>4. tabla[i].copia # Basura  BY <1>2, <1>3 DEF IInv, CopiasEscritas
  <1>5. ConCopia(tabla, j, copiasLibres[j])
    BY <1>2 DEF IInv, TrabajoOK, Seguimiento, Seguido
  <1>6. tabla[i].copia # Nulo => TieneCopia(j, tabla[i])
    BY <1>3, <1>5 DEF ConCopia, TieneCopia
  <1> QED  BY <1>1, <1>2, <1>3, <1>4, <1>6

LEMMA ReplanificarFinalizadasSigue ==
  ASSUME IInv, Inv', NEW j \in Jobs, replanificarFinalizadas(j)
  PROVE  IInv' /\ NoRevive /\ SoloDe(j)
  <1>1. replan # Nulo /\ replan.job = j /\ yama = "viva"
    BY DEF replanificarFinalizadas
  <1>2. PICK i \in Finalizadas(replan) :
          LET t == Marcar(tabla, {i}, "ERRORYAMA")
          IN  CASE tabla[i].copia = Basura ->
                     /\ yama' = "indefinida"
                     /\ UNCHANGED <<tabla, asociados, conectados, copiasLibres,
                                    replan, aYama, aMaster, varsMaster>>
                [] tabla[i].copia = Nulo -> matarPorReplanificacion(j, t)
                [] OTHER ->
                     \/ /\ IF TieneCopia(j, tabla[i]) THEN AsignarACopia(j, t, i)
                           ELSE tabla' = t /\ UNCHANGED <<copiasLibres, aMaster>>
                        /\ UNCHANGED <<asociados, conectados, yama, replan, aYama,
                                       varsMaster>>
                     \/ ~Vivo(j) /\ Cae
    BY DEF replanificarFinalizadas
  <1>3. /\ j \in asociados /\ i \in Mapa(tabla, j) /\ i \in 1..Len(tabla)
        /\ tabla[i].estado = "FINALIZADO" /\ tabla[i].nodo = replan.nodo /\ Vigente(tabla, i)
        /\ tabla[i].copia # Basura
        /\ tabla[i].copia # Nulo => TieneCopia(j, tabla[i])
    BY <1>1, FinalizadaTieneCopia
  <1> DEFINE t == Marcar(tabla, {i}, "ERRORYAMA")
             n == Len(tabla) + 1
  <1>4. \/ matarPorReplanificacion(j, t)
        \/ /\ tabla[i].copia # Nulo /\ TieneCopia(j, tabla[i]) /\ AsignarACopia(j, t, i)
           /\ UNCHANGED <<asociados, conectados, yama, replan, aYama, varsMaster>>
        \/ Cae
    <2>1. CASE tabla[i].copia = Nulo
      <3>1. tabla[i].copia # Basura  BY <1>3
      <3>2. matarPorReplanificacion(j, t)  BY <1>2, <2>1, <3>1
      <3> QED  BY <3>2
    <2>2. CASE tabla[i].copia # Nulo
      <3> HIDE DEF t
      <3>1. \/ /\ IF TieneCopia(j, tabla[i]) THEN AsignarACopia(j, t, i)
                  ELSE tabla' = t /\ UNCHANGED <<copiasLibres, aMaster>>
               /\ UNCHANGED <<asociados, conectados, yama, replan, aYama, varsMaster>>
            \/ Cae
        BY <1>2, <1>3, <2>2 DEF t
      <3> QED  BY <1>3, <2>2, <3>1
    <2> QED  BY <2>1, <2>2
  <1>5. tabla \in Seq(Entrada) /\ TrabajoOK(j) /\ Seguimiento(j)
    BY <1>3 DEF IInv, Inv, TrabajoOK
  <1>6. maestro[j] # "inicio" /\ ~Nuevo(j)
    BY <1>3, <1>5 DEF TrabajoOK, UnaSolicitud, Nuevo
  <1>7. CASE matarPorReplanificacion(j, t)
    <2>1. /\ t \in Seq(Entrada) /\ Conserva(tabla, t) /\ Len(t) = Len(tabla)
          /\ \A q : q # j => Ajena(tabla, t, q)
      <3>1. "ERRORYAMA" \in Estados /\ {i} \subseteq DelJob(tabla, j)
        BY <1>3 DEF Estados, Mapa, DeEtapa
      <3> QED  BY <1>5, <3>1, MarcarCambia DEF Conserva
    <2> HIDE DEF t
    <2> QED  BY <1>6, <1>7, <2>1, MatarSigue
  <1>8. CASE /\ tabla[i].copia # Nulo /\ TieneCopia(j, tabla[i]) /\ AsignarACopia(j, t, i)
             /\ UNCHANGED <<asociados, conectados, yama, replan, aYama, varsMaster>>
    <2>1. /\ DeEtapa(tabla, j, "REDUCGLOBAL") = {}
          /\ \A k \in DelJob(tabla, j) :
               tabla[k].nodo = replan.nodo => tabla[k].etapa = "TRANSFORMACION"
      BY <1>1 DEF IInv, EnReplan
    <2> HIDE DEF n, t
    <2>2. /\ Conserva(tabla, tabla') /\ \A q \in Jobs : q # j => Ajena(tabla, tabla', q)
          /\ CopiasEscritas(tabla')
          /\ \A q \in Jobs : q # j => copiasLibres'[q] = copiasLibres[q]
          /\ Seguido(tabla', j, copiasLibres'[j])
          /\ EnCurso(tabla', j) = (EnCurso(tabla, j) \ {i}) \cup {n}
          /\ n \notin EnCurso(tabla, j) /\ n # 0
          /\ \E m : /\ Manda(j, m) /\ {n} = {o.temp : o \in DeHilo(m.ops)}
                    /\ \A o, p \in DeHilo(m.ops) : o.temp = p.temp => o = p
                    /\ \A o \in m.ops : OpLista(tabla', j, o) /\ OpFiel(tabla', o)
          /\ \A p : p # tabla[i].nodo => Hechas(tabla', j, p) = Hechas(tabla, j, p)
          /\ \A k \in DelJob(tabla, j) : ~Vigente(tabla, k) => ~Vigente(tabla', k)
          /\ DeEtapa(tabla', j, "REDUCGLOBAL") = {}
          /\ \A k \in DelJob(tabla', j) :
               \/ tabla'[k].etapa = "TRANSFORMACION"
               \/ k \in DelJob(tabla, j) /\ MismaFila(tabla'[k], tabla[k])
      <3>1. /\ i \in Mapa(tabla, j) /\ Vigente(tabla, i) /\ DeEtapa(tabla, j, "REDUCGLOBAL") = {}
            /\ TieneCopia(j, tabla[i]) /\ AsignarACopia(j, t, i) /\ j \in asociados
        BY <1>3, <1>8, <2>1
      <3>2. t = Marcar(tabla, {i}, "ERRORYAMA") /\ n = Len(tabla) + 1  BY DEF t, n
      <3> QED  BY <3>1, <3>2, CopiaSigue
    <2>3. HechasCrecen(tabla, tabla', j)
      <3>1. ASSUME NEW k \in DeEtapa(tabla, j, "REDUCCIONLOCAL") PROVE tabla[k].nodo # tabla[i].nodo
        BY <1>3, <2>1 DEF DeEtapa
      <3> QED  BY <2>2, <3>1 DEF HechasCrecen
    <2>4. EnReplan'
      <3>1. ASSUME NEW k \in DelJob(tabla', j), tabla'[k].nodo = replan.nodo
            PROVE  tabla'[k].etapa = "TRANSFORMACION"
        BY <2>1, <2>2, <3>1 DEF MismaFila
      <3> QED  BY <1>1, <1>3, <1>8, <2>2, <3>1 DEF EnReplan
    <2>5. EnCurso(tabla, j) \cap {n} = {} /\ 0 \notin {n} /\ EnCurso(tabla', j) = EnCurso(tabla, j) \cup {n}
      <3>1. i \notin EnCurso(tabla, j)  BY <1>3 DEF EnCurso
      <3> QED  BY <2>2, <3>1
    <2>6. \E m : /\ Manda(j, m) /\ {n} = {o.temp : o \in DeHilo(m.ops)}
                 /\ \A o, p \in DeHilo(m.ops) : o.temp = p.temp => o = p
                 /\ \A o \in m.ops : OpLista(tabla', j, o)
      BY <2>2
    <2>7. \E m : Manda(j, m) /\ \A o \in m.ops : OpFiel(tabla', o)
      BY <2>2
    <2>8. Seguimiento(j)'
      <3>1. /\ Inv /\ UNCHANGED <<varsMaster, yama>> /\ j \in conectados'
            /\ Reparto(aMaster[j], hilos[j], aYama'[j], EnCurso(tabla, j))
            /\ Vivo(j) /\ yama = "viva" => Completo(aMaster[j], hilos[j], aYama'[j], EnCurso(tabla, j))
            /\ \A o \in OpsDe(aMaster[j], hilos[j]) : OpLista(tabla, j, o)
            /\ ArchivoL(tabla, j, archivos)
        BY <1>5, <1>8 DEF IInv, Seguimiento
      <3> QED  BY <2>2, <2>3, <2>5, <2>6, <3>1, SeguimientoSigue
    <2>9. \A q \in Jobs : q # j => /\ q \in asociados' <=> q \in asociados
                                   /\ q \in conectados' <=> q \in conectados
      BY <1>8
    <2> QED  BY <1>6, <1>8, <2>2, <2>4, <2>7, <2>8, <2>9, PasoDeYamaSigue
  <1>9. CASE Cae  BY <1>9, CaeSigue
  <1> QED  BY <1>4, <1>7, <1>8, <1>9

LEMMA TerminarSigue ==
  ASSUME IInv, Inv', NEW j \in Jobs, TerminarReplanificacion(j)
  PROVE  IInv' /\ NoRevive /\ SoloDe(j)
  <1>1. /\ replan' = Nulo /\ replan # Nulo /\ replan.job = j
        /\ UNCHANGED <<tabla, asociados, conectados, copiasLibres, yama, aYama, aMaster, varsMaster>>
    BY DEF TerminarReplanificacion
  <1>2. ASSUME NEW q \in Jobs PROVE TrabajoOK(q)'
    <2>1. TrabajoOK(q)  BY DEF IInv
    <2> QED  BY <1>1, <2>1 DEF TrabajoOK, UnaSolicitud, SinNombre, Nuevo, Fieles, Seguimiento,
                               varsMaster, Vivo
  <1>3. SinPunteroBasura' /\ CopiasEscritas(tabla') /\ ArchivoT(tabla', archivos') /\ EnReplan'
    BY <1>1 DEF IInv, SinPunteroBasura, EnReplan, varsMaster
  <1>4. SoloDe(j)  BY <1>1, Igual DEF SoloDe, IInv, Inv, varsMaster
  <1> QED  BY <1>1, <1>2, <1>3, <1>4 DEF IInv, NoRevive

\* Tables s and t differ only in the state of entries of job j.
Difieren(s, t, j) ==
  /\ Conserva(s, t) /\ Len(t) = Len(s)
  /\ \A q \in Jobs : q # j => Ajena(s, t, q)

LEMMA DifierenTrasDejar ==
  ASSUME NEW s \in Seq(Entrada), NEW t, NEW j \in Jobs, Difieren(s, t, j), NEW A
  PROVE  Difieren(s, Desasociar(t, j, A), j)
  <1>1. PICK u : u = Desasociar(t, j, A)  OBVIOUS
  <1>2. t \in Seq(Entrada)  BY DEF Difieren, Conserva
  <1>3. Conserva(t, u) /\ Len(u) = Len(t) /\ \A q : q # j => Ajena(t, u, q)
    BY <1>1, <1>2, AjustarCambia
  <1>4. Conserva(s, u)  BY <1>3, ConservaTrans DEF Difieren
  <1>5. \A q \in Jobs : q # j => Ajena(s, u, q)
    BY <1>3, AjenaTrans DEF Difieren
  <1> QED  BY <1>1, <1>3, <1>4, <1>5 DEF Difieren

\* An entry of a later stage of the job, added to such a table.
AgregaEtapa(s, t, u, j, e, n) ==
  /\ s \in Seq(Entrada) /\ CopiasEscritas(s) /\ Difieren(s, t, j)
  /\ e \in {"REDUCCIONLOCAL", "REDUCGLOBAL", "ALMACENAMIENTOOP"}
  /\ u = Append(t, NuevaEtapa(j, e, n))

LEMMA EtapaAgregada ==
  ASSUME NEW j \in Jobs, NEW n \in Nodos, NEW s, NEW t, NEW u, NEW e, AgregaEtapa(s, t, u, j, e, n)
  PROVE  /\ Conserva(s, u) /\ \A q \in Jobs : q # j => Ajena(s, u, q)
         /\ CopiasEscritas(u) /\ Suma(t, u, j, Len(s) + 1, NuevaEtapa(j, e, n))
         /\ Len(s) \in Nat /\ DelJob(s, j) \subseteq 1..Len(s)
  <1> DEFINE x == NuevaEtapa(j, e, n)
  <1> USE DEF Difieren, AgregaEtapa
  <1>1. t \in Seq(Entrada) /\ Len(s) \in Nat /\ DelJob(s, j) \subseteq 1..Len(s)
    BY DominioTabla DEF Conserva
  <1>2. x \in Entrada /\ x.job = j /\ x.etapa = e /\ x.copia = Basura
    BY DEF NuevaEtapa, Nueva, Entrada, Etapas, Estados
  <1>3. u = Append(t, x)  OBVIOUS
  <1> HIDE DEF x
  <1>4. Conserva(t, u) /\ Suma(t, u, j, Len(s) + 1, x) /\ \A q : q # j => Ajena(t, u, q)
    BY <1>1, <1>2, <1>3, AgregarSuma
  <1>5. Conserva(s, u) /\ \A q \in Jobs : q # j => Ajena(s, u, q)
    BY <1>1, <1>4, ConservaTrans, AjenaTrans
  <1>6. CopiasEscritas(u)
    <2>1. CopiasEscritas(t)  BY CopiasCrecen
    <2> QED  BY <1>1, <1>2, <1>3, <2>1, CopiasCrecen
  <1> QED  BY <1>1, <1>4, <1>5, <1>6 DEF x

\* A handler that adds an entry of a later stage to a job YAMA does not follow any more.
LEMMA EtapaDejada ==
  ASSUME IInv, Inv', NEW j \in Jobs, aYama[j] # <<>>, replan = Nulo,
         UNCHANGED <<copiasLibres, varsMaster>>,
         NEW t, Difieren(tabla, t, j),
         NEW e \in {"REDUCCIONLOCAL", "REDUCGLOBAL"}, NEW n \in Nodos, NEW I, NEW tipo,
         \/ /\ j \notin asociados
            /\ tabla' = Append(t, NuevaEtapa(j, e, n))
            /\ Responde(j, Orden(tipo, {Op(e, Len(t) + 1, 0, I)}))
            /\ UNCHANGED asociados
         \/ /\ tabla' = Append(Desasociar(t, j, asociados), NuevaEtapa(j, e, n))
            /\ EnvioRoto(j)
            /\ asociados' = asociados \ {j}
  PROVE  IInv' /\ NoRevive /\ SoloDe(j)
  <1>1. tabla \in Seq(Entrada) /\ CopiasEscritas(tabla)  BY DEF IInv, Inv
  <1>2. CASE /\ j \notin asociados
             /\ tabla' = Append(t, NuevaEtapa(j, e, n))
             /\ Responde(j, Orden(tipo, {Op(e, Len(t) + 1, 0, I)}))
             /\ UNCHANGED asociados
    <2>1. /\ Conserva(tabla, tabla') /\ \A q \in Jobs : q # j => Ajena(tabla, tabla', q)
          /\ CopiasEscritas(tabla')
      <3>1. AgregaEtapa(tabla, t, tabla', j, e, n)  BY <1>1, <1>2 DEF AgregaEtapa
      <3> QED  BY <3>1, EtapaAgregada
    <2>2. \E m : Responde(j, m) /\ \A o \in m.ops : OpFiel(tabla', o)
      <3>1. Op(e, Len(t) + 1, 0, I).etapa # "TRANSFORMACION"  BY DEF Op
      <3>2. \A o \in Orden(tipo, {Op(e, Len(t) + 1, 0, I)}).ops : OpFiel(tabla', o)
        BY <3>1 DEF Orden, OpFiel
      <3> QED  BY <1>2, <3>2
    <2> QED  BY <1>2, <2>1, <2>2, DejadoSigue
  <1>3. CASE /\ tabla' = Append(Desasociar(t, j, asociados), NuevaEtapa(j, e, n))
             /\ EnvioRoto(j)
             /\ asociados' = asociados \ {j}
    <2>1. PICK u : u = Desasociar(t, j, asociados)  OBVIOUS
    <2>2. Difieren(tabla, u, j)  BY <1>1, <2>1, DifierenTrasDejar
    <2>3. /\ Conserva(tabla, tabla') /\ \A q \in Jobs : q # j => Ajena(tabla, tabla', q)
          /\ CopiasEscritas(tabla')
      <3>1. AgregaEtapa(tabla, u, tabla', j, e, n)  BY <1>1, <1>3, <2>1, <2>2 DEF AgregaEtapa
      <3> QED  BY <3>1, EtapaAgregada
    <2> QED  BY <1>3, <2>3, DejadoSigue
  <1> QED  BY <1>2, <1>3

LEMMA TransformacionOKSigue ==
  ASSUME IInv, Inv', NEW j \in Jobs, transformacionOK(j)
  PROVE  IInv' /\ NoRevive /\ SoloDe(j)
  <1> DEFINE i == Head(aYama[j]).temp
             n == tabla[i].nodo
             t == Marcar(tabla, {i}, "FINALIZADO")
             G == Grupo(t, j, n)
             nueva == NuevaEtapa(j, "REDUCCIONLOCAL", n)
             m == Len(tabla) + 1
             o == Op("REDUCCIONLOCAL", Len(t) + 1, 0, G)
  <1>1. AvisoOK("TRANSFORMACION") = "TRANSFORMACIONOK" /\ "TRANSFORMACION" \in EtapasDeHilo
    BY DEF AvisoOK, EtapasDeHilo
  <1>2. /\ aYama[j] # <<>> /\ replan = Nulo /\ UNCHANGED <<copiasLibres, varsMaster>>
        /\ i \in DeEtapa(tabla, j, "TRANSFORMACION") /\ i \in 1..Len(tabla) /\ tabla[i] \in Entrada
    <2>1. Llega(j, "TRANSFORMACIONOK") /\ UNCHANGED <<copiasLibres, varsMaster>>
      BY DEF transformacionOK
    <2> QED  BY <1>1, <2>1, AvisoDeHilo DEF IInv, Llega
  <1>3. tabla \in Seq(Entrada) /\ CopiasEscritas(tabla)  BY DEF IInv, Inv
  <1>4. /\ i \in DelJob(tabla, j) /\ i # 0 /\ tabla[i].etapa = "TRANSFORMACION" /\ n \in Nodos
    BY <1>2 DEF DeEtapa, Entrada
  <1>5. /\ Conserva(tabla, t) /\ Len(t) = Len(tabla) /\ Cambia(tabla, t, j, {i}, "FINALIZADO")
        /\ \A q \in Jobs : q # j => Ajena(tabla, t, q)
        /\ Difieren(tabla, t, j)
    <2>1. "FINALIZADO" \in Estados /\ {i} \subseteq DelJob(tabla, j)  BY <1>4 DEF Estados
    <2> QED  BY <1>3, <2>1, MarcarCambia DEF Difieren
  <1>6. \/ /\ \A k \in G : t[k].estado = "FINALIZADO"
           /\ \/ /\ tabla' = Append(t, nueva)
                 /\ Responde(j, Orden("SOLICITUDREDUCCIONLOCAL", {o}))
                 /\ UNCHANGED asociados
              \/ /\ tabla' = Append(Desasociar(t, j, asociados), nueva)
                 /\ EnvioRoto(j)
                 /\ asociados' = asociados \ {j}
        \/ tabla' = t /\ Leido(j) /\ UNCHANGED <<asociados, conectados, yama, replan, aMaster>>
    BY DEF transformacionOK
  <1> HIDE DEF i, t, n
  <1>7. CASE j \notin asociados
    <2>1. CASE tabla' = t /\ Leido(j) /\ UNCHANGED <<asociados, conectados, yama, replan, aMaster>>
      <3>1. CopiasEscritas(tabla')  BY <1>3, <1>5, <2>1, CopiasCrecen
      <3> QED  BY <1>2, <1>5, <1>7, <2>1, <3>1, DejadoSigue
    <2>2. CASE \/ /\ tabla' = Append(t, nueva)
                  /\ Responde(j, Orden("SOLICITUDREDUCCIONLOCAL", {o}))
                  /\ UNCHANGED asociados
               \/ /\ tabla' = Append(Desasociar(t, j, asociados), nueva)
                  /\ EnvioRoto(j)
                  /\ asociados' = asociados \ {j}
      BY <1>2, <1>4, <1>5, <1>7, <2>2, EtapaDejada
    <2> QED  BY <1>6, <2>1, <2>2
  <1>8. ASSUME j \in asociados
        PROVE  /\ i \in EnCurso(tabla, j) /\ Seguido(tabla, j, copiasLibres[j])
               /\ Seguido(t, j, copiasLibres[j]) /\ EnCurso(t, j) = EnCurso(tabla, j) \ {i}
               /\ DeEtapa(t, j, "REDUCGLOBAL") = {}
               /\ \A p : Hechas(tabla, j, p) \subseteq Hechas(t, j, p)
               /\ \A k \in DelJob(tabla, j) : ~Vigente(tabla, k) => ~Vigente(t, k)
    <2>1. i \in EnCurso(tabla, j)  BY <1>2, <1>4, <1>8, AvisoEnCurso DEF i
    <2>2. Seguido(tabla, j, copiasLibres[j])  BY <1>8 DEF IInv, TrabajoOK, Seguimiento
    <2>3. Vigente(tabla, i)  BY <2>1 DEF EnCurso, Vigente
    <2>4. \A k \in DelJob(tabla, j) : ~Vigente(tabla, k) => ~Vigente(t, k)
      BY <1>5, <2>3 DEF Cambia, Vigente
    <2>5. PICK u : u = t  OBVIOUS
    <2>6. Cambia(tabla, u, j, {i}, "FINALIZADO")  BY <1>5, <2>5
    <2>7. /\ Seguido(u, j, copiasLibres[j]) /\ EnCurso(u, j) = EnCurso(tabla, j) \ {i}
          /\ DeEtapa(u, j, "REDUCGLOBAL") = {}
          /\ \A p : Hechas(tabla, j, p) \subseteq Hechas(u, j, p)
      BY <1>4, <2>1, <2>2, <2>6, SeguidoTermina
    <2> QED  BY <2>1, <2>2, <2>4, <2>5, <2>7
  <1>9. CASE j \in asociados /\ tabla' = t /\ Leido(j)
             /\ UNCHANGED <<asociados, conectados, yama, replan, aMaster>>
    <2>1. CopiasEscritas(tabla')  BY <1>3, <1>5, <1>9, CopiasCrecen
    <2>2. EnReplan'  BY <1>2, <1>9 DEF EnReplan
    <2>3. HechasCrecen(tabla, tabla', j)  BY <1>8, <1>9 DEF HechasCrecen
    <2>4. /\ EnCurso(tabla, j) \cap {} = {} /\ 0 \notin {} /\ Seguido(tabla', j, copiasLibres'[j])
          /\ EnCurso(tabla', j) = (EnCurso(tabla, j) \ {Head(aYama[j]).temp}) \cup {}
      BY <1>2, <1>8, <1>9 DEF i
    <2> QED  BY <1>2, <1>5, <1>8, <1>9, <2>1, <2>2, <2>3, <2>4, AtendidoSigue
  <1>10. CASE /\ j \in asociados /\ \A k \in G : t[k].estado = "FINALIZADO"
              /\ tabla' = Append(t, nueva)
              /\ Responde(j, Orden("SOLICITUDREDUCCIONLOCAL", {o}))
              /\ UNCHANGED asociados
    <2>1. /\ Conserva(tabla, tabla') /\ \A q \in Jobs : q # j => Ajena(tabla, tabla', q)
          /\ CopiasEscritas(tabla') /\ Suma(t, tabla', j, m, nueva)
          /\ Len(tabla) \in Nat /\ DelJob(tabla, j) \subseteq 1..Len(tabla)
      <3>1. AgregaEtapa(tabla, t, tabla', j, "REDUCCIONLOCAL", n)
        BY <1>3, <1>4, <1>5, <1>10 DEF AgregaEtapa
      <3> QED  BY <1>4, <1>5, <3>1, EtapaAgregada
    <2>2. /\ Seguido(tabla', j, copiasLibres[j]) /\ EnCurso(tabla', j) = EnCurso(t, j) \cup {m}
          /\ \A p : Hechas(tabla', j, p) = Hechas(t, j, p)
      BY <1>8, <1>10, <2>1, SeguidoReduce
    <2>3. /\ m # 0 /\ m \notin DelJob(tabla, j) /\ EnCurso(tabla, j) \cap {m} = {}
          /\ tabla'[m] = nueva /\ nueva.nodo = n
      BY <2>1 DEF Suma, EnCurso, NuevaEtapa, Nueva
    <2>4. HechasCrecen(tabla, tabla', j)  BY <1>8, <1>10, <2>2 DEF HechasCrecen
    <2>5. \A k \in DelJob(tabla, j) : ~Vigente(tabla, k) => ~Vigente(tabla', k)
      BY <1>5, <1>8, <1>10, <2>1 DEF Suma, Vigente, Cambia
    <2>6. o.etapa = "REDUCCIONLOCAL" /\ o.temp = m /\ o.entradas = G
      BY <1>5 DEF Op
    <2> HIDE DEF o, m, nueva
    <2>7. OpLista(tabla', j, o) /\ OpFiel(tabla', o)
      <3>1. G = Hechas(t, j, n)  BY <1>10 DEF Hechas
      <3> QED  BY <2>2, <2>3, <2>6, <3>1 DEF OpLista, OpFiel
    <2>8. \E x : /\ Manda(j, x) /\ {m} = {p.temp : p \in DeHilo(x.ops)}
                 /\ \A p, q \in DeHilo(x.ops) : p.temp = q.temp => p = q
                 /\ \A p \in x.ops : OpLista(tabla', j, p) /\ OpFiel(tabla', p)
      <3>1. o.etapa \in EtapasDeHilo  BY <2>6 DEF EtapasDeHilo
      <3>2. LET x == Orden("SOLICITUDREDUCCIONLOCAL", {o})
            IN  /\ x.ops = {o} /\ \A p, q \in DeHilo(x.ops) : p.temp = q.temp => p = q
                /\ {p.temp : p \in DeHilo(x.ops)} = {m}
        BY <2>6, <3>1, UnaOperacion
      <3> QED  BY <1>10, <2>7, <3>2 DEF Responde
    <2>9. EnReplan' /\ Leido(j) /\ UNCHANGED <<conectados, yama>>
      BY <1>2, <1>10 DEF EnReplan, Responde
    <2>10. EnCurso(tabla', j) = (EnCurso(tabla, j) \ {Head(aYama[j]).temp}) \cup {m} /\ 0 \notin {m}
      BY <1>8, <1>10, <2>2, <2>3 DEF i
    <2>11. Seguido(tabla', j, copiasLibres'[j])  BY <1>2, <2>2
    <2> QED  BY <1>2, <1>10, <2>1, <2>3, <2>4, <2>5, <2>8, <2>9, <2>10, <2>11, AtendidoSigue
  <1>11. CASE /\ tabla' = Append(Desasociar(t, j, asociados), nueva)
              /\ EnvioRoto(j)
              /\ asociados' = asociados \ {j}
    BY <1>2, <1>4, <1>5, <1>11, EtapaDejada
  <1> QED  BY <1>6, <1>7, <1>9, <1>10, <1>11

LEMMA ReduccionLocalOKSigue ==
  ASSUME IInv, Inv', NEW j \in Jobs, reduccionLocalOK(j)
  PROVE  IInv' /\ NoRevive /\ SoloDe(j)
  <1> DEFINE i == Head(aYama[j]).temp
             u == Marcar(tabla, {i}, "FINALIZADO")
             t == Marcar(u, Canceladas(u, i), "ERRORYAMA")
             R == ReduccionesListas(t, j)
             m == Len(tabla) + 1
  <1>1. AvisoOK("REDUCCIONLOCAL") = "REDLOCALOK" /\ "REDUCCIONLOCAL" \in EtapasDeHilo
    BY DEF AvisoOK, EtapasDeHilo
  <1>2. /\ aYama[j] # <<>> /\ replan = Nulo /\ UNCHANGED <<copiasLibres, varsMaster>>
        /\ i \in DeEtapa(tabla, j, "REDUCCIONLOCAL") /\ i \in 1..Len(tabla) /\ tabla[i] \in Entrada
    <2>1. Llega(j, "REDLOCALOK") /\ UNCHANGED <<copiasLibres, varsMaster>>
      BY DEF reduccionLocalOK
    <2> QED  BY <1>1, <2>1, AvisoDeHilo DEF IInv, Llega
  <1>3. tabla \in Seq(Entrada) /\ CopiasEscritas(tabla)  BY DEF IInv, Inv
  <1>4. /\ i \in DelJob(tabla, j) /\ i # 0 /\ tabla[i].etapa = "REDUCCIONLOCAL" /\ tabla[i].job = j
    BY <1>2 DEF DeEtapa, DelJob
  <1>5. \/ /\ TodoReducido(t, j)
           /\ \E k \in R :
                \/ /\ tabla' = Append(t, NuevaEtapa(j, "REDUCGLOBAL", t[k].nodo))
                   /\ Responde(j, Orden("SOLICITUDREDUCCIONGLOBAL",
                                        {Op("REDUCGLOBAL", Len(t) + 1, 0, R)}))
                   /\ UNCHANGED asociados
                \/ /\ tabla' = Append(Desasociar(t, j, asociados),
                                      NuevaEtapa(j, "REDUCGLOBAL", t[k].nodo))
                   /\ EnvioRoto(j)
                   /\ asociados' = asociados \ {j}
        \/ tabla' = t /\ Leido(j) /\ UNCHANGED <<asociados, conectados, yama, replan, aMaster>>
    BY DEF reduccionLocalOK
  <1> HIDE DEF i
  <1>6. /\ Conserva(tabla, u) /\ Len(u) = Len(tabla) /\ Cambia(tabla, u, j, {i}, "FINALIZADO")
        /\ \A q : q # j => Ajena(tabla, u, q)
    <2>1. "FINALIZADO" \in Estados /\ {i} \subseteq DelJob(tabla, j)  BY <1>4 DEF Estados
    <2> QED  BY <1>3, <2>1, MarcarCambia
  <1> HIDE DEF u
  <1>7. u \in Seq(Entrada) /\ DelJob(u, j) = DelJob(tabla, j) /\ u[i].job = j
    BY <1>4, <1>6 DEF Conserva, Cambia, MismaFila
  <1>8. /\ Conserva(u, t) /\ Len(t) = Len(u) /\ Cambia(u, t, j, Canceladas(u, i), "ERRORYAMA")
        /\ \A q : q # j => Ajena(u, t, q)
    <2>1. "ERRORYAMA" \in Estados  BY DEF Estados
    <2>2. Canceladas(u, i) \subseteq DelJob(u, j)
      BY <1>7 DEF Canceladas, ReduccionesListas, DeEtapa
    <2> QED  BY <1>7, <2>1, <2>2, MarcarCambia
  <1> HIDE DEF t
  <1>9. /\ Conserva(tabla, t) /\ Len(t) = Len(tabla)
        /\ \A q \in Jobs : q # j => Ajena(tabla, t, q)
    BY <1>3, <1>6, <1>8, ConservaTrans, AjenaTrans
  <1>10. Difieren(tabla, t, j)  BY <1>9 DEF Difieren
  <1>11. \A k \in R : t[k].nodo \in Nodos
    <2>1. t \in Seq(Entrada)  BY <1>9 DEF Conserva
    <2>2. \A k \in R : k \in 1..Len(t)
      BY <2>1, DominioTabla DEF ReduccionesListas, DeEtapa
    <2> QED  BY <2>1, <2>2, DominioTabla DEF Entrada
  <1>12. CASE j \notin asociados
    <2>1. CASE tabla' = t /\ Leido(j) /\ UNCHANGED <<asociados, conectados, yama, replan, aMaster>>
      <3>1. CopiasEscritas(tabla')  BY <1>3, <1>9, <2>1, CopiasCrecen
      <3> QED  BY <1>2, <1>9, <1>12, <2>1, <3>1, DejadoSigue
    <2>2. ASSUME NEW k \in R,
                 \/ /\ tabla' = Append(t, NuevaEtapa(j, "REDUCGLOBAL", t[k].nodo))
                    /\ Responde(j, Orden("SOLICITUDREDUCCIONGLOBAL",
                                         {Op("REDUCGLOBAL", Len(t) + 1, 0, R)}))
                    /\ UNCHANGED asociados
                 \/ /\ tabla' = Append(Desasociar(t, j, asociados),
                                       NuevaEtapa(j, "REDUCGLOBAL", t[k].nodo))
                    /\ EnvioRoto(j)
                    /\ asociados' = asociados \ {j}
          PROVE  IInv' /\ NoRevive /\ SoloDe(j)
      <3>1. PICK n \in Nodos : n = t[k].nodo  BY <1>11
      <3> QED  BY <1>2, <1>10, <1>12, <2>2, <3>1, EtapaDejada
    <2> QED  BY <1>5, <2>1, <2>2
  <1>13. ASSUME j \in asociados
         PROVE  /\ i \in EnCurso(tabla, j)
                /\ Seguido(t, j, copiasLibres[j]) /\ EnCurso(t, j) = EnCurso(tabla, j) \ {i}
                /\ DeEtapa(t, j, "REDUCGLOBAL") = {}
                /\ \A p : Hechas(t, j, p) = Hechas(tabla, j, p)
                /\ \A k \in DelJob(tabla, j) : ~Vigente(tabla, k) => ~Vigente(t, k)
    <2>1. i \in EnCurso(tabla, j)  BY <1>2, <1>4, <1>13, AvisoEnCurso DEF i
    <2>2. Seguido(tabla, j, copiasLibres[j])  BY <1>13 DEF IInv, TrabajoOK, Seguimiento
    <2>3. Vigente(tabla, i)  BY <2>1 DEF EnCurso, Vigente
    <2>4. \A k \in DelJob(tabla, j) : ~Vigente(tabla, k) => ~Vigente(t, k)
      BY <1>6, <1>8, <2>3 DEF Cambia, Vigente
    <2>5. PICK s, C : s = tabla /\ C = copiasLibres[j]  OBVIOUS
    <2>6. /\ Seguido(s, j, C) /\ i \in EnCurso(s, j) /\ s[i].etapa = "REDUCCIONLOCAL" /\ s[i].job = j
          /\ Cambia(s, u, j, {i}, "FINALIZADO") /\ Cambia(u, t, j, Canceladas(u, i), "ERRORYAMA")
      BY <1>4, <1>6, <1>8, <2>1, <2>2, <2>5
    <2>7. /\ Seguido(t, j, C) /\ EnCurso(t, j) = EnCurso(s, j) \ {i}
          /\ DeEtapa(t, j, "REDUCGLOBAL") = {} /\ \A p : Hechas(t, j, p) = Hechas(s, j, p)
      BY <2>6, SeguidoReducida
    <2> QED  BY <2>1, <2>4, <2>5, <2>7
  <1>14. CASE j \in asociados /\ tabla' = t /\ Leido(j)
              /\ UNCHANGED <<asociados, conectados, yama, replan, aMaster>>
    <2>1. CopiasEscritas(tabla')  BY <1>3, <1>9, <1>14, CopiasCrecen
    <2>2. EnReplan'  BY <1>2, <1>14 DEF EnReplan
    <2>3. HechasCrecen(tabla, tabla', j)  BY <1>13, <1>14 DEF HechasCrecen
    <2>4. /\ EnCurso(tabla, j) \cap {} = {} /\ 0 \notin {} /\ Seguido(tabla', j, copiasLibres'[j])
          /\ EnCurso(tabla', j) = (EnCurso(tabla, j) \ {Head(aYama[j]).temp}) \cup {}
      BY <1>2, <1>13, <1>14 DEF i
    <2> QED  BY <1>2, <1>9, <1>13, <1>14, <2>1, <2>2, <2>3, <2>4, AtendidoSigue
  <1>15. ASSUME j \in asociados, TodoReducido(t, j), NEW k \in R,
                tabla' = Append(t, NuevaEtapa(j, "REDUCGLOBAL", t[k].nodo)),
                Responde(j, Orden("SOLICITUDREDUCCIONGLOBAL",
                                  {Op("REDUCGLOBAL", Len(t) + 1, 0, R)})),
                UNCHANGED asociados
         PROVE  IInv' /\ NoRevive /\ SoloDe(j)
    <2> DEFINE o == Op("REDUCGLOBAL", Len(t) + 1, 0, R)
    <2>1. PICK n \in Nodos : n = t[k].nodo  BY <1>11
    <2>2. tabla' = Append(t, NuevaEtapa(j, "REDUCGLOBAL", n))  BY <1>15, <2>1
    <2>3. /\ Conserva(tabla, tabla') /\ \A q \in Jobs : q # j => Ajena(tabla, tabla', q)
          /\ CopiasEscritas(tabla') /\ Suma(t, tabla', j, m, NuevaEtapa(j, "REDUCGLOBAL", n))
          /\ Len(tabla) \in Nat /\ DelJob(tabla, j) \subseteq 1..Len(tabla)
      <3>1. AgregaEtapa(tabla, t, tabla', j, "REDUCGLOBAL", n)
        BY <1>3, <1>10, <2>2 DEF AgregaEtapa
      <3> QED  BY <3>1, EtapaAgregada DEF m
    <2>4. EnCurso(t, j) = {}
      BY <1>15 DEF EnCurso, TodoReducido
    <2> HIDE DEF m
    <2>5. /\ Seguido(tabla', j, copiasLibres[j]) /\ EnCurso(tabla', j) = {}
          /\ \A p : Hechas(tabla', j, p) = Hechas(t, j, p)
      <3>1. AgregaUltima(t, tabla', j, copiasLibres[j], m, "REDUCGLOBAL", n)
        BY <1>13, <1>15, <2>3, <2>4 DEF AgregaUltima
      <3> QED  BY <3>1, SeguidoUltimas
    <2>6. HechasCrecen(tabla, tabla', j)  BY <1>13, <1>15, <2>5 DEF HechasCrecen
    <2>7. \A l \in DelJob(tabla, j) : ~Vigente(tabla, l) => ~Vigente(tabla', l)
      <3>1. DelJob(t, j) = DelJob(tabla, j)  BY <1>7, <1>8 DEF Cambia
      <3> QED  BY <1>13, <1>15, <2>3, <3>1 DEF Suma, Vigente
    <2>8. o.etapa = "REDUCGLOBAL"  BY DEF Op
    <2> HIDE DEF o
    <2>9. \E x : /\ Manda(j, x) /\ {} = {p.temp : p \in DeHilo(x.ops)}
                 /\ \A p, q \in DeHilo(x.ops) : p.temp = q.temp => p = q
                 /\ \A p \in x.ops : OpLista(tabla', j, p) /\ OpFiel(tabla', p)
      <3>1. o.etapa \notin EtapasDeHilo /\ OpLista(tabla', j, o) /\ OpFiel(tabla', o)
        BY <2>8 DEF EtapasDeHilo, OpLista, OpFiel
      <3>2. PICK x : x = Orden("SOLICITUDREDUCCIONGLOBAL", {o})  OBVIOUS
      <3>3. /\ x.ops = {o} /\ \A p, q \in DeHilo(x.ops) : p.temp = q.temp => p = q
            /\ {p.temp : p \in DeHilo(x.ops)} = {}
        BY <3>1, <3>2, UnaOperacion
      <3>4. Manda(j, x)  BY <3>2, <1>15 DEF Responde, o
      <3> QED  BY <3>1, <3>3, <3>4
    <2>10. EnReplan' /\ Leido(j) /\ UNCHANGED <<conectados, yama>>
      BY <1>2, <1>15 DEF EnReplan, Responde
    <2>11. /\ EnCurso(tabla', j) = (EnCurso(tabla, j) \ {Head(aYama[j]).temp}) \cup {}
           /\ EnCurso(tabla, j) \cap {} = {} /\ 0 \notin {}
      BY <1>13, <1>15, <2>4, <2>5 DEF i
    <2>12. Seguido(tabla', j, copiasLibres'[j])  BY <1>2, <2>5
    <2> QED  BY <1>2, <1>15, <2>3, <2>6, <2>7, <2>9, <2>10, <2>11, <2>12, AtendidoSigue
  <1>16. ASSUME NEW k \in R,
                tabla' = Append(Desasociar(t, j, asociados), NuevaEtapa(j, "REDUCGLOBAL", t[k].nodo)),
                EnvioRoto(j), asociados' = asociados \ {j}
         PROVE  IInv' /\ NoRevive /\ SoloDe(j)
    <2>1. PICK n \in Nodos : n = t[k].nodo  BY <1>11
    <2> QED  BY <1>2, <1>10, <1>16, <2>1, EtapaDejada
  <1> QED  BY <1>5, <1>12, <1>14, <1>15, <1>16

\* The failure of a reduction: the entries I are cancelled and the job is let go.
LEMMA FallaSigue ==
  ASSUME IInv, Inv', NEW j \in Jobs, aYama[j] # <<>>, replan = Nulo,
         UNCHANGED <<copiasLibres, varsMaster>>, asociados' = asociados \ {j},
         NEW u, Difieren(tabla, u, j), tabla' = u,
         \/ \E tipo : Responde(j, Orden(tipo, {}))
         \/ EnvioRoto(j)
         \/ Leido(j) /\ UNCHANGED <<conectados, yama, replan, aMaster>>
  PROVE  IInv' /\ NoRevive /\ SoloDe(j)
  <1>1. tabla \in Seq(Entrada) /\ CopiasEscritas(tabla)  BY DEF IInv, Inv
  <1>2. /\ Conserva(tabla, tabla') /\ Len(tabla') = Len(tabla)
        /\ \A q \in Jobs : q # j => Ajena(tabla, tabla', q)
    BY DEF Difieren
  <1>3. CopiasEscritas(tabla')  BY <1>1, <1>2, CopiasCrecen
  <1>4. (\E tipo : Responde(j, Orden(tipo, {}))) =>
          \E m : Responde(j, m) /\ \A o \in m.ops : OpFiel(tabla', o)
    BY DEF Orden
  <1> QED  BY <1>2, <1>3, <1>4, DejadoSigue

LEMMA MarcadasDifieren ==
  ASSUME NEW s \in Seq(Entrada), NEW j \in Jobs, NEW I \in SUBSET DelJob(s, j), NEW x \in Estados
  PROVE  /\ Difieren(s, Marcar(s, I, x), j)
         /\ \A A : Difieren(s, Desasociar(Marcar(s, I, x), j, A), j)
  <1>1. Difieren(s, Marcar(s, I, x), j)  BY MarcarCambia DEF Difieren
  <1> QED  BY <1>1, DifierenTrasDejar

LEMMA PrimeraPropia ==
  ASSUME NEW t, NEW j, NEW e
  PROVE  Primera(t, j, e) \in SUBSET DelJob(t, j) /\ Primera(t, j, e) \in SUBSET DeEtapa(t, j, e)
  BY DEF Primera, DeEtapa

LEMMA FallosSiguen ==
  ASSUME IInv, Inv', NEW j \in Jobs,
         \/ fallaReduccionLocal(j) \/ fallaReduccionGlobal(j)
         \/ almacenamientoOK(j) \/ almacenamientoError(j)
  PROVE  IInv' /\ NoRevive /\ SoloDe(j)
  <1>1. tabla \in Seq(Entrada) /\ "ERRORYAMA" \in Estados /\ "FINALIZADO" \in Estados
    BY DEF IInv, Inv, Estados
  <1>2. aYama[j] # <<>> /\ replan = Nulo
    BY DEF fallaReduccionLocal, fallaReduccionGlobal, almacenamientoOK, almacenamientoError, Llega
  <1>3. CASE fallaReduccionLocal(j)
    <2>1. CASE Cae  BY <2>1, CaeSigue
    <2>2. CASE /\ tabla' = Marcar(tabla, DelJob(tabla, j), "ERRORYAMA")
               /\ asociados' = asociados \ {j}
               /\ Responde(j, Orden("FALLOREDLOCAL", {})) \/ EnvioRoto(j)
               /\ UNCHANGED <<copiasLibres, varsMaster>>
      <3>1. DelJob(tabla, j) \in SUBSET DelJob(tabla, j)  OBVIOUS
      <3>2. Difieren(tabla, tabla', j)  BY <1>1, <2>2, <3>1, MarcadasDifieren
      <3> QED  BY <1>2, <2>2, <3>2, FallaSigue
    <2> QED  BY <1>3, <2>1, <2>2 DEF fallaReduccionLocal
  <1>4. CASE fallaReduccionGlobal(j)
    <2>1. Difieren(tabla, tabla', j)
      BY <1>1, <1>4, PrimeraPropia, MarcadasDifieren DEF fallaReduccionGlobal
    <2> QED  BY <1>2, <1>4, <2>1, FallaSigue DEF fallaReduccionGlobal
  <1>5. CASE almacenamientoOK(j)
    <2>1. Difieren(tabla, tabla', j)
      BY <1>1, <1>5, PrimeraPropia, MarcadasDifieren DEF almacenamientoOK
    <2> QED  BY <1>2, <1>5, <2>1, FallaSigue DEF almacenamientoOK
  <1>6. CASE almacenamientoError(j)
    <2>1. Difieren(tabla, tabla', j)
      BY <1>1, <1>6, PrimeraPropia, MarcadasDifieren DEF almacenamientoError
    <2> QED  BY <1>2, <1>6, <2>1, FallaSigue DEF almacenamientoError
  <1> QED  BY <1>3, <1>4, <1>5, <1>6

LEMMA PrimeraUnica ==
  ASSUME NEW t \in Seq(Entrada), NEW j, NEW e, NEW g \in Primera(t, j, e)
  PROVE  Primera(t, j, e) = {g} /\ g \in DeEtapa(t, j, e) /\ g \in 1..Len(t) /\ t[g].nodo \in Nodos
  <1>1. \A i \in DeEtapa(t, j, e) : i \in 1..Len(t) /\ t[i] \in Entrada
    BY DominioTabla DEF DeEtapa
  <1>2. g \in DeEtapa(t, j, e)  BY DEF Primera
  <1>3. \A h \in Primera(t, j, e) : h = g
    <2> SUFFICES ASSUME NEW h \in Primera(t, j, e) PROVE h = g  OBVIOUS
    <2>1. h \in DeEtapa(t, j, e) /\ g <= h /\ h <= g  BY <1>2 DEF Primera
    <2>2. g \in Nat /\ h \in Nat  BY <1>1, <1>2, <2>1, DominioTabla
    <2> QED  BY <2>1, <2>2
  <1> QED  BY <1>1, <1>2, <1>3 DEF Entrada

LEMMA ReduccionGlobalOkSigue ==
  ASSUME IInv, Inv', NEW j \in Jobs, reduccionGlobalOk(j)
  PROVE  IInv' /\ NoRevive /\ SoloDe(j)
  <1> DEFINE G == Primera(tabla, j, "REDUCGLOBAL")
             t == Marcar(tabla, G, "FINALIZADO")
             m == Len(tabla) + 1
  <1>1. /\ aYama[j] # <<>> /\ Head(aYama[j]).tipo = "REDGLOBALOK" /\ replan = Nulo /\ Leido(j)
        /\ UNCHANGED <<asociados, conectados, copiasLibres, yama, replan, varsMaster>>
    BY DEF reduccionGlobalOk, Llega
  <1>2. tabla \in Seq(Entrada) /\ CopiasEscritas(tabla) /\ Len(tabla) \in Nat
    BY DominioTabla DEF IInv, Inv
  <1>3. \/ G = {} /\ UNCHANGED <<tabla, aMaster>>
        \/ \E g \in G :
             /\ tabla' = Append(t, NuevaEtapa(j, "ALMACENAMIENTOOP", t[g].nodo))
             /\ Manda(j, Orden("SOLICITUDALMACENAMIENTO", {Op("ALMACENAMIENTOOP", g, 0, {g})}))
    BY DEF reduccionGlobalOk
  <1>4. Head(aYama[j]).temp = 0
    <2>1. 1 \in 1..Len(aYama[j]) /\ Head(aYama[j]) = aYama[j][1]
      BY <1>1, ColaDe DEF IInv, Inv, AYamaOK
    <2>2. SinNombre(j)  BY DEF IInv, TrabajoOK
    <2> QED  BY <1>1, <2>1, <2>2 DEF SinNombre, AvisoOK, AvisoFallo, EtapasDeHilo
  <1>5. /\ EnReplan' /\ \A q \in Jobs : q # j => copiasLibres'[q] = copiasLibres[q]
        /\ EnCurso(tabla, j) \cap {} = {} /\ 0 \notin {}
    BY <1>1 DEF EnReplan
  <1>6. CASE UNCHANGED <<tabla, aMaster>>
    <2>1. Conserva(tabla, tabla') /\ \A q : Ajena(tabla, tabla', q)
      BY <1>2, <1>6, Igual
    <2>2. CopiasEscritas(tabla')  BY <1>2, <1>6
    <2>3. CASE j \notin asociados
      BY <1>1, <1>6, <2>1, <2>2, <2>3, DejadoSigue
    <2>4. CASE j \in asociados
      <3>1. EnCurso(tabla', j) = (EnCurso(tabla, j) \ {Head(aYama[j]).temp}) \cup {}
        BY <1>1, <1>4, <1>6, <2>4, AvisoEnCurso
      <3>2. HechasCrecen(tabla, tabla', j)  BY <1>6 DEF HechasCrecen
      <3>3. Seguido(tabla', j, copiasLibres'[j])
        BY <1>1, <1>6, <2>4 DEF IInv, TrabajoOK, Seguimiento
      <3>4. \A i \in DelJob(tabla, j) : ~Vigente(tabla, i) => ~Vigente(tabla', i)
        BY <1>6
      <3> QED  BY <1>1, <1>5, <1>6, <2>1, <2>2, <2>4, <3>1, <3>2, <3>3, <3>4, AtendidoSigue
    <2> QED  BY <2>3, <2>4
  <1>7. ASSUME NEW g \in G,
               tabla' = Append(t, NuevaEtapa(j, "ALMACENAMIENTOOP", t[g].nodo)),
               Manda(j, Orden("SOLICITUDALMACENAMIENTO", {Op("ALMACENAMIENTOOP", g, 0, {g})}))
        PROVE  IInv' /\ NoRevive /\ SoloDe(j)
    <2> DEFINE o == Op("ALMACENAMIENTOOP", g, 0, {g})
    <2>1. /\ G = {g} /\ g \in DeEtapa(tabla, j, "REDUCGLOBAL") /\ g \in 1..Len(tabla)
          /\ g \in DelJob(tabla, j)
      BY <1>2, PrimeraUnica DEF DeEtapa
    <2>2. /\ Conserva(tabla, t) /\ Cambia(tabla, t, j, {g}, "FINALIZADO") /\ Len(t) = Len(tabla)
          /\ \A q \in Jobs : q # j => Ajena(tabla, t, q)
          /\ Difieren(tabla, t, j)
      <3>1. "FINALIZADO" \in Estados /\ {g} \subseteq DelJob(tabla, j) /\ t = Marcar(tabla, {g}, "FINALIZADO")
        BY <2>1 DEF Estados
      <3> QED  BY <1>2, <3>1, MarcarCambia DEF Difieren
    <2> HIDE DEF t, G
    <2>3. t[g].nodo \in Nodos
      BY <2>1, <2>2, DominioTabla DEF Conserva, Entrada
    <2>4. PICK n \in Nodos : n = t[g].nodo  BY <2>3
    <2>5. tabla' = Append(t, NuevaEtapa(j, "ALMACENAMIENTOOP", n))  BY <1>7, <2>4
    <2>6. /\ Conserva(tabla, tabla') /\ \A q \in Jobs : q # j => Ajena(tabla, tabla', q)
          /\ CopiasEscritas(tabla') /\ Suma(t, tabla', j, m, NuevaEtapa(j, "ALMACENAMIENTOOP", n))
      <3>1. AgregaEtapa(tabla, t, tabla', j, "ALMACENAMIENTOOP", n)
        BY <1>2, <2>2, <2>5 DEF AgregaEtapa
      <3> QED  BY <3>1, EtapaAgregada DEF m
    <2>7. o.etapa = "ALMACENAMIENTOOP"  BY DEF Op
    <2> HIDE DEF o, m
    <2>8. \E x : /\ Manda(j, x) /\ {} = {p.temp : p \in DeHilo(x.ops)}
                 /\ \A p, q \in DeHilo(x.ops) : p.temp = q.temp => p = q
                 /\ \A p \in x.ops : OpLista(tabla', j, p) /\ OpFiel(tabla', p)
      <3>1. o.etapa \notin EtapasDeHilo /\ OpLista(tabla', j, o) /\ OpFiel(tabla', o)
        BY <2>7 DEF EtapasDeHilo, OpLista, OpFiel
      <3>2. PICK x : x = Orden("SOLICITUDALMACENAMIENTO", {o})  OBVIOUS
      <3>3. /\ x.ops = {o} /\ \A p, q \in DeHilo(x.ops) : p.temp = q.temp => p = q
            /\ {p.temp : p \in DeHilo(x.ops)} = {}
        BY <3>1, <3>2, UnaOperacion
      <3>4. Manda(j, x)  BY <3>2, <1>7 DEF o
      <3> QED  BY <3>1, <3>3, <3>4
    <2>9. CASE j \notin asociados
      <3>1. \E x : Responde(j, x) /\ \A p \in x.ops : OpFiel(tabla', p)
        BY <1>1, <2>8 DEF Responde
      <3> QED  BY <1>1, <2>6, <2>9, <3>1, DejadoSigue
    <2>10. CASE j \in asociados
      <3>1. Seguido(tabla, j, copiasLibres[j])
        BY <2>10 DEF IInv, TrabajoOK, Seguimiento
      <3>2. /\ Seguido(t, j, copiasLibres[j]) /\ EnCurso(t, j) = {} /\ EnCurso(tabla, j) = {}
            /\ \A p : Hechas(t, j, p) = Hechas(tabla, j, p)
        BY <2>1, <2>2, <3>1, SeguidoGlobal
      <3>3. /\ Seguido(tabla', j, copiasLibres[j]) /\ EnCurso(tabla', j) = {}
            /\ \A p : Hechas(tabla', j, p) = Hechas(t, j, p)
        <4>1. AgregaUltima(t, tabla', j, copiasLibres[j], m, "ALMACENAMIENTOOP", n)
          BY <2>6, <3>2 DEF AgregaUltima
        <4> QED  BY <4>1, SeguidoUltimas
      <3>4. HechasCrecen(tabla, tabla', j)  BY <3>2, <3>3 DEF HechasCrecen
      <3>5. \A l \in DelJob(tabla, j) : ~Vigente(tabla, l) => ~Vigente(tabla', l)
        <4>1. Vigente(tabla, g)
          BY <2>1, <3>1 DEF Seguido, SoloHilosCancelados, EtapasDeHilo, DeEtapa
        <4> QED  BY <2>2, <2>6, <4>1 DEF Suma, Vigente, Cambia
      <3>6. EnCurso(tabla', j) = (EnCurso(tabla, j) \ {Head(aYama[j]).temp}) \cup {}
        BY <3>2, <3>3
      <3>7. Seguido(tabla', j, copiasLibres'[j])  BY <1>1, <3>3
      <3> QED  BY <1>1, <1>5, <2>6, <2>8, <2>10, <3>4, <3>5, <3>6, <3>7, AtendidoSigue
    <2> QED  BY <2>9, <2>10
  <1> QED  BY <1>3, <1>6, <1>7

LEMMA ComprobarSigue ==
  ASSUME IInv, Inv', NEW j \in Jobs, comprobarConexion(j)
  PROVE  IInv' /\ NoRevive /\ SoloDe(j)
  <1>1. /\ replan = Nulo /\ ~Vivo(j) /\ aYama[j] = <<>> /\ tabla' = Desasociar(tabla, j, asociados)
        /\ asociados' = asociados \ {j} /\ conectados' = conectados \ {j}
        /\ UNCHANGED <<copiasLibres, yama, replan, aYama, aMaster, varsMaster>>
    BY DEF comprobarConexion
  <1>2. tabla \in Seq(Entrada) /\ CopiasEscritas(tabla)  BY DEF IInv, Inv
  <1>3. Conserva(tabla, tabla') /\ Len(tabla') = Len(tabla) /\ \A q : q # j => Ajena(tabla, tabla', q)
    BY <1>1, <1>2, AjustarCambia
  <1>4. CopiasEscritas(tabla')  BY <1>2, <1>3, CopiasCrecen
  <1>5. aYama' = [aYama EXCEPT ![j] = <<>>]  BY <1>1 DEF IInv, Inv, AYamaOK
  <1>6. maestro[j] # "inicio" /\ EnReplan'
    BY <1>1 DEF Vivo, Salidas, EnReplan
  <1> QED  BY <1>1, <1>3, <1>4, <1>5, <1>6, PasoDeYamaSigue

LEMMA ManejarDatosSigue ==
  ASSUME IInv, Inv', NEW j \in Jobs, ManejarDatos(j)
  PROVE  IInv' /\ NoRevive /\ SoloDe(j)
  BY SolicitudSigue, ReplanificarSigue, ReplanificarFinalizadasSigue, TerminarSigue,
     TransformacionOKSigue, ReduccionLocalOKSigue, FallosSiguen, ReduccionGlobalOkSigue,
     ComprobarSigue
  DEF ManejarDatos

-----------------------------------------------------------------------------
(* The Masters and their threads                                           *)

\* A step of Master j: the table stays, and what it adds to its files is true.
LEMMA PasoDeMasterSigue ==
  ASSUME IInv, Inv', NEW j \in Jobs, UNCHANGED <<tabla, asociados, copiasLibres, yama, replan>>,
         \A q \in Jobs : q # j =>
           /\ q \in conectados' <=> q \in conectados
           /\ aYama'[q] = aYama[q] /\ aMaster'[q] = aMaster[q]
           /\ maestro'[q] = maestro[q] /\ hilos'[q] = hilos[q],
         \A f \in archivos' : f \in archivos \/ f.temp \in DelJob(tabla, j),
         ArchivoT(tabla, archivos'), UnaSolicitud(j)', SinNombre(j)',
         \A o \in OpsDe(aMaster'[j], hilos'[j]) : o \in OpsDe(aMaster[j], hilos[j]),
         j \in asociados =>
           /\ j \in conectados'
           /\ Reparto(aMaster'[j], hilos'[j], aYama'[j], EnCurso(tabla, j))
           /\ Vivo(j)' /\ yama = "viva" =>
                Completo(aMaster'[j], hilos'[j], aYama'[j], EnCurso(tabla, j))
           /\ ArchivoL(tabla, j, archivos')
  PROVE  IInv' /\ NoRevive /\ SoloDe(j)
  <1>1. tabla \in Seq(Entrada) /\ TrabajoOK(j)  BY DEF IInv, Inv
  <1>2. Conserva(tabla, tabla') /\ \A q : Ajena(tabla, tabla', q)
    BY <1>1, Igual
  <1>3. ASSUME NEW q \in Jobs, q # j PROVE TrabajoOK(q)'
    BY <1>2, <1>3, TrabajoAjeno
  <1>4. Fieles(j)'
    BY <1>1 DEF TrabajoOK, Fieles
  <1>5. ASSUME j \in asociados PROVE Seguimiento(j)'
    <2>1. Seguimiento(j)  BY <1>1, <1>5 DEF TrabajoOK
    <2>2. \A o \in OpsDe(aMaster'[j], hilos'[j]) : OpLista(tabla', j, o)
      BY <2>1 DEF Seguimiento
    <2>3. Seguido(tabla', j, copiasLibres'[j])  BY <2>1 DEF Seguimiento
    <2> QED  BY <1>5, <2>2, <2>3 DEF Seguimiento
  <1>6. TrabajoOK(j)'  BY <1>4, <1>5 DEF TrabajoOK
  <1>7. SinPunteroBasura' /\ CopiasEscritas(tabla') /\ EnReplan' /\ ArchivoT(tabla', archivos')
    BY DEF IInv, SinPunteroBasura, EnReplan
  <1>8. NoRevive /\ SoloDe(j)  BY <1>2 DEF NoRevive, SoloDe
  <1> QED  BY <1>3, <1>6, <1>7, <1>8 DEF IInv

\* What Sale leaves, whatever the Master was doing.
LEMMA SaleSigue ==
  ASSUME IInv, Inv', NEW j \in Jobs, NEW s \in Salidas, Sale(j, s),
         UNCHANGED <<varsYama, aYama>>
  PROVE  IInv' /\ NoRevive /\ SoloDe(j)
  <1>1. /\ maestro \in [Jobs -> Puntos] /\ hilos \in [Jobs -> SUBSET Operacion]
        /\ aMaster \in [Jobs -> Seq(Ordenes)]
    BY DEF IInv, Inv, EscalaresOK, HilosOK, AMasterOK
  <1>2. /\ maestro'[j] = s /\ hilos'[j] = {} /\ aMaster'[j] = <<>> /\ archivos' = archivos
        /\ \A q \in Jobs : q # j => /\ maestro'[q] = maestro[q] /\ hilos'[q] = hilos[q]
                                    /\ aMaster'[q] = aMaster[q]
        /\ UNCHANGED <<tabla, asociados, conectados, copiasLibres, yama, replan, aYama>>
    BY <1>1 DEF Sale, varsYama
  <1>3. ~Vivo(j)' /\ s # "inicio"  BY <1>2 DEF Vivo, Salidas
  <1>4. UnaSolicitud(j)' /\ SinNombre(j)'
    <2>1. UnaSolicitud(j) /\ SinNombre(j)  BY DEF IInv, TrabajoOK
    <2>2. Nuevo(j) => Nuevo(j)'  BY <1>2 DEF Nuevo
    <2>3. SinNombre(j)'  BY <1>2, <2>1 DEF SinNombre
    <2> QED  BY <1>2, <1>3, <2>1, <2>2, <2>3 DEF UnaSolicitud
  <1>5. \A o \in OpsDe(aMaster'[j], hilos'[j]) : o \in OpsDe(aMaster[j], hilos[j])
    <2>1. Len(<<>>) = 0 /\ 1..0 = {}  OBVIOUS
    <2> QED  BY <1>2, <2>1 DEF OpsDe
  <1>6. ArchivoT(tabla, archivos')  BY <1>2 DEF IInv
  <1>7. ASSUME j \in asociados
        PROVE  /\ j \in conectados' /\ ArchivoL(tabla, j, archivos')
               /\ Reparto(aMaster'[j], hilos'[j], aYama'[j], EnCurso(tabla, j))
    <2>1. Seguimiento(j)  BY <1>7 DEF IInv, TrabajoOK
    <2>2. Reparto(<<>>, {}, aYama[j], EnCurso(tabla, j))
      BY <2>1, RepartoPierde DEF Seguimiento
    <2> QED  BY <1>2, <2>1, <2>2 DEF Seguimiento
  <1> QED  BY <1>2, <1>3, <1>4, <1>5, <1>6, <1>7, PasoDeMasterSigue

LEMMA LanzaSigue ==
  ASSUME IInv, Inv', NEW j \in Jobs, NEW s \in Puntos \ {"inicio"}, aMaster[j] # <<>>, Vivo(j),
         Lanza(j, s), UNCHANGED <<varsYama, aYama>>
  PROVE  IInv' /\ NoRevive /\ SoloDe(j)
  <1>1. /\ maestro \in [Jobs -> Puntos] /\ hilos \in [Jobs -> SUBSET Operacion]
        /\ aMaster \in [Jobs -> Seq(Ordenes)]
    BY DEF IInv, Inv, EscalaresOK, HilosOK, AMasterOK
  <1>2. /\ maestro'[j] = s /\ hilos'[j] = hilos[j] \cup Head(aMaster[j]).ops
        /\ aMaster'[j] = Tail(aMaster[j]) /\ archivos' = archivos
        /\ \A q \in Jobs : q # j => /\ maestro'[q] = maestro[q] /\ hilos'[q] = hilos[q]
                                    /\ aMaster'[q] = aMaster[q]
        /\ UNCHANGED <<tabla, asociados, conectados, copiasLibres, yama, replan, aYama>>
    BY <1>1 DEF Lanza, varsYama
  <1>3. UnaSolicitud(j)' /\ SinNombre(j)'
    <2>1. UnaSolicitud(j) /\ SinNombre(j)  BY DEF IInv, TrabajoOK
    <2>2. ~Nuevo(j)  BY DEF Nuevo
    <2> QED  BY <1>2, <2>1, <2>2, MensajesCumplen DEF IInv
  <1>4. /\ 1 \in 1..Len(aMaster[j]) /\ Head(aMaster[j]) = aMaster[j][1]
        /\ \A k \in 1..Len(Tail(aMaster[j])) :
             Tail(aMaster[j])[k] = aMaster[j][k + 1] /\ k + 1 \in 1..Len(aMaster[j])
    BY <1>1, ColaDe
  <1>5. \A o \in OpsDe(aMaster'[j], hilos'[j]) : o \in OpsDe(aMaster[j], hilos[j])
    BY <1>2, <1>4 DEF OpsDe
  <1>6. ArchivoT(tabla, archivos')  BY <1>2 DEF IInv
  <1>7. ASSUME j \in asociados
        PROVE  /\ j \in conectados' /\ ArchivoL(tabla, j, archivos')
               /\ Reparto(aMaster'[j], hilos'[j], aYama'[j], EnCurso(tabla, j))
               /\ yama = "viva" =>
                    Completo(aMaster'[j], hilos'[j], aYama'[j], EnCurso(tabla, j))
    <2>1. Seguimiento(j)  BY <1>7 DEF IInv, TrabajoOK
    <2>2. /\ Reparto(aMaster'[j], hilos'[j], aYama[j], EnCurso(tabla, j))
          /\ Completo(aMaster[j], hilos[j], aYama[j], EnCurso(tabla, j))
               => Completo(aMaster'[j], hilos'[j], aYama[j], EnCurso(tabla, j))
      <3> DEFINE x == aMaster[j]
                 H == hilos[j]
                 a == aYama[j]
                 E == EnCurso(tabla, j)
      <3>1. x \in Seq(Ordenes) /\ x # <<>> /\ Reparto(x, H, a, E)  BY <1>1, <2>1 DEF Seguimiento
      <3>2. aMaster'[j] = Tail(x) /\ hilos'[j] = H \cup Head(x).ops  BY <1>2
      <3> HIDE DEF x, H, a, E
      <3>3. /\ Reparto(Tail(x), H \cup Head(x).ops, a, E)
            /\ Completo(x, H, a, E) => Completo(Tail(x), H \cup Head(x).ops, a, E)
        BY <3>1, RepartoLanza
      <3> QED  BY <3>2, <3>3 DEF x, H, a, E
    <2> QED  BY <1>2, <2>1, <2>2 DEF Seguimiento
  <1> QED  BY <1>2, <1>3, <1>5, <1>6, <1>7, PasoDeMasterSigue

LEMMA PedirSigue ==
  ASSUME IInv, Inv', NEW j \in Jobs, solicitudJob(j)
  PROVE  IInv' /\ NoRevive /\ SoloDe(j)
  <1> DEFINE m == Respuesta("SOLICITUDJOB", 0)
  <1>1. maestro[j] = "inicio" /\ UNCHANGED <<tabla, asociados, copiasLibres, yama, replan>>
    BY DEF solicitudJob
  <1>2. Nuevo(j) /\ aYama[j] = <<>>
    BY <1>1 DEF IInv, TrabajoOK, UnaSolicitud
  <1>3. CASE /\ maestro' = [maestro EXCEPT ![j] = "solicitando"]
             /\ conectados' = conectados \cup {j}
             /\ aYama' = [aYama EXCEPT ![j] = Append(@, m)]
             /\ UNCHANGED <<aMaster, hilos, archivos>>
    <2>1. /\ maestro'[j] = "solicitando" /\ aYama'[j] = Append(<<>>, m)
          /\ \A q \in Jobs : q # j => maestro'[q] = maestro[q] /\ aYama'[q] = aYama[q]
      BY <1>2, <1>3 DEF IInv, Inv, EscalaresOK, AYamaOK
    <2>2. m.tipo = "SOLICITUDJOB" /\ m.temp = 0  BY DEF Respuesta
    <2>3. Len(aYama'[j]) = 1 /\ \A k \in 1..Len(aYama'[j]) : aYama'[j][k] = m
      BY <2>1
    <2>4. Nuevo(j)'  BY <1>1, <1>2, <1>3 DEF Nuevo
    <2>5. UnaSolicitud(j)' /\ SinNombre(j)'
      BY <2>1, <2>2, <2>3, <2>4 DEF UnaSolicitud, SinNombre
    <2>6. j \notin asociados  BY <1>2 DEF Nuevo
    <2>7. ArchivoT(tabla, archivos')  BY <1>3 DEF IInv
    <2> QED  BY <1>1, <1>3, <2>1, <2>5, <2>6, <2>7, PasoDeMasterSigue
  <1>4. CASE Sale(j, "abortado") /\ UNCHANGED <<conectados, aYama>>
    <2>1. "abortado" \in Salidas  BY DEF Salidas
    <2> QED  BY <1>1, <1>4, <2>1, SaleSigue DEF varsYama
  <1> QED  BY <1>3, <1>4 DEF solicitudJob

LEMMA HiloPrincipalSigue ==
  ASSUME IInv, Inv', NEW j \in Jobs, HiloPrincipal(j)
  PROVE  IInv' /\ NoRevive /\ SoloDe(j)
  <1>1. CASE solicitudJob(j)  BY <1>1, PedirSigue
  <1>2. ASSUME NEW s \in Salidas, Sale(j, s), UNCHANGED <<varsYama, aYama>>
        PROVE  IInv' /\ NoRevive /\ SoloDe(j)
    BY <1>2, SaleSigue
  <1>3. ASSUME NEW s \in {"bucle", "global", "almacenando"}, NEW p, NEW T, Recibe(j, p, T),
               p \in {"solicitando", "bucle", "espera_almacen"},
               Lanza(j, s), UNCHANGED <<varsYama, aYama>>
        PROVE  IInv' /\ NoRevive /\ SoloDe(j)
    <2>1. s \in Puntos \ {"inicio"} /\ aMaster[j] # <<>> /\ Vivo(j)
      BY <1>3 DEF Puntos, Recibe, Vivo, Salidas
    <2> QED  BY <1>3, <2>1, LanzaSigue
  <1>4. {"abortado", "sin_almacenar"} \subseteq Salidas  BY DEF Salidas
  <1>5. CASE mandarTransformacionNodo(j)
    BY <1>2, <1>3, <1>4, <1>5 DEF mandarTransformacionNodo
  <1>6. CASE mandarReplanificado(j) \/ reduccionLocal(j)
    BY <1>3, <1>6 DEF mandarReplanificado, reduccionLocal
  <1>7. CASE abortar(j)  BY <1>2, <1>4, <1>7 DEF abortar
  <1>8. CASE reduccionGlobal(j)  BY <1>2, <1>3, <1>4, <1>8 DEF reduccionGlobal
  <1>9. CASE almacenamiento(j)  BY <1>2, <1>3, <1>4, <1>9 DEF almacenamiento
  <1>10. CASE yamaNoResponde(j)
    <2>1. \/ Sale(j, "abortado") \/ Sale(j, "sin_almacenar")
          \/ /\ maestro[j] = "bucle" /\ maestro' = [maestro EXCEPT ![j] = "girando"]
             /\ UNCHANGED <<hilos, archivos, aMaster>>
      BY <1>10 DEF yamaNoResponde
    <2>2. UNCHANGED <<varsYama, aYama>> /\ yama # "viva"  BY <1>10 DEF yamaNoResponde
    <2>3. CASE /\ maestro[j] = "bucle" /\ maestro' = [maestro EXCEPT ![j] = "girando"]
               /\ UNCHANGED <<hilos, archivos, aMaster>>
      <3>1. /\ maestro'[j] # "inicio" /\ maestro[j] # "inicio"
            /\ \A q \in Jobs : q # j => maestro'[q] = maestro[q]
        BY <2>3 DEF IInv, Inv, EscalaresOK
      <3>2. TrabajoOK(j)  BY DEF IInv
      <3>3. UnaSolicitud(j)' /\ SinNombre(j)' /\ ArchivoT(tabla, archivos')
        <4>1. UNCHANGED <<tabla, asociados, aYama, aMaster, hilos>>  BY <2>2, <2>3 DEF varsYama
        <4>2. Nuevo(j)' <=> Nuevo(j)  BY <4>1 DEF Nuevo
        <4>3. UnaSolicitud(j)' /\ SinNombre(j)'
          BY <3>1, <3>2, <4>1, <4>2 DEF TrabajoOK, UnaSolicitud, SinNombre
        <4>4. ArchivoT(tabla, archivos')  BY <2>3 DEF IInv
        <4> QED  BY <4>3, <4>4
      <3>4. UNCHANGED <<tabla, asociados, conectados, copiasLibres, yama, replan, aYama>>
        BY <2>2 DEF varsYama
      <3> QED  BY <2>2, <2>3, <3>1, <3>2, <3>3, <3>4, PasoDeMasterSigue DEF TrabajoOK, Seguimiento
    <2> QED  BY <1>2, <1>4, <2>1, <2>2, <2>3
  <1> QED  BY <1>1, <1>5, <1>6, <1>7, <1>8, <1>9, <1>10 DEF HiloPrincipal

\* The answer of a thread: it is written if YAMA listens, and it names what it is about.
LEMMA AvisaMensaje ==
  ASSUME Inv, NEW j \in Jobs, NEW o \in hilos[j],
         NEW tipo \in {AvisoOK(o.etapa), AvisoFallo(o.etapa)}, Avisa(j, o, tipo)
  PROVE  \E m : /\ m.temp = IF o.etapa \in EtapasDeHilo THEN o.temp ELSE 0
                /\ m.tipo # "SOLICITUDJOB"
                /\ m.temp # 0 => m.tipo \in {AvisoOK(e) : e \in EtapasDeHilo}
                                              \cup {AvisoFallo(e) : e \in EtapasDeHilo}
                /\ \/ aYama'[j] = Append(aYama[j], m)
                   \/ aYama'[j] = aYama[j] /\ ~(j \in conectados /\ yama = "viva")
                /\ \A q \in Jobs : q # j => aYama'[q] = aYama[q]
  <1> DEFINE m == Respuesta(tipo, IF o.etapa \in EtapasDeHilo THEN o.temp ELSE 0)
  <1>1. o.etapa \in Etapas  BY DEF Inv, HilosOK, Operacion
  <1>2. m.tipo = tipo /\ m.temp = IF o.etapa \in EtapasDeHilo THEN o.temp ELSE 0
    BY DEF Respuesta
  <1>3. tipo # "SOLICITUDJOB"  BY <1>1 DEF AvisoOK, AvisoFallo, Etapas
  <1>4. m.temp # 0 => m.tipo \in {AvisoOK(e) : e \in EtapasDeHilo}
                                   \cup {AvisoFallo(e) : e \in EtapasDeHilo}
    BY <1>2
  <1>5. aYama' = IF j \in conectados /\ yama = "viva" THEN [aYama EXCEPT ![j] = Append(@, m)] ELSE aYama
    BY DEF Avisa
  <1>6. aYama \in [Jobs -> Seq(AvisosHasta(Len(tabla)))]  BY DEF Inv, AYamaOK
  <1> HIDE DEF m
  <1>7. /\ aYama'[j] = Append(aYama[j], m) \/ (aYama'[j] = aYama[j] /\ ~(j \in conectados /\ yama = "viva"))
        /\ \A q \in Jobs : q # j => aYama'[q] = aYama[q]
    BY <1>5, <1>6
  <1> QED  BY <1>2, <1>3, <1>4, <1>7

\* What a thread of a followed job leaves behind it.
LEMMA ContestaSigue ==
  ASSUME IInv, NEW j \in Jobs, j \in asociados, NEW o \in hilos[j], NEW m,
         m.temp = IF o.etapa \in EtapasDeHilo THEN o.temp ELSE 0,
         \/ aYama'[j] = Append(aYama[j], m)
         \/ aYama'[j] = aYama[j] /\ ~(j \in conectados /\ yama = "viva")
  PROVE  /\ Reparto(aMaster[j], hilos[j] \ {o}, aYama'[j], EnCurso(tabla, j))
         /\ (Vivo(j) \/ o.etapa \notin EtapasDeHilo) /\ yama = "viva" =>
              Completo(aMaster[j], hilos[j] \ {o}, aYama'[j], EnCurso(tabla, j))
  <1> DEFINE s == aMaster[j]
             H == hilos[j]
             a == aYama[j]
             E == EnCurso(tabla, j)
  <1>1. Seguimiento(j)  BY DEF IInv, TrabajoOK
  <1>2. a \in Seq(AvisosHasta(Len(tabla)))  BY DEF IInv, Inv, AYamaOK
  <1>3. 0 \notin E
    <2>1. E \subseteq 1..Len(tabla)  BY DominioTabla DEF EnCurso, IInv, Inv
    <2> QED  BY <2>1
  <1>4. o \in H /\ Reparto(s, H, a, E) /\ (Vivo(j) /\ yama = "viva" => Completo(s, H, a, E))
    BY <1>1 DEF Seguimiento
  <1>5. j \in conectados  BY <1>1 DEF Seguimiento
  <1>6. o.etapa \notin EtapasDeHilo => E = {}
    <2>1. o \in Operacion /\ OpPropia(tabla, j, o)  BY DEF IInv, Inv, HilosOK
    <2>2. o.etapa \notin EtapasDeHilo => o.temp \in DeEtapa(tabla, j, "REDUCGLOBAL")
      BY <2>1 DEF Operacion, Etapas, EtapasDeHilo, OpPropia
    <2> QED  BY <1>1, <2>2 DEF Seguimiento, Seguido, Barrera
  <1> HIDE DEF s, H, a, E
  <1>7. /\ Reparto(s, H \ {o}, a, E) /\ Reparto(s, H \ {o}, Append(a, m), E)
        /\ Completo(s, H, a, E) => Completo(s, H \ {o}, Append(a, m), E)
    BY <1>2, <1>3, <1>4, RepartoContesta
  <1>8. Reparto(s, H \ {o}, aYama'[j], E)  BY <1>7 DEF a
  <1>9. ASSUME Vivo(j) \/ o.etapa \notin EtapasDeHilo, yama = "viva"
        PROVE  Completo(s, H \ {o}, aYama'[j], E)
    <2>1. aYama'[j] = Append(a, m)  BY <1>5, <1>9 DEF a
    <2>2. CASE Vivo(j)  BY <1>4, <1>7, <1>9, <2>1, <2>2
    <2>3. CASE o.etapa \notin EtapasDeHilo  BY <1>6, <2>3 DEF Completo
    <2> QED  BY <1>9, <2>2, <2>3
  <1> QED  BY <1>8, <1>9 DEF s, H, E

\* The file an operation writes holds what its entry says.
LEMMA ArchivoNuevo ==
  ASSUME IInv, NEW j \in Jobs, NEW o \in hilos[j], o.etapa # "ALMACENAMIENTOOP", NEW f,
         f = [temp |-> o.temp, bloques |->
                IF o.etapa = "TRANSFORMACION" THEN {o.bloque} ELSE Contenido(o.entradas)]
  PROVE  /\ f.temp \in DelJob(tabla, j) /\ ArchivoT(tabla, archivos \cup {f})
         /\ j \in asociados => ArchivoL(tabla, j, archivos \cup {f})
  <1>1. o \in OpsDe(aMaster[j], hilos[j])  BY DEF OpsDe
  <1>2. OpPropia(tabla, j, o) /\ OpFiel(tabla, o) /\ ArchivoT(tabla, archivos)
    BY <1>1, OperacionesPropias DEF IInv, TrabajoOK, Fieles
  <1>3. /\ f.temp = o.temp /\ o.temp \in DeEtapa(tabla, j, o.etapa)
        /\ o.temp \in DelJob(tabla, j) /\ tabla[o.temp].etapa = o.etapa
    BY <1>2 DEF OpPropia, DeEtapa
  <1>4. ArchivoT(tabla, archivos \cup {f})
    <2>1. o.etapa = "TRANSFORMACION" => f.bloques = {o.bloque}  OBVIOUS
    <2> QED  BY <1>2, <1>3, <2>1 DEF ArchivoT, OpFiel
  <1>5. ASSUME j \in asociados PROVE ArchivoL(tabla, j, archivos \cup {f})
    <2>1. ArchivoL(tabla, j, archivos) /\ OpLista(tabla, j, o)
      BY <1>1, <1>5 DEF IInv, TrabajoOK, Seguimiento
    <2>2. ASSUME o.etapa = "REDUCCIONLOCAL"
          PROVE  f.bloques \subseteq {tabla[i].bloque : i \in Hechas(tabla, j, tabla[o.temp].nodo)}
      <3>1. f.bloques = Contenido(o.entradas)  BY <2>2
      <3>2. o.entradas \subseteq Hechas(tabla, j, tabla[o.temp].nodo)
        BY <2>1, <2>2 DEF OpLista
      <3>3. ASSUME NEW g \in archivos, g.temp \in o.entradas
            PROVE  g.bloques \subseteq {tabla[g.temp].bloque}
        <4>1. tabla[g.temp].etapa = "TRANSFORMACION"
          BY <3>2, <3>3 DEF Hechas, Grupo, DeEtapa
        <4> QED  BY <1>2, <4>1 DEF ArchivoT
      <3>4. \A b \in Contenido(o.entradas) : \E g \in archivos : g.temp \in o.entradas /\ b \in g.bloques
        BY DEF Contenido
      <3> QED  BY <3>1, <3>2, <3>3, <3>4
    <2>3. o.temp \in DeEtapa(tabla, j, "REDUCCIONLOCAL") => o.etapa = "REDUCCIONLOCAL"
      BY <1>3 DEF DeEtapa
    <2> QED  BY <1>3, <2>1, <2>2, <2>3 DEF ArchivoL
  <1> QED  BY <1>3, <1>4, <1>5

LEMMA HiloDeOperacionSigue ==
  ASSUME IInv, Inv', NEW j \in Jobs, HiloDeOperacion(j)
  PROVE  IInv' /\ NoRevive /\ SoloDe(j)
  <1>1. PICK o \in hilos[j] : operacionOK(j, o) \/ trabajoAlmacenado(j, o) \/ operacionFalla(j, o)
    BY DEF HiloDeOperacion
  <1>2. /\ maestro \in [Jobs -> Puntos] /\ hilos \in [Jobs -> SUBSET Operacion]
        /\ aMaster \in [Jobs -> Seq(Ordenes)]
    BY DEF IInv, Inv, EscalaresOK, HilosOK, AMasterOK
  <1>3. ~Nuevo(j) /\ UnaSolicitud(j) /\ SinNombre(j) /\ maestro[j] # "inicio"
    BY DEF Nuevo, IInv, TrabajoOK, UnaSolicitud
  <1>4. PICK tipo \in {AvisoOK(o.etapa), AvisoFallo(o.etapa)} : Avisa(j, o, tipo)
    BY <1>1 DEF operacionOK, trabajoAlmacenado, operacionFalla
  <1>5. PICK m : /\ m.temp = IF o.etapa \in EtapasDeHilo THEN o.temp ELSE 0
                 /\ m.tipo # "SOLICITUDJOB"
                 /\ m.temp # 0 => m.tipo \in {AvisoOK(e) : e \in EtapasDeHilo}
                                               \cup {AvisoFallo(e) : e \in EtapasDeHilo}
                 /\ \/ aYama'[j] = Append(aYama[j], m)
                    \/ aYama'[j] = aYama[j] /\ ~(j \in conectados /\ yama = "viva")
                 /\ \A q \in Jobs : q # j => aYama'[q] = aYama[q]
    BY <1>4, AvisaMensaje DEF IInv
  <1>6. UNCHANGED <<tabla, asociados, conectados, copiasLibres, yama, replan>>
    BY <1>1 DEF operacionOK, trabajoAlmacenado, operacionFalla, varsYama
  <1>7. ASSUME maestro'[j] # "inicio" PROVE UnaSolicitud(j)' /\ SinNombre(j)'
    BY <1>3, <1>5, <1>7, MensajesCumplen DEF IInv
  <1>8. ASSUME j \in asociados
        PROVE  /\ Reparto(aMaster[j], hilos[j] \ {o}, aYama'[j], EnCurso(tabla, j))
               /\ (Vivo(j) \/ o.etapa \notin EtapasDeHilo) /\ yama = "viva" =>
                    Completo(aMaster[j], hilos[j] \ {o}, aYama'[j], EnCurso(tabla, j))
               /\ j \in conectados' /\ ArchivoL(tabla, j, archivos)
    BY <1>5, <1>6, <1>8, ContestaSigue DEF IInv, TrabajoOK, Seguimiento
  <1>9. ASSUME NEW punto \in Puntos \ {"inicio"}, Sigue(j, o.etapa, punto),
               hilos' = [hilos EXCEPT ![j] = @ \ {o}], aMaster' = aMaster,
               \A f \in archivos' : f \in archivos \/ f.temp \in DelJob(tabla, j),
               ArchivoT(tabla, archivos'),
               j \in asociados => ArchivoL(tabla, j, archivos')
        PROVE  IInv' /\ NoRevive /\ SoloDe(j)
    <2>1. /\ hilos'[j] = hilos[j] \ {o} /\ maestro'[j] # "inicio"
          /\ \A q \in Jobs : q # j => hilos'[q] = hilos[q] /\ maestro'[q] = maestro[q]
          /\ o.etapa \in EtapasDeHilo => maestro'[j] = maestro[j]
      BY <1>2, <1>3, <1>9 DEF Sigue
    <2>2. \A p \in OpsDe(aMaster'[j], hilos'[j]) : p \in OpsDe(aMaster[j], hilos[j])
      BY <1>9, <2>1 DEF OpsDe
    <2>3. Vivo(j)' => Vivo(j) \/ o.etapa \notin EtapasDeHilo
      BY <2>1 DEF Vivo
    <2> QED  BY <1>5, <1>6, <1>7, <1>8, <1>9, <2>1, <2>2, <2>3, PasoDeMasterSigue
  <1>10. CASE operacionOK(j, o)
    <2>1. PICK f : f = [temp |-> o.temp, bloques |->
                 IF o.etapa = "TRANSFORMACION" THEN {o.bloque} ELSE Contenido(o.entradas)]
      OBVIOUS
    <2>2. archivos' = archivos \cup {f} /\ o.etapa # "ALMACENAMIENTOOP"
      BY <1>10, <2>1 DEF operacionOK
    <2>3. /\ f.temp \in DelJob(tabla, j) /\ ArchivoT(tabla, archivos \cup {f})
          /\ j \in asociados => ArchivoL(tabla, j, archivos \cup {f})
      BY <2>1, <2>2, ArchivoNuevo
    <2>4. "espera_almacen" \in Puntos \ {"inicio"}  BY DEF Puntos
    <2> QED  BY <1>9, <1>10, <2>2, <2>3, <2>4 DEF operacionOK
  <1>11. CASE operacionFalla(j, o)
    <2>1. archivos' = archivos /\ ArchivoT(tabla, archivos)
      BY <1>11 DEF operacionFalla, IInv
    <2>2. {"fallo_global", "fallo_almacen"} \subseteq Puntos \ {"inicio"}  BY DEF Puntos
    <2> QED  BY <1>8, <1>9, <1>11, <2>1, <2>2 DEF operacionFalla
  <1>12. CASE trabajoAlmacenado(j, o)
    <2>1. /\ maestro'[j] = "fin" /\ hilos'[j] = {} /\ aMaster'[j] = <<>> /\ archivos' = archivos
          /\ \A q \in Jobs : q # j => /\ maestro'[q] = maestro[q] /\ hilos'[q] = hilos[q]
                                      /\ aMaster'[q] = aMaster[q]
      BY <1>2, <1>12 DEF trabajoAlmacenado, Sale
    <2>2. ~Vivo(j)'  BY <2>1 DEF Vivo, Salidas
    <2>3. \A p \in OpsDe(aMaster'[j], hilos'[j]) : p \in OpsDe(aMaster[j], hilos[j])
      <3>1. Len(<<>>) = 0 /\ 1..0 = {}  OBVIOUS
      <3> QED  BY <2>1, <3>1 DEF OpsDe
    <2>4. ArchivoT(tabla, archivos')  BY <2>1 DEF IInv
    <2>5. ASSUME j \in asociados PROVE Reparto(<<>>, {}, aYama'[j], EnCurso(tabla, j))
      BY <1>8, <2>5, RepartoPierde
    <2> QED  BY <1>5, <1>6, <1>7, <1>8, <2>1, <2>2, <2>3, <2>4, <2>5, PasoDeMasterSigue
  <1> QED  BY <1>1, <1>10, <1>11, <1>12

LEMMA MasterMuereSigue ==
  ASSUME IInv, Inv', NEW j \in Jobs, MasterMuere(j)
  PROVE  IInv' /\ NoRevive /\ SoloDe(j)
  <1>1. "muerto" \in Salidas  BY DEF Salidas
  <1> QED  BY <1>1, SaleSigue DEF MasterMuere

-----------------------------------------------------------------------------
(* The theorems                                                            *)

LEMMA InicioSigue == Init => IInv
  <1> SUFFICES ASSUME Init PROVE IInv  OBVIOUS
  <1>1. /\ tabla = <<>> /\ asociados = {} /\ yama = "viva" /\ replan = Nulo /\ archivos = {}
        /\ \A j \in Jobs : aYama[j] = <<>> /\ aMaster[j] = <<>> /\ hilos[j] = {}
    BY DEF Init
  <1>2. Len(<<>>) = 0 /\ 1..0 = {}  OBVIOUS
  <1>3. \A j : DelJob(tabla, j) = {}  BY <1>1, <1>2 DEF DelJob
  <1>4. CopiasEscritas(tabla)  BY <1>1, <1>2 DEF CopiasEscritas
  <1>5. ASSUME NEW j \in Jobs PROVE TrabajoOK(j)
    <2>1. UnaSolicitud(j)  BY <1>1, <1>2, <1>3 DEF UnaSolicitud, Nuevo
    <2>2. SinNombre(j)  BY <1>1, <1>2 DEF SinNombre
    <2>3. Fieles(j)  BY <1>1, <1>2 DEF Fieles, OpsDe
    <2> QED  BY <1>1, <2>1, <2>2, <2>3 DEF TrabajoOK
  <1> QED  BY <1>1, <1>4, <1>5, InicioCumple DEF IInv, SinPunteroBasura, ArchivoT, EnReplan

LEMMA PasoSigue == IInv /\ [Next]_vars => IInv' /\ (NoRevive \/ UNCHANGED vars)
  <1> SUFFICES ASSUME IInv, [Next]_vars PROVE IInv' /\ (NoRevive \/ UNCHANGED vars)  OBVIOUS
  <1>1. Inv'  BY PasoCumple DEF IInv
  <1>2. CASE Next
    <2> PICK j \in Jobs :
          ManejarDatos(j) \/ HiloPrincipal(j) \/ HiloDeOperacion(j) \/ MasterMuere(j)
      BY <1>2 DEF Next
    <2> QED  BY <1>1, ManejarDatosSigue, HiloPrincipalSigue, HiloDeOperacionSigue,
                MasterMuereSigue
  <1>3. CASE UNCHANGED vars
    <2>1. UNCHANGED <<tabla, asociados, conectados, copiasLibres, yama, replan, aYama, aMaster,
                      maestro, hilos, archivos>>
      BY <1>3 DEF vars, varsYama, varsMaster
    <2>2. ASSUME NEW j \in Jobs PROVE TrabajoOK(j)'
      <3>1. TrabajoOK(j)  BY DEF IInv
      <3> QED  BY <2>1, <3>1 DEF TrabajoOK, UnaSolicitud, Nuevo, SinNombre, Fieles, Seguimiento,
                                 Vivo
    <2>3. SinPunteroBasura' /\ CopiasEscritas(tabla)' /\ ArchivoT(tabla, archivos)' /\ EnReplan'
      BY <2>1 DEF IInv, SinPunteroBasura, EnReplan
    <2> QED  BY <1>1, <1>3, <2>2, <2>3 DEF IInv
  <1> QED  BY <1>2, <1>3

LEMMA SigueSiempre == Spec => []IInv
  BY InicioSigue, PasoSigue, PTL DEF Spec

\* What IInv says of a job that YAMA follows.
LEMMA DeSeguido ==
  ASSUME IInv, NEW j \in asociados
  PROVE  /\ j \in Jobs /\ tabla \in Seq(Entrada) /\ DOMAIN tabla = 1..Len(tabla)
         /\ Seguimiento(j) /\ Seguido(tabla, j, copiasLibres[j])
         /\ Mapa(tabla, j) \subseteq 1..Len(tabla)
  BY DominioTabla DEF IInv, Inv, EscalaresOK, TrabajoOK, Seguimiento, Mapa, DeEtapa

LEMMA EsUnaVigente == IInv => UnaVigentePorBloque
  <1> SUFFICES ASSUME IInv, NEW j \in asociados, NEW b \in Bloques(j)
               PROVE  \E i \in DOMAIN tabla : Vigentes(j, b) = {i}
    BY DEF UnaVigentePorBloque
  <1>1. Cubre(tabla, j) /\ Unica(tabla, j)  BY DeSeguido DEF Seguido
  <1>2. PICK i \in Mapa(tabla, j) : tabla[i].bloque = b /\ Vigente(tabla, i)  BY <1>1 DEF Cubre
  <1>3. i \in DOMAIN tabla  BY DeSeguido
  <1>4. Vigentes(j, b) = {i}  BY <1>1, <1>2 DEF Vigentes, Vigente, Mapa, Unica
  <1> QED  BY <1>3, <1>4

LEMMA TieneResponsable ==
  ASSUME IInv, NEW j \in Atendidos
  PROVE  /\ EnProceso(j, EtapasDeHilo) = PorLeer(j) \cup EnHilo(j) \cup Contestado(j)
         /\ PorLeer(j) \cap EnHilo(j) = {} /\ PorLeer(j) \cap Contestado(j) = {}
         /\ EnHilo(j) \cap Contestado(j) = {}
         /\ \A k, l \in DOMAIN aYama[j] :
              aYama[j][k].temp = aYama[j][l].temp /\ aYama[j][k].temp # 0 => k = l
  <1> DEFINE E == EnCurso(tabla, j)
  <1>1. /\ j \in Jobs /\ Reparto(aMaster[j], hilos[j], aYama[j], E)
        /\ Completo(aMaster[j], hilos[j], aYama[j], E)
    BY DeSeguido DEF Atendidos, Seguimiento
  <1>2. DOMAIN aYama[j] = 1..Len(aYama[j]) /\ DOMAIN aMaster[j] = 1..Len(aMaster[j])
    BY <1>1, LenProperties DEF IInv, Inv, AYamaOK, AMasterOK
  <1>3. EnProceso(j, EtapasDeHilo) = E  BY DEF EnProceso, EnCurso
  <1>4. \A x : x \in PorLeer(j) <=> \E k \in 1..Len(aMaster[j]) :
                                       \E o \in DeHilo(aMaster[j][k].ops) : o.temp = x
    BY <1>2 DEF PorLeer, DeHilo
  <1>5. \A x : x \in EnHilo(j) <=> \E o \in DeHilo(hilos[j]) : o.temp = x
    BY DEF EnHilo, DeHilo
  <1>6. \A x : x \in Contestado(j) <=> x # 0 /\ \E k \in 1..Len(aYama[j]) : aYama[j][k].temp = x
    BY <1>2 DEF Contestado
  <1>7. 0 \notin E
    BY DominioTabla DEF EnCurso, IInv, Inv
  <1> HIDE DEF E
  <1>8. E = PorLeer(j) \cup EnHilo(j) \cup Contestado(j)
    <2>1. \A x \in E : x \in PorLeer(j) \cup EnHilo(j) \cup Contestado(j)
      BY <1>1, <1>4, <1>5, <1>6, <1>7 DEF Completo
    <2>2. \A x \in PorLeer(j) \cup EnHilo(j) \cup Contestado(j) : x \in E
      BY <1>1, <1>4, <1>5, <1>6 DEF Reparto
    <2> QED  BY <2>1, <2>2
  <1>9. /\ PorLeer(j) \cap EnHilo(j) = {} /\ PorLeer(j) \cap Contestado(j) = {}
        /\ EnHilo(j) \cap Contestado(j) = {}
    BY <1>1, <1>4, <1>5, <1>6 DEF Reparto
  <1>10. \A k, l \in DOMAIN aYama[j] :
           aYama[j][k].temp = aYama[j][l].temp /\ aYama[j][k].temp # 0 => k = l
    BY <1>1, <1>2 DEF Reparto
  <1> QED  BY <1>3, <1>8, <1>9, <1>10

LEMMA EsConResponsable == IInv => EnProcesoConResponsable
  BY TieneResponsable DEF EnProcesoConResponsable

LEMMA EsBarrera == IInv => BarreraGlobal
  <1> SUFFICES ASSUME IInv, NEW j \in Atendidos, NEW g \in DeEtapa(tabla, j, "REDUCGLOBAL")
               PROVE  /\ Cardinality(DeEtapa(tabla, j, "REDUCGLOBAL")) = 1
                      /\ PorLeer(j) = {} /\ EnHilo(j) = {} /\ Contestado(j) = {}
    BY DEF BarreraGlobal
  <1>1. Barrera(tabla, j)  BY DeSeguido DEF Atendidos, Seguido
  <1>2. EnProceso(j, EtapasDeHilo) = {}  BY <1>1 DEF Barrera, EnProceso, EnCurso
  <1>3. DeEtapa(tabla, j, "REDUCGLOBAL") = {g}  BY <1>1 DEF Barrera
  <1> QED  BY <1>2, <1>3, TieneResponsable, FS_Singleton

LEMMA EsSinRepetir == IInv => NingunBloqueDosVeces
  <1> SUFFICES ASSUME IInv, NEW j \in asociados,
                      NEW i \in ReduccionesListas(tabla, j), NEW k \in ReduccionesListas(tabla, j),
                      i # k, NEW b \in Contenido({i}), b \in Contenido({k})
               PROVE  FALSE
    BY DEF NingunBloqueDosVeces
  <1>1. Unica(tabla, j) /\ UnaPorNodo(tabla, j) /\ ArchivoL(tabla, j, archivos)
    BY DeSeguido DEF Seguido, Seguimiento
  <1>2. ASSUME NEW r \in ReduccionesListas(tabla, j), b \in Contenido({r})
        PROVE  \E x \in Hechas(tabla, j, tabla[r].nodo) : tabla[x].bloque = b
    <2>1. PICK a \in archivos : a.temp = r /\ b \in a.bloques  BY <1>2 DEF Contenido
    <2> QED  BY <1>1, <2>1 DEF ArchivoL, ReduccionesListas
  <1>3. PICK x \in Hechas(tabla, j, tabla[i].nodo) : tabla[x].bloque = b  BY <1>2
  <1>4. PICK y \in Hechas(tabla, j, tabla[k].nodo) : tabla[y].bloque = b  BY <1>2
  <1>5. x = y  BY <1>1, <1>3, <1>4 DEF Unica, Hechas, Grupo, Mapa, Vigente
  <1>6. tabla[i].nodo = tabla[k].nodo  BY <1>3, <1>4, <1>5 DEF Hechas, Grupo
  <1> QED  BY <1>1, <1>6 DEF UnaPorNodo

LEMMA EsConCopia == IInv => CopiaEnDiccionario
  <1> SUFFICES ASSUME IInv, NEW j \in asociados, NEW i \in Mapa(tabla, j),
                      tabla[i].estado # "ERRORYAMA", tabla[i].copia # Nulo
               PROVE  TieneCopia(j, tabla[i])
    BY DEF CopiaEnDiccionario, Mapa
  <1>1. ConCopia(tabla, j, copiasLibres[j])  BY DeSeguido DEF Seguido
  <1> QED  BY <1>1 DEF ConCopia, Vigente, TieneCopia

\* replanificar and replanificarFinalizadas neither drop a block nor hand it out twice:
\* a job with a SocketJob has, for each of its blocks, one entry that is not cancelled.
THEOREM UnBloqueUnaEntrada == Spec => []UnaVigentePorBloque
  BY SigueSiempre, EsUnaVigente, PTL

\* While YAMA and a Master live, what tablaEstado has in process is what that Master
\* still has to answer: nothing waits for an answer that nobody will send, and no
\* operation answers twice.
THEOREM NadieEsperaEnVano == Spec => []EnProcesoConResponsable
  BY SigueSiempre, EsConResponsable, PTL

\* reduccionLocalOK orders the global reduction of a job once, and when no other
\* operation of the job is ordered, running or answered and not read.
THEOREM GlobalTrasTodo == Spec => []BarreraGlobal
  BY SigueSiempre, EsBarrera, PTL

\* The local reductions that reduccionGlobal hands to the Worker in charge share no
\* block, however many were replanned, cancelled or done again.
THEOREM NingunoDosVeces == Spec => []NingunBloqueDosVeces
  BY SigueSiempre, EsSinRepetir, PTL

\* The dictionary_remove of replanificar finds the block it looks for.
THEOREM CopiaPresente == Spec => []CopiaEnDiccionario
  BY SigueSiempre, EsConCopia, PTL

\* replanificarFinalizadas never meets a finished reduction, so it never reads the
\* nodoCopia that generarEstado leaves unwritten.
THEOREM PunteroEscrito == Spec => []SinPunteroBasura
  BY SigueSiempre, PTL DEF IInv

\* marcarEstado overwrites any state, and yet no answer that comes late turns a
\* cancelled entry of a followed job into a finished one.
THEOREM CanceladaSigueCancelada == Spec => CanceladaNoRevive
  <1>1. ASSUME IInv, [Next]_vars
        PROVE  [\A i \in DOMAIN tabla :
                  tabla[i].estado = "ERRORYAMA" /\ tabla[i].job \in asociados \cap asociados'
                    => tabla'[i].estado = "ERRORYAMA"]_vars
    BY <1>1, PasoSigue DEF NoRevive
  <1> QED  BY <1>1, SigueSiempre, PTL DEF Spec, CanceladaNoRevive
=============================================================================
