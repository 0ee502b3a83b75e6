-------------------------- MODULE YamaContratoPrueba --------------------------
(***************************************************************************)
(* YAMA implements TrabajoAbstracto: proof for every set of jobs, nodes    *)
(* and copies that each step is a step of the contract of one job, or      *)
(* none.                                                                   *)
(*                                                                         *)
(* A followed job is in the phase that its entries say, and the global     *)
(* reduction and the storage have at most one order, thread or answer in   *)
(* flight (Fin).  A job that was let go is in one of three situations in   *)
(* which no late answer can change its phase (Suelto).                     *)
(***************************************************************************)
EXTENDS YamaTrabajosPrueba

TiposFin == {"REDGLOBALOK", "FALLOREDGLOBAL", "ALMACENAMIENTOOK", "ERRORALMACENAMIENTO"}

\* The operations that no thread of the map does.
DeFin(O) == {o \in O : o.etapa \notin EtapasDeHilo}

Globales(t, j)  == DeEtapa(t, j, "REDUCGLOBAL")
Almacenes(t, j) == DeEtapa(t, j, "ALMACENAMIENTOOP")

\* The stage that is in process after the map, if there is one.
EtapaFin(t, j) ==
  IF Globales(t, j) = {} THEN "NINGUNA"
  ELSE IF Almacenes(t, j) = {} THEN "REDUCGLOBAL" ELSE "ALMACENAMIENTOOP"

(***************************************************************************)
(* Of the orders s, the threads H and the answers a, at most one is about  *)
(* the global reduction or the storage, and it is about stage e.           *)
(***************************************************************************)
Fin(s, H, a, e) ==
  /\ \A k \in 1..Len(s) : \A o \in DeFin(s[k].ops) : e # "NINGUNA" /\ o.etapa = e
  /\ \A o \in DeFin(H) : e # "NINGUNA" /\ o.etapa = e
  /\ \A k \in 1..Len(a) :
       a[k].tipo \in TiposFin => e # "NINGUNA" /\ a[k].tipo \in {AvisoOK(e), AvisoFallo(e)}
  /\ \A k, l \in 1..Len(s) : \A o \in DeFin(s[k].ops), p \in DeFin(s[l].ops) : k = l /\ o = p
  /\ \A o, p \in DeFin(H) : o = p
  /\ \A k, l \in 1..Len(a) : a[k].tipo \in TiposFin /\ a[l].tipo \in TiposFin => k = l
  /\ \A k \in 1..Len(s) : DeFin(s[k].ops) # {} => DeFin(H) = {}
  /\ \A k \in 1..Len(s), l \in 1..Len(a) : DeFin(s[k].ops) # {} => a[l].tipo \notin TiposFin
  /\ \A l \in 1..Len(a) : DeFin(H) # {} => a[l].tipo \notin TiposFin

\* The entries of the phase a followed job is in.
Fase(t, j) ==
  /\ Almacenes(t, j) # {} => Globales(t, j) # {} /\ \A i, k \in Almacenes(t, j) : i = k
  /\ \A i \in Almacenes(t, j) : t[i].estado = "ENPROCESO"
  /\ \A i \in Globales(t, j) :
       t[i].estado = IF Almacenes(t, j) = {} THEN "ENPROCESO" ELSE "FINALIZADO"

EnFase(j) ==
  Fase(tabla, j) /\ Fin(aMaster[j], hilos[j], aYama[j], EtapaFin(tabla, j))

\* YAMA has closed the socket and will never read it again.
Mudo(j) == j \notin conectados /\ aYama[j] = <<>>

\* The Master has nothing left to do nor to say.
Acabado(j) ==
  aYama[j] = <<>> /\ hilos[j] = {} /\ \A k \in 1..Len(aMaster[j]) : aMaster[j][k].ops = {}

\* A local reduction failed and threads of the map may still answer; the Master exits
\* before it reads what those answers make YAMA order.
Cortado(j) ==
  /\ Almacenes(tabla, j) = {} /\ DeFin(hilos[j]) = {}
  /\ \A k \in 1..Len(aYama[j]) : aYama[j][k].tipo \notin TiposFin
  /\ Vivo(j) => \E k \in 1..Len(aMaster[j]) :
                   aMaster[j][k].tipo = "FALLOREDLOCAL" /\ \A l \in 1..k : DeFin(aMaster[j][l].ops) = {}

Suelto(j) == Mudo(j) \/ Acabado(j) \/ Cortado(j)

ReabreConObra == replan # Nulo => EnCurso(tabla, replan.job) # {}

ContratoOK(j) ==
  /\ j \in asociados => EnFase(j)
  /\ j \notin asociados /\ DelJob(tabla, j) # {} => Suelto(j)

CInv == IInv /\ ReabreConObra /\ \A j \in Jobs : ContratoOK(j)

-----------------------------------------------------------------------------
(* What each end of the sockets does to Fin                                *)

LEMMA FinNuevo == Fin(<<>>, {}, <<>>, "NINGUNA")
  <1>1. 1..Len(<<>>) = {} /\ DeFin({}) = {}  BY DEF DeFin
  <1> QED  BY <1>1 DEF Fin

LEMMA FinPierde ==
  ASSUME NEW s, NEW H, NEW a, NEW e, Fin(s, H, a, e), NEW G \in SUBSET H
  PROVE  Fin(s, G, a, e) /\ Fin(<<>>, {}, a, e)
  <1>1. DeFin(G) \subseteq DeFin(H) /\ DeFin({}) = {} /\ 1..Len(<<>>) = {}  BY DEF DeFin
  <1>2. Fin(s, G, a, e)  BY <1>1 DEF Fin
  <1>3. Fin(<<>>, {}, a, e)  BY <1>1 DEF Fin
  <1> QED  BY <1>2, <1>3

\* YAMA reads an answer; the only one about the phase leaves nothing behind.
LEMMA FinLee ==
  ASSUME NEW S, NEW s, NEW H, NEW a \in Seq(S), a # <<>>, NEW e, Fin(s, H, a, e)
  PROVE  /\ Fin(s, H, Tail(a), e)
         /\ Head(a).tipo \in TiposFin =>
              /\ e # "NINGUNA" /\ Head(a).tipo \in {AvisoOK(e), AvisoFallo(e)}
              /\ Fin(s, H, Tail(a), "NINGUNA")
              /\ DeFin(H) = {} /\ \A k \in 1..Len(s) : DeFin(s[k].ops) = {}
              /\ \A k \in 1..Len(Tail(a)) : Tail(a)[k].tipo \notin TiposFin
  <1> DEFINE b == Tail(a)
  <1>1. /\ 1 \in 1..Len(a) /\ Head(a) = a[1]
        /\ \A k \in 1..Len(b) : b[k] = a[k + 1] /\ k + 1 \in 1..Len(a) /\ k + 1 # 1
    BY ColaDe
  <1> HIDE DEF b
  <1>2. \A k, l \in 1..Len(b) : b[k].tipo \in TiposFin /\ b[l].tipo \in TiposFin => k = l
    <2> SUFFICES ASSUME NEW k \in 1..Len(b), NEW l \in 1..Len(b), b[k].tipo \in TiposFin,
                        b[l].tipo \in TiposFin
                 PROVE  k = l
      OBVIOUS
    <2>1. k + 1 \in 1..Len(a) /\ l + 1 \in 1..Len(a) /\ a[k + 1].tipo \in TiposFin
          /\ a[l + 1].tipo \in TiposFin
      BY <1>1
    <2>2. k + 1 = l + 1  BY <2>1 DEF Fin
    <2> QED  BY <2>2
  <1>3. Fin(s, H, b, e)
    <2>1. \A k \in 1..Len(b) : \E l \in 1..Len(a) : b[k] = a[l]  BY <1>1
    <2>2. \A k \in 1..Len(b) :
            b[k].tipo \in TiposFin => e # "NINGUNA" /\ b[k].tipo \in {AvisoOK(e), AvisoFallo(e)}
      BY <2>1 DEF Fin
    <2>3. \A k \in 1..Len(s), l \in 1..Len(b) : DeFin(s[k].ops) # {} => b[l].tipo \notin TiposFin
      BY <2>1 DEF Fin
    <2>4. \A l \in 1..Len(b) : DeFin(H) # {} => b[l].tipo \notin TiposFin
      BY <2>1 DEF Fin
    <2> QED  BY <1>2, <2>2, <2>3, <2>4 DEF Fin
  <1>4. ASSUME Head(a).tipo \in TiposFin
        PROVE  /\ e # "NINGUNA" /\ Head(a).tipo \in {AvisoOK(e), AvisoFallo(e)}
               /\ Fin(s, H, b, "NINGUNA")
               /\ DeFin(H) = {} /\ \A k \in 1..Len(s) : DeFin(s[k].ops) = {}
               /\ \A k \in 1..Len(b) : b[k].tipo \notin TiposFin
    <2>1. DeFin(H) = {} /\ \A k \in 1..Len(s) : DeFin(s[k].ops) = {}  BY <1>1, <1>4 DEF Fin
    <2>2. \A k \in 1..Len(b) : b[k].tipo \notin TiposFin
      <3> SUFFICES ASSUME NEW k \in 1..Len(b), b[k].tipo \in TiposFin PROVE FALSE  OBVIOUS
      <3>1. k + 1 \in 1..Len(a) /\ a[k + 1].tipo \in TiposFin /\ k + 1 # 1  BY <1>1
      <3> QED  BY <1>1, <1>4, <3>1 DEF Fin
    <2>3. e # "NINGUNA" /\ Head(a).tipo \in {AvisoOK(e), AvisoFallo(e)}  BY <1>1, <1>4 DEF Fin
    <2>4. Fin(s, H, b, "NINGUNA")  BY <2>1, <2>2 DEF Fin
    <2> QED  BY <2>1, <2>2, <2>3, <2>4
  <1> QED  BY <1>3, <1>4 DEF b

\* YAMA sends an order that is not about the phase, or the first one that is.
LEMMA FinManda ==
  ASSUME NEW S, NEW s \in Seq(S), NEW H, NEW a, NEW e, NEW f, NEW m, Fin(s, H, a, e),
         \/ DeFin(m.ops) = {} /\ f = e
         \/ e = "NINGUNA" /\ f # "NINGUNA" /\ \E o : DeFin(m.ops) = {o} /\ o.etapa = f
  PROVE  Fin(Append(s, m), H, a, f)
  <1> DEFINE u == Append(s, m)
  <1>1. \A k \in 1..Len(u) : (k = Len(s) + 1 /\ u[k] = m) \/ (k \in 1..Len(s) /\ u[k] = s[k])
    BY AlFinalDe
  <1> HIDE DEF u
  <1>2. CASE DeFin(m.ops) = {} /\ f = e
    <2>1. \A k \in 1..Len(u) : \A o \in DeFin(u[k].ops) : k \in 1..Len(s) /\ o \in DeFin(s[k].ops)
      BY <1>1, <1>2
    <2>2. \A k \in 1..Len(u) : DeFin(u[k].ops) # {} => k \in 1..Len(s) /\ DeFin(s[k].ops) # {}
      BY <2>1
    <2>3. \A k \in 1..Len(u) : \A o \in DeFin(u[k].ops) : e # "NINGUNA" /\ o.etapa = e
      BY <2>1 DEF Fin
    <2>4. \A k, l \in 1..Len(u) : \A o \in DeFin(u[k].ops), p \in DeFin(u[l].ops) : k = l /\ o = p
      <3>1. \A k, l \in 1..Len(s) : \A o \in DeFin(s[k].ops), p \in DeFin(s[l].ops) : k = l /\ o = p
        BY DEF Fin
      <3>2. ASSUME NEW k \in 1..Len(u), NEW l \in 1..Len(u), NEW o \in DeFin(u[k].ops),
                   NEW p \in DeFin(u[l].ops)
            PROVE  k = l /\ o = p
        <4>1. k \in 1..Len(s) /\ o \in DeFin(s[k].ops)  BY <2>1
        <4>2. l \in 1..Len(s) /\ p \in DeFin(s[l].ops)  BY <2>1
        <4> QED  BY <3>1, <4>1, <4>2
      <3> QED  BY <3>2
    <2>5. \A k \in 1..Len(u) : DeFin(u[k].ops) # {} =>
            DeFin(H) = {} /\ \A l \in 1..Len(a) : a[l].tipo \notin TiposFin
      BY <2>2 DEF Fin
    <2>6. Fin(u, H, a, e)
      <3>1. /\ \A o \in DeFin(H) : e # "NINGUNA" /\ o.etapa = e
            /\ \A k \in 1..Len(a) :
                 a[k].tipo \in TiposFin => e # "NINGUNA" /\ a[k].tipo \in {AvisoOK(e), AvisoFallo(e)}
            /\ \A o, p \in DeFin(H) : o = p
            /\ \A k, l \in 1..Len(a) : a[k].tipo \in TiposFin /\ a[l].tipo \in TiposFin => k = l
            /\ \A l \in 1..Len(a) : DeFin(H) # {} => a[l].tipo \notin TiposFin
        BY DEF Fin
      <3> QED  BY <2>3, <2>4, <2>5, <3>1 DEF Fin
    <2> QED  BY <1>2, <2>6 DEF u
  <1>3. ASSUME e = "NINGUNA", f # "NINGUNA", NEW o, DeFin(m.ops) = {o}, o.etapa = f
        PROVE  Fin(u, H, a, f)
    <2>1. /\ \A k \in 1..Len(s) : DeFin(s[k].ops) = {}
          /\ DeFin(H) = {} /\ \A k \in 1..Len(a) : a[k].tipo \notin TiposFin
      BY <1>3 DEF Fin
    <2>2. \A k \in 1..Len(u) : DeFin(u[k].ops) = {} \/ (k = Len(s) + 1 /\ DeFin(u[k].ops) = {o})
      BY <1>1, <1>3, <2>1
    <2> QED  BY <1>3, <2>1, <2>2 DEF Fin
  <1> QED  BY <1>2, <1>3 DEF u

\* The main thread of the Master starts what the first order says.
LEMMA FinLanza ==
  ASSUME NEW S, NEW s \in Seq(S), s # <<>>, NEW H, NEW a, NEW e, Fin(s, H, a, e)
  PROVE  Fin(Tail(s), H \cup Head(s).ops, a, e)
  <1> DEFINE u == Tail(s)
             G == H \cup Head(s).ops
  <1>1. /\ 1 \in 1..Len(s) /\ Head(s) = s[1]
        /\ \A k \in 1..Len(u) : u[k] = s[k + 1] /\ k + 1 \in 1..Len(s) /\ k + 1 # 1
    BY ColaDe
  <1>2. \A o : o \in DeFin(G) <=> o \in DeFin(H) \/ o \in DeFin(s[1].ops)
    BY <1>1 DEF DeFin
  <1> HIDE DEF u, G
  <1>3. \A k \in 1..Len(u) : \E l \in 1..Len(s) : u[k] = s[l] /\ l # 1  BY <1>1
  <1>4. /\ \A k \in 1..Len(u) : \A o \in DeFin(u[k].ops) : e # "NINGUNA" /\ o.etapa = e
        /\ \A o \in DeFin(G) : e # "NINGUNA" /\ o.etapa = e
    BY <1>1, <1>2, <1>3 DEF Fin
  <1>5. \A k, l \in 1..Len(u) : \A o \in DeFin(u[k].ops), p \in DeFin(u[l].ops) : k = l /\ o = p
    <2> SUFFICES ASSUME NEW k \in 1..Len(u), NEW l \in 1..Len(u), NEW o \in DeFin(u[k].ops),
                        NEW p \in DeFin(u[l].ops)
                 PROVE  k = l /\ o = p
      OBVIOUS
    <2>1. /\ k + 1 \in 1..Len(s) /\ l + 1 \in 1..Len(s)
          /\ o \in DeFin(s[k + 1].ops) /\ p \in DeFin(s[l + 1].ops)
      BY <1>1
    <2>2. \A x, y \in 1..Len(s) : \A v \in DeFin(s[x].ops), w \in DeFin(s[y].ops) : x = y /\ v = w
      BY DEF Fin
    <2>3. k + 1 = l + 1 /\ o = p  BY <2>1, <2>2
    <2> QED  BY <2>3
  <1>6. \A o, p \in DeFin(G) : o = p
    <2> SUFFICES ASSUME NEW o \in DeFin(G), NEW p \in DeFin(G) PROVE o = p  OBVIOUS
    <2>1. CASE DeFin(s[1].ops) = {}  BY <1>2, <2>1 DEF Fin
    <2>2. CASE DeFin(s[1].ops) # {}
      <3>1. DeFin(H) = {}  BY <1>1, <2>2 DEF Fin
      <3>2. o \in DeFin(s[1].ops) /\ p \in DeFin(s[1].ops)  BY <1>2, <3>1
      <3>3. \A x, y \in 1..Len(s) : \A v \in DeFin(s[x].ops), w \in DeFin(s[y].ops) : v = w
        BY DEF Fin
      <3> QED  BY <1>1, <3>2, <3>3
    <2> QED  BY <2>1, <2>2
  <1>7. \A k \in 1..Len(u) : DeFin(u[k].ops) # {} => DeFin(G) = {}
    <2> SUFFICES ASSUME NEW k \in 1..Len(u), NEW p \in DeFin(u[k].ops), NEW o \in DeFin(G)
                 PROVE  FALSE
      OBVIOUS
    <2>1. k + 1 \in 1..Len(s) /\ k + 1 # 1 /\ p \in DeFin(s[k + 1].ops)  BY <1>1
    <2>2. o \notin DeFin(H)  BY <2>1 DEF Fin
    <2>3. o \in DeFin(s[1].ops)  BY <1>2, <2>2
    <2> QED  BY <1>1, <2>1, <2>3 DEF Fin
  <1>8. \A k \in 1..Len(u), l \in 1..Len(a) : DeFin(u[k].ops) # {} => a[l].tipo \notin TiposFin
    BY <1>3 DEF Fin
  <1>9. \A l \in 1..Len(a) : DeFin(G) # {} => a[l].tipo \notin TiposFin
    BY <1>1, <1>2 DEF Fin
  <1>10. \A k \in 1..Len(a) :
           a[k].tipo \in TiposFin => e # "NINGUNA" /\ a[k].tipo \in {AvisoOK(e), AvisoFallo(e)}
    BY DEF Fin
  <1>11. \A k, l \in 1..Len(a) : a[k].tipo \in TiposFin /\ a[l].tipo \in TiposFin => k = l
    BY DEF Fin
  <1>12. Fin(u, G, a, e)
    BY <1>4, <1>5, <1>6, <1>7, <1>8, <1>9, <1>10, <1>11 DEF Fin
  <1> QED  BY <1>12 DEF u, G

\* A thread answers for its operation.
LEMMA FinContesta ==
  ASSUME NEW S, NEW a \in Seq(S), NEW s, NEW H, NEW e, Fin(s, H, a, e), NEW o \in H, NEW m,
         m.tipo \in TiposFin =>
           o.etapa \notin EtapasDeHilo /\ m.tipo \in {AvisoOK(o.etapa), AvisoFallo(o.etapa)}
  PROVE  Fin(s, H \ {o}, Append(a, m), e)
  <1> DEFINE b == Append(a, m)
             G == H \ {o}
  <1>1. \A k \in 1..Len(b) : (k = Len(a) + 1 /\ b[k] = m) \/ (k \in 1..Len(a) /\ b[k] = a[k])
    BY AlFinalDe
  <1>2. Fin(s, G, a, e)  BY FinPierde
  <1>3. CASE m.tipo \notin TiposFin
    <2> HIDE DEF b, G
    <2>1. \A k \in 1..Len(b) : b[k].tipo \notin TiposFin \/ (k \in 1..Len(a) /\ b[k] = a[k])
      BY <1>1, <1>3
    <2>2. Fin(s, G, b, e)  BY <1>2, <2>1 DEF Fin
    <2> QED  BY <2>2 DEF b, G
  <1>4. CASE m.tipo \in TiposFin
    <2>1. o \in DeFin(H)  BY <1>4 DEF DeFin
    <2>2. e # "NINGUNA" /\ o.etapa = e /\ DeFin(G) = {}
      <3>1. e # "NINGUNA" /\ o.etapa = e /\ \A p \in DeFin(H) : p = o  BY <2>1 DEF Fin
      <3> QED  BY <3>1 DEF DeFin
    <2>3. /\ \A k \in 1..Len(s) : DeFin(s[k].ops) = {}
          /\ \A k \in 1..Len(a) : a[k].tipo \notin TiposFin
      BY <2>1 DEF Fin
    <2> HIDE DEF b, G
    <2>4. \A k \in 1..Len(b) : b[k].tipo \notin TiposFin \/ (k = Len(a) + 1 /\ b[k] = m)
      BY <1>1, <2>3
    <2>5. Fin(s, G, b, e)  BY <1>4, <2>2, <2>3, <2>4 DEF Fin
    <2> QED  BY <2>5 DEF b, G
  <1> QED  BY <1>3, <1>4

-----------------------------------------------------------------------------
(* The phase of a job and the operations under way, on table t             *)

FaseEn(t, j, A) ==
  CASE DelJob(t, j) = {} -> "nuevo"
    [] j \in A /\ Almacenes(t, j) # {} -> "almacen"
    [] j \in A /\ Almacenes(t, j) = {} -> IF Globales(t, j) # {} THEN "global" ELSE "mapa"
    [] OTHER -> IF \E i \in Almacenes(t, j) : t[i].estado = "FINALIZADO" THEN "hecho" ELSE "dejado"

ObraEn(t, j, A) ==
  IF j \in A THEN {i \in DelJob(t, j) : t[i].etapa \in Etapas /\ t[i].estado = "ENPROCESO"} ELSE {}

LEMMA FaseYObra ==
  ASSUME NEW j \in Jobs
  PROVE  FaseYama[j] = FaseEn(tabla, j, asociados) /\ ObraYama[j] = ObraEn(tabla, j, asociados)
  <1>1. FaseDe(j) = FaseEn(tabla, j, asociados)  BY DEF FaseDe, FaseEn, Globales, Almacenes
  <1> QED  BY <1>1 DEF FaseYama, ObraYama, ObraEn, EnProceso

LEMMA EtapasDe ==
  ASSUME NEW t \in Seq(Entrada), NEW j, NEW i \in DelJob(t, j)
  PROVE  /\ t[i].etapa \in Etapas
         /\ t[i].etapa \in EtapasDeHilo \/ i \in Globales(t, j) \/ i \in Almacenes(t, j)
  BY DominioTabla DEF Entrada, Etapas, EtapasDeHilo, Globales, Almacenes, DeEtapa

LEMMA EnMapa ==
  ASSUME NEW t \in Seq(Entrada), NEW A, NEW j \in A, DelJob(t, j) # {},
         Globales(t, j) = {}, Almacenes(t, j) = {}
  PROVE  /\ FaseEn(t, j, A) = "mapa" /\ ObraEn(t, j, A) = EnCurso(t, j)
         /\ EtapaFin(t, j) = "NINGUNA"
  <1>1. ObraEn(t, j, A) = EnCurso(t, j)  BY EtapasDe DEF ObraEn, EnCurso
  <1> QED  BY <1>1 DEF FaseEn, EtapaFin

LEMMA EnGlobal ==
  ASSUME NEW t \in Seq(Entrada), NEW A, NEW j \in A, EnCurso(t, j) = {},
         NEW g, Globales(t, j) = {g}, t[g].estado = "ENPROCESO", Almacenes(t, j) = {}
  PROVE  /\ FaseEn(t, j, A) = "global" /\ ObraEn(t, j, A) = {g}
         /\ EtapaFin(t, j) = "REDUCGLOBAL" /\ DelJob(t, j) # {}
  <1>1. g \in DelJob(t, j)  BY DEF Globales, DeEtapa
  <1>2. ObraEn(t, j, A) = {g}  BY <1>1, EtapasDe DEF ObraEn, EnCurso
  <1> QED  BY <1>1, <1>2 DEF FaseEn, EtapaFin

LEMMA EnAlmacen ==
  ASSUME NEW t \in Seq(Entrada), NEW A, NEW j \in A, EnCurso(t, j) = {}, Globales(t, j) # {},
         \A i \in Globales(t, j) : t[i].estado = "FINALIZADO",
         NEW a, Almacenes(t, j) = {a}, t[a].estado = "ENPROCESO"
  PROVE  /\ FaseEn(t, j, A) = "almacen" /\ ObraEn(t, j, A) = {a}
         /\ EtapaFin(t, j) = "ALMACENAMIENTOOP" /\ DelJob(t, j) # {}
  <1>1. a \in DelJob(t, j)  BY DEF Almacenes, DeEtapa
  <1>2. ObraEn(t, j, A) = {a}  BY <1>1, EtapasDe DEF ObraEn, EnCurso
  <1> QED  BY <1>1, <1>2 DEF FaseEn, EtapaFin

LEMMA Fuera ==
  ASSUME NEW t, NEW A, NEW j, j \notin A
  PROVE  /\ ObraEn(t, j, A) = {}
         /\ FaseEn(t, j, A) =
              IF DelJob(t, j) = {} THEN "nuevo"
              ELSE IF \E i \in Almacenes(t, j) : t[i].estado = "FINALIZADO" THEN "hecho" ELSE "dejado"
  BY DEF ObraEn, FaseEn

\* The three situations of a followed job.
EstaEnMapa(t, j, A) ==
  /\ Globales(t, j) = {} /\ Almacenes(t, j) = {}
  /\ FaseEn(t, j, A) = "mapa" /\ ObraEn(t, j, A) = EnCurso(t, j) /\ EtapaFin(t, j) = "NINGUNA"
EstaEnGlobal(t, j, A) ==
  /\ EnCurso(t, j) = {} /\ Almacenes(t, j) = {} /\ EtapaFin(t, j) = "REDUCGLOBAL"
  /\ \E g : /\ Globales(t, j) = {g} /\ t[g].estado = "ENPROCESO"
            /\ FaseEn(t, j, A) = "global" /\ ObraEn(t, j, A) = {g}
EstaEnAlmacen(t, j, A) ==
  /\ EnCurso(t, j) = {} /\ EtapaFin(t, j) = "ALMACENAMIENTOOP"
  /\ \E a : /\ Almacenes(t, j) = {a} /\ t[a].estado = "ENPROCESO"
            /\ FaseEn(t, j, A) = "almacen" /\ ObraEn(t, j, A) = {a}

LEMMA TieneEntradas ==
  ASSUME NEW j \in Jobs, NEW t, NEW C, Seguido(t, j, C)
  PROVE  DelJob(t, j) # {}
  <1>1. Len(Copias[j]) \in Nat /\ DOMAIN Copias[j] = 1..Len(Copias[j]) /\ Len(Copias[j]) # 0
    <2>1. Copias[j] \in Seq((SUBSET Nodos) \ {{}}) /\ Copias[j] # <<>>  BY SupuestoTabla
    <2> QED  BY <2>1, LenProperties, EmptySeq
  <1>2. 1 \in Bloques(j)  BY <1>1 DEF Bloques
  <1> QED  BY <1>2 DEF Seguido, Cubre, Mapa, DeEtapa

LEMMA Situaciones ==
  ASSUME NEW j \in Jobs, NEW t \in Seq(Entrada), NEW C, Seguido(t, j, C), Fase(t, j), NEW A, j \in A
  PROVE  EstaEnMapa(t, j, A) \/ EstaEnGlobal(t, j, A) \/ EstaEnAlmacen(t, j, A)
  <1>1. DelJob(t, j) # {}  BY TieneEntradas
  <1>2. Barrera(t, j)  BY DEF Seguido
  <1>3. CASE Globales(t, j) = {}
    <2>1. Almacenes(t, j) = {}  BY <1>3 DEF Fase
    <2> QED  BY <1>1, <1>3, <2>1, EnMapa DEF EstaEnMapa
  <1>4. ASSUME NEW g \in Globales(t, j)
        PROVE  EstaEnGlobal(t, j, A) \/ EstaEnAlmacen(t, j, A)
    <2>1. EnCurso(t, j) = {} /\ Globales(t, j) = {g}  BY <1>2 DEF Barrera, Globales
    <2>2. CASE Almacenes(t, j) = {}
      <3>1. t[g].estado = "ENPROCESO"  BY <2>2 DEF Fase
      <3>2. /\ FaseEn(t, j, A) = "global" /\ ObraEn(t, j, A) = {g}
            /\ EtapaFin(t, j) = "REDUCGLOBAL"
        BY <2>1, <2>2, <3>1, EnGlobal
      <3> QED  BY <2>1, <2>2, <3>1, <3>2 DEF EstaEnGlobal
    <2>3. ASSUME NEW a \in Almacenes(t, j) PROVE EstaEnAlmacen(t, j, A)
      <3>1. Almacenes(t, j) = {a} /\ t[a].estado = "ENPROCESO"  BY DEF Fase
      <3>2. Globales(t, j) # {} /\ \A i \in Globales(t, j) : t[i].estado = "FINALIZADO"
        BY <2>1, <3>1 DEF Fase
      <3>3. /\ FaseEn(t, j, A) = "almacen" /\ ObraEn(t, j, A) = {a}
            /\ EtapaFin(t, j) = "ALMACENAMIENTOOP"
        <4>1. /\ Globales(t, j) # {} /\ Almacenes(t, j) = {a} /\ t[a].estado = "ENPROCESO"
              /\ EnCurso(t, j) = {} /\ \A i \in Globales(t, j) : t[i].estado = "FINALIZADO"
          BY <2>1, <3>1, <3>2
        <4> QED  BY <4>1, EnAlmacen
      <3> QED  BY <2>1, <3>1, <3>3 DEF EstaEnAlmacen
    <2> QED  BY <2>2, <2>3
  <1> QED  BY <1>3, <1>4

-----------------------------------------------------------------------------
(* A step of the contract of one job                                       *)

\* From phase f with operations O to phase g with operations P, or nothing.
PasoAbs(f, O, g, P) ==
  \/ g = f /\ P = O
  \/ f = "nuevo" /\ g = "mapa" /\ P # {}
  \/ /\ f = "mapa" /\ g = "mapa"
     /\ \E o \in O : \E N \in {{}} \cup {{n} : n \in P \ O} : P = (O \ {o}) \cup N
  \/ f = "mapa" /\ g = "mapa" /\ O # {} /\ \E n \in P \ O : P = O \cup {n}
  \/ f = "mapa" /\ g = "global" /\ \E o \in O, n \in P : o # n /\ O = {o} /\ P = {n}
  \/ f = "global" /\ g = "almacen" /\ \E o \in O, n \in P : o # n /\ O = {o} /\ P = {n}
  \/ f = "almacen" /\ g = "hecho" /\ P = {}
  \/ f \in {"mapa", "global", "almacen"} /\ g = "dejado" /\ P = {}

PasoDe(j) == PasoAbs(FaseEn(tabla, j, asociados), ObraEn(tabla, j, asociados),
                     FaseEn(tabla', j, asociados'), ObraEn(tabla', j, asociados'))

\* What is to be shown of each action of job j.
Cumple(j) == ReabreConObra' /\ ContratoOK(j)' /\ PasoDe(j)

LEMMA FilasIguales ==
  ASSUME NEW t, NEW u, NEW q, Ajena(t, u, q), NEW A, NEW B, q \in B <=> q \in A
  PROVE  /\ DelJob(u, q) = DelJob(t, q) /\ EnCurso(u, q) = EnCurso(t, q)
         /\ Globales(u, q) = Globales(t, q) /\ Almacenes(u, q) = Almacenes(t, q)
         /\ EtapaFin(u, q) = EtapaFin(t, q) /\ (Fase(t, q) => Fase(u, q))
         /\ FaseEn(u, q, B) = FaseEn(t, q, A) /\ ObraEn(u, q, B) = ObraEn(t, q, A)
  <1>1. /\ DelJob(u, q) = DelJob(t, q) /\ \A i \in DelJob(t, q) : u[i] = t[i]
    BY DEF Ajena
  <1>2. \A e : DeEtapa(u, q, e) = DeEtapa(t, q, e)  BY <1>1 DEF DeEtapa
  <1>3. Globales(u, q) = Globales(t, q) /\ Almacenes(u, q) = Almacenes(t, q)
    BY <1>2 DEF Globales, Almacenes
  <1>4. \A i \in Globales(t, q) \cup Almacenes(t, q) : u[i] = t[i]
    BY <1>1 DEF Globales, Almacenes, DeEtapa
  <1>5. EtapaFin(u, q) = EtapaFin(t, q) /\ (Fase(t, q) => Fase(u, q))
    BY <1>3, <1>4 DEF EtapaFin, Fase
  <1>6. FaseEn(u, q, B) = FaseEn(t, q, A)  BY <1>1, <1>3, <1>4 DEF FaseEn
  <1>7. ObraEn(u, q, B) = ObraEn(t, q, A) /\ EnCurso(u, q) = EnCurso(t, q)
    BY <1>1 DEF ObraEn, EnCurso
  <1> QED  BY <1>1, <1>3, <1>5, <1>6, <1>7

LEMMA AjenoIgual ==
  ASSUME NEW j \in Jobs, SoloDe(j), NEW q \in Jobs, q # j, ContratoOK(q)
  PROVE  /\ ContratoOK(q)'
         /\ FaseEn(tabla', q, asociados') = FaseEn(tabla, q, asociados)
         /\ ObraEn(tabla', q, asociados') = ObraEn(tabla, q, asociados)
  <1>1. /\ Ajena(tabla, tabla', q)
        /\ q \in asociados' <=> q \in asociados
        /\ q \in conectados' <=> q \in conectados
        /\ aYama'[q] = aYama[q] /\ aMaster'[q] = aMaster[q]
        /\ maestro'[q] = maestro[q] /\ hilos'[q] = hilos[q]
    BY DEF SoloDe
  <1>2. /\ DelJob(tabla', q) = DelJob(tabla, q) /\ Almacenes(tabla', q) = Almacenes(tabla, q)
        /\ EtapaFin(tabla', q) = EtapaFin(tabla, q) /\ (Fase(tabla, q) => Fase(tabla', q))
        /\ FaseEn(tabla', q, asociados') = FaseEn(tabla, q, asociados)
        /\ ObraEn(tabla', q, asociados') = ObraEn(tabla, q, asociados)
    BY <1>1, FilasIguales
  <1>3. EnFase(q) => EnFase(q)'  BY <1>1, <1>2 DEF EnFase
  <1>4. Suelto(q) => Suelto(q)'
    BY <1>1, <1>2 DEF Suelto, Mudo, Acabado, Cortado, Vivo
  <1> QED  BY <1>1, <1>2, <1>3, <1>4 DEF ContratoOK

\* A step of job j that keeps its promise is one step of the contract, or none.
LEMMA PasoCumpleContrato ==
  ASSUME CInv, IInv', NEW j \in Jobs, SoloDe(j), Cumple(j)
  PROVE  CInv' /\ [Contrato!AbsNext]_<<FaseYama, ObraYama>>
  <1>1. \A q \in Jobs : q # j =>
          /\ ContratoOK(q)'
          /\ FaseEn(tabla', q, asociados') = FaseEn(tabla, q, asociados)
          /\ ObraEn(tabla', q, asociados') = ObraEn(tabla, q, asociados)
    BY AjenoIgual DEF CInv
  <1>2. CInv'  BY <1>1 DEF CInv, Cumple
  <1>3. ASSUME NEW q \in Jobs
        PROVE  FaseYama'[q] = FaseEn(tabla', q, asociados') /\ ObraYama'[q] = ObraEn(tabla', q, asociados')
    <2>1. FaseYama'[q] = FaseEn(tabla', q, asociados')
      BY DEF FaseYama, FaseDe, FaseEn, Globales, Almacenes
    <2>2. ObraYama'[q] = ObraEn(tabla', q, asociados')
      BY DEF ObraYama, EnProceso, ObraEn
    <2> QED  BY <2>1, <2>2
  <1>4. /\ FaseYama = [q \in Jobs |-> FaseYama[q]] /\ ObraYama = [q \in Jobs |-> ObraYama[q]]
        /\ FaseYama' = [q \in Jobs |-> FaseYama'[q]] /\ ObraYama' = [q \in Jobs |-> ObraYama'[q]]
    <2>1. FaseYama = [q \in Jobs |-> FaseYama[q]]  BY DEF FaseYama, FaseDe
    <2>2. FaseYama' = [q \in Jobs |-> FaseYama'[q]]  BY DEF FaseYama, FaseDe
    <2>3. ObraYama = [q \in Jobs |-> ObraYama[q]]  BY DEF ObraYama, EnProceso
    <2>4. ObraYama' = [q \in Jobs |-> ObraYama'[q]]  BY DEF ObraYama, EnProceso
    <2> QED  BY <2>1, <2>2, <2>3, <2>4
  <1> PICK f, o, g, p : f = FaseYama /\ o = ObraYama /\ g = FaseYama' /\ p = ObraYama'  OBVIOUS
  <1>5. /\ f = [q \in Jobs |-> f[q]] /\ o = [q \in Jobs |-> o[q]]
        /\ g = [q \in Jobs |-> g[q]] /\ p = [q \in Jobs |-> p[q]]
    BY <1>4
  <1>6. \A q \in Jobs : /\ f[q] = FaseEn(tabla, q, asociados) /\ o[q] = ObraEn(tabla, q, asociados)
                        /\ g[q] = FaseEn(tabla', q, asociados') /\ p[q] = ObraEn(tabla', q, asociados')
    BY <1>3, FaseYObra
  <1>7. \A q \in Jobs : q # j => g[q] = f[q] /\ p[q] = o[q]  BY <1>1, <1>6
  <1>8. g = [f EXCEPT ![j] = g[j]] /\ p = [o EXCEPT ![j] = p[j]]  BY <1>5, <1>7
  <1>9. PasoAbs(f[j], o[j], g[j], p[j])  BY <1>6 DEF Cumple, PasoDe
  <1>10. (g = f /\ p = o) \/ Contrato!AbsNext
    <2> USE DEF Contrato!AbsNext, Contrato!Pasa
    <2>1. CASE g[j] = f[j] /\ p[j] = o[j]  BY <1>5, <1>8, <2>1
    <2>2. CASE f[j] = "nuevo" /\ g[j] = "mapa" /\ p[j] # {}
      BY <1>8, <2>2 DEF Contrato!Aceptar
    <2>3. ASSUME f[j] = "mapa", g[j] = "mapa",
                 NEW x \in o[j], NEW N \in {{}} \cup {{n} : n \in p[j] \ o[j]}, p[j] = (o[j] \ {x}) \cup N
          PROVE  Contrato!AbsNext
      <3>1. Contrato!Pasa(j, "mapa", (o[j] \ {x}) \cup N)  BY <1>8, <2>3
      <3>2. Contrato!Avanzar(j)  BY <2>3, <3>1 DEF Contrato!Avanzar
      <3> QED  BY <3>2
    <2>4. CASE f[j] = "mapa" /\ g[j] = "mapa" /\ o[j] # {} /\ \E n \in p[j] \ o[j] : p[j] = o[j] \cup {n}
      BY <1>8, <2>4 DEF Contrato!Reabrir
    <2>5. CASE f[j] = "mapa" /\ g[j] = "global" /\ \E x \in o[j], n \in p[j] : x # n /\ o[j] = {x} /\ p[j] = {n}
      BY <1>8, <2>5 DEF Contrato!Siguiente
    <2>6. CASE f[j] = "global" /\ g[j] = "almacen" /\ \E x \in o[j], n \in p[j] : x # n /\ o[j] = {x} /\ p[j] = {n}
      BY <1>8, <2>6 DEF Contrato!Siguiente
    <2>7. CASE f[j] = "almacen" /\ g[j] = "hecho" /\ p[j] = {}
      BY <1>8, <2>7 DEF Contrato!Completar
    <2>8. CASE f[j] \in {"mapa", "global", "almacen"} /\ g[j] = "dejado" /\ p[j] = {}
      BY <1>8, <2>8 DEF Contrato!Dejar
    <2> QED  BY <1>9, <2>1, <2>2, <2>3, <2>4, <2>5, <2>6, <2>7, <2>8 DEF PasoAbs
  <1> QED  BY <1>2, <1>10

-----------------------------------------------------------------------------
(* The shapes of the steps of YAMA on its table                            *)

\* Nothing happens to the job.
LEMMA SinPaso ==
  ASSUME NEW j, Ajena(tabla, tabla', j), j \in asociados' <=> j \in asociados
  PROVE  PasoDe(j)
  <1>1. /\ FaseEn(tabla', j, asociados') = FaseEn(tabla, j, asociados)
        /\ ObraEn(tabla', j, asociados') = ObraEn(tabla, j, asociados)
    BY FilasIguales
  <1> QED  BY <1>1 DEF PasoDe, PasoAbs

LEMMA SituacionDe ==
  ASSUME CInv, NEW j \in Jobs, j \in asociados
  PROVE  /\ Seguido(tabla, j, copiasLibres[j]) /\ Fase(tabla, j) /\ DelJob(tabla, j) # {}
         /\ Fin(aMaster[j], hilos[j], aYama[j], EtapaFin(tabla, j))
         /\ \/ EstaEnMapa(tabla, j, asociados) \/ EstaEnGlobal(tabla, j, asociados)
            \/ EstaEnAlmacen(tabla, j, asociados)
  <1>1. Seguido(tabla, j, copiasLibres[j]) /\ tabla \in Seq(Entrada)
    BY DEF CInv, IInv, Inv, TrabajoOK, Seguimiento
  <1>2. Fase(tabla, j) /\ Fin(aMaster[j], hilos[j], aYama[j], EtapaFin(tabla, j))
    BY DEF CInv, ContratoOK, EnFase
  <1> QED  BY <1>1, <1>2, Situaciones, TieneEntradas

\* YAMA lets the job go; it is done only if the entry of the storage is finished.
LEMMA DejaCumple ==
  ASSUME CInv, NEW j \in Jobs, j \in asociados, j \notin asociados', Conserva(tabla, tabla'),
         Almacenes(tabla', j) \subseteq Almacenes(tabla, j), Suelto(j)'
  PROVE  ContratoOK(j)' /\ PasoDe(j)
  <1>1. DelJob(tabla', j) # {}
    <2>1. PICK i : i \in DelJob(tabla, j)  BY SituacionDe
    <2>2. tabla \in Seq(Entrada) /\ tabla' \in Seq(Entrada)
      BY DEF CInv, IInv, Inv, Conserva
    <2>3. i \in 1..Len(tabla) /\ tabla[i].job = j /\ Len(tabla) \in Nat /\ Len(tabla') \in Nat
          /\ DOMAIN tabla' = 1..Len(tabla')
      BY <2>1, <2>2, DominioTabla DEF DelJob
    <2>4. i \in DelJob(tabla', j)  BY <2>3 DEF Conserva, MismaFila, DelJob
    <2> QED  BY <2>4
  <1>2. /\ ObraEn(tabla', j, asociados') = {}
        /\ FaseEn(tabla', j, asociados') \in {"hecho", "dejado"}
        /\ FaseEn(tabla', j, asociados') = "hecho" => Almacenes(tabla', j) # {}
    BY <1>1, Fuera
  <1>3. FaseEn(tabla, j, asociados) \in {"mapa", "global", "almacen"}
    BY SituacionDe DEF EstaEnMapa, EstaEnGlobal, EstaEnAlmacen
  <1>4. FaseEn(tabla', j, asociados') = "hecho" => FaseEn(tabla, j, asociados) = "almacen"
    BY <1>2, SituacionDe DEF EstaEnMapa, EstaEnGlobal, EstaEnAlmacen
  <1>5. PasoDe(j)  BY <1>2, <1>3, <1>4 DEF PasoDe, PasoAbs
  <1> QED  BY <1>1, <1>5 DEF ContratoOK

\* A message or an order that is not about the phase, on a job that goes on in the map.
LEMMA MapaSigue ==
  ASSUME CInv, IInv', NEW j \in Jobs, j \in asociados, j \in asociados', EnCurso(tabla, j) # {},
         Globales(tabla', j) = Globales(tabla, j), Almacenes(tabla', j) = Almacenes(tabla, j),
         UNCHANGED varsMaster, aYama' = aYama \/ (aYama[j] # <<>> /\ Leido(j)),
         aMaster' = aMaster \/ \E m : Manda(j, m) /\ DeFin(m.ops) = {}
  PROVE  /\ ContratoOK(j)'
         /\ FaseEn(tabla, j, asociados) = "mapa" /\ ObraEn(tabla, j, asociados) = EnCurso(tabla, j)
         /\ FaseEn(tabla', j, asociados') = "mapa"
         /\ ObraEn(tabla', j, asociados') = EnCurso(tabla', j)
  <1>1. EstaEnMapa(tabla, j, asociados)
    BY SituacionDe DEF EstaEnGlobal, EstaEnAlmacen
  <1>2. /\ Seguido(tabla', j, copiasLibres'[j]) /\ tabla' \in Seq(Entrada)
        /\ aYama \in [Jobs -> Seq(AvisosHasta(Len(tabla)))] /\ aMaster \in [Jobs -> Seq(Ordenes)]
        /\ hilos' = hilos
    BY DEF CInv, IInv, Inv, TrabajoOK, Seguimiento, AYamaOK, AMasterOK, varsMaster
  <1>3. Globales(tabla', j) = {} /\ Almacenes(tabla', j) = {}  BY <1>1 DEF EstaEnMapa
  <1>4. /\ FaseEn(tabla', j, asociados') = "mapa"
        /\ ObraEn(tabla', j, asociados') = EnCurso(tabla', j)
        /\ EtapaFin(tabla', j) = "NINGUNA"
    BY <1>2, <1>3, TieneEntradas, EnMapa
  <1>5. Fase(tabla', j)  BY <1>3 DEF Fase
  <1>6. Fin(aMaster'[j], hilos'[j], aYama'[j], "NINGUNA")
    <2>1. Fin(aMaster[j], hilos[j], aYama[j], "NINGUNA")  BY <1>1, SituacionDe DEF EstaEnMapa
    <2>2. Fin(aMaster[j], hilos[j], aYama'[j], "NINGUNA")
      <3>1. CASE aYama' = aYama  BY <2>1, <3>1
      <3>2. CASE aYama[j] # <<>> /\ Leido(j)
        <4>1. aYama'[j] = Tail(aYama[j]) /\ aYama[j] \in Seq(AvisosHasta(Len(tabla)))
          BY <1>2, <3>2 DEF Leido
        <4> QED  BY <2>1, <3>2, <4>1, FinLee
      <3> QED  BY <3>1, <3>2
    <2>3. CASE aMaster'[j] = aMaster[j]  BY <1>2, <2>2, <2>3
    <2>4. ASSUME NEW m, aMaster'[j] = Append(aMaster[j], m), DeFin(m.ops) = {}
          PROVE  Fin(aMaster'[j], hilos'[j], aYama'[j], "NINGUNA")
      <3>1. aMaster[j] \in Seq(Ordenes)  BY <1>2
      <3> QED  BY <1>2, <2>2, <2>4, <3>1, FinManda
    <2> QED  BY <1>2, <2>3, <2>4 DEF Manda
  <1> QED  BY <1>1, <1>4, <1>5, <1>6 DEF ContratoOK, EnFase, EstaEnMapa

\* An operation of the map ends and at most one follows from it.
LEMMA AvanzaCumple ==
  ASSUME CInv, IInv', NEW j \in Jobs, j \in asociados, j \in asociados',
         NEW i \in EnCurso(tabla, j), NEW N,
         N = {} \/ \E n : N = {n} /\ n \notin EnCurso(tabla, j),
         EnCurso(tabla', j) = (EnCurso(tabla, j) \ {i}) \cup N,
         Globales(tabla', j) = Globales(tabla, j), Almacenes(tabla', j) = Almacenes(tabla, j),
         UNCHANGED varsMaster, aYama[j] # <<>>, Leido(j),
         aMaster' = aMaster \/ \E m : Manda(j, m) /\ DeFin(m.ops) = {}
  PROVE  ContratoOK(j)' /\ PasoDe(j)
  <1>1. /\ ContratoOK(j)'
        /\ FaseEn(tabla, j, asociados) = "mapa" /\ ObraEn(tabla, j, asociados) = EnCurso(tabla, j)
        /\ FaseEn(tabla', j, asociados') = "mapa"
        /\ ObraEn(tabla', j, asociados') = EnCurso(tabla', j)
    BY MapaSigue
  <1>2. N \in {{}} \cup {{n} : n \in EnCurso(tabla', j) \ EnCurso(tabla, j)}
    OBVIOUS
  <1> QED  BY <1>1, <1>2 DEF PasoDe, PasoAbs

\* A late answer of a job that was let go: whatever YAMA orders, the phase stays.
LEMMA CortadoSigue ==
  ASSUME CInv, NEW j \in Jobs, j \notin asociados, j \notin asociados', Cortado(j),
         DelJob(tabla, j) # {}, DelJob(tabla', j) # {}, Almacenes(tabla', j) = {},
         UNCHANGED varsMaster, aYama[j] # <<>>,
         \/ Leido(j) /\ (aMaster' = aMaster \/ \E m : Manda(j, m))
         \/ EnvioRoto(j)
  PROVE  ContratoOK(j)' /\ PasoDe(j)
  <1>1. Almacenes(tabla, j) = {}  BY DEF Cortado
  <1>2. PasoDe(j)
    <2>1. /\ ObraEn(tabla', j, asociados') = {} /\ FaseEn(tabla', j, asociados') = "dejado"
          /\ ObraEn(tabla, j, asociados) = {} /\ FaseEn(tabla, j, asociados) = "dejado"
      BY <1>1, Fuera
    <2> QED  BY <2>1 DEF PasoDe, PasoAbs
  <1>3. /\ aYama \in [Jobs -> Seq(AvisosHasta(Len(tabla)))] /\ aMaster \in [Jobs -> Seq(Ordenes)]
        /\ hilos' = hilos /\ maestro' = maestro
    BY DEF CInv, IInv, Inv, AYamaOK, AMasterOK, varsMaster
  <1>4. CASE Leido(j) /\ (aMaster' = aMaster \/ \E m : Manda(j, m))
    <2>1. \A k \in 1..Len(aYama'[j]) : aYama'[j][k].tipo \notin TiposFin
      <3>1. aYama'[j] = Tail(aYama[j]) /\ aYama[j] \in Seq(AvisosHasta(Len(tabla)))
        BY <1>3, <1>4 DEF Leido
      <3>2. \A k \in 1..Len(aYama'[j]) : \E l \in 1..Len(aYama[j]) : aYama'[j][k] = aYama[j][l]
        BY <3>1, ColaDe
      <3> QED  BY <3>2 DEF Cortado
    <2>2. ASSUME Vivo(j)
          PROVE  \E k \in 1..Len(aMaster'[j]) :
                   /\ aMaster'[j][k].tipo = "FALLOREDLOCAL"
                   /\ \A l \in 1..k : DeFin(aMaster'[j][l].ops) = {}
      <3>1. PICK k \in 1..Len(aMaster[j]) :
              /\ aMaster[j][k].tipo = "FALLOREDLOCAL"
              /\ \A l \in 1..k : DeFin(aMaster[j][l].ops) = {}
        BY <2>2 DEF Cortado
      <3>2. CASE aMaster'[j] = aMaster[j]  BY <3>1, <3>2
      <3>3. ASSUME NEW m, aMaster'[j] = Append(aMaster[j], m)
            PROVE  /\ k \in 1..Len(aMaster'[j]) /\ aMaster'[j][k].tipo = "FALLOREDLOCAL"
                   /\ \A l \in 1..k : DeFin(aMaster'[j][l].ops) = {}
        <4>1. /\ Len(aMaster[j]) \in Nat /\ k \in 1..Len(aMaster'[j])
              /\ \A l \in 1..Len(aMaster[j]) : aMaster'[j][l] = aMaster[j][l]
          BY <1>3, <3>3, AlFinalDe
        <4>2. \A l \in 1..k : l \in 1..Len(aMaster[j])  BY <4>1
        <4> QED  BY <3>1, <4>1, <4>2
      <3> QED  BY <1>3, <1>4, <3>2, <3>3 DEF Manda
    <2>3. Cortado(j)'
      BY <1>3, <2>1, <2>2 DEF Cortado, Vivo
    <2> QED  BY <1>2, <2>3 DEF ContratoOK, Suelto
  <1>5. CASE EnvioRoto(j)
    <2>1. Mudo(j)'  BY <1>3, <1>5 DEF EnvioRoto, Mudo
    <2> QED  BY <1>2, <2>1 DEF ContratoOK, Suelto
  <1> QED  BY <1>4, <1>5

\* YAMA has read something of a job it does not follow: it was cut short.
LEMMA LlegaDeCortado ==
  ASSUME CInv, NEW j \in Jobs, j \notin asociados, NEW tipo, Llega(j, tipo), DelJob(tabla, j) # {}
  PROVE  Cortado(j) /\ tipo \notin TiposFin
  <1>1. aYama[j] # <<>> /\ j \in conectados /\ Head(aYama[j]).tipo = tipo  BY DEF Llega
  <1>2. Cortado(j)  BY <1>1 DEF CInv, ContratoOK, Suelto, Mudo, Acabado
  <1>3. 1 \in 1..Len(aYama[j]) /\ Head(aYama[j]) = aYama[j][1]
    BY <1>1, ColaDe DEF CInv, IInv, Inv, AYamaOK
  <1> QED  BY <1>1, <1>2, <1>3 DEF Cortado

\* The process ends: nothing else changes.
LEMMA CaeCumple ==
  ASSUME CInv, NEW j \in Jobs, Cae PROVE Cumple(j)
  <1>1. /\ tabla' = tabla /\ asociados' = asociados /\ conectados' = conectados /\ replan' = replan
        /\ aYama' = aYama /\ aMaster' = aMaster /\ maestro' = maestro /\ hilos' = hilos
    BY DEF Cae, varsMaster
  <1>2. PasoDe(j)  BY <1>1, Igual, SinPaso DEF CInv, IInv, Inv
  <1>3. ReabreConObra'  BY <1>1 DEF ReabreConObra, CInv
  <1>4. ContratoOK(j)'
    BY <1>1 DEF CInv, ContratoOK, EnFase, Suelto, Mudo, Acabado, Cortado, Vivo
  <1> QED  BY <1>2, <1>3, <1>4 DEF Cumple

-----------------------------------------------------------------------------
(* The handlers of YAMA                                                    *)

\* On the entries of job j, tables t and u differ only in the state.
MismasFilas(t, u, j) == DelJob(u, j) = DelJob(t, j) /\ \A e : DeEtapa(u, j, e) = DeEtapa(t, j, e)

LEMMA MarcarFilas ==
  ASSUME NEW t \in Seq(Entrada), NEW I, NEW s \in Estados, NEW j
  PROVE  /\ Marcar(t, I, s) \in Seq(Entrada) /\ MismasFilas(t, Marcar(t, I, s), j)
         /\ \A i \in DelJob(t, j) : Marcar(t, I, s)[i].estado = IF i \in I THEN s ELSE t[i].estado
         /\ s # "ENPROCESO" => EnCurso(Marcar(t, I, s), j) = EnCurso(t, j) \ I
  <1>1. PICK u : u = Marcar(t, I, s)  OBVIOUS
  <1>2. /\ u \in Seq(Entrada) /\ Len(u) = Len(t)
        /\ \A i \in 1..Len(t) : u[i].job = t[i].job /\ u[i].etapa = t[i].etapa
    BY <1>1, MarcarCrece DEF CreceDesde
  <1>3. DOMAIN t = 1..Len(t) /\ DOMAIN u = 1..Len(t) /\ \A i \in 1..Len(t) : t[i] \in Entrada
    BY <1>2, DominioTabla
  <1>4. \A i \in 1..Len(t) : u[i].estado = IF i \in I THEN s ELSE t[i].estado
    BY <1>1, <1>3 DEF Marcar, Entrada
  <1>5. DelJob(u, j) = DelJob(t, j)  BY <1>2, <1>3 DEF DelJob
  <1>6. \A i \in DelJob(t, j) : i \in 1..Len(t)  BY <1>3 DEF DelJob
  <1>7. \A e : DeEtapa(u, j, e) = DeEtapa(t, j, e)  BY <1>2, <1>5, <1>6 DEF DeEtapa
  <1>8. s # "ENPROCESO" => EnCurso(u, j) = EnCurso(t, j) \ I
    BY <1>2, <1>4, <1>5, <1>6 DEF EnCurso
  <1> QED  BY <1>1, <1>2, <1>4, <1>5, <1>6, <1>7, <1>8 DEF MismasFilas

LEMMA DejarFilas ==
  ASSUME NEW t \in Seq(Entrada), NEW j, NEW A
  PROVE  /\ MismasFilas(t, AjustarCarga(t, j), j) /\ MismasFilas(t, Desasociar(t, j, A), j)
         /\ AjustarCarga(t, j) \in Seq(Entrada) /\ Desasociar(t, j, A) \in Seq(Entrada)
  <1>1. "FINALIZADO" \in Estados  BY DEF Estados
  <1>2. MismasFilas(t, AjustarCarga(t, j), j) /\ AjustarCarga(t, j) \in Seq(Entrada)
    BY <1>1, MarcarFilas DEF AjustarCarga
  <1> QED  BY <1>2 DEF Desasociar, MismasFilas

LEMMA MismasFases ==
  ASSUME NEW t, NEW u, NEW j, MismasFilas(t, u, j)
  PROVE  /\ DelJob(u, j) = DelJob(t, j)
         /\ Globales(u, j) = Globales(t, j) /\ Almacenes(u, j) = Almacenes(t, j)
  BY DEF MismasFilas, Globales, Almacenes

LEMMA MismasFilasTrans ==
  ASSUME NEW t, NEW u, NEW v, NEW j, MismasFilas(t, u, j), MismasFilas(u, v, j)
  PROVE  MismasFilas(t, v, j)
  BY DEF MismasFilas

\* The order of one operation, on what is about the last two stages.
LEMMA UnaDeFin ==
  ASSUME NEW tipo, NEW e, NEW t, NEW b, NEW I
  PROVE  LET o == Op(e, t, b, I)
         IN  /\ o.etapa = e
             /\ e \in EtapasDeHilo => DeFin(Orden(tipo, {o}).ops) = {}
             /\ e \notin EtapasDeHilo => DeFin(Orden(tipo, {o}).ops) = {o}
  BY DEF Op, Orden, DeFin

LEMMA SolicitudCumple ==
  ASSUME CInv, IInv', NEW j \in Jobs, SoloDe(j), enviarTablaTransformacion(j)
  PROVE  Cumple(j)
  <1>1. /\ aYama[j] # <<>> /\ Head(aYama[j]).tipo = "SOLICITUDJOB" /\ replan = Nulo
    BY DEF enviarTablaTransformacion, Llega
  <1>2. /\ aYama[j] \in Seq(AvisosHasta(Len(tabla))) /\ tabla \in Seq(Entrada)
        /\ aMaster \in [Jobs -> Seq(Ordenes)] /\ CopiasEscritas(tabla)
        /\ aYama \in [Jobs -> Seq(AvisosHasta(Len(tabla)))]
    BY DEF CInv, IInv, Inv, AYamaOK, AMasterOK
  <1>3. Nuevo(j) /\ Len(aYama[j]) = 1
    <2>1. 1 \in 1..Len(aYama[j]) /\ Head(aYama[j]) = aYama[j][1]  BY <1>1, <1>2, ColaDe
    <2> QED  BY <1>1, <2>1 DEF CInv, IInv, TrabajoOK, UnaSolicitud
  <1>4. CASE /\ Responde(j, Orden("PLAN", {})) \/ EnvioRoto(j)
             /\ UNCHANGED <<tabla, asociados, copiasLibres, varsMaster>>
    <2>1. PasoDe(j)  BY <1>2, <1>4, Igual, SinPaso
    <2>2. ReabreConObra'  BY <1>1, <1>4 DEF Responde, EnvioRoto, ReabreConObra
    <2>3. ContratoOK(j)'  BY <1>3, <1>4 DEF Nuevo, ContratoOK
    <2> QED  BY <2>1, <2>2, <2>3 DEF Cumple
  <1>5. ASSUME NEW p \in Planes(j),
               tabla' = tabla \o Entradas(j, p),
               asociados' = asociados \cup {j},
               Responde(j, Orden("PLAN",
                  {Op("TRANSFORMACION", Len(tabla) + b, b, {}) : b \in Bloques(j)})),
               UNCHANGED varsMaster
        PROVE  Cumple(j)
    <2> DEFINE ops == {Op("TRANSFORMACION", Len(tabla) + b, b, {}) : b \in Bloques(j)}
               m == Orden("PLAN", ops)
    <2>1. PICK u : u = tabla'  OBVIOUS
    <2>2. ConPlan(tabla, u, j, p)  BY <1>2, <1>5, <2>1, TablaConPlan
    <2>3. \A i \in DelJob(u, j) : u[i].etapa = "TRANSFORMACION"
      <3>1. Len(tabla) \in Nat /\ DOMAIN u = 1..Len(u) /\ DOMAIN tabla = 1..Len(tabla)
        BY <1>2, <2>2, DominioTabla DEF ConPlan
      <3>2. Copias[j] \in Seq((SUBSET Nodos) \ {{}})  BY SupuestoTabla
      <3>3. Len(Copias[j]) \in Nat /\ Bloques(j) = 1..Len(Copias[j])
        BY <3>2, LenProperties DEF Bloques
      <3>4. ASSUME NEW i \in DelJob(u, j) PROVE u[i].etapa = "TRANSFORMACION"
        <4>1. i \in 1..(Len(tabla) + Len(Copias[j])) /\ u[i].job = j
          BY <2>2, <3>1, <3>4 DEF DelJob, ConPlan
        <4>2. i \notin 1..Len(tabla)
          <5>1. \A k \in 1..Len(tabla) : u[k] = tabla[k] /\ tabla[k].job # j
            BY <1>3, <2>2, <3>1 DEF ConPlan, Nuevo, DelJob
          <5> QED  BY <4>1, <5>1
        <4>3. PICK b \in 1..Len(Copias[j]) : i = Len(tabla) + b
          <5>1. i - Len(tabla) \in 1..Len(Copias[j]) /\ i = Len(tabla) + (i - Len(tabla))
            BY <3>1, <3>3, <4>1, <4>2
          <5> QED  BY <5>1
        <4>4. u[i] = Entradas(j, p)[b]  BY <2>2, <4>3 DEF ConPlan
        <4> QED  BY <3>3, <4>3, <4>4 DEF Entradas, Nueva
      <3> QED  BY <3>4
    <2>4. Globales(u, j) = {} /\ Almacenes(u, j) = {}
      BY <2>3 DEF Globales, Almacenes, DeEtapa
    <2>5. Seguido(u, j, copiasLibres'[j]) /\ u \in Seq(Entrada) /\ DelJob(tabla, j) = {}
      BY <1>3, <1>5, <2>1 DEF IInv, Inv, TrabajoOK, Seguimiento, Nuevo
    <2>6. DelJob(u, j) # {}  BY <2>5, TieneEntradas
    <2>7. j \in asociados'  BY <1>5
    <2>8. FaseEn(u, j, asociados') = "mapa" /\ ObraEn(u, j, asociados') = EnCurso(u, j)
          /\ EtapaFin(u, j) = "NINGUNA"
      BY <2>4, <2>5, <2>6, <2>7, EnMapa
    <2>9. EnCurso(u, j) # {}
      <3>1. PICK i : i \in DelJob(u, j)  BY <2>6
      <3>2. PICK b \in Bloques(j) : TRUE
        <4>1. Cubre(u, j)  BY <2>5 DEF Seguido
        <4>2. Copias[j] \in Seq((SUBSET Nodos) \ {{}}) /\ Copias[j] # <<>>  BY SupuestoTabla
        <4>3. 1 \in Bloques(j)  BY <4>2, LenProperties, EmptySeq DEF Bloques
        <4> QED  BY <4>3
      <3>3. EnCurso(u, j) = {Len(tabla) + c : c \in Bloques(j)}
        BY <1>2, <2>2, <2>5, PlanDeTabla
      <3> QED  BY <3>2, <3>3
    <2>10. FaseEn(tabla, j, asociados) = "nuevo"
      <3>1. j \notin asociados  BY <1>3 DEF Nuevo
      <3> QED  BY <2>5, <3>1, Fuera
    <2>11. PasoDe(j)
      BY <2>1, <2>8, <2>9, <2>10 DEF PasoDe, PasoAbs
    <2>12. Leido(j) /\ Manda(j, m) /\ replan' = Nulo /\ hilos' = hilos
      BY <1>1, <1>5 DEF Responde, varsMaster
    <2>13. DeFin(m.ops) = {}
      <3>1. \A o \in ops : o.etapa = "TRANSFORMACION"  BY DEF Op
      <3> QED  BY <3>1 DEF DeFin, Orden, EtapasDeHilo
    <2> HIDE DEF m
    <2>14. Fin(aMaster'[j], hilos'[j], aYama'[j], "NINGUNA")
      <3>1. aYama'[j] = <<>>
        <4>1. aYama'[j] = Tail(aYama[j])  BY <1>2, <2>12 DEF Leido
        <4>2. Tail(aYama[j]) \in Seq(AvisosHasta(Len(tabla))) /\ Len(Tail(aYama[j])) = 0
          BY <1>1, <1>2, <1>3, HeadTailProperties, EmptySeq
        <4> QED  BY <4>1, <4>2, EmptySeq
      <3>2. Fin(aMaster[j], hilos'[j], aYama'[j], "NINGUNA")
        BY <1>3, <2>12, <3>1, FinNuevo DEF Nuevo
      <3>3. aMaster[j] \in Seq(Ordenes)  BY <1>2
      <3>4. Fin(Append(aMaster[j], m), hilos'[j], aYama'[j], "NINGUNA")
        BY <2>13, <3>2, <3>3, FinManda
      <3>5. aMaster'[j] = aMaster[j] \/ aMaster'[j] = Append(aMaster[j], m)
        BY <1>2, <2>12 DEF Manda
      <3> QED  BY <3>2, <3>4, <3>5
    <2>15. Fase(u, j)  BY <2>4 DEF Fase
    <2>16. ContratoOK(j)'
      BY <2>1, <2>7, <2>8, <2>14, <2>15 DEF ContratoOK, EnFase
    <2>17. ReabreConObra'  BY <2>12 DEF ReabreConObra
    <2> QED  BY <2>11, <2>16, <2>17 DEF Cumple
  <1>6. CASE Cae  BY <1>6, CaeCumple
  <1> QED  BY <1>4, <1>5, <1>6 DEF enviarTablaTransformacion

\* YAMA lets a followed job go and closes its socket.
LEMMA DejaMudo ==
  ASSUME CInv, NEW j \in Jobs, j \in asociados, j \notin asociados', Conserva(tabla, tabla'),
         Almacenes(tabla', j) \subseteq Almacenes(tabla, j), replan' = Nulo,
         aYama'[j] = <<>>, conectados' = conectados \ {j}
  PROVE  Cumple(j)
  <1>1. Suelto(j)'  BY DEF Suelto, Mudo
  <1>2. ReabreConObra'  BY DEF ReabreConObra
  <1> QED  BY <1>1, <1>2, DejaCumple DEF Cumple

LEMMA MatarDeja ==
  ASSUME CInv, NEW j \in Jobs, NEW t \in Seq(Entrada), MismasFilas(tabla, t, j),
         Conserva(tabla, tabla'), matarPorReplanificacion(j, t)
  PROVE  Cumple(j)
  <1>1. /\ j \in asociados /\ j \notin asociados' /\ replan' = Nulo /\ aYama'[j] = <<>>
        /\ conectados' = conectados \ {j} /\ tabla' = AjustarCarga(t, j)
    BY DEF matarPorReplanificacion, CInv, IInv, Inv, AYamaOK
  <1>2. Almacenes(tabla', j) = Almacenes(tabla, j)
    <2>1. MismasFilas(t, tabla', j)  BY <1>1, DejarFilas
    <2>2. Almacenes(tabla', j) = Almacenes(t, j) /\ Almacenes(t, j) = Almacenes(tabla, j)
      BY <2>1, MismasFases
    <2> QED  BY <2>2
  <1> QED  BY <1>1, <1>2, DejaMudo

\* An entry of the map is cancelled and done again on its copy.
LEMMA CopiaAvanza ==
  ASSUME CInv, NEW j \in Jobs, j \in asociados, NEW i \in Mapa(tabla, j), Vigente(tabla, i),
         DeEtapa(tabla, j, "REDUCGLOBAL") = {}, TieneCopia(j, tabla[i]),
         NEW t, t = Marcar(tabla, {i}, "ERRORYAMA"), AsignarACopia(j, t, i)
  PROVE  /\ \E n : /\ n \notin EnCurso(tabla, j)
                   /\ EnCurso(tabla', j) = (EnCurso(tabla, j) \ {i}) \cup {n}
         /\ Globales(tabla', j) = Globales(tabla, j) /\ Almacenes(tabla', j) = Almacenes(tabla, j)
         /\ \E m : Manda(j, m) /\ DeFin(m.ops) = {}
  <1>1. PICK n : n = Len(tabla) + 1  OBVIOUS
  <1>2. IInv  BY DEF CInv
  <1>3. /\ EnCurso(tabla', j) = (EnCurso(tabla, j) \ {i}) \cup {n} /\ n \notin EnCurso(tabla, j)
        /\ DeEtapa(tabla', j, "REDUCGLOBAL") = {}
        /\ \A k \in DelJob(tabla', j) :
             \/ tabla'[k].etapa = "TRANSFORMACION"
             \/ k \in DelJob(tabla, j) /\ MismaFila(tabla'[k], tabla[k])
    BY <1>1, <1>2, CopiaSigue
  <1>4. Globales(tabla', j) = {} /\ Globales(tabla, j) = {}  BY <1>3 DEF Globales
  <1>5. Almacenes(tabla, j) = {}  BY <1>4, SituacionDe DEF Fase
  <1>6. Almacenes(tabla', j) = {}
    <2>1. ASSUME NEW k \in Almacenes(tabla', j) PROVE k \in Almacenes(tabla, j)
      BY <1>3 DEF Almacenes, DeEtapa, MismaFila
    <2> QED  BY <1>5, <2>1
  <1>7. PICK o : /\ Manda(j, Orden("REPLANIFICACION", {o}))
                 /\ o = Op("TRANSFORMACION", Len(t) + 1, t[i].bloque, {})
    BY DEF AsignarACopia
  <1>8. DeFin(Orden("REPLANIFICACION", {o}).ops) = {}
    BY <1>7, UnaDeFin DEF EtapasDeHilo
  <1> QED  BY <1>3, <1>4, <1>5, <1>6, <1>7, <1>8

LEMMA ReplanificarCumple ==
  ASSUME CInv, IInv', NEW j \in Jobs, SoloDe(j), replanificar(j)
  PROVE  Cumple(j)
  <1> DEFINE i == Head(aYama[j]).temp
             t == Marcar(tabla, {i}, "ERRORYAMA")
  <1>1. AvisoFallo("TRANSFORMACION") = "FALLOTRANSFORMACION" /\ "TRANSFORMACION" \in EtapasDeHilo
    BY DEF AvisoFallo, EtapasDeHilo
  <1>2. Llega(j, "FALLOTRANSFORMACION")  BY DEF replanificar
  <1>3. IInv /\ tabla \in Seq(Entrada) /\ Conserva(tabla, tabla')
    BY DEF CInv, IInv, Inv, SoloDe
  <1>4. aYama[j] # <<>> /\ replan = Nulo /\ i \in Mapa(tabla, j) /\ i \in DelJob(tabla, j) /\ i # 0
    <2>1. i \in DeEtapa(tabla, j, "TRANSFORMACION") /\ i \in 1..Len(tabla)
      BY <1>1, <1>2, <1>3, AvisoDeHilo DEF IInv, Llega
    <2> QED  BY <1>2, <2>1 DEF Llega, Mapa, DeEtapa
  <1>5. t \in Seq(Entrada) /\ MismasFilas(tabla, t, j)
    <2>1. "ERRORYAMA" \in Estados  BY DEF Estados
    <2> QED  BY <1>3, <2>1, MarcarFilas
  <1>6. \/ matarPorReplanificacion(j, t)
        \/ /\ j \notin asociados
           /\ tabla' = AjustarCarga(t, j) /\ Leido(j)
           /\ UNCHANGED <<asociados, conectados, copiasLibres, yama, replan, aMaster, varsMaster>>
        \/ /\ j \in asociados /\ TieneCopia(j, tabla[i])
           /\ AsignarACopia(j, t, i)
           /\ Leido(j)
           /\ replan' = [job |-> j, nodo |-> tabla[i].nodo]
           /\ UNCHANGED <<asociados, conectados, yama, varsMaster>>
        \/ Cae
    BY DEF replanificar
  <1> HIDE DEF i, t
  <1>7. CASE matarPorReplanificacion(j, t)
    BY <1>3, <1>5, <1>7, MatarDeja
  <1>8. CASE /\ j \notin asociados
             /\ tabla' = AjustarCarga(t, j) /\ Leido(j)
             /\ UNCHANGED <<asociados, conectados, copiasLibres, yama, replan, aMaster, varsMaster>>
    <2>1. Cortado(j)  BY <1>2, <1>4, <1>8, LlegaDeCortado
    <2>2. DelJob(tabla', j) # {} /\ Almacenes(tabla', j) = {}
      <3>1. MismasFilas(t, tabla', j)  BY <1>5, <1>8, DejarFilas
      <3>2. DelJob(tabla', j) = DelJob(tabla, j) /\ Almacenes(tabla', j) = Almacenes(tabla, j)
        BY <1>5, <3>1, MismasFases
      <3> QED  BY <1>4, <2>1, <3>2 DEF Cortado
    <2>3. ContratoOK(j)' /\ PasoDe(j)
      BY <1>4, <1>8, <2>1, <2>2, CortadoSigue
    <2>4. ReabreConObra'  BY <1>4, <1>8 DEF ReabreConObra
    <2> QED  BY <2>3, <2>4 DEF Cumple
  <1>9. CASE /\ j \in asociados /\ TieneCopia(j, tabla[i])
             /\ AsignarACopia(j, t, i)
             /\ Leido(j)
             /\ replan' = [job |-> j, nodo |-> tabla[i].nodo]
             /\ UNCHANGED <<asociados, conectados, yama, varsMaster>>
    <2>1. i \in EnCurso(tabla, j)  BY <1>3, <1>4, <1>9, AvisoEnCurso DEF i
    <2>2. Vigente(tabla, i) /\ DeEtapa(tabla, j, "REDUCGLOBAL") = {}
      BY <1>9, <2>1, SituacionDe DEF Vigente, EnCurso, Seguido, Barrera
    <2>3. /\ \E n : /\ n \notin EnCurso(tabla, j)
                    /\ EnCurso(tabla', j) = (EnCurso(tabla, j) \ {i}) \cup {n}
          /\ Globales(tabla', j) = Globales(tabla, j) /\ Almacenes(tabla', j) = Almacenes(tabla, j)
          /\ \E m : Manda(j, m) /\ DeFin(m.ops) = {}
      BY <1>4, <1>9, <2>2, CopiaAvanza DEF t
    <2>4. PICK n : /\ n \notin EnCurso(tabla, j)
                   /\ EnCurso(tabla', j) = (EnCurso(tabla, j) \ {i}) \cup {n}
      BY <2>3
    <2>5. ContratoOK(j)' /\ PasoDe(j)
      <3>1. PICK N : N = {n}  OBVIOUS
      <3>2. N = {} \/ \E x : N = {x} /\ x \notin EnCurso(tabla, j)  BY <2>4, <3>1
      <3>3. EnCurso(tabla', j) = (EnCurso(tabla, j) \ {i}) \cup N  BY <2>4, <3>1
      <3>4. j \in asociados' /\ UNCHANGED varsMaster  BY <1>9
      <3> QED  BY <1>4, <1>9, <2>1, <2>3, <3>2, <3>3, <3>4, AvanzaCumple
    <2>6. ReabreConObra'
      <3>1. n \in EnCurso(tabla', j) /\ replan'.job = j  BY <1>9, <2>4
      <3> QED  BY <3>1 DEF ReabreConObra
    <2> QED  BY <2>5, <2>6 DEF Cumple
  <1>10. CASE Cae  BY <1>10, CaeCumple
  <1> QED  BY <1>6, <1>7, <1>8, <1>9, <1>10

LEMMA ReplanificarFinalizadasCumple ==
  ASSUME CInv, IInv', NEW j \in Jobs, SoloDe(j), replanificarFinalizadas(j)
  PROVE  Cumple(j)
  <1>1. replan # Nulo /\ replan.job = j
    BY DEF replanificarFinalizadas
  <1>2. PICK i \in Finalizadas(replan) :
          LET t == Marcar(tabla, {i}, "ERRORYAMA")
          IN  CASE tabla[i].copia = Basura ->
                     /\ yama' = "indefinida"
                     /\ UNCHANGED <<tabla, asociados, conectados, copiasLibres,
                                    replan, aYama, aMaster, varsMaster>>
                [] tabla[i].copia = Nulo -> matarPorReplanificacion(j, t)
                [] OTHER ->
                     \/ /\ IF TieneCopia(j, tabla[i]) THEN AsignarACopia(j, t, i)
                           ELSE tabla' = t /\ UNCHANGED <<copiasLibres, aMaster>>
                        /\ UNCHANGED <<asociados, conectados, yama, replan, aYama,
                                       varsMaster>>
                     \/ ~Vivo(j) /\ Cae
    BY DEF replanificarFinalizadas
  <1>3. IInv /\ tabla \in Seq(Entrada) /\ Conserva(tabla, tabla')
    BY DEF CInv, IInv, Inv, SoloDe
  <1>4. /\ j \in asociados /\ i \in Mapa(tabla, j) /\ tabla[i].estado = "FINALIZADO"
        /\ Vigente(tabla, i) /\ tabla[i].copia # Basura
        /\ tabla[i].copia # Nulo => TieneCopia(j, tabla[i])
    BY <1>1, <1>3, FinalizadaTieneCopia
  <1> DEFINE t == Marcar(tabla, {i}, "ERRORYAMA")
  <1>5. \/ matarPorReplanificacion(j, t)
        \/ /\ TieneCopia(j, tabla[i]) /\ AsignarACopia(j, t, i)
           /\ UNCHANGED <<asociados, conectados, yama, replan, aYama, varsMaster>>
        \/ Cae
    <2>1. CASE tabla[i].copia = Nulo
      <3>1. tabla[i].copia # Basura  BY <1>4
      <3>2. matarPorReplanificacion(j, t)  BY <1>2, <2>1, <3>1
      <3> QED  BY <3>2
    <2>2. CASE tabla[i].copia # Nulo
      <3> HIDE DEF t
      <3>1. \/ /\ IF TieneCopia(j, tabla[i]) THEN AsignarACopia(j, t, i)
                  ELSE tabla' = t /\ UNCHANGED <<copiasLibres, aMaster>>
               /\ UNCHANGED <<asociados, conectados, yama, replan, aYama, varsMaster>>
            \/ Cae
        BY <1>2, <1>4, <2>2 DEF t
      <3> QED  BY <1>4, <2>2, <3>1
    <2> QED  BY <2>1, <2>2
  <1>6. t \in Seq(Entrada) /\ MismasFilas(tabla, t, j)
    <2>1. "ERRORYAMA" \in Estados  BY DEF Estados
    <2> QED  BY <1>3, <2>1, MarcarFilas
  <1> HIDE DEF t
  <1>7. CASE matarPorReplanificacion(j, t)
    BY <1>3, <1>6, <1>7, MatarDeja
  <1>8. CASE /\ TieneCopia(j, tabla[i]) /\ AsignarACopia(j, t, i)
             /\ UNCHANGED <<asociados, conectados, yama, replan, aYama, varsMaster>>
    <2>1. DeEtapa(tabla, j, "REDUCGLOBAL") = {}  BY <1>1, <1>3 DEF IInv, EnReplan
    <2>2. /\ \E n : /\ n \notin EnCurso(tabla, j)
                    /\ EnCurso(tabla', j) = (EnCurso(tabla, j) \ {i}) \cup {n}
          /\ Globales(tabla', j) = Globales(tabla, j) /\ Almacenes(tabla', j) = Almacenes(tabla, j)
          /\ \E m : Manda(j, m) /\ DeFin(m.ops) = {}
      BY <1>4, <1>8, <2>1, CopiaAvanza DEF t
    <2>3. EnCurso(tabla, j) # {}  BY <1>1 DEF CInv, ReabreConObra
    <2>4. i \notin EnCurso(tabla, j)  BY <1>4 DEF EnCurso
    <2>5. PICK n : n \notin EnCurso(tabla, j) /\ EnCurso(tabla', j) = EnCurso(tabla, j) \cup {n}
      BY <2>2, <2>4
    <2>6. /\ ContratoOK(j)'
          /\ FaseEn(tabla, j, asociados) = "mapa" /\ ObraEn(tabla, j, asociados) = EnCurso(tabla, j)
          /\ FaseEn(tabla', j, asociados') = "mapa"
          /\ ObraEn(tabla', j, asociados') = EnCurso(tabla', j)
      <3>1. j \in asociados' /\ UNCHANGED varsMaster /\ aYama' = aYama  BY <1>4, <1>8
      <3> QED  BY <1>4, <2>2, <2>3, <3>1, MapaSigue
    <2>7. PasoDe(j)
      <3>1. n \in EnCurso(tabla', j) \ EnCurso(tabla, j)  BY <2>5
      <3> QED  BY <2>3, <2>5, <2>6, <3>1 DEF PasoDe, PasoAbs
    <2>8. ReabreConObra'
      <3>1. EnCurso(tabla', j) # {} /\ replan'.job = j  BY <1>1, <1>8, <2>5
      <3> QED  BY <3>1 DEF ReabreConObra
    <2> QED  BY <2>6, <2>7, <2>8 DEF Cumple
  <1>9. CASE Cae  BY <1>9, CaeCumple
  <1> QED  BY <1>5, <1>7, <1>8, <1>9

LEMMA TerminarCumple ==
  ASSUME CInv, NEW j \in Jobs, TerminarReplanificacion(j)
  PROVE  Cumple(j)
  <1>1. /\ replan' = Nulo
        /\ tabla' = tabla /\ asociados' = asociados /\ conectados' = conectados
        /\ aYama' = aYama /\ aMaster' = aMaster /\ maestro' = maestro /\ hilos' = hilos
    BY DEF TerminarReplanificacion, varsMaster
  <1>2. PasoDe(j)  BY <1>1, Igual, SinPaso DEF CInv, IInv, Inv
  <1>3. ReabreConObra'  BY <1>1 DEF ReabreConObra
  <1>4. ContratoOK(j)'
    BY <1>1 DEF CInv, ContratoOK, EnFase, Suelto, Mudo, Acabado, Cortado, Vivo
  <1> QED  BY <1>2, <1>3, <1>4 DEF Cumple

\* Table u is t with one entry more at its end, m, of a later stage.
ConEtapa(t, u, j, e, n, m) ==
  /\ t \in Seq(Entrada) /\ j \in Jobs /\ e \in Etapas /\ n \in Nodos
  /\ u = Append(t, NuevaEtapa(j, e, n)) /\ m = Len(t) + 1

LEMMA AgregarFilas ==
  ASSUME NEW t, NEW u, NEW j, NEW e, NEW n, NEW m, ConEtapa(t, u, j, e, n, m)
  PROVE  /\ u[m].etapa = e /\ u[m].estado = "ENPROCESO" /\ m \notin DelJob(t, j)
         /\ DelJob(u, j) = DelJob(t, j) \cup {m} /\ \A i \in DelJob(t, j) : u[i] = t[i]
         /\ DeEtapa(u, j, e) = DeEtapa(t, j, e) \cup {m}
         /\ \A p : p # e => DeEtapa(u, j, p) = DeEtapa(t, j, p)
         /\ EnCurso(u, j) = EnCurso(t, j) \cup (IF e \in EtapasDeHilo THEN {m} ELSE {})
  <1>1. PICK x : x = NuevaEtapa(j, e, n)  OBVIOUS
  <1>2. x \in Entrada /\ x.job = j /\ x.etapa = e /\ x.estado = "ENPROCESO"
    BY <1>1 DEF ConEtapa, NuevaEtapa, Nueva, Entrada, Etapas, Estados
  <1>3. Suma(t, u, j, m, x)  BY <1>1, <1>2, AgregarSuma DEF ConEtapa
  <1>4. u[m] = x /\ m \notin DelJob(t, j) /\ DelJob(u, j) = DelJob(t, j) \cup {m}
        /\ \A i \in DelJob(t, j) : u[i] = t[i]
    BY <1>3 DEF Suma
  <1>5. \A p : DeEtapa(u, j, p) = DeEtapa(t, j, p) \cup {y \in {m} : x.etapa = p}
    BY <1>3, SumaFila
  <1>6. DeEtapa(u, j, e) = DeEtapa(t, j, e) \cup {m}
    <2>1. {y \in {m} : x.etapa = e} = {m}  BY <1>2
    <2> QED  BY <1>5, <2>1
  <1>7. ASSUME NEW p, p # e PROVE DeEtapa(u, j, p) = DeEtapa(t, j, p)
    <2>1. {y \in {m} : x.etapa = p} = {}  BY <1>2, <1>7
    <2> QED  BY <1>5, <2>1
  <1>8. EnCurso(u, j) = EnCurso(t, j) \cup (IF e \in EtapasDeHilo THEN {m} ELSE {})
    BY <1>2, <1>4 DEF EnCurso
  <1> QED  BY <1>2, <1>4, <1>6, <1>7, <1>8

\* A late answer makes YAMA add an entry to a job it has let go, or lets go now.
LEMMA EtapaDejadaCumple ==
  ASSUME CInv, NEW j \in Jobs, NEW tipo, Llega(j, tipo), UNCHANGED varsMaster,
         DelJob(tabla, j) # {}, Conserva(tabla, tabla'),
         NEW t \in Seq(Entrada), MismasFilas(tabla, t, j),
         NEW e \in {"REDUCCIONLOCAL", "REDUCGLOBAL"}, NEW n \in Nodos, NEW m,
         \/ /\ j \notin asociados
            /\ tabla' = Append(t, NuevaEtapa(j, e, n))
            /\ Responde(j, m)
            /\ UNCHANGED asociados
         \/ /\ tabla' = Append(Desasociar(t, j, asociados), NuevaEtapa(j, e, n))
            /\ EnvioRoto(j)
            /\ asociados' = asociados \ {j}
  PROVE  Cumple(j)
  <1>1. PICK v \in Seq(Entrada) : MismasFilas(tabla, v, j) /\ tabla' = Append(v, NuevaEtapa(j, e, n))
    <2>1. Desasociar(t, j, asociados) \in Seq(Entrada) /\ MismasFilas(t, Desasociar(t, j, asociados), j)
      BY DejarFilas
    <2>2. MismasFilas(tabla, Desasociar(t, j, asociados), j)  BY <2>1, MismasFilasTrans
    <2> QED  BY <2>1, <2>2
  <1>2. DelJob(tabla', j) # {} /\ Almacenes(tabla', j) = Almacenes(tabla, j)
    <2>1. e \in Etapas /\ e # "ALMACENAMIENTOOP"  BY DEF Etapas
    <2>2. PICK u, k : u = tabla' /\ k = Len(v) + 1  OBVIOUS
    <2>3. u = Append(v, NuevaEtapa(j, e, n))  BY <1>1, <2>2
    <2>4. /\ DelJob(u, j) = DelJob(v, j) \cup {k}
          /\ \A p : p # e => DeEtapa(u, j, p) = DeEtapa(v, j, p)
      <3>1. ConEtapa(v, u, j, e, n, k)  BY <2>1, <2>2, <2>3 DEF ConEtapa
      <3> QED  BY <3>1, AgregarFilas
    <2>5. DeEtapa(u, j, "ALMACENAMIENTOOP") = DeEtapa(v, j, "ALMACENAMIENTOOP")
      BY <2>1, <2>4
    <2> QED  BY <1>1, <2>2, <2>4, <2>5 DEF MismasFilas, Almacenes
  <1>3. aYama[j] # <<>> /\ replan = Nulo /\ aYama \in [Jobs -> Seq(AvisosHasta(Len(tabla)))]
    BY DEF Llega, CInv, IInv, Inv, AYamaOK
  <1>4. CASE j \in asociados
    <2>1. EnvioRoto(j) /\ asociados' = asociados \ {j}  BY <1>4
    <2>2. /\ j \notin asociados' /\ replan' = Nulo /\ aYama'[j] = <<>>
          /\ conectados' = conectados \ {j}
      BY <1>3, <2>1 DEF EnvioRoto
    <2> QED  BY <1>2, <1>4, <2>2, DejaMudo
  <1>5. CASE j \notin asociados
    <2>1. Cortado(j)  BY <1>5, LlegaDeCortado
    <2>2. /\ j \notin asociados' /\ replan' = Nulo
          /\ \/ Leido(j) /\ Manda(j, m)
             \/ EnvioRoto(j)
      BY <1>3, <1>5 DEF Responde, EnvioRoto
    <2>3. Almacenes(tabla', j) = {}  BY <1>2, <2>1 DEF Cortado
    <2>4. ContratoOK(j)' /\ PasoDe(j)
      BY <1>2, <1>3, <1>5, <2>1, <2>2, <2>3, CortadoSigue
    <2>5. ReabreConObra'  BY <2>2 DEF ReabreConObra
    <2> QED  BY <2>4, <2>5 DEF Cumple
  <1> QED  BY <1>4, <1>5

\* The same when it adds nothing.
LEMMA DejadoCumple ==
  ASSUME CInv, NEW j \in Jobs, NEW tipo, Llega(j, tipo), UNCHANGED varsMaster,
         j \notin asociados, j \notin asociados', DelJob(tabla, j) # {},
         MismasFilas(tabla, tabla', j), Leido(j), UNCHANGED <<aMaster, replan>>
  PROVE  Cumple(j)
  <1>1. aYama[j] # <<>> /\ replan' = Nulo  BY DEF Llega
  <1>2. Cortado(j)  BY LlegaDeCortado
  <1>3. DelJob(tabla', j) # {} /\ Almacenes(tabla', j) = {}
    BY <1>2, MismasFases DEF Cortado
  <1>4. ContratoOK(j)' /\ PasoDe(j)  BY <1>1, <1>2, <1>3, CortadoSigue
  <1> QED  BY <1>1, <1>4 DEF Cumple, ReabreConObra

LEMMA TransformacionOKCumple ==
  ASSUME CInv, IInv', NEW j \in Jobs, SoloDe(j), transformacionOK(j)
  PROVE  Cumple(j)
  <1> DEFINE i == Head(aYama[j]).temp
             n == tabla[i].nodo
             t == Marcar(tabla, {i}, "FINALIZADO")
             G == Grupo(t, j, n)
             nueva == NuevaEtapa(j, "REDUCCIONLOCAL", n)
             o == Op("REDUCCIONLOCAL", Len(t) + 1, 0, G)
  <1>1. AvisoOK("TRANSFORMACION") = "TRANSFORMACIONOK" /\ "TRANSFORMACION" \in EtapasDeHilo
    BY DEF AvisoOK, EtapasDeHilo
  <1>2. Llega(j, "TRANSFORMACIONOK") /\ UNCHANGED <<copiasLibres, varsMaster>>
    BY DEF transformacionOK
  <1>3. IInv /\ tabla \in Seq(Entrada) /\ Conserva(tabla, tabla')
    BY DEF CInv, IInv, Inv, SoloDe
  <1>4. /\ aYama[j] # <<>> /\ replan = Nulo /\ i \in DelJob(tabla, j) /\ i # 0 /\ n \in Nodos
        /\ DelJob(tabla, j) # {}
    <2>1. i \in DeEtapa(tabla, j, "TRANSFORMACION") /\ i \in 1..Len(tabla) /\ tabla[i] \in Entrada
      BY <1>1, <1>2, <1>3, AvisoDeHilo DEF IInv, Llega
    <2> QED  BY <1>2, <2>1 DEF Llega, DeEtapa, Entrada
  <1>5. /\ t \in Seq(Entrada) /\ MismasFilas(tabla, t, j)
        /\ EnCurso(t, j) = EnCurso(tabla, j) \ {i}
    <2>1. "FINALIZADO" \in Estados  BY DEF Estados
    <2> QED  BY <1>3, <2>1, MarcarFilas
  <1>6. \/ /\ tabla' = Append(t, nueva)
           /\ Responde(j, Orden("SOLICITUDREDUCCIONLOCAL", {o}))
           /\ UNCHANGED asociados
        \/ /\ tabla' = Append(Desasociar(t, j, asociados), nueva)
           /\ EnvioRoto(j)
           /\ asociados' = asociados \ {j}
        \/ tabla' = t /\ Leido(j) /\ UNCHANGED <<asociados, conectados, yama, replan, aMaster>>
    BY DEF transformacionOK
  <1>7. o.etapa = "REDUCCIONLOCAL" /\ DeFin(Orden("SOLICITUDREDUCCIONLOCAL", {o}).ops) = {}
    <2>1. o.etapa = "REDUCCIONLOCAL"  BY DEF Op
    <2>2. Orden("SOLICITUDREDUCCIONLOCAL", {o}).ops = {o}  BY DEF Orden
    <2> HIDE DEF o
    <2> QED  BY <2>1, <2>2 DEF DeFin, EtapasDeHilo
  <1> HIDE DEF i, t, n, o
  <1>8. CASE /\ j \notin asociados
             /\ tabla' = t /\ Leido(j) /\ UNCHANGED <<asociados, conectados, yama, replan, aMaster>>
    BY <1>2, <1>4, <1>5, <1>8, DejadoCumple
  <1>9. CASE \/ /\ j \notin asociados
                /\ tabla' = Append(t, nueva)
                /\ Responde(j, Orden("SOLICITUDREDUCCIONLOCAL", {o}))
                /\ UNCHANGED asociados
             \/ /\ tabla' = Append(Desasociar(t, j, asociados), nueva)
                /\ EnvioRoto(j)
                /\ asociados' = asociados \ {j}
    BY <1>2, <1>3, <1>4, <1>5, <1>9, EtapaDejadaCumple
  <1>10. j \in asociados => i \in EnCurso(tabla, j)
    BY <1>3, <1>4, AvisoEnCurso DEF i
  <1>11. CASE /\ j \in asociados /\ tabla' = t /\ Leido(j)
              /\ UNCHANGED <<asociados, conectados, yama, replan, aMaster>>
    <2>1. PICK N : N = {}  OBVIOUS
    <2>2. /\ EnCurso(tabla', j) = (EnCurso(tabla, j) \ {i}) \cup N
          /\ Globales(tabla', j) = Globales(tabla, j) /\ Almacenes(tabla', j) = Almacenes(tabla, j)
      BY <1>5, <1>11, <2>1, MismasFases
    <2>3. j \in asociados' /\ UNCHANGED varsMaster /\ aMaster' = aMaster  BY <1>2, <1>11
    <2>4. ContratoOK(j)' /\ PasoDe(j)
      BY <1>4, <1>10, <1>11, <2>1, <2>2, <2>3, AvanzaCumple
    <2> QED  BY <1>4, <1>11, <2>4 DEF Cumple, ReabreConObra
  <1>12. CASE /\ j \in asociados /\ tabla' = Append(t, nueva)
              /\ Responde(j, Orden("SOLICITUDREDUCCIONLOCAL", {o}))
              /\ UNCHANGED asociados
    <2>1. PICK m, u : m = Len(t) + 1 /\ u = tabla'  OBVIOUS
    <2>2. PICK N : N = {m}  OBVIOUS
    <2>3. "REDUCCIONLOCAL" \in Etapas /\ "REDUCCIONLOCAL" \in EtapasDeHilo  BY DEF Etapas, EtapasDeHilo
    <2>4. /\ m \notin DelJob(t, j) /\ EnCurso(u, j) = EnCurso(t, j) \cup {m}
          /\ DeEtapa(u, j, "REDUCGLOBAL") = DeEtapa(t, j, "REDUCGLOBAL")
          /\ DeEtapa(u, j, "ALMACENAMIENTOOP") = DeEtapa(t, j, "ALMACENAMIENTOOP")
      <3>1. ConEtapa(t, u, j, "REDUCCIONLOCAL", n, m)
        BY <1>4, <1>5, <1>12, <2>1, <2>3 DEF ConEtapa
      <3>2. /\ m \notin DelJob(t, j)
            /\ \A p : p # "REDUCCIONLOCAL" => DeEtapa(u, j, p) = DeEtapa(t, j, p)
            /\ EnCurso(u, j) =
                 EnCurso(t, j) \cup (IF "REDUCCIONLOCAL" \in EtapasDeHilo THEN {m} ELSE {})
        BY <3>1, AgregarFilas
      <3> QED  BY <2>3, <3>2
    <2>5. /\ EnCurso(tabla', j) = (EnCurso(tabla, j) \ {i}) \cup N
          /\ Globales(tabla', j) = Globales(tabla, j) /\ Almacenes(tabla', j) = Almacenes(tabla, j)
      BY <1>5, <2>1, <2>2, <2>4 DEF MismasFilas, Globales, Almacenes
    <2>6. N = {} \/ \E x : N = {x} /\ x \notin EnCurso(tabla, j)
      <3>1. m \notin EnCurso(tabla, j)  BY <1>5, <2>4 DEF MismasFilas, EnCurso
      <3> QED  BY <2>2, <3>1
    <2>7. /\ j \in asociados' /\ UNCHANGED varsMaster /\ Leido(j) /\ replan' = Nulo
          /\ \E x : Manda(j, x) /\ DeFin(x.ops) = {}
      BY <1>2, <1>4, <1>7, <1>12 DEF Responde
    <2>8. ContratoOK(j)' /\ PasoDe(j)
      BY <1>4, <1>10, <1>12, <2>5, <2>6, <2>7, AvanzaCumple
    <2> QED  BY <2>7, <2>8 DEF Cumple, ReabreConObra
  <1> QED  BY <1>6, <1>8, <1>9, <1>11, <1>12

\* YAMA orders the single operation of the next stage.
LEMMA FinPasa ==
  ASSUME CInv, NEW j \in Jobs, NEW a, Fin(aMaster[j], hilos[j], a, "NINGUNA"),
         NEW m, Manda(j, m), NEW o, DeFin(m.ops) = {o}, o.etapa # "NINGUNA"
  PROVE  Fin(aMaster'[j], hilos[j], a, o.etapa)
  <1>1. aMaster \in [Jobs -> Seq(Ordenes)] /\ aMaster[j] \in Seq(Ordenes)
    BY DEF CInv, IInv, Inv, AMasterOK
  <1>2. CASE aMaster'[j] = Append(aMaster[j], m)
    <2>1. Fin(Append(aMaster[j], m), hilos[j], a, o.etapa)
      <3>1. PICK f : f = o.etapa  OBVIOUS
      <3>2. "NINGUNA" = "NINGUNA" /\ f # "NINGUNA" /\ \E p : DeFin(m.ops) = {p} /\ p.etapa = f
        BY <3>1
      <3> QED  BY <1>1, <3>1, <3>2, FinManda
    <2> QED  BY <1>2, <2>1
  <1>3. CASE aMaster'[j] = aMaster[j]
    <2>1. Fin(aMaster[j], hilos[j], a, o.etapa)  BY DEF Fin
    <2> QED  BY <1>3, <2>1
  <1> QED  BY <1>1, <1>2, <1>3 DEF Manda

LEMMA ReduccionLocalOKCumple ==
  ASSUME CInv, IInv', NEW j \in Jobs, SoloDe(j), reduccionLocalOK(j)
  PROVE  Cumple(j)
  <1> DEFINE i == Head(aYama[j]).temp
             u == Marcar(tabla, {i}, "FINALIZADO")
             t == Marcar(u, Canceladas(u, i), "ERRORYAMA")
             R == ReduccionesListas(t, j)
  <1>1. AvisoOK("REDUCCIONLOCAL") = "REDLOCALOK" /\ "REDUCCIONLOCAL" \in EtapasDeHilo
    BY DEF AvisoOK, EtapasDeHilo
  <1>2. Llega(j, "REDLOCALOK") /\ UNCHANGED <<copiasLibres, varsMaster>>
    BY DEF reduccionLocalOK
  <1>3. IInv /\ tabla \in Seq(Entrada) /\ Conserva(tabla, tabla')
    BY DEF CInv, IInv, Inv, SoloDe
  <1>4. /\ aYama[j] # <<>> /\ replan = Nulo /\ i \in DelJob(tabla, j) /\ i # 0 /\ tabla[i].job = j
        /\ DelJob(tabla, j) # {}
    <2>1. i \in DeEtapa(tabla, j, "REDUCCIONLOCAL") /\ i \in 1..Len(tabla)
      BY <1>1, <1>2, <1>3, AvisoDeHilo DEF IInv, Llega
    <2> QED  BY <1>2, <2>1 DEF Llega, DeEtapa, DelJob
  <1>5. \/ /\ TodoReducido(t, j)
           /\ \E k \in R :
                \/ /\ tabla' = Append(t, NuevaEtapa(j, "REDUCGLOBAL", t[k].nodo))
                   /\ Responde(j, Orden("SOLICITUDREDUCCIONGLOBAL",
                                        {Op("REDUCGLOBAL", Len(t) + 1, 0, R)}))
                   /\ UNCHANGED asociados
                \/ /\ tabla' = Append(Desasociar(t, j, asociados),
                                      NuevaEtapa(j, "REDUCGLOBAL", t[k].nodo))
                   /\ EnvioRoto(j)
                   /\ asociados' = asociados \ {j}
        \/ tabla' = t /\ Leido(j) /\ UNCHANGED <<asociados, conectados, yama, replan, aMaster>>
    BY DEF reduccionLocalOK
  <1> HIDE DEF i
  <1>6. u \in Seq(Entrada) /\ MismasFilas(tabla, u, j) /\ EnCurso(u, j) = EnCurso(tabla, j) \ {i}
    <2>1. "FINALIZADO" \in Estados  BY DEF Estados
    <2> QED  BY <1>3, <2>1, MarcarFilas
  <1>7. EnCurso(u, j) \ Canceladas(u, i) = EnCurso(u, j)
    <2>1. \A k \in Canceladas(u, i) : u[k].estado = "FINALIZADO"
      BY DEF Canceladas, ReduccionesListas
    <2> QED  BY <2>1 DEF EnCurso
  <1> HIDE DEF u
  <1>8. /\ t \in Seq(Entrada) /\ MismasFilas(u, t, j)
        /\ EnCurso(t, j) = EnCurso(tabla, j) \ {i}
    <2>1. "ERRORYAMA" \in Estados /\ "ERRORYAMA" # "ENPROCESO"  BY DEF Estados
    <2>2. /\ t \in Seq(Entrada) /\ MismasFilas(u, t, j)
          /\ EnCurso(t, j) = EnCurso(u, j) \ Canceladas(u, i)
      BY <1>6, <2>1, MarcarFilas
    <2> QED  BY <1>6, <1>7, <2>2
  <1>9. MismasFilas(tabla, t, j)  BY <1>6, <1>8, MismasFilasTrans
  <1> HIDE DEF t
  <1>10. \A k \in R : t[k].nodo \in Nodos
    <2>1. \A k \in R : k \in 1..Len(t)
      BY <1>8, DominioTabla DEF ReduccionesListas, DeEtapa
    <2> QED  BY <1>8, <2>1, DominioTabla DEF Entrada
  <1> HIDE DEF R
  <1>11. CASE /\ j \notin asociados
              /\ tabla' = t /\ Leido(j) /\ UNCHANGED <<asociados, conectados, yama, replan, aMaster>>
    BY <1>2, <1>4, <1>9, <1>11, DejadoCumple
  <1>12. ASSUME NEW k \in R,
                \/ /\ j \notin asociados
                   /\ tabla' = Append(t, NuevaEtapa(j, "REDUCGLOBAL", t[k].nodo))
                   /\ Responde(j, Orden("SOLICITUDREDUCCIONGLOBAL",
                                        {Op("REDUCGLOBAL", Len(t) + 1, 0, R)}))
                   /\ UNCHANGED asociados
                \/ /\ tabla' = Append(Desasociar(t, j, asociados),
                                      NuevaEtapa(j, "REDUCGLOBAL", t[k].nodo))
                   /\ EnvioRoto(j)
                   /\ asociados' = asociados \ {j}
         PROVE  Cumple(j)
    <2>1. PICK n \in Nodos : n = t[k].nodo  BY <1>10
    <2> QED  BY <1>2, <1>3, <1>4, <1>8, <1>9, <1>12, <2>1, EtapaDejadaCumple
  <1>13. j \in asociados => i \in EnCurso(tabla, j)
    BY <1>3, <1>4, AvisoEnCurso DEF i
  <1>14. CASE /\ j \in asociados /\ tabla' = t /\ Leido(j)
              /\ UNCHANGED <<asociados, conectados, yama, replan, aMaster>>
    <2>1. PICK N : N = {}  OBVIOUS
    <2>2. /\ EnCurso(tabla', j) = (EnCurso(tabla, j) \ {i}) \cup N
          /\ Globales(tabla', j) = Globales(tabla, j) /\ Almacenes(tabla', j) = Almacenes(tabla, j)
      BY <1>8, <1>9, <1>14, <2>1, MismasFases
    <2>3. j \in asociados' /\ UNCHANGED varsMaster /\ aMaster' = aMaster  BY <1>2, <1>14
    <2>4. ContratoOK(j)' /\ PasoDe(j)
      BY <1>4, <1>13, <1>14, <2>1, <2>2, <2>3, AvanzaCumple
    <2> QED  BY <1>4, <1>14, <2>4 DEF Cumple, ReabreConObra
  <1>15. ASSUME j \in asociados, TodoReducido(t, j), NEW k \in R,
                tabla' = Append(t, NuevaEtapa(j, "REDUCGLOBAL", t[k].nodo)),
                Responde(j, Orden("SOLICITUDREDUCCIONGLOBAL",
                                  {Op("REDUCGLOBAL", Len(t) + 1, 0, R)})),
                UNCHANGED asociados
         PROVE  Cumple(j)
    <2>1. PICK m, v : m = Len(t) + 1 /\ v = tabla'  OBVIOUS
    <2>2. PICK n \in Nodos : n = t[k].nodo  BY <1>10
    <2>3. PICK o, x : o = Op("REDUCGLOBAL", m, 0, R) /\ x = Orden("SOLICITUDREDUCCIONGLOBAL", {o})
      OBVIOUS
    <2>4. o.etapa = "REDUCGLOBAL" /\ DeFin(x.ops) = {o} /\ Responde(j, x)
      BY <1>15, <2>1, <2>3, UnaDeFin DEF EtapasDeHilo
    <2>5. "REDUCGLOBAL" \in Etapas /\ "REDUCGLOBAL" \notin EtapasDeHilo  BY DEF Etapas, EtapasDeHilo
    <2>6. EnCurso(t, j) = {}  BY <1>15 DEF EnCurso, TodoReducido
    <2>7. EnCurso(tabla, j) = {i}  BY <1>8, <1>13, <1>15, <2>6
    <2>8. EstaEnMapa(tabla, j, asociados)
      BY <1>15, <2>7, SituacionDe DEF EstaEnGlobal, EstaEnAlmacen
    <2>9. Globales(t, j) = {} /\ Almacenes(t, j) = {}
      BY <1>9, <2>8, MismasFases DEF EstaEnMapa
    <2>10. /\ v[m].estado = "ENPROCESO" /\ m \notin DelJob(t, j)
           /\ Globales(v, j) = {m} /\ Almacenes(v, j) = {} /\ EnCurso(v, j) = {}
      <3>1. ConEtapa(t, v, j, "REDUCGLOBAL", n, m)
        BY <1>8, <1>15, <2>1, <2>2, <2>5 DEF ConEtapa
      <3>2. /\ v[m].estado = "ENPROCESO" /\ m \notin DelJob(t, j)
            /\ DeEtapa(v, j, "REDUCGLOBAL") = DeEtapa(t, j, "REDUCGLOBAL") \cup {m}
            /\ \A p : p # "REDUCGLOBAL" => DeEtapa(v, j, p) = DeEtapa(t, j, p)
            /\ EnCurso(v, j) = EnCurso(t, j) \cup (IF "REDUCGLOBAL" \in EtapasDeHilo THEN {m} ELSE {})
        BY <3>1, AgregarFilas
      <3>3. DeEtapa(v, j, "ALMACENAMIENTOOP") = DeEtapa(t, j, "ALMACENAMIENTOOP")  BY <3>2
      <3> QED  BY <2>5, <2>6, <2>9, <3>2, <3>3 DEF Globales, Almacenes
    <2>11. v \in Seq(Entrada) /\ j \in asociados'  BY <1>3, <1>15, <2>1 DEF Conserva
    <2>12. /\ FaseEn(v, j, asociados') = "global" /\ ObraEn(v, j, asociados') = {m}
           /\ EtapaFin(v, j) = "REDUCGLOBAL"
      BY <2>10, <2>11, EnGlobal
    <2>13. PasoDe(j)
      <3>1. FaseEn(tabla, j, asociados) = "mapa" /\ ObraEn(tabla, j, asociados) = {i}
        BY <2>7, <2>8 DEF EstaEnMapa
      <3>2. i # m  BY <1>4, <1>9, <2>10 DEF MismasFilas
      <3>3. \E p \in {i}, q \in {m} : p # q /\ {i} = {p} /\ {m} = {q}  BY <3>2
      <3> QED  BY <2>1, <2>12, <3>1, <3>3 DEF PasoDe, PasoAbs
    <2>14. Fase(v, j)  BY <2>10 DEF Fase
    <2>15. Fin(aMaster'[j], hilos'[j], aYama'[j], "REDUCGLOBAL")
      <3>1. Fin(aMaster[j], hilos[j], aYama[j], "NINGUNA")
        BY <1>15, <2>8, SituacionDe DEF EstaEnMapa
      <3>2. aYama[j] \in Seq(AvisosHasta(Len(tabla))) /\ aYama'[j] = Tail(aYama[j])
        BY <2>4 DEF CInv, IInv, Inv, AYamaOK, Responde, Leido
      <3>3. Fin(aMaster[j], hilos[j], aYama'[j], "NINGUNA")
        BY <1>4, <3>1, <3>2, FinLee
      <3>4. Manda(j, x) /\ hilos' = hilos  BY <1>2, <2>4 DEF Responde, varsMaster
      <3> QED  BY <2>4, <3>3, <3>4, FinPasa
    <2>16. ContratoOK(j)'
      BY <2>1, <2>11, <2>12, <2>14, <2>15 DEF ContratoOK, EnFase
    <2>17. ReabreConObra'  BY <1>4, <2>4 DEF ReabreConObra, Responde
    <2> QED  BY <2>13, <2>16, <2>17 DEF Cumple
  <1> QED  BY <1>5, <1>11, <1>12, <1>14, <1>15

\* An answer about a job that has no entry yet changes nothing.
LEMMA NuevoCumple ==
  ASSUME NEW j, j \notin asociados, j \notin asociados', DelJob(tabla, j) = {},
         DelJob(tabla', j) = {}, replan' = Nulo
  PROVE  Cumple(j)
  <1>1. /\ ObraEn(tabla, j, asociados) = {} /\ ObraEn(tabla', j, asociados') = {}
        /\ FaseEn(tabla, j, asociados) = "nuevo" /\ FaseEn(tabla', j, asociados') = "nuevo"
    BY Fuera
  <1> QED  BY <1>1 DEF Cumple, PasoDe, PasoAbs, ContratoOK, ReabreConObra

\* When the answer about the last two stages arrives, nothing else is left anywhere.
LEMMA NadaMasEnVuelo ==
  ASSUME CInv, NEW j \in Jobs, j \in asociados, aYama[j] # <<>>, Head(aYama[j]).tipo \in TiposFin
  PROVE  /\ Tail(aYama[j]) = <<>> /\ hilos[j] = {} /\ \A k \in 1..Len(aMaster[j]) : aMaster[j][k].ops = {}
         /\ EnCurso(tabla, j) = {}
         /\ Head(aYama[j]).tipo \in {AvisoOK(EtapaFin(tabla, j)), AvisoFallo(EtapaFin(tabla, j))}
         /\ EtapaFin(tabla, j) # "NINGUNA"
  <1> DEFINE e == EtapaFin(tabla, j)
             b == Tail(aYama[j])
  <1>1. /\ aYama[j] \in Seq(AvisosHasta(Len(tabla)))
        /\ Fin(aMaster[j], hilos[j], aYama[j], e)
        /\ TrabajoOK(j) /\ Seguimiento(j) /\ DelJob(tabla, j) # {}
    BY SituacionDe DEF CInv, IInv, Inv, AYamaOK, TrabajoOK
  <1>2. /\ e # "NINGUNA" /\ Head(aYama[j]).tipo \in {AvisoOK(e), AvisoFallo(e)}
        /\ DeFin(hilos[j]) = {} /\ \A k \in 1..Len(aMaster[j]) : DeFin(aMaster[j][k].ops) = {}
        /\ \A k \in 1..Len(b) : b[k].tipo \notin TiposFin
    BY <1>1, FinLee
  <1>3. EnCurso(tabla, j) = {}
    BY <1>2, SituacionDe DEF EstaEnMapa, EstaEnGlobal, EstaEnAlmacen
  <1>4. Reparto(aMaster[j], hilos[j], aYama[j], {})
    BY <1>1, <1>3 DEF Seguimiento
  <1>5. hilos[j] = {}  BY <1>2, <1>4 DEF Reparto, DeFin, DeHilo
  <1>6. ASSUME NEW k \in 1..Len(aMaster[j]) PROVE aMaster[j][k].ops = {}
    <2>1. DeFin(aMaster[j][k].ops) = {} /\ DeHilo(aMaster[j][k].ops) = {}
      BY <1>2, <1>4 DEF Reparto
    <2> QED  BY <2>1 DEF DeFin, DeHilo
  <1>7. ASSUME NEW k \in 1..Len(b) PROVE FALSE
    <2>1. PICK l \in 1..Len(aYama[j]) : b[k] = aYama[j][l]  BY <1>1, ColaDe
    <2>2. b[k].temp = 0  BY <1>4, <2>1 DEF Reparto
    <2>3. aYama[j][l] \in AvisosHasta(Len(tabla)) /\ AvisoPropio(tabla, j, aYama[j][l])
      BY <1>1 DEF CInv, IInv, Inv, AYamaOK
    <2>4. b[k].tipo # "SOLICITUDJOB"
      BY <1>1, <2>1 DEF TrabajoOK, UnaSolicitud, Nuevo
    <2>5. b[k].tipo \in TiposOK \cup TiposFallo  BY <2>1, <2>3, <2>4 DEF AvisosHasta
    <2>6. PICK x \in EtapasDeHilo : b[k].tipo \in {AvisoOK(x), AvisoFallo(x)}
      BY <1>2, <2>5 DEF TiposOK, TiposFallo, TiposFin, EtapasDeHilo, AvisoOK, AvisoFallo
    <2>7. 0 \in DelJob(tabla, j)  BY <2>1, <2>2, <2>3, <2>6 DEF AvisoPropio, DeEtapa
    <2> QED  BY <2>7, DominioTabla DEF CInv, IInv, Inv
  <1>8. b = <<>>
    <2>1. b \in Seq(AvisosHasta(Len(tabla)))  BY <1>1, HeadTailProperties
    <2> QED  BY <1>7, <2>1, LenProperties, EmptySeq
  <1> QED  BY <1>2, <1>3, <1>5, <1>6, <1>8

\* The job ends, well or badly, with the answer about its last stage.
LEMMA TerminaCumple ==
  ASSUME CInv, NEW j \in Jobs, NEW tipo \in TiposFin, Llega(j, tipo), Conserva(tabla, tabla'),
         MismasFilas(tabla, tabla', j), asociados' = asociados \ {j}, UNCHANGED varsMaster,
         \/ \E x : Responde(j, Orden(x, {}))
         \/ EnvioRoto(j)
         \/ Leido(j) /\ UNCHANGED <<aMaster, conectados, yama, replan>>
  PROVE  Cumple(j)
  <1>1. /\ aYama[j] # <<>> /\ Head(aYama[j]).tipo \in TiposFin /\ replan = Nulo /\ replan' = Nulo
        /\ j \notin asociados' /\ aYama \in [Jobs -> Seq(AvisosHasta(Len(tabla)))]
        /\ aMaster \in [Jobs -> Seq(Ordenes)] /\ hilos' = hilos
    BY DEF Llega, Responde, EnvioRoto, CInv, IInv, Inv, AYamaOK, AMasterOK, varsMaster
  <1>2. DelJob(tabla', j) = DelJob(tabla, j) /\ Almacenes(tabla', j) = Almacenes(tabla, j)
    BY MismasFases
  <1>3. CASE j \notin asociados
    <2>1. DelJob(tabla, j) = {}  BY <1>3, LlegaDeCortado
    <2> QED  BY <1>1, <1>2, <1>3, <2>1, NuevoCumple
  <1>4. CASE j \in asociados /\ EnvioRoto(j)
    <2>1. aYama'[j] = <<>> /\ conectados' = conectados \ {j}
      BY <1>1, <1>4 DEF EnvioRoto
    <2> QED  BY <1>1, <1>2, <1>4, <2>1, DejaMudo
  <1>5. CASE /\ j \in asociados /\ Leido(j)
             /\ aMaster' = aMaster \/ \E x : Manda(j, Orden(x, {}))
    <2>1. /\ Tail(aYama[j]) = <<>> /\ hilos[j] = {}
          /\ \A k \in 1..Len(aMaster[j]) : aMaster[j][k].ops = {}
      BY <1>1, <1>5, NadaMasEnVuelo
    <2>2. aYama'[j] = <<>>  BY <1>1, <1>5, <2>1 DEF Leido
    <2>3. \A k \in 1..Len(aMaster'[j]) : aMaster'[j][k].ops = {}
      <3>1. CASE aMaster'[j] = aMaster[j]  BY <2>1, <3>1
      <3>2. ASSUME NEW x, aMaster'[j] = Append(aMaster[j], Orden(x, {}))
            PROVE  \A k \in 1..Len(aMaster'[j]) : aMaster'[j][k].ops = {}
        <4>1. aMaster[j] \in Seq(Ordenes) /\ Orden(x, {}).ops = {}  BY <1>1 DEF Orden
        <4> QED  BY <2>1, <3>2, <4>1, AlFinalDe
      <3> QED  BY <1>1, <1>5, <3>1, <3>2 DEF Manda
    <2>4. Suelto(j)'  BY <1>1, <2>1, <2>2, <2>3 DEF Suelto, Acabado
    <2>5. ContratoOK(j)' /\ PasoDe(j)  BY <1>1, <1>2, <1>5, <2>4, DejaCumple
    <2> QED  BY <1>1, <2>5 DEF Cumple, ReabreConObra
  <1> QED  BY <1>3, <1>4, <1>5 DEF Responde

LEMMA MarcarYDejar ==
  ASSUME NEW t \in Seq(Entrada), NEW I, NEW s \in Estados, NEW j, NEW A
  PROVE  MismasFilas(t, Desasociar(Marcar(t, I, s), j, A), j)
  <1>1. PICK u \in Seq(Entrada) : u = Marcar(t, I, s) /\ MismasFilas(t, u, j)  BY MarcarFilas
  <1>2. MismasFilas(u, Desasociar(u, j, A), j)  BY <1>1, DejarFilas
  <1> QED  BY <1>1, <1>2, MismasFilasTrans

LEMMA FinalesCumplen ==
  ASSUME CInv, NEW j \in Jobs, SoloDe(j),
         fallaReduccionGlobal(j) \/ almacenamientoOK(j) \/ almacenamientoError(j)
  PROVE  Cumple(j)
  <1>1. tabla \in Seq(Entrada) /\ "ERRORYAMA" \in Estados /\ "FINALIZADO" \in Estados
        /\ Conserva(tabla, tabla')
    BY DEF CInv, IInv, Inv, Estados, SoloDe
  <1>2. CASE fallaReduccionGlobal(j)
    <2>1. Llega(j, "FALLOREDGLOBAL") /\ "FALLOREDGLOBAL" \in TiposFin
      BY <1>2 DEF fallaReduccionGlobal, TiposFin
    <2>2. MismasFilas(tabla, tabla', j)  BY <1>1, <1>2, MarcarYDejar DEF fallaReduccionGlobal
    <2> QED  BY <1>1, <1>2, <2>1, <2>2, TerminaCumple DEF fallaReduccionGlobal
  <1>3. CASE almacenamientoOK(j)
    <2>1. Llega(j, "ALMACENAMIENTOOK") /\ "ALMACENAMIENTOOK" \in TiposFin
      BY <1>3 DEF almacenamientoOK, TiposFin
    <2>2. MismasFilas(tabla, tabla', j)  BY <1>1, <1>3, MarcarYDejar DEF almacenamientoOK
    <2> QED  BY <1>1, <1>3, <2>1, <2>2, TerminaCumple DEF almacenamientoOK
  <1>4. CASE almacenamientoError(j)
    <2>1. Llega(j, "ERRORALMACENAMIENTO") /\ "ERRORALMACENAMIENTO" \in TiposFin
      BY <1>4 DEF almacenamientoError, TiposFin
    <2>2. MismasFilas(tabla, tabla', j)  BY <1>1, <1>4, MarcarYDejar DEF almacenamientoError
    <2> QED  BY <1>1, <1>4, <2>1, <2>2, TerminaCumple DEF almacenamientoError
  <1> QED  BY <1>2, <1>3, <1>4

LEMMA ReduccionGlobalOkCumple ==
  ASSUME CInv, NEW j \in Jobs, SoloDe(j), reduccionGlobalOk(j)
  PROVE  Cumple(j)
  <1> DEFINE G == Primera(tabla, j, "REDUCGLOBAL")
             t == Marcar(tabla, G, "FINALIZADO")
  <1>1. /\ Llega(j, "REDGLOBALOK") /\ aYama[j] # <<>> /\ Head(aYama[j]).tipo = "REDGLOBALOK"
        /\ replan' = Nulo /\ Leido(j) /\ asociados' = asociados
        /\ UNCHANGED <<asociados, conectados, copiasLibres, yama, replan, varsMaster>>
    BY DEF reduccionGlobalOk, Llega
  <1>2. \/ G = {} /\ UNCHANGED <<tabla, aMaster>>
        \/ \E g \in G :
             /\ tabla' = Append(t, NuevaEtapa(j, "ALMACENAMIENTOOP", t[g].nodo))
             /\ Manda(j, Orden("SOLICITUDALMACENAMIENTO", {Op("ALMACENAMIENTOOP", g, 0, {g})}))
    BY DEF reduccionGlobalOk
  <1>3. /\ tabla \in Seq(Entrada) /\ Conserva(tabla, tabla') /\ "REDGLOBALOK" \in TiposFin
        /\ aYama \in [Jobs -> Seq(AvisosHasta(Len(tabla)))]
    BY DEF CInv, IInv, Inv, SoloDe, TiposFin, AYamaOK
  <1>4. CASE j \notin asociados
    <2>1. DelJob(tabla, j) = {}  BY <1>1, <1>3, <1>4, LlegaDeCortado
    <2>2. G = {}  BY <2>1 DEF Primera, DeEtapa
    <2> QED  BY <1>1, <1>2, <1>4, <2>1, <2>2, NuevoCumple
  <1>5. CASE j \in asociados
    <2>1. EstaEnGlobal(tabla, j, asociados)
      <3>1. /\ EtapaFin(tabla, j) \in {"NINGUNA", "REDUCGLOBAL", "ALMACENAMIENTOOP"}
            /\ EtapaFin(tabla, j) # "NINGUNA"
            /\ "REDGLOBALOK" \in {AvisoOK(EtapaFin(tabla, j)), AvisoFallo(EtapaFin(tabla, j))}
        BY <1>1, <1>3, <1>5, NadaMasEnVuelo DEF EtapaFin
      <3>2. /\ AvisoOK("ALMACENAMIENTOOP") = "ALMACENAMIENTOOK"
            /\ AvisoFallo("ALMACENAMIENTOOP") = "ERRORALMACENAMIENTO"
        BY DEF AvisoOK, AvisoFallo
      <3>3. EtapaFin(tabla, j) = "REDUCGLOBAL"  BY <3>1, <3>2
      <3> QED  BY <1>5, <3>3, SituacionDe DEF EstaEnMapa, EstaEnAlmacen
    <2>2. PICK g : Globales(tabla, j) = {g}  BY <2>1 DEF EstaEnGlobal
    <2>3. /\ g \in DelJob(tabla, j) /\ DeEtapa(tabla, j, "REDUCGLOBAL") = {g}
          /\ g \in 1..Len(tabla) /\ g \in Nat
      BY <1>3, <2>2, DominioTabla DEF Globales, DeEtapa
    <2>4. G = {g}  BY <2>3 DEF Primera
    <2>5. /\ t \in Seq(Entrada) /\ MismasFilas(tabla, t, j) /\ t[g].estado = "FINALIZADO"
          /\ EnCurso(t, j) = {} /\ t[g].nodo \in Nodos
      <3>1. "FINALIZADO" \in Estados /\ "FINALIZADO" # "ENPROCESO"  BY DEF Estados
      <3>2. /\ t \in Seq(Entrada) /\ MismasFilas(tabla, t, j) /\ t[g].estado = "FINALIZADO"
            /\ EnCurso(t, j) = EnCurso(tabla, j) \ G
        BY <1>3, <2>3, <2>4, <3>1, MarcarFilas
      <3>3. EnCurso(tabla, j) = {}  BY <2>1 DEF EstaEnGlobal
      <3>4. g \in DelJob(t, j)  BY <2>3, <3>2 DEF MismasFilas
      <3>5. t[g] \in Entrada  BY <3>2, <3>4, DominioTabla
      <3> QED  BY <3>2, <3>3, <3>5 DEF Entrada
    <2>6. /\ tabla' = Append(t, NuevaEtapa(j, "ALMACENAMIENTOOP", t[g].nodo))
          /\ Manda(j, Orden("SOLICITUDALMACENAMIENTO", {Op("ALMACENAMIENTOOP", g, 0, {g})}))
      BY <1>2, <2>4
    <2> HIDE DEF G, t
    <2>7. PICK m, v : m = Len(t) + 1 /\ v = tabla'  OBVIOUS
    <2>8. PICK o, x : /\ o = Op("ALMACENAMIENTOOP", g, 0, {g})
                      /\ x = Orden("SOLICITUDALMACENAMIENTO", {o})
      OBVIOUS
    <2>9. o.etapa = "ALMACENAMIENTOOP" /\ DeFin(x.ops) = {o} /\ Manda(j, x)
      <3>1. o.etapa = "ALMACENAMIENTOOP"  BY <2>8 DEF Op
      <3>2. x.ops = {o}  BY <2>8 DEF Orden
      <3>3. DeFin(x.ops) = {o}  BY <3>1, <3>2 DEF DeFin, EtapasDeHilo
      <3>4. Manda(j, x)  BY <2>6, <2>8
      <3> QED  BY <3>1, <3>3, <3>4
    <2>10. /\ v[m].estado = "ENPROCESO" /\ m \notin DelJob(t, j) /\ v[g].estado = "FINALIZADO"
           /\ Globales(v, j) = {g} /\ Almacenes(v, j) = {m} /\ EnCurso(v, j) = {}
      <3>1. "ALMACENAMIENTOOP" \in Etapas /\ "ALMACENAMIENTOOP" \notin EtapasDeHilo
        BY DEF Etapas, EtapasDeHilo
      <3>2. ConEtapa(t, v, j, "ALMACENAMIENTOOP", t[g].nodo, m)
        BY <2>5, <2>6, <2>7, <3>1 DEF ConEtapa
      <3>3. /\ v[m].estado = "ENPROCESO" /\ m \notin DelJob(t, j)
            /\ \A i \in DelJob(t, j) : v[i] = t[i]
            /\ DeEtapa(v, j, "ALMACENAMIENTOOP") = DeEtapa(t, j, "ALMACENAMIENTOOP") \cup {m}
            /\ \A p : p # "ALMACENAMIENTOOP" => DeEtapa(v, j, p) = DeEtapa(t, j, p)
            /\ EnCurso(v, j) =
                 EnCurso(t, j) \cup (IF "ALMACENAMIENTOOP" \in EtapasDeHilo THEN {m} ELSE {})
        BY <3>2, AgregarFilas
      <3>4. DeEtapa(v, j, "REDUCGLOBAL") = DeEtapa(t, j, "REDUCGLOBAL")  BY <3>3
      <3>5. Almacenes(tabla, j) = {}  BY <2>1 DEF EstaEnGlobal
      <3>6. /\ DeEtapa(t, j, "REDUCGLOBAL") = {g} /\ DeEtapa(t, j, "ALMACENAMIENTOOP") = {}
            /\ g \in DelJob(t, j)
        BY <2>3, <2>5, <3>5 DEF MismasFilas, Almacenes
      <3> QED  BY <2>5, <3>1, <3>3, <3>4, <3>6 DEF Globales, Almacenes
    <2>11. v \in Seq(Entrada) /\ j \in asociados'  BY <1>1, <1>3, <1>5, <2>7 DEF Conserva
    <2>12. /\ FaseEn(v, j, asociados') = "almacen" /\ ObraEn(v, j, asociados') = {m}
           /\ EtapaFin(v, j) = "ALMACENAMIENTOOP"
      <3>1. PICK A : A = asociados'  OBVIOUS
      <3>2. /\ v \in Seq(Entrada) /\ j \in A /\ EnCurso(v, j) = {} /\ Globales(v, j) # {}
            /\ \A i \in Globales(v, j) : v[i].estado = "FINALIZADO"
            /\ Almacenes(v, j) = {m} /\ v[m].estado = "ENPROCESO"
        BY <2>10, <2>11, <3>1
      <3>3. /\ FaseEn(v, j, A) = "almacen" /\ ObraEn(v, j, A) = {m}
            /\ EtapaFin(v, j) = "ALMACENAMIENTOOP"
        BY <3>2, EnAlmacen
      <3> QED  BY <3>1, <3>3
    <2>13. PasoDe(j)
      <3>1. FaseEn(tabla, j, asociados) = "global" /\ ObraEn(tabla, j, asociados) = {g}
        BY <2>1, <2>2 DEF EstaEnGlobal
      <3>2. g # m  BY <2>3, <2>5, <2>10 DEF MismasFilas
      <3>3. \E p \in {g}, q \in {m} : p # q /\ {g} = {p} /\ {m} = {q}  BY <3>2
      <3> QED  BY <2>7, <2>12, <3>1, <3>3 DEF PasoDe, PasoAbs
    <2>14. Fase(v, j)  BY <2>10 DEF Fase
    <2>15. Fin(aMaster'[j], hilos'[j], aYama'[j], "ALMACENAMIENTOOP")
      <3>1. Fin(aMaster[j], hilos[j], aYama[j], EtapaFin(tabla, j))  BY <1>5, SituacionDe
      <3>2. aYama[j] \in Seq(AvisosHasta(Len(tabla))) /\ aYama'[j] = Tail(aYama[j])
        BY <1>1, <1>3 DEF Leido
      <3>3. Fin(aMaster[j], hilos[j], aYama'[j], "NINGUNA")
        BY <1>1, <1>3, <3>1, <3>2, FinLee
      <3>4. hilos' = hilos  BY <1>1 DEF varsMaster
      <3> QED  BY <2>9, <3>3, <3>4, FinPasa
    <2>16. ContratoOK(j)'
      BY <2>7, <2>11, <2>12, <2>14, <2>15 DEF ContratoOK, EnFase
    <2> QED  BY <1>1, <2>13, <2>16 DEF Cumple, ReabreConObra
  <1> QED  BY <1>4, <1>5

LEMMA FallaLocalCumple ==
  ASSUME CInv, NEW j \in Jobs, SoloDe(j), fallaReduccionLocal(j)
  PROVE  Cumple(j)
  <1>1. CASE Cae  BY <1>1, CaeCumple
  <1>2. CASE /\ j \in asociados
             /\ tabla' = Marcar(tabla, DelJob(tabla, j), "ERRORYAMA")
             /\ asociados' = asociados \ {j}
             /\ Responde(j, Orden("FALLOREDLOCAL", {})) \/ EnvioRoto(j)
             /\ UNCHANGED <<copiasLibres, varsMaster>>
    <2> DEFINE i == Head(aYama[j]).temp
               m == Orden("FALLOREDLOCAL", {})
    <2>1. AvisoFallo("REDUCCIONLOCAL") = "FALLOREDLOCAL" /\ "REDUCCIONLOCAL" \in EtapasDeHilo
      BY DEF AvisoFallo, EtapasDeHilo
    <2>2. Llega(j, "FALLOREDLOCAL")  BY DEF fallaReduccionLocal
    <2>3. /\ IInv /\ tabla \in Seq(Entrada) /\ Conserva(tabla, tabla')
          /\ aYama \in [Jobs -> Seq(AvisosHasta(Len(tabla)))] /\ aMaster \in [Jobs -> Seq(Ordenes)]
          /\ hilos' = hilos /\ maestro' = maestro
      BY <1>2 DEF CInv, IInv, Inv, SoloDe, AYamaOK, AMasterOK, varsMaster
    <2>4. aYama[j] # <<>> /\ replan = Nulo /\ replan' = Nulo /\ i # 0 /\ j \notin asociados'
      <3>1. i \in 1..Len(tabla)
        BY <2>1, <2>2, <2>3, AvisoDeHilo DEF IInv, Llega
      <3> QED  BY <1>2, <2>2, <3>1 DEF Llega, Responde, EnvioRoto
    <2>5. i \in EnCurso(tabla, j)  BY <1>2, <2>3, <2>4, AvisoEnCurso
    <2> HIDE DEF i
    <2>6. EstaEnMapa(tabla, j, asociados)
      BY <1>2, <2>5, SituacionDe DEF EstaEnGlobal, EstaEnAlmacen
    <2>7. Almacenes(tabla', j) = {} /\ Almacenes(tabla, j) = {}
      <3>1. "ERRORYAMA" \in Estados  BY DEF Estados
      <3>2. MismasFilas(tabla, tabla', j)  BY <1>2, <2>3, <3>1, MarcarFilas
      <3> QED  BY <2>6, <3>2, MismasFases DEF EstaEnMapa
    <2>8. CASE EnvioRoto(j)
      <3>1. aYama'[j] = <<>> /\ conectados' = conectados \ {j}  BY <2>3, <2>8 DEF EnvioRoto
      <3> QED  BY <1>2, <2>3, <2>4, <2>7, <3>1, DejaMudo
    <2>9. CASE Responde(j, m)
      <3>1. Fin(aMaster[j], hilos[j], aYama[j], "NINGUNA")
        BY <1>2, <2>6, SituacionDe DEF EstaEnMapa
      <3>2. /\ DeFin(hilos[j]) = {} /\ \A k \in 1..Len(aMaster[j]) : DeFin(aMaster[j][k].ops) = {}
            /\ \A k \in 1..Len(aYama[j]) : aYama[j][k].tipo \notin TiposFin
        BY <3>1 DEF Fin
      <3>3. \A k \in 1..Len(aYama'[j]) : aYama'[j][k].tipo \notin TiposFin
        <4>1. aYama'[j] = Tail(aYama[j]) /\ aYama[j] \in Seq(AvisosHasta(Len(tabla)))
          BY <2>3, <2>9 DEF Responde, Leido
        <4>2. \A k \in 1..Len(aYama'[j]) : \E l \in 1..Len(aYama[j]) : aYama'[j][k] = aYama[j][l]
          BY <2>4, <4>1, ColaDe
        <4> QED  BY <3>2, <4>2
      <3>4. ASSUME Vivo(j)
            PROVE  \E k \in 1..Len(aMaster'[j]) :
                     /\ aMaster'[j][k].tipo = "FALLOREDLOCAL"
                     /\ \A l \in 1..k : DeFin(aMaster'[j][l].ops) = {}
        <4>1. aMaster'[j] = Append(aMaster[j], m) /\ aMaster[j] \in Seq(Ordenes)
          BY <2>3, <2>9, <3>4 DEF Responde, Manda
        <4>2. m.tipo = "FALLOREDLOCAL" /\ DeFin(m.ops) = {}  BY DEF Orden, DeFin
        <4> HIDE DEF m
        <4>3. PICK k : k = Len(aMaster[j]) + 1  OBVIOUS
        <4>4. /\ k \in 1..Len(aMaster'[j]) /\ aMaster'[j][k] = m /\ Len(aMaster'[j]) = k
              /\ \A l \in 1..Len(aMaster'[j]) : l = k \/ l \in 1..Len(aMaster[j])
              /\ \A l \in 1..Len(aMaster[j]) : aMaster'[j][l] = aMaster[j][l]
          BY <4>1, <4>3, AlFinalDe
        <4>5. \A l \in 1..k : DeFin(aMaster'[j][l].ops) = {}
          BY <3>2, <4>2, <4>4
        <4> QED  BY <4>2, <4>4, <4>5
      <3>5. Suelto(j)'
        BY <2>3, <2>7, <3>2, <3>3, <3>4 DEF Suelto, Cortado, Vivo
      <3>6. Almacenes(tabla', j) \subseteq Almacenes(tabla, j)  BY <2>7
      <3>7. ContratoOK(j)' /\ PasoDe(j)  BY <1>2, <2>3, <2>4, <3>5, <3>6, DejaCumple
      <3> QED  BY <2>4, <3>7 DEF Cumple, ReabreConObra
    <2> QED  BY <1>2, <2>8, <2>9
  <1> QED  BY <1>1, <1>2 DEF fallaReduccionLocal

LEMMA ComprobarCumple ==
  ASSUME CInv, NEW j \in Jobs, SoloDe(j), comprobarConexion(j)
  PROVE  Cumple(j)
  <1>1. /\ replan' = Nulo /\ aYama'[j] = <<>> /\ tabla' = Desasociar(tabla, j, asociados)
        /\ asociados' = asociados \ {j} /\ conectados' = conectados \ {j}
    BY DEF comprobarConexion
  <1>2. tabla \in Seq(Entrada) /\ Conserva(tabla, tabla')  BY DEF CInv, IInv, Inv, SoloDe
  <1>3. CASE j \in asociados
    <2>1. Almacenes(tabla', j) = Almacenes(tabla, j)
      BY <1>1, <1>2, DejarFilas, MismasFases
    <2> QED  BY <1>1, <1>2, <1>3, <2>1, DejaMudo
  <1>4. CASE j \notin asociados
    <2>1. tabla' = tabla /\ (j \in asociados' <=> j \in asociados)  BY <1>1, <1>4 DEF Desasociar
    <2>2. PasoDe(j)  BY <1>2, <2>1, Igual, SinPaso
    <2>3. Suelto(j)'  BY <1>1 DEF Suelto, Mudo
    <2> QED  BY <1>1, <2>2, <2>3 DEF Cumple, ContratoOK, ReabreConObra
  <1> QED  BY <1>3, <1>4

LEMMA ManejarDatosCumple ==
  ASSUME CInv, IInv', NEW j \in Jobs, SoloDe(j), ManejarDatos(j)
  PROVE  Cumple(j)
  BY SolicitudCumple, ReplanificarCumple, ReplanificarFinalizadasCumple, TerminarCumple,
     TransformacionOKCumple, ReduccionLocalOKCumple, FallaLocalCumple, FinalesCumplen,
     ReduccionGlobalOkCumple, ComprobarCumple
  DEF ManejarDatos

-----------------------------------------------------------------------------
(* The Masters.  They leave the table alone.                               *)

LEMMA MasterCumple ==
  ASSUME CInv, NEW j \in Jobs, UNCHANGED <<tabla, asociados, replan>>,
         j \in asociados => Fin(aMaster'[j], hilos'[j], aYama'[j], EtapaFin(tabla, j)),
         j \notin asociados /\ DelJob(tabla, j) # {} => Suelto(j)'
  PROVE  Cumple(j)
  <1>1. PasoDe(j)  BY Igual, SinPaso DEF CInv, IInv, Inv
  <1>2. ReabreConObra'  BY DEF ReabreConObra, CInv
  <1>3. j \in asociados => Fase(tabla, j)  BY DEF CInv, ContratoOK, EnFase
  <1>4. ContratoOK(j)'  BY <1>3 DEF ContratoOK, EnFase
  <1> QED  BY <1>1, <1>2, <1>4 DEF Cumple

\* The process of the Master ends.
LEMMA SaleDeja ==
  ASSUME CInv, NEW j \in Jobs, NEW s \in Salidas, Sale(j, s), UNCHANGED <<varsYama, aYama>>
  PROVE  Cumple(j)
  <1>1. /\ maestro'[j] = s /\ hilos'[j] = {} /\ aMaster'[j] = <<>>
        /\ UNCHANGED <<tabla, asociados, conectados, replan, aYama>>
    BY DEF Sale, varsYama, CInv, IInv, Inv, EscalaresOK, HilosOK, AMasterOK
  <1>2. ASSUME j \in asociados
        PROVE  Fin(aMaster'[j], hilos'[j], aYama'[j], EtapaFin(tabla, j))
    <2>1. Fin(aMaster[j], hilos[j], aYama[j], EtapaFin(tabla, j))  BY <1>2, SituacionDe
    <2>2. Fin(<<>>, {}, aYama[j], EtapaFin(tabla, j))  BY <2>1, FinPierde
    <2> QED  BY <1>1, <2>2
  <1>3. ASSUME Suelto(j) PROVE Suelto(j)'
    <2>1. Mudo(j) => Mudo(j)'  BY <1>1 DEF Mudo
    <2>2. Acabado(j) => Acabado(j)'
      <3>1. Len(<<>>) = 0 /\ 1..0 = {}  OBVIOUS
      <3> QED  BY <1>1, <3>1 DEF Acabado
    <2>3. Cortado(j) => Cortado(j)'
      <3>1. ~Vivo(j)' /\ DeFin({}) = {}  BY <1>1 DEF Vivo, DeFin
      <3> QED  BY <1>1, <3>1 DEF Cortado
    <2> QED  BY <1>3, <2>1, <2>2, <2>3 DEF Suelto
  <1>4. j \notin asociados /\ DelJob(tabla, j) # {} => Suelto(j)'
    BY <1>3 DEF CInv, ContratoOK
  <1> QED  BY <1>1, <1>2, <1>4, MasterCumple

\* The main thread follows an order that does not give the job up.
LEMMA LanzaDeja ==
  ASSUME CInv, NEW j \in Jobs, NEW s \in Puntos, Vivo(j), aMaster[j] # <<>>,
         Head(aMaster[j]).tipo # "FALLOREDLOCAL", Lanza(j, s), UNCHANGED <<varsYama, aYama>>
  PROVE  Cumple(j)
  <1>1. /\ hilos'[j] = hilos[j] \cup Head(aMaster[j]).ops /\ aMaster'[j] = Tail(aMaster[j])
        /\ aMaster[j] \in Seq(Ordenes)
        /\ UNCHANGED <<tabla, asociados, conectados, replan, aYama>>
    BY DEF Lanza, varsYama, CInv, IInv, Inv, HilosOK, AMasterOK
  <1>2. PICK x, y : x = aMaster[j] /\ y = Tail(x)  OBVIOUS
  <1>3. /\ 1 \in 1..Len(x) /\ Head(x) = x[1] /\ Len(x) \in Nat
        /\ \A k \in 1..Len(y) : y[k] = x[k + 1] /\ k + 1 \in 1..Len(x)
        /\ \A k \in 1..Len(x) : k = 1 \/ (k - 1 \in 1..Len(y) /\ y[k - 1] = x[k])
    BY <1>1, <1>2, ColaDe
  <1>4. ASSUME j \in asociados
        PROVE  Fin(aMaster'[j], hilos'[j], aYama'[j], EtapaFin(tabla, j))
    <2>1. Fin(x, hilos[j], aYama[j], EtapaFin(tabla, j))  BY <1>2, <1>4, SituacionDe
    <2>2. x \in Seq(Ordenes) /\ x # <<>>  BY <1>1, <1>2
    <2>3. Fin(Tail(x), hilos[j] \cup Head(x).ops, aYama[j], EtapaFin(tabla, j))
      BY <2>1, <2>2, FinLanza
    <2> QED  BY <1>1, <1>2, <2>3
  <1>5. ASSUME Suelto(j) PROVE Suelto(j)'
    <2>1. Mudo(j) => Mudo(j)'  BY <1>1 DEF Mudo
    <2>2. Acabado(j) => Acabado(j)'
      <3> SUFFICES ASSUME Acabado(j) PROVE Acabado(j)'  OBVIOUS
      <3>1. aYama[j] = <<>> /\ hilos[j] = {} /\ \A k \in 1..Len(x) : x[k].ops = {}
        BY <1>2 DEF Acabado
      <3>2. hilos'[j] = {}  BY <1>1, <1>2, <1>3, <3>1
      <3>3. \A k \in 1..Len(y) : y[k].ops = {}  BY <1>3, <3>1
      <3> QED  BY <1>1, <1>2, <3>1, <3>2, <3>3 DEF Acabado
    <2>3. Cortado(j) => Cortado(j)'
      <3> SUFFICES ASSUME Cortado(j) PROVE Cortado(j)'  OBVIOUS
      <3>1. PICK k \in 1..Len(x) :
              x[k].tipo = "FALLOREDLOCAL" /\ \A l \in 1..k : DeFin(x[l].ops) = {}
        BY <1>2 DEF Cortado
      <3>2. k # 1 /\ k - 1 \in 1..Len(y) /\ y[k - 1] = x[k]  BY <1>2, <1>3, <3>1
      <3>3. DeFin(x[1].ops) = {}
        <4>1. 1 \in 1..k  BY <1>3, <3>1
        <4> QED  BY <3>1, <4>1
      <3>4. DeFin(hilos'[j]) = {}
        <4>1. DeFin(hilos[j]) = {}  BY DEF Cortado
        <4> QED  BY <1>1, <1>2, <1>3, <3>3, <4>1 DEF DeFin
      <3>5. \A l \in 1..(k - 1) : DeFin(y[l].ops) = {}
        <4> SUFFICES ASSUME NEW l \in 1..(k - 1) PROVE DeFin(y[l].ops) = {}  OBVIOUS
        <4>1. l + 1 \in 1..k /\ l \in 1..Len(y)  BY <1>3, <3>1, <3>2
        <4> QED  BY <1>3, <3>1, <4>1
      <3>6. aMaster'[j] = y  BY <1>1, <1>2
      <3>7. y[k - 1].tipo = "FALLOREDLOCAL"  BY <3>1, <3>2
      <3>8. \E n \in 1..Len(aMaster'[j]) :
              /\ aMaster'[j][n].tipo = "FALLOREDLOCAL"
              /\ \A l \in 1..n : DeFin(aMaster'[j][l].ops) = {}
        BY <3>2, <3>5, <3>6, <3>7
      <3> QED  BY <1>1, <3>4, <3>8 DEF Cortado
    <2> QED  BY <1>5, <2>1, <2>2, <2>3 DEF Suelto
  <1>6. j \notin asociados /\ DelJob(tabla, j) # {} => Suelto(j)'
    BY <1>5 DEF CInv, ContratoOK
  <1> QED  BY <1>1, <1>4, <1>6, MasterCumple

LEMMA HiloPrincipalCumple ==
  ASSUME CInv, NEW j \in Jobs, HiloPrincipal(j)
  PROVE  Cumple(j)
  <1>1. CASE solicitudJob(j)
    <2>1. maestro[j] = "inicio" /\ UNCHANGED <<tabla, asociados, replan>>
      BY <1>1 DEF solicitudJob
    <2>2. Nuevo(j)  BY <2>1 DEF CInv, IInv, TrabajoOK, UnaSolicitud
    <2> QED  BY <2>1, <2>2, MasterCumple DEF Nuevo
  <1>2. {"abortado", "sin_almacenar"} \subseteq Salidas  BY DEF Salidas
  <1>3. ASSUME NEW s \in {"bucle", "global", "almacenando"}, NEW p \in Puntos \ Salidas, NEW T,
               Recibe(j, p, T), "FALLOREDLOCAL" \notin T, Lanza(j, s), UNCHANGED <<varsYama, aYama>>
        PROVE  Cumple(j)
    <2>1. Vivo(j) /\ s \in Puntos /\ aMaster[j] # <<>> /\ Head(aMaster[j]).tipo # "FALLOREDLOCAL"
      BY <1>3 DEF Recibe, Vivo, Puntos
    <2> QED  BY <1>3, <2>1, LanzaDeja
  <1>4. {"solicitando", "bucle", "espera_almacen"} \subseteq Puntos \ Salidas
    BY DEF Puntos, Salidas
  <1>5. CASE mandarTransformacionNodo(j)
    BY <1>2, <1>3, <1>4, <1>5, SaleDeja DEF mandarTransformacionNodo
  <1>6. CASE mandarReplanificado(j)  BY <1>3, <1>4, <1>6 DEF mandarReplanificado
  <1>7. CASE reduccionLocal(j)  BY <1>3, <1>4, <1>7 DEF reduccionLocal
  <1>8. CASE abortar(j)  BY <1>2, <1>8, SaleDeja DEF abortar
  <1>9. CASE reduccionGlobal(j)  BY <1>2, <1>3, <1>4, <1>9, SaleDeja DEF reduccionGlobal
  <1>10. CASE almacenamiento(j)  BY <1>2, <1>3, <1>4, <1>10, SaleDeja DEF almacenamiento
  <1>11. CASE yamaNoResponde(j)
    <2>1. \/ Sale(j, "abortado") \/ Sale(j, "sin_almacenar")
          \/ /\ maestro[j] = "bucle" /\ maestro' = [maestro EXCEPT ![j] = "girando"]
             /\ UNCHANGED <<hilos, archivos, aMaster>>
      BY <1>11 DEF yamaNoResponde
    <2>2. UNCHANGED <<varsYama, aYama>>  BY <1>11 DEF yamaNoResponde
    <2>3. CASE /\ maestro[j] = "bucle" /\ maestro' = [maestro EXCEPT ![j] = "girando"]
               /\ UNCHANGED <<hilos, archivos, aMaster>>
      <3>1. UNCHANGED <<tabla, asociados, conectados, replan, aYama, hilos, aMaster>> /\ Vivo(j)
        BY <2>2, <2>3 DEF varsYama, Vivo, Salidas
      <3>2. j \in asociados => Fin(aMaster'[j], hilos'[j], aYama'[j], EtapaFin(tabla, j))
        BY <3>1, SituacionDe
      <3>3. j \notin asociados /\ DelJob(tabla, j) # {} => Suelto(j)'
        BY <3>1 DEF CInv, ContratoOK, Suelto, Mudo, Acabado, Cortado
      <3> QED  BY <3>1, <3>2, <3>3, MasterCumple
    <2> QED  BY <1>2, <2>1, <2>2, <2>3, SaleDeja
  <1> QED  BY <1>1, <1>5, <1>6, <1>7, <1>8, <1>9, <1>10, <1>11 DEF HiloPrincipal

\* A thread answers, and perhaps the Master ends.
LEMMA HiloDeOperacionCumple ==
  ASSUME CInv, NEW j \in Jobs, HiloDeOperacion(j)
  PROVE  Cumple(j)
  <1>1. PICK o \in hilos[j] : operacionOK(j, o) \/ trabajoAlmacenado(j, o) \/ operacionFalla(j, o)
    BY DEF HiloDeOperacion
  <1>2. PICK tipo \in {AvisoOK(o.etapa), AvisoFallo(o.etapa)} : Avisa(j, o, tipo)
    BY <1>1 DEF operacionOK, trabajoAlmacenado, operacionFalla
  <1>3. /\ hilos \in [Jobs -> SUBSET Operacion] /\ aMaster \in [Jobs -> Seq(Ordenes)]
        /\ aYama \in [Jobs -> Seq(AvisosHasta(Len(tabla)))] /\ maestro \in [Jobs -> Puntos]
    BY DEF CInv, IInv, Inv, HilosOK, AMasterOK, AYamaOK, EscalaresOK
  <1>4. PICK m : /\ m.tipo = tipo
                 /\ aYama'[j] = IF j \in conectados /\ yama = "viva" THEN Append(aYama[j], m)
                                ELSE aYama[j]
    <2> DEFINE r == Respuesta(tipo, IF o.etapa \in EtapasDeHilo THEN o.temp ELSE 0)
    <2>1. r.tipo = tipo  BY DEF Respuesta
    <2>2. aYama' = IF j \in conectados /\ yama = "viva" THEN [aYama EXCEPT ![j] = Append(@, r)]
                   ELSE aYama
      BY <1>2 DEF Avisa
    <2> HIDE DEF r
    <2>3. aYama'[j] = IF j \in conectados /\ yama = "viva" THEN Append(aYama[j], r) ELSE aYama[j]
      BY <1>3, <2>2
    <2> QED  BY <2>1, <2>3
  <1>5. /\ UNCHANGED <<tabla, asociados, conectados, replan>>
        /\ \/ hilos'[j] = hilos[j] \ {o} /\ aMaster'[j] = aMaster[j]
           \/ hilos'[j] = {} /\ aMaster'[j] = <<>>
    BY <1>1, <1>3 DEF operacionOK, trabajoAlmacenado, operacionFalla, varsYama, Sale
  <1>6. m.tipo \in TiposFin => o.etapa \notin EtapasDeHilo
    BY <1>2, <1>4 DEF TiposFin, EtapasDeHilo, AvisoOK, AvisoFallo
  <1>7. ASSUME j \in asociados
        PROVE  Fin(aMaster'[j], hilos'[j], aYama'[j], EtapaFin(tabla, j))
    <2>1. Fin(aMaster[j], hilos[j], aYama[j], EtapaFin(tabla, j))  BY <1>7, SituacionDe
    <2>2. Fin(aMaster[j], hilos[j] \ {o}, aYama'[j], EtapaFin(tabla, j))
      <3>1. CASE aYama'[j] = aYama[j]  BY <2>1, <3>1, FinPierde
      <3>2. CASE aYama'[j] = Append(aYama[j], m)
        <4> PICK s, H, a, e : /\ s = aMaster[j] /\ H = hilos[j] /\ a = aYama[j]
                              /\ e = EtapaFin(tabla, j)
          OBVIOUS
        <4>1. a \in Seq(AvisosHasta(Len(tabla))) /\ Fin(s, H, a, e) /\ o \in H
          BY <1>3, <2>1
        <4>2. m.tipo \in TiposFin =>
                o.etapa \notin EtapasDeHilo /\ m.tipo \in {AvisoOK(o.etapa), AvisoFallo(o.etapa)}
          BY <1>4, <1>6
        <4>3. Fin(s, H \ {o}, Append(a, m), e)  BY <4>1, <4>2, FinContesta
        <4> QED  BY <3>2, <4>3
      <3> QED  BY <1>4, <3>1, <3>2
    <2>3. Fin(<<>>, {}, aYama'[j], EtapaFin(tabla, j))  BY <2>2, FinPierde
    <2> QED  BY <1>5, <2>2, <2>3
  <1>8. ASSUME j \notin asociados, DelJob(tabla, j) # {} PROVE Suelto(j)'
    <2>1. Suelto(j)  BY <1>8 DEF CInv, ContratoOK
    <2>2. CASE Mudo(j)  BY <1>4, <1>5, <2>2 DEF Suelto, Mudo
    <2>3. ~Acabado(j)  BY DEF Acabado
    <2>4. CASE Cortado(j)
      <3>1. o.etapa \in EtapasDeHilo  BY <2>4 DEF Cortado, DeFin
      <3>2. hilos'[j] = hilos[j] \ {o} /\ aMaster'[j] = aMaster[j] /\ maestro' = maestro
        BY <1>1, <1>3, <3>1 DEF operacionOK, trabajoAlmacenado, operacionFalla, Sigue, EtapasDeHilo
      <3>3. DeFin(hilos'[j]) = {}  BY <2>4, <3>2 DEF Cortado, DeFin
      <3>4. \A k \in 1..Len(aYama'[j]) : aYama'[j][k].tipo \notin TiposFin
        <4>1. m.tipo \notin TiposFin  BY <1>6, <3>1
        <4>2. CASE aYama'[j] = Append(aYama[j], m)
          <5>1. \A k \in 1..Len(Append(aYama[j], m)) :
                  \/ Append(aYama[j], m)[k] = m
                  \/ k \in 1..Len(aYama[j]) /\ Append(aYama[j], m)[k] = aYama[j][k]
            BY <1>3, AlFinalDe
          <5> QED  BY <2>4, <4>1, <4>2, <5>1 DEF Cortado
        <4>3. CASE aYama'[j] = aYama[j]  BY <2>4, <4>3 DEF Cortado
        <4> QED  BY <1>4, <4>2, <4>3
      <3> QED  BY <1>5, <2>4, <3>2, <3>3, <3>4 DEF Suelto, Cortado, Vivo
    <2> QED  BY <2>1, <2>2, <2>3, <2>4 DEF Suelto
  <1> QED  BY <1>5, <1>7, <1>8, MasterCumple

LEMMA MasterMuereCumple ==
  ASSUME CInv, NEW j \in Jobs, MasterMuere(j)
  PROVE  Cumple(j)
  <1>1. "muerto" \in Salidas  BY DEF Salidas
  <1> QED  BY <1>1, SaleDeja DEF MasterMuere

-----------------------------------------------------------------------------
(* The theorem                                                             *)

LEMMA InicioDelContrato == Init => CInv /\ Contrato!AbsInit
  <1> SUFFICES ASSUME Init PROVE CInv /\ Contrato!AbsInit  OBVIOUS
  <1>1. tabla = <<>> /\ asociados = {} /\ replan = Nulo  BY DEF Init
  <1>2. \A j : DelJob(tabla, j) = {}
    <2>1. Len(<<>>) = 0 /\ 1..0 = {}  OBVIOUS
    <2> QED  BY <1>1, <2>1 DEF DelJob
  <1>3. CInv  BY <1>1, <1>2, InicioSigue DEF CInv, ReabreConObra, ContratoOK
  <1>4. \A j \in Jobs : FaseEn(tabla, j, asociados) = "nuevo" /\ ObraEn(tabla, j, asociados) = {}
    BY <1>1, <1>2, Fuera
  <1>5. \A j \in Jobs : FaseYama[j] = "nuevo" /\ ObraYama[j] = {}  BY <1>4, FaseYObra
  <1>6. FaseYama = [j \in Jobs |-> FaseYama[j]]  BY DEF FaseYama, FaseDe
  <1>7. ObraYama = [j \in Jobs |-> ObraYama[j]]  BY DEF ObraYama, EnProceso
  <1>8. Contrato!AbsInit  BY <1>5, <1>6, <1>7 DEF Contrato!AbsInit
  <1> QED  BY <1>3, <1>8

LEMMA PasoDelContrato ==
  CInv /\ [Next]_vars => CInv' /\ [Contrato!AbsNext]_<<FaseYama, ObraYama>>
  <1> SUFFICES ASSUME CInv, [Next]_vars
               PROVE  CInv' /\ [Contrato!AbsNext]_<<FaseYama, ObraYama>>
    OBVIOUS
  <1>1. Inv' /\ IInv'  BY PasoCumple, PasoSigue DEF CInv, IInv
  <1>2. CASE Next
    <2>1. PICK j \in Jobs :
            ManejarDatos(j) \/ HiloPrincipal(j) \/ HiloDeOperacion(j) \/ MasterMuere(j)
      BY <1>2 DEF Next
    <2>2. SoloDe(j)
      BY <1>1, <2>1, ManejarDatosSigue, HiloPrincipalSigue, HiloDeOperacionSigue,
         MasterMuereSigue DEF CInv
    <2>3. Cumple(j)
      BY <1>1, <2>1, <2>2, ManejarDatosCumple, HiloPrincipalCumple, HiloDeOperacionCumple,
         MasterMuereCumple
    <2> QED  BY <1>1, <2>2, <2>3, PasoCumpleContrato
  <1>3. CASE UNCHANGED vars
    <2>1. UNCHANGED <<tabla, asociados, conectados, replan, aYama, aMaster, maestro, hilos>>
      BY <1>3 DEF vars, varsYama, varsMaster
    <2>2. CInv'
      <3>1. ReabreConObra'  BY <2>1 DEF CInv, ReabreConObra
      <3>2. ASSUME NEW j \in Jobs PROVE ContratoOK(j)'
        <4>1. ContratoOK(j)  BY DEF CInv
        <4> QED  BY <2>1, <4>1 DEF ContratoOK, EnFase, Suelto, Mudo, Acabado, Cortado, Vivo
      <3> QED  BY <1>1, <3>1, <3>2 DEF CInv
    <2>3. FaseYama' = FaseYama  BY <2>1 DEF FaseYama, FaseDe
    <2>4. ObraYama' = ObraYama  BY <2>1 DEF ObraYama, EnProceso
    <2> QED  BY <2>2, <2>3, <2>4
  <1> QED  BY <1>2, <1>3

\* Whatever fails, dies or is answered late, each job goes through map, global reduction
\* and storage in that order, leaves the map with its last operation, gets a new
\* operation only while others are under way, and is never taken up again once YAMA
\* has let it go: every handler of manejarDatos is a step of TrabajoAbstracto or none.
THEOREM YamaCumpleElContrato == Spec => CumpleContrato
  <1>1. Spec => Contrato!AbsInit /\ [][Contrato!AbsNext]_<<FaseYama, ObraYama>>
    BY InicioDelContrato, PasoDelContrato, PTL DEF Spec
  <1> QED  BY <1>1 DEF CumpleContrato, Contrato!AbsSpec
=============================================================================
