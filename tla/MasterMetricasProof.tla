-------------------------- MODULE MasterMetricasProof --------------------------
(***************************************************************************)
(* Proof, for any number of threads, that the metric of parallel           *)
(* operations never exceeds what there was.                                *)
(***************************************************************************)
EXTENDS MasterMetricas, FiniteSetTheorems, TLAPS

\* A thread that calculates has the mutex of its kind.
Exclusion == \A t \in Hilos : pc[t] \in Calculo => mutex[Clase(t)] = t

\* Each counter is the number of threads of its kind that are counted in.
Cuenta == \A k \in Clases : cant[k] = Cardinality(Contados(k))

Alto == cant["transf"] > 0 /\ cant["redu"] > 0 => cant["transf"] + cant["redu"] <= pico

\* What a thread has read so far of the counters was true at a moment of its calculation: its
\* own does not change, for it has the mutex, and the other was read once.
Visto(t) ==
  /\ pc[t] = "hayRedu" /\ t \in Redu => cant["redu"] + 1 <= pico
  /\ pc[t] = "sumaTransf" => cant[Clase(t)] + 1 <= pico
  /\ pc[t] = "sumaRedu" /\ t \in Transf =>
       cargaActual[t] = cant["transf"] /\ cant["transf"] + 1 <= pico
  /\ pc[t] = "sumaRedu" /\ t \in Redu => cargaActual[t] + cant["redu"] <= pico
  /\ pc[t] \in {"compara", "carga"} => cargaActual[t] <= pico

Ind ==
  /\ TypeOKMetricas /\ Exclusion /\ Cuenta /\ Alto /\ cargaMaxima <= pico
  /\ \A t \in Hilos : Visto(t)
-----------------------------------------------------------------------------
USE SupuestoHilos

\* The kinds are two and each thread is of one of them.
LEMMA LasClases ==
  /\ \A k \in Clases : De(k) \subseteq Hilos /\ Otra(k) \in Clases
  /\ \A t \in Hilos : Clase(t) \in Clases /\ t \in De(Clase(t))
  /\ \A t \in Hilos : t # Nulo
  /\ \A t \in Hilos, k \in Clases : t \in De(k) <=> k = Clase(t)
BY DEF Clases, Clase, De, Otra, Hilos

\* The threads counted in are finitely many, so that their number is a number.
LEMMA ContadosFinitos ==
  ASSUME NEW k \in Clases
  PROVE  IsFiniteSet(Contados(k)) /\ Cardinality(Contados(k)) \in Nat
<1>1. IsFiniteSet(De(k)) BY DEF De, Clases
<1>2. Contados(k) \subseteq De(k) BY DEF Contados
<1> QED BY <1>1, <1>2, FS_Subset, FS_CardinalityType

\* A thread that is counted in makes its counter positive.
LEMMA Positivo ==
  ASSUME Cuenta, TypeOKMetricas, NEW t \in Hilos, pc[t] \in Calculo \cup {"opera"}
  PROVE  cant[Clase(t)] > 0
<1>1. t \in Contados(Clase(t)) BY LasClases DEF Contados
<1>2. Contados(Clase(t)) # {} BY <1>1
<1>3. Cardinality(Contados(Clase(t))) # 0 BY <1>2, LasClases, ContadosFinitos, FS_EmptySet
<1>4. cant[Clase(t)] = Cardinality(Contados(Clase(t))) BY LasClases DEF Cuenta
<1> QED BY <1>3, <1>4, LasClases, ContadosFinitos

\* The invariant holds at the start.
LEMMA AlEmpezar == Init => Ind
<1> SUFFICES ASSUME Init PROVE Ind OBVIOUS
<1>1. TypeOKMetricas BY LasClases DEF Init, TypeOKMetricas, Lugares
<1>2. Exclusion BY DEF Init, Exclusion, Calculo
<1>3. Cuenta
  <2> SUFFICES ASSUME NEW k \in Clases PROVE cant[k] = Cardinality(Contados(k)) BY DEF Cuenta
  <2>1. Contados(k) = {} BY LasClases DEF Init, Contados, Calculo
  <2> QED BY <2>1, FS_EmptySet DEF Init
<1>4. Alto BY DEF Init, Alto, Clases
<1>5. cargaMaxima <= pico BY DEF Init
<1>6. \A t \in Hilos : Visto(t) BY DEF Init, Visto
<1> QED BY <1>1, <1>2, <1>3, <1>4, <1>5, <1>6 DEF Ind

\* Steps that leave the counters alone: only pc, the mutex and the maxima change.
LEMMA CuentaIgual ==
  ASSUME Cuenta, TypeOKMetricas, UNCHANGED cant, NEW t \in Hilos, NEW p,
         pc' = [pc EXCEPT ![t] = p],
         pc[t] \in Calculo \cup {"opera"} <=> p \in Calculo \cup {"opera"}
  PROVE  Cuenta'
<1> SUFFICES ASSUME NEW k \in Clases PROVE cant'[k] = Cardinality(Contados(k)') BY DEF Cuenta
<1>1. \A u \in De(k) : pc[u] \in Calculo \cup {"opera"} <=> pc'[u] \in Calculo \cup {"opera"}
  BY LasClases DEF TypeOKMetricas
<1>2. Contados(k)' = Contados(k) BY <1>1 DEF Contados, De
<1> QED BY <1>2 DEF Cuenta

\* A thread that neither counts nor lets its mutex go leaves the parts about the counters and
\* the mutex, and what the others have seen.
LEMMA PasoQuieto ==
  ASSUME Ind, NEW t \in Hilos, NEW p \in Calculo, pc[t] \in Calculo,
         UNCHANGED <<mutex, cant, pico, cruce>>, pc' = [pc EXCEPT ![t] = p],
         \A u \in Hilos \ {t} : cargaActual'[u] = cargaActual[u]
  PROVE  /\ pc' \in [Hilos -> Lugares] /\ Exclusion' /\ Cuenta' /\ Alto'
         /\ \A u \in Hilos \ {t} : Visto(u)'
<1>1. pc' \in [Hilos -> Lugares] BY DEF Ind, TypeOKMetricas, Lugares
<1>2. Exclusion' BY DEF Ind, TypeOKMetricas, Exclusion
<1>3. Cuenta' BY CuentaIgual DEF Ind
<1>4. Alto' BY DEF Ind, Alto
<1>5. \A u \in Hilos \ {t} : Visto(u)' BY DEF Ind, TypeOKMetricas, Visto
<1> QED BY <1>1, <1>2, <1>3, <1>4, <1>5

\* The two tests of calcularMaximos.  Past them the own counter is positive because the thread
\* is counted, the other because it was read: so there were operations of both kinds.
LEMMA PasoHay ==
  ASSUME Ind, NEW t \in Hilos, hayTransf(t) \/ hayRedu(t)
  PROVE  Ind'
<1> USE DEF Ind
<1>0. cant \in [Clases -> Nat] /\ pico \in Nat BY DEF TypeOKMetricas
<1>1. PICK p \in Calculo : pc' = [pc EXCEPT ![t] = p] BY DEF hayTransf, hayRedu, Va, Calculo
<1>2. pc[t] \in Calculo BY DEF hayTransf, hayRedu, Calculo
<1>3. UNCHANGED <<mutex, cant, cargaActual, maximos, pico, cruce>> BY DEF hayTransf, hayRedu
<1>4. /\ pc' \in [Hilos -> Lugares] /\ Exclusion' /\ Cuenta' /\ Alto'
      /\ \A u \in Hilos \ {t} : Visto(u)'
  BY <1>1, <1>2, <1>3, PasoQuieto
<1>5. TypeOKMetricas' BY <1>3, <1>4 DEF TypeOKMetricas, maximos
<1>6. cant[Clase(t)] > 0 BY <1>2, Positivo
<1>7. Visto(t)'
  <2>1. pc[t] \in {"hayTransf", "hayRedu"} /\ pc'[t] \in {"hayRedu", "sumaTransf", "suelta"}
    BY DEF hayTransf, hayRedu, Va, TypeOKMetricas
  <2>2. CASE t \in Redu
    <3>1. Clase(t) = "redu" /\ "transf" \in Clases /\ "redu" \in Clases BY <2>2 DEF Clase, Clases
    <3>2. CASE hayTransf(t)
      <4>1. pc'[t] = "hayRedu" => cant["transf"] > 0
        BY <3>1, <3>2, <1>0 DEF hayTransf, Va, TypeOKMetricas
      <4>2. pc'[t] # "sumaTransf" BY <3>2 DEF hayTransf, Va, TypeOKMetricas
      <4> QED BY <4>1, <4>2, <3>1, <2>1, <1>6, <1>3, <1>0 DEF Alto, Visto
    <3>3. CASE hayRedu(t)
      <4>1. pc'[t] # "hayRedu" /\ pc[t] = "hayRedu" BY <3>3 DEF hayRedu, Va, TypeOKMetricas
      <4> QED BY <4>1, <3>1, <2>2, <2>1, <1>3 DEF Visto
    <3> QED BY <3>2, <3>3
  <2>3. CASE t \in Transf
    <3>1. Clase(t) = "transf" /\ t \notin Redu /\ "transf" \in Clases /\ "redu" \in Clases
      BY <2>3 DEF Clase, Clases
    <3>2. pc'[t] = "sumaTransf" => cant["redu"] > 0
      BY <3>1, <1>0 DEF hayTransf, hayRedu, Va, TypeOKMetricas
    <3> QED BY <3>1, <3>2, <2>1, <1>6, <1>3, <1>0 DEF Alto, Visto
  <2> QED BY <2>2, <2>3 DEF Hilos
<1>8. (cargaMaxima <= pico)' BY <1>3 DEF maximos
<1> QED BY <1>4, <1>5, <1>7, <1>8

\* The sum.  Each counter is read once: the own has not changed since, whichever it is.
LEMMA PasoSuma ==
  ASSUME Ind, NEW t \in Hilos, sumaTransf(t) \/ sumaRedu(t)
  PROVE  Ind'
<1> USE DEF Ind
<1>0. cant \in [Clases -> Nat] /\ pico \in Nat /\ cargaActual \in [Hilos -> Nat]
      /\ "transf" \in Clases /\ "redu" \in Clases
  BY DEF TypeOKMetricas, Clases
<1>1. PICK p \in Calculo : pc' = [pc EXCEPT ![t] = p] BY DEF sumaTransf, sumaRedu, Va, Calculo
<1>2. pc[t] \in Calculo BY DEF sumaTransf, sumaRedu, Calculo
<1>3. UNCHANGED <<mutex, cant, maximos, pico, cruce>> BY DEF sumaTransf, sumaRedu
<1>4. cargaActual' \in [Hilos -> Nat] /\ \A u \in Hilos \ {t} : cargaActual'[u] = cargaActual[u]
  BY <1>0 DEF sumaTransf, sumaRedu
<1>5. /\ pc' \in [Hilos -> Lugares] /\ Exclusion' /\ Cuenta' /\ Alto'
      /\ \A u \in Hilos \ {t} : Visto(u)'
  BY <1>1, <1>2, <1>3, <1>4, PasoQuieto
<1>6. TypeOKMetricas' BY <1>3, <1>4, <1>5 DEF TypeOKMetricas, maximos
<1>7. Visto(t)'
  <2>1. CASE sumaTransf(t)
    <3>1. pc[t] = "sumaTransf" /\ pc'[t] = "sumaRedu" /\ cargaActual'[t] = cant["transf"]
      BY <2>1, <1>0 DEF sumaTransf, Va, TypeOKMetricas
    <3>2. cant[Clase(t)] + 1 <= pico BY <3>1 DEF Visto
    <3>3. CASE t \in Transf
      BY <3>1, <3>2, <3>3, <1>3, <1>0 DEF Visto, Clase
    <3>4. CASE t \in Redu
      <4>1. Clase(t) = "redu" BY <3>4 DEF Clase
      <4>2. cant["redu"] > 0 BY <1>2, <4>1, Positivo
      <4>3. cant["transf"] + cant["redu"] <= pico BY <3>2, <4>1, <4>2, <1>0 DEF Alto
      <4> QED BY <3>1, <3>4, <4>3, <1>3, <1>0 DEF Visto
    <3> QED BY <3>3, <3>4 DEF Hilos
  <2>2. CASE sumaRedu(t)
    <3>1. /\ pc[t] = "sumaRedu" /\ pc'[t] = "compara"
          /\ cargaActual'[t] = cargaActual[t] + cant["redu"]
      BY <2>2, <1>0 DEF sumaRedu, Va, TypeOKMetricas
    <3>2. CASE t \in Transf
      <4>1. cargaActual[t] = cant["transf"] /\ cant["transf"] + 1 <= pico BY <3>1, <3>2 DEF Visto
      <4>2. cant["transf"] > 0 BY <1>2, <3>2, Positivo DEF Clase
      <4>3. cargaActual[t] + cant["redu"] <= pico BY <4>1, <4>2, <1>0 DEF Alto
      <4> QED BY <3>1, <4>3, <1>3, <1>0 DEF Visto
    <3>3. CASE t \in Redu BY <3>1, <3>3, <1>3, <1>0 DEF Visto
    <3> QED BY <3>2, <3>3 DEF Hilos
  <2> QED BY <2>1, <2>2
<1>8. (cargaMaxima <= pico)' BY <1>3 DEF maximos
<1> QED BY <1>5, <1>6, <1>7, <1>8

\* The test of the maximum.
LEMMA PasoCompara ==
  ASSUME Ind, NEW t \in Hilos, compara(t)
  PROVE  Ind'
<1> USE DEF Ind
<1>1. PICK p \in Calculo : pc' = [pc EXCEPT ![t] = p] BY DEF compara, Va, Calculo
<1>2. pc[t] = "compara" /\ pc[t] \in Calculo BY DEF compara, Calculo
<1>3. UNCHANGED <<mutex, cant, cargaActual, maximos, pico, cruce>> BY DEF compara
<1>4. /\ pc' \in [Hilos -> Lugares] /\ Exclusion' /\ Cuenta' /\ Alto'
      /\ \A u \in Hilos \ {t} : Visto(u)'
  BY <1>1, <1>2, <1>3, PasoQuieto
<1>5. TypeOKMetricas' BY <1>3, <1>4 DEF TypeOKMetricas, maximos
<1>6. Visto(t)'
  <2>1. pc'[t] \in {"carga", "suelta"} BY DEF compara, Va, TypeOKMetricas
  <2> QED BY <2>1, <1>2, <1>3 DEF Visto
<1>7. (cargaMaxima <= pico)' BY <1>3 DEF maximos
<1> QED BY <1>4, <1>5, <1>6, <1>7

\* The three writes.  What is written to the maximum is what the thread had added up.
LEMMA PasoEscribir ==
  ASSUME Ind, NEW t \in Hilos, escribir(t)
  PROVE  Ind'
<1> USE DEF Ind
<1>0. cant["transf"] \in Nat /\ cant["redu"] \in Nat BY DEF TypeOKMetricas, Clases
<1>1. PICK p \in Calculo : pc' = [pc EXCEPT ![t] = p] BY DEF escribir, Va, Calculo
<1>2. pc[t] \in {"carga", "maxT", "maxR"} /\ pc[t] \in Calculo BY DEF escribir, Calculo
<1>3. UNCHANGED <<mutex, cant, cargaActual, pico, cruce>> BY DEF escribir
<1>4. /\ pc' \in [Hilos -> Lugares] /\ Exclusion' /\ Cuenta' /\ Alto'
      /\ \A u \in Hilos \ {t} : Visto(u)'
  BY <1>1, <1>2, <1>3, PasoQuieto
<1>5. TypeOKMetricas' BY <1>0, <1>3, <1>4 DEF TypeOKMetricas, escribir
<1>6. Visto(t)'
  <2>1. pc'[t] \in {"maxT", "maxR", "suelta"} BY DEF escribir, Va, TypeOKMetricas
  <2> QED BY <2>1 DEF Visto
<1>7. (cargaMaxima <= pico)' BY <1>3 DEF escribir, Visto
<1> QED BY <1>4, <1>5, <1>6, <1>7

\* A thread lets its mutex go: the others that calculate have the other one.
LEMMA PasoSoltar ==
  ASSUME Ind, NEW t \in Hilos, soltar(t)
  PROVE  Ind'
<1> USE DEF Ind
<1>1. pc[t] = "suelta" /\ pc' = [pc EXCEPT ![t] = "opera"] BY DEF soltar, Va
<1>2. UNCHANGED <<cant, cargaActual, maximos, pico, cruce>> BY DEF soltar
<1>3. TypeOKMetricas' BY <1>1, <1>2 DEF soltar, TypeOKMetricas, maximos, Lugares
<1>4. Exclusion'
  <2>1. mutex[Clase(t)] = t BY <1>1 DEF Exclusion, Calculo
  <2> SUFFICES ASSUME NEW u \in Hilos, pc'[u] \in Calculo PROVE mutex'[Clase(u)] = u
    BY DEF Exclusion
  <2>2. u # t /\ pc[u] \in Calculo BY <1>1 DEF TypeOKMetricas, Calculo
  <2>3. mutex[Clase(u)] = u BY <2>2 DEF Exclusion
  <2>4. Clase(u) # Clase(t) BY <2>1, <2>2, <2>3
  <2> QED BY <2>3, <2>4, LasClases DEF soltar, TypeOKMetricas
<1>5. Cuenta' BY <1>1, <1>2, CuentaIgual DEF Calculo
<1>6. Alto' BY <1>2 DEF Alto
<1>7. \A u \in Hilos : Visto(u)' BY <1>1, <1>2 DEF Visto, TypeOKMetricas
<1>8. (cargaMaxima <= pico)' BY <1>2 DEF maximos
<1> QED BY <1>3, <1>4, <1>5, <1>6, <1>7, <1>8

\* The history of a change of the counters keeps its bound.
LEMMA PasoHistoria ==
  ASSUME TypeOKMetricas, cant' \in [Clases -> Nat], NEW k \in Clases, Historia(k)
  PROVE  pico' \in Nat /\ pico' >= pico /\ cruce' \in BOOLEAN /\ Alto'
<1>1. cant'["transf"] \in Nat /\ cant'["redu"] \in Nat /\ pico \in Nat
  BY DEF TypeOKMetricas, Clases
<1>2. cruce' \in BOOLEAN BY DEF Historia, TypeOKMetricas
<1>3. pico' \in Nat /\ pico' >= pico BY <1>1 DEF Historia
<1>4. Alto' BY <1>1 DEF Historia, Alto
<1> QED BY <1>2, <1>3, <1>4

\* While the mutex of a kind is free no thread of that kind calculates, so that a change of its
\* counter leaves what the others have seen.
LEMMA VistoDeLosOtros ==
  ASSUME Ind, NEW t \in Hilos, NEW u \in Hilos, u # t, NEW p, Libre(Clase(t)),
         pc' = [pc EXCEPT ![t] = p], UNCHANGED cargaActual,
         \A k \in Clases : k # Clase(t) => cant'[k] = cant[k],
         pico' \in Nat, pico' >= pico
  PROVE  Visto(u)'
<1> USE DEF Ind
<1>1. pc'[u] = pc[u] /\ cargaActual'[u] = cargaActual[u] BY DEF TypeOKMetricas
<1>2. CASE pc[u] \notin Calculo BY <1>1, <1>2 DEF Visto, Calculo
<1>3. CASE pc[u] \in Calculo
  <2>1. mutex[Clase(u)] = u BY <1>3 DEF Exclusion
  <2>2. Clase(u) # Clase(t) BY <2>1, LasClases DEF Libre
  <2>3. cant'[Clase(u)] = cant[Clase(u)] BY <2>2, LasClases
  <2>4. cant[Clase(u)] \in Nat /\ cargaActual[u] \in Nat /\ pico \in Nat
    BY LasClases DEF TypeOKMetricas
  <2>5. /\ u \in Transf => Clase(u) = "transf"
        /\ u \in Redu => Clase(u) = "redu"
    BY DEF Clase
  <2> QED BY <1>1, <2>3, <2>4, <2>5 DEF Visto
<1> QED BY <1>2, <1>3

\* A thread is counted in.
LEMMA PasoEntrar ==
  ASSUME Ind, NEW t \in Hilos, entrar(t)
  PROVE  Ind'
<1> USE DEF Ind
<1> DEFINE c == Clase(t)
<1>0. c \in Clases BY LasClases
<1>1. /\ pc[t] = "inicio" /\ pc' = [pc EXCEPT ![t] = "hayTransf"] /\ Libre(c) /\ Historia(c)
      /\ mutex' = [mutex EXCEPT ![c] = t] /\ cant' = [cant EXCEPT ![c] = @ + 1]
      /\ UNCHANGED <<cargaActual, maximos>>
  BY DEF entrar, Va
<1>2. cant' \in [Clases -> Nat]
  <2>1. cant[c] + 1 \in Nat BY <1>0 DEF TypeOKMetricas
  <2> QED BY <2>1, <1>0, <1>1 DEF TypeOKMetricas
<1>3. pico' \in Nat /\ pico' >= pico /\ cruce' \in BOOLEAN /\ Alto'
  BY <1>0, <1>1, <1>2, PasoHistoria
<1>4. TypeOKMetricas'
  <2>1. pc' \in [Hilos -> Lugares] BY <1>1 DEF TypeOKMetricas, Lugares, Calculo
  <2>2. mutex' \in [Clases -> Hilos \cup {Nulo}] BY <1>1 DEF TypeOKMetricas
  <2> QED BY <2>1, <2>2, <1>1, <1>2, <1>3 DEF TypeOKMetricas, maximos
<1>5. Exclusion'
  <2> SUFFICES ASSUME NEW u \in Hilos, pc'[u] \in Calculo PROVE mutex'[Clase(u)] = u
    BY DEF Exclusion
  <2>1. CASE u = t BY <2>1, <1>0, <1>1 DEF TypeOKMetricas
  <2>2. CASE u # t
    <3>1. mutex[Clase(u)] = u BY <2>2, <1>1 DEF Exclusion, TypeOKMetricas
    <3>2. Clase(u) # c BY <3>1, <1>1, LasClases DEF Libre
    <3> QED BY <3>1, <3>2, <1>1, LasClases DEF TypeOKMetricas
  <2> QED BY <2>1, <2>2
<1>6. Cuenta'
  <2> SUFFICES ASSUME NEW k \in Clases PROVE cant'[k] = Cardinality(Contados(k)') BY DEF Cuenta
  <2>1. cant[k] = Cardinality(Contados(k)) BY DEF Cuenta
  <2>2. CASE k = c
    <3>1. Contados(k)' = Contados(k) \cup {t}
      BY <2>2, <1>1, LasClases DEF Contados, De, Calculo, TypeOKMetricas
    <3>2. t \notin Contados(k) BY <1>1 DEF Contados, Calculo
    <3>3. IsFiniteSet(Contados(k)) BY ContadosFinitos
    <3>4. Cardinality(Contados(k)') = Cardinality(Contados(k)) + 1 BY <3>1, <3>2, <3>3, FS_AddElement
    <3>5. cant'[k] = cant[k] + 1 BY <2>2, <1>1 DEF TypeOKMetricas
    <3> QED BY <3>4, <3>5, <2>1
  <2>3. CASE k # c
    <3>1. t \notin De(k) BY <2>3, LasClases
    <3>2. Contados(k)' = Contados(k)
      BY <3>1, <1>1, LasClases DEF Contados, De, TypeOKMetricas
    <3> QED BY <3>2, <2>1, <2>3, <1>1 DEF TypeOKMetricas
  <2> QED BY <2>2, <2>3
<1>7. \A u \in Hilos : Visto(u)'
  <2>1. Visto(t)' BY <1>1 DEF Visto, TypeOKMetricas
  <2>2. \A k \in Clases : k # Clase(t) => cant'[k] = cant[k] BY <1>1 DEF TypeOKMetricas
  <2>3. \A u \in Hilos \ {t} : Visto(u)' BY <1>1, <1>3, <2>2, VistoDeLosOtros
  <2> QED BY <2>1, <2>3
<1>8. (cargaMaxima <= pico)' BY <1>1, <1>3 DEF maximos, TypeOKMetricas
<1> QED BY <1>3, <1>4, <1>5, <1>6, <1>7, <1>8

\* A thread is counted out: its counter was positive, for the thread was in it.
LEMMA PasoTerminar ==
  ASSUME Ind, NEW t \in Hilos, terminar(t)
  PROVE  Ind'
<1> USE DEF Ind
<1> DEFINE c == Clase(t)
<1>0. c \in Clases BY LasClases
<1>1. /\ pc[t] = "opera" /\ pc' = [pc EXCEPT ![t] = "fin"] /\ Libre(c) /\ Historia(c)
      /\ cant' = [cant EXCEPT ![c] = @ - 1] /\ UNCHANGED <<mutex, cargaActual, maximos>>
  BY DEF terminar, Va
<1>2. cant' \in [Clases -> Nat]
  <2>1. cant[c] > 0 BY <1>1, Positivo
  <2> QED BY <2>1, <1>0, <1>1 DEF TypeOKMetricas
<1>3. pico' \in Nat /\ pico' >= pico /\ cruce' \in BOOLEAN /\ Alto'
  BY <1>0, <1>1, <1>2, PasoHistoria
<1>4. TypeOKMetricas'
  <2>1. pc' \in [Hilos -> Lugares] BY <1>1 DEF TypeOKMetricas, Lugares
  <2> QED BY <2>1, <1>1, <1>2, <1>3 DEF TypeOKMetricas, maximos
<1>5. Exclusion' BY <1>1 DEF Exclusion, TypeOKMetricas, Calculo
<1>6. Cuenta'
  <2> SUFFICES ASSUME NEW k \in Clases PROVE cant'[k] = Cardinality(Contados(k)') BY DEF Cuenta
  <2>1. cant[k] = Cardinality(Contados(k)) BY DEF Cuenta
  <2>2. CASE k = c
    <3>1. Contados(k)' = Contados(k) \ {t}
      BY <2>2, <1>1, LasClases DEF Contados, De, Calculo, TypeOKMetricas
    <3>2. t \in Contados(k) BY <2>2, <1>1, LasClases DEF Contados
    <3>3. IsFiniteSet(Contados(k)) BY ContadosFinitos
    <3>4. Cardinality(Contados(k)') = Cardinality(Contados(k)) - 1
      BY <3>1, <3>2, <3>3, FS_RemoveElement
    <3>5. cant'[k] = cant[k] - 1 BY <2>2, <1>1 DEF TypeOKMetricas
    <3> QED BY <3>4, <3>5, <2>1
  <2>3. CASE k # c
    <3>1. t \notin De(k) BY <2>3, LasClases
    <3>2. Contados(k)' = Contados(k)
      BY <3>1, <1>1, LasClases DEF Contados, De, TypeOKMetricas
    <3> QED BY <3>2, <2>1, <2>3, <1>1 DEF TypeOKMetricas
  <2> QED BY <2>2, <2>3
<1>7. \A u \in Hilos : Visto(u)'
  <2>1. Visto(t)' BY <1>1 DEF Visto, TypeOKMetricas
  <2>2. \A k \in Clases : k # Clase(t) => cant'[k] = cant[k] BY <1>1 DEF TypeOKMetricas
  <2>3. \A u \in Hilos \ {t} : Visto(u)' BY <1>1, <1>3, <2>2, VistoDeLosOtros
  <2> QED BY <2>1, <2>3
<1>8. (cargaMaxima <= pico)' BY <1>1, <1>3 DEF maximos, TypeOKMetricas
<1> QED BY <1>3, <1>4, <1>5, <1>6, <1>7, <1>8
-----------------------------------------------------------------------------
\* Every step of the specification keeps the invariant.
LEMMA CadaPaso == Ind /\ [Next]_vars => Ind'
<1> SUFFICES ASSUME Ind, [Next]_vars PROVE Ind' OBVIOUS
<1>1. CASE UNCHANGED vars
  BY <1>1 DEF Ind, TypeOKMetricas, Exclusion, Cuenta, Contados, Alto, Visto, vars, maximos
<1>2. CASE Next
  <2> PICK t \in Hilos : Hilo(t) BY <1>2 DEF Next
  <2> QED BY PasoEntrar, PasoHay, PasoSuma, PasoCompara, PasoEscribir, PasoSoltar, PasoTerminar
          DEF Hilo
<1> QED BY <1>1, <1>2

\* However many threads a Master has, and whatever their interleaving, the metric of parallel
\* operations never exceeds the most operations of both kinds that ran at once.
THEOREM CotaDeLaMetrica == Spec => []CotaReal
<1>1. Ind => CotaReal BY DEF Ind, CotaReal
<1> QED BY <1>1, AlEmpezar, CadaPaso, PTL DEF Spec

\* And each counter is always the number of threads of its kind that are counted in: no
\* increment or decrement is lost, with each mutex on its own counter only.
THEOREM ContadoresExactos == Spec => []Cuenta
<1>1. Ind => Cuenta BY DEF Ind
<1> QED BY <1>1, AlEmpezar, CadaPaso, PTL DEF Spec
-----------------------------------------------------------------------------
(* When no change of a counter crossed a calculation.                      *)

Ambos == cant["transf"] > 0 /\ cant["redu"] > 0
Suma  == cant["transf"] + cant["redu"]

\* The metric says all there was before this calculation, which may have more to say.
Falta == pico = IF Ambos /\ Suma > cargaMaxima THEN Suma ELSE cargaMaxima

AlDia == cargaMaxima = pico /\ maxT + maxR = cargaMaxima

\* How far a thread is in saying it.
Avance(t) ==
  /\ pc[t] \in {"hayTransf", "hayRedu", "sumaTransf", "sumaRedu", "compara"} =>
       Falta /\ maxT + maxR = cargaMaxima
  /\ pc[t] = "hayRedu" => cant["transf"] > 0
  /\ pc[t] \in {"sumaTransf", "sumaRedu", "compara", "carga", "maxT", "maxR"} => Ambos
  /\ pc[t] = "sumaRedu" => cargaActual[t] = cant["transf"]
  /\ pc[t] \in {"compara", "carga"} => cargaActual[t] = Suma
  /\ pc[t] = "carga" => pico = Suma
  /\ pc[t] \in {"maxT", "maxR"} => cargaMaxima = pico /\ cargaMaxima = Suma
  /\ pc[t] = "maxR" => maxT = cant["transf"]
  /\ pc[t] = "suelta" => AlDia

EnCalculo(t) == pc[t] \in Calculo
Quietos == \A t \in Hilos : ~EnCalculo(t)

SinCruce ==
  /\ \A t, u \in Hilos : EnCalculo(t) /\ EnCalculo(u) => t = u
  /\ Quietos => AlDia
  /\ \A t \in Hilos : Avance(t)

IndExacto == Ind /\ (~cruce => SinCruce)

\* A step of the only thread that calculates, if it stays in its calculation.
LEMMA ExactoDentro ==
  ASSUME Ind, SinCruce, NEW t \in Hilos, NEW p \in Calculo, EnCalculo(t),
         pc' = [pc EXCEPT ![t] = p], Avance(t)'
  PROVE  SinCruce'
<1>1. /\ pc'[t] = p /\ \A u \in Hilos \ {t} : pc'[u] = pc[u] /\ pc'[u] \notin Calculo
  BY DEF Ind, TypeOKMetricas, SinCruce, EnCalculo
<1>2. EnCalculo(t)' /\ \A u \in Hilos \ {t} : ~EnCalculo(u)' BY <1>1 DEF EnCalculo
<1>3. \A u \in Hilos \ {t} : Avance(u)' BY <1>1 DEF Avance, Calculo
<1>4. ~Quietos' BY <1>2 DEF Quietos
<1> QED BY <1>2, <1>3, <1>4 DEF SinCruce

\* If nobody calculates before a change of the counters, the metric says all there was.
LEMMA NadieCalcula ==
  ASSUME Ind, SinCruce, NEW t \in Hilos, Libre(Clase(t)), Historia(Clase(t)), ~cruce'
  PROVE  Quietos /\ AlDia
<1>1. ASSUME NEW u \in Hilos, EnCalculo(u) PROVE FALSE
  <2>1. mutex[Clase(u)] = u BY <1>1 DEF Ind, Exclusion, EnCalculo
  <2>2. Clase(u) # Clase(t) BY <2>1, LasClases DEF Libre
  <2>3. u \in De(Otra(Clase(t))) BY <2>2 DEF Clase, Otra, De, Hilos
  <2> QED BY <2>3, <1>1 DEF Historia, EnCalculo
<1> QED BY <1>1 DEF Quietos, SinCruce

\* The steps of calcularMaximos.
LEMMA ExactoCalculo ==
  ASSUME Ind, SinCruce, NEW t \in Hilos,
         \/ hayTransf(t) \/ hayRedu(t) \/ sumaTransf(t) \/ sumaRedu(t)
         \/ compara(t) \/ escribir(t)
  PROVE  SinCruce'
<1>0. /\ cant["transf"] \in Nat /\ cant["redu"] \in Nat /\ cargaMaxima \in Nat /\ pico \in Nat
      /\ maxT \in Nat /\ maxR \in Nat /\ cargaActual \in [Hilos -> Nat] /\ pc \in [Hilos -> Lugares]
  BY DEF Ind, TypeOKMetricas, Clases
<1>1. Avance(t) BY DEF SinCruce
<1>2. EnCalculo(t)
  BY DEF EnCalculo, Calculo, hayTransf, hayRedu, sumaTransf, sumaRedu, compara, escribir
<1>3. PICK p \in Calculo : pc' = [pc EXCEPT ![t] = p]
  BY DEF hayTransf, hayRedu, sumaTransf, sumaRedu, compara, escribir, Va, Calculo
<1>4. Avance(t)'
  <2>1. CASE hayTransf(t)
    BY <2>1, <1>0, <1>1 DEF hayTransf, Va, Avance, Falta, Ambos, Suma, AlDia, maximos
  <2>2. CASE hayRedu(t)
    BY <2>2, <1>0, <1>1 DEF hayRedu, Va, Avance, Falta, Ambos, Suma, AlDia, maximos
  <2>3. CASE sumaTransf(t)
    BY <2>3, <1>0, <1>1 DEF sumaTransf, Va, Avance, Falta, Ambos, Suma, maximos
  <2>4. CASE sumaRedu(t)
    BY <2>4, <1>0, <1>1 DEF sumaRedu, Va, Avance, Falta, Ambos, Suma, maximos
  <2>5. CASE compara(t)
    BY <2>5, <1>0, <1>1 DEF compara, Supera, Va, Avance, Falta, Ambos, Suma, AlDia, maximos
  <2>6. CASE escribir(t)
    BY <2>6, <1>0, <1>1 DEF escribir, Va, Avance, Ambos, Suma, AlDia
  <2> QED BY <2>1, <2>2, <2>3, <2>4, <2>5, <2>6
<1> QED BY <1>2, <1>3, <1>4, ExactoDentro

\* A thread lets its mutex go, and nobody calculates.
LEMMA ExactoSoltar ==
  ASSUME Ind, SinCruce, NEW t \in Hilos, soltar(t)
  PROVE  SinCruce'
<1>1. pc[t] = "suelta" /\ pc' = [pc EXCEPT ![t] = "opera"] /\ UNCHANGED <<maximos, pico>>
  BY DEF soltar, Va
<1>2. AlDia' BY <1>1 DEF SinCruce, Avance, AlDia, maximos
<1>3. \A u \in Hilos : pc'[u] \notin Calculo
  BY <1>1 DEF SinCruce, EnCalculo, Calculo, Ind, TypeOKMetricas
<1>4. \A u \in Hilos : Avance(u)' BY <1>3 DEF Avance, Calculo
<1> QED BY <1>2, <1>3, <1>4 DEF SinCruce, EnCalculo

\* A thread is counted in: what its calculation may have to say is what the history adds.
LEMMA ExactoEntrar ==
  ASSUME Ind, SinCruce, NEW t \in Hilos, entrar(t), ~cruce'
  PROVE  SinCruce'
<1>1. /\ pc' = [pc EXCEPT ![t] = "hayTransf"] /\ Libre(Clase(t)) /\ Historia(Clase(t))
      /\ UNCHANGED maximos
  BY DEF entrar, Va
<1>2. Quietos /\ AlDia BY <1>1, NadieCalcula
<1>3. pc'[t] = "hayTransf" /\ \A u \in Hilos \ {t} : pc'[u] = pc[u] /\ pc'[u] \notin Calculo
  BY <1>1, <1>2 DEF Quietos, EnCalculo, Ind, TypeOKMetricas
<1>4. Falta' /\ (maxT + maxR = cargaMaxima)'
  BY <1>1, <1>2 DEF Historia, Falta, Ambos, Suma, AlDia, maximos
<1>5. Avance(t)' BY <1>3, <1>4 DEF Avance
<1>6. \A u \in Hilos \ {t} : Avance(u)' BY <1>3 DEF Avance, Calculo
<1>7. EnCalculo(t)' /\ \A u \in Hilos \ {t} : ~EnCalculo(u)' BY <1>3 DEF EnCalculo, Calculo
<1> QED BY <1>5, <1>6, <1>7 DEF SinCruce, Quietos

\* A thread is counted out: there are fewer than there were.
LEMMA ExactoTerminar ==
  ASSUME Ind, SinCruce, NEW t \in Hilos, terminar(t), ~cruce'
  PROVE  SinCruce'
<1>1. /\ pc' = [pc EXCEPT ![t] = "fin"] /\ Libre(Clase(t)) /\ Historia(Clase(t))
      /\ cant' = [cant EXCEPT ![Clase(t)] = @ - 1] /\ UNCHANGED maximos
  BY DEF terminar, Va
<1>2. Quietos /\ AlDia BY <1>1, NadieCalcula
<1>3. \A u \in Hilos : pc'[u] \notin Calculo
  BY <1>1, <1>2 DEF Quietos, EnCalculo, Ind, TypeOKMetricas, Calculo
<1>4. pico' = pico
  <2>1. cant["transf"] \in Nat /\ cant["redu"] \in Nat /\ pico \in Nat
    BY DEF Ind, TypeOKMetricas, Clases
  <2>2. /\ cant'["transf"] \in {cant["transf"], cant["transf"] - 1}
        /\ cant'["redu"] \in {cant["redu"], cant["redu"] - 1}
    BY <1>1 DEF Ind, TypeOKMetricas, Clases
  <2> QED BY <2>1, <2>2, <1>1 DEF Historia, Ind, Alto
<1>5. AlDia' BY <1>1, <1>2, <1>4 DEF AlDia, maximos
<1>6. \A u \in Hilos : Avance(u)' BY <1>3 DEF Avance, Calculo
<1> QED BY <1>3, <1>5, <1>6 DEF SinCruce, EnCalculo

\* Where no thread was counted while one of the other kind calculated, the metric of parallel
\* operations is, between calculations, exactly the most there was, and its parts add up.
THEOREM MetricaExacta == Spec => []MaximoExacto
<1>1. Init => IndExacto
  <2> SUFFICES ASSUME Init PROVE SinCruce BY AlEmpezar DEF IndExacto
  <2>1. \A t \in Hilos : ~EnCalculo(t) /\ Avance(t) BY DEF Init, EnCalculo, Calculo, Avance
  <2>2. AlDia BY DEF Init, AlDia
  <2> QED BY <2>1, <2>2 DEF SinCruce
<1>2. IndExacto /\ [Next]_vars => IndExacto'
  <2> SUFFICES ASSUME IndExacto, [Next]_vars, ~cruce' PROVE SinCruce'
    BY CadaPaso DEF IndExacto
  <2>1. CASE UNCHANGED vars
    BY <2>1 DEF IndExacto, SinCruce, Quietos, EnCalculo, Avance, AlDia, Falta, Ambos, Suma,
                vars, maximos
  <2>2. CASE Next
    <3>1. PICK t \in Hilos : Hilo(t) BY <2>2 DEF Next
    <3>2. ~cruce
      BY <3>1 DEF Hilo, entrar, hayTransf, hayRedu, sumaTransf, sumaRedu, compara, escribir,
                  soltar, terminar, Historia
    <3>3. Ind /\ SinCruce BY <3>2 DEF IndExacto
    <3> QED BY <3>1, <3>3, ExactoCalculo, ExactoSoltar, ExactoEntrar, ExactoTerminar DEF Hilo
  <2> QED BY <2>1, <2>2
<1>3. IndExacto => MaximoExacto BY DEF IndExacto, MaximoExacto, SinCruce, Quietos, EnCalculo, AlDia
<1> QED BY <1>1, <1>2, <1>3, PTL DEF Spec
=============================================================================
