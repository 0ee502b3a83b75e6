---------------------------- MODULE MasterMetricas ----------------------------
(***************************************************************************)
(* The metric of parallel operations of a Master.  Each thread of a        *)
(* transformation or a reduction counts itself in under the mutex of its   *)
(* kind, calls calcularMaximos, which reads and writes variables of both   *)
(* kinds one by one, and counts itself out when its operation has ended,   *)
(* well or not.                                                            *)
(***************************************************************************)
EXTENDS Integers, FiniteSets

CONSTANTS Transf, Redu,  \* the threads of each kind
          Nulo

ASSUME SupuestoHilos ==
  /\ IsFiniteSet(Transf) /\ IsFiniteSet(Redu)
  /\ Transf \cap Redu = {} /\ Nulo \notin Transf \cup Redu

VARIABLES
  pc,          \* where each thread is
  mutex,       \* mutexTransformacion and mutexReduccion: the thread that has each, or Nulo
  cant,        \* cantTransfActual and cantReduActual
  cargaActual, \* of each thread, as far as it is added up
  cargaMaxima, maxT, maxR,
  pico,        \* the most operations there were at once, with some of each kind
  cruce        \* a thread was counted in or out while one of the other kind calculated

maximos == <<cargaMaxima, maxT, maxR>>
vars == <<pc, mutex, cant, cargaActual, maximos, pico, cruce>>

Hilos    == Transf \cup Redu
Clases   == {"transf", "redu"}
Clase(t) == IF t \in Transf THEN "transf" ELSE "redu"
Otra(k)  == IF k = "transf" THEN "redu" ELSE "transf"

Calculo  == {"hayTransf", "hayRedu", "sumaTransf", "sumaRedu", "compara", "carga", "maxT", "maxR",
             "suelta"}
Lugares  == Calculo \cup {"inicio", "opera", "fin"}
De(k)    == IF k = "transf" THEN Transf ELSE Redu
Contados(k) == {t \in De(k) : pc[t] \in Calculo \cup {"opera"}}

Init ==
  /\ pc = [t \in Hilos |-> "inicio"] /\ mutex = [k \in Clases |-> Nulo]
  /\ cant = [k \in Clases |-> 0] /\ cargaActual = [t \in Hilos |-> 0]
  /\ cargaMaxima = 0 /\ maxT = 0 /\ maxR = 0 /\ pico = 0 /\ cruce = FALSE

Va(t, p) == pc' = [pc EXCEPT ![t] = p]

\* Mutant of Libre: the mutex is not taken into account.
SinMutex(k) == TRUE
Libre(k) == mutex[k] = Nulo

\* What the history says of a change of the counters.
Historia(k) ==
  /\ cruce' = (cruce \/ \E t \in De(Otra(k)) : pc[t] \in Calculo)
  /\ pico' = IF cant'["transf"] > 0 /\ cant'["redu"] > 0 /\ cant'["transf"] + cant'["redu"] > pico
             THEN cant'["transf"] + cant'["redu"] ELSE pico

\* A thread takes its mutex and counts itself in.
entrar(t) ==
  /\ pc[t] = "inicio" /\ Libre(Clase(t)) /\ mutex' = [mutex EXCEPT ![Clase(t)] = t]
  /\ cant' = [cant EXCEPT ![Clase(t)] = @ + 1]
  /\ Va(t, "hayTransf") /\ Historia(Clase(t)) /\ UNCHANGED <<cargaActual, maximos>>

\* calcularMaximos: if(cantTransfActual && cantReduActual)
hayTransf(t) ==
  /\ pc[t] = "hayTransf" /\ Va(t, IF cant["transf"] # 0 THEN "hayRedu" ELSE "suelta")
  /\ UNCHANGED <<mutex, cant, cargaActual, maximos, pico, cruce>>

hayRedu(t) ==
  /\ pc[t] = "hayRedu" /\ Va(t, IF cant["redu"] # 0 THEN "sumaTransf" ELSE "suelta")
  /\ UNCHANGED <<mutex, cant, cargaActual, maximos, pico, cruce>>

\* cargaActual = cantTransfActual + cantReduActual
sumaTransf(t) ==
  /\ pc[t] = "sumaTransf" /\ Va(t, "sumaRedu")
  /\ cargaActual' = [cargaActual EXCEPT ![t] = cant["transf"]]
  /\ UNCHANGED <<mutex, cant, maximos, pico, cruce>>

sumaRedu(t) ==
  /\ pc[t] = "sumaRedu" /\ Va(t, "compara")
  /\ cargaActual' = [cargaActual EXCEPT ![t] = @ + cant["redu"]]
  /\ UNCHANGED <<mutex, cant, maximos, pico, cruce>>

\* Mutant of Supera: a smaller load replaces the maximum.
NoSupera(t) == cargaMaxima # cargaActual[t]
Supera(t) == cargaMaxima < cargaActual[t]

\* The test of cargaMaxima and the three writes, with other threads between them.
compara(t) ==
  /\ pc[t] = "compara" /\ Va(t, IF Supera(t) THEN "carga" ELSE "suelta")
  /\ UNCHANGED <<mutex, cant, cargaActual, maximos, pico, cruce>>

escribir(t) ==
  /\ \/ pc[t] = "carga" /\ Va(t, "maxT") /\ cargaMaxima' = cargaActual[t] /\ UNCHANGED <<maxT, maxR>>
     \/ pc[t] = "maxT" /\ Va(t, "maxR") /\ maxT' = cant["transf"] /\ UNCHANGED <<cargaMaxima, maxR>>
     \/ pc[t] = "maxR" /\ Va(t, "suelta") /\ maxR' = cant["redu"] /\ UNCHANGED <<cargaMaxima, maxT>>
  /\ UNCHANGED <<mutex, cant, cargaActual, pico, cruce>>

soltar(t) ==
  /\ pc[t] = "suelta" /\ Va(t, "opera") /\ mutex' = [mutex EXCEPT ![Clase(t)] = Nulo]
  /\ UNCHANGED <<cant, cargaActual, maximos, pico, cruce>>

\* The operation has ended, well or not: the thread counts itself out under its mutex.
terminar(t) ==
  /\ pc[t] = "opera" /\ Libre(Clase(t)) /\ cant' = [cant EXCEPT ![Clase(t)] = @ - 1]
  /\ Va(t, "fin") /\ Historia(Clase(t)) /\ UNCHANGED <<mutex, cargaActual, maximos>>

Hilo(t) ==
  \/ entrar(t) \/ hayTransf(t) \/ hayRedu(t) \/ sumaTransf(t) \/ sumaRedu(t)
  \/ compara(t) \/ escribir(t) \/ soltar(t) \/ terminar(t)

Next == \E t \in Hilos : Hilo(t)
Spec == Init /\ [][Next]_vars
-----------------------------------------------------------------------------
(* Properties                                                              *)

TypeOKMetricas ==
  /\ pc \in [Hilos -> Lugares] /\ mutex \in [Clases -> Hilos \cup {Nulo}]
  /\ cant \in [Clases -> Nat] /\ cargaActual \in [Hilos -> Nat]
  /\ cargaMaxima \in Nat /\ maxT \in Nat /\ maxR \in Nat /\ pico \in Nat /\ cruce \in BOOLEAN

\* calcularMaximos reads a counter that the other mutex protects and a maximum that none does,
\* and still the metric never says more than there was: at some moment so many operations ran,
\* with some of each kind.
CotaReal == TypeOKMetricas /\ cargaMaxima <= pico

\* The metric may lose a maximum, and its three parts may be of different moments, only where
\* a thread of one kind was counted while one of the other calculated: if that never happened,
\* it says exactly the most there was, and the parts add up.
MaximoExacto ==
  ~cruce /\ (\A t \in Hilos : pc[t] \notin Calculo) =>
    cargaMaxima = pico /\ maxT + maxR = cargaMaxima
=============================================================================
