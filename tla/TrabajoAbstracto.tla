-------------------------- MODULE TrabajoAbstracto --------------------------
(***************************************************************************)
(* What YAMA promises about a job, whatever its Master and the Workers do: *)
(* the job goes through map, global reduction and storage in that order;   *)
(* it leaves the map only when the last operation of the map has ended;    *)
(* new operations appear only while others are under way; and a job that   *)
(* has been let go is never taken up again.                                *)
(***************************************************************************)
EXTENDS Naturals

CONSTANT Jobs

VARIABLES fase,   \* per job
          obra    \* per job, the operations under way

Fases == {"nuevo", "mapa", "global", "almacen", "hecho", "dejado"}

AbsTypeOK == fase \in [Jobs -> Fases] /\ obra \in [Jobs -> SUBSET Nat]

AbsInit == fase = [j \in Jobs |-> "nuevo"] /\ obra = [j \in Jobs |-> {}]

Pasa(j, f, O) == /\ fase' = [fase EXCEPT ![j] = f]
                 /\ obra' = [obra EXCEPT ![j] = O]

Aceptar(j) == /\ fase[j] = "nuevo"
              /\ obra'[j] # {} /\ Pasa(j, "mapa", obra'[j])

\* An operation ends; at most one follows from it.
Avanzar(j) ==
  /\ fase[j] = "mapa"
  /\ \E o \in obra[j] : \E N \in {{}} \cup {{n} : n \in obra'[j] \ obra[j]} :
       Pasa(j, "mapa", (obra[j] \ {o}) \cup N)

\* An operation that had ended must be done again.
Reabrir(j) ==
  /\ fase[j] = "mapa" /\ obra[j] # {}
  /\ \E n \in obra'[j] \ obra[j] : Pasa(j, "mapa", obra[j] \cup {n})

\* The last operation of a phase gives way to the single one of the next phase.
Siguiente(j, f, g) ==
  /\ fase[j] = f
  /\ \E o \in obra[j], n \in obra'[j] :
       o # n /\ obra[j] = {o} /\ Pasa(j, g, {n})

Completar(j) == fase[j] = "almacen" /\ Pasa(j, "hecho", {})

Dejar(j) == fase[j] \in {"mapa", "global", "almacen"} /\ Pasa(j, "dejado", {})

AbsNext == \E j \in Jobs :
  \/ Aceptar(j) \/ Avanzar(j) \/ Reabrir(j)
  \/ Siguiente(j, "mapa", "global") \/ Siguiente(j, "global", "almacen")
  \/ Completar(j) \/ Dejar(j)

AbsSpec == AbsInit /\ [][AbsNext]_<<fase, obra>>
=============================================================================
