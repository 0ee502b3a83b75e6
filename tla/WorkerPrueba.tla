----------------------------- MODULE WorkerPrueba -----------------------------
(***************************************************************************)
(* The Workers, for any jobs, Workers, blocks, scripts and losses: a proof *)
(* that storages which do not overlap never mix what they send nor what    *)
(* they are answered (SinMezcla), and that a job which ends well has in    *)
(* the FileSystem what its scripts make of the whole file (ResultadoFiel). *)
(***************************************************************************)
EXTENDS Worker, FiniteSetTheorems, SequenceTheorems, TLAPS
-----------------------------------------------------------------------------
(* The parts of a storage                                                  *)

LEMMA PartesSon ==
  /\ Len(Partes) = 4 /\ DOMAIN Partes = 1..4 /\ Lectura = Partes
  /\ Partes[1] = "mensaje" /\ Partes[2] = "nombre" /\ Partes[3] = "tamano" /\ Partes[4] = "datos"
  /\ ToSet(Partes) = {"mensaje", "nombre", "tamano", "datos"} /\ Last(Partes) = "datos"
  <1>1. /\ Len(Partes) = 4 /\ DOMAIN Partes = 1..4 /\ Lectura = Partes
        /\ Partes[1] = "mensaje" /\ Partes[2] = "nombre" /\ Partes[3] = "tamano"
        /\ Partes[4] = "datos"
    BY DEF Partes, Lectura
  <1>2. ToSet(Partes) = {Partes[i] : i \in 1..4}  BY <1>1 DEF ToSet
  <1>3. 1..4 = {1, 2, 3, 4}  OBVIOUS
  <1>4. ToSet(Partes) = {"mensaje", "nombre", "tamano", "datos"}  BY <1>1, <1>2, <1>3
  <1>5. Last(Partes) = "datos"  BY <1>1 DEF Last
  <1> QED  BY <1>1, <1>4, <1>5

LEMMA PartesDistintas ==
  ASSUME NEW i \in 1..4, NEW k \in 1..4, Partes[i] = Partes[k]
  PROVE  i = k
  <1>1. i \in {1, 2, 3, 4} /\ k \in {1, 2, 3, 4}  OBVIOUS
  <1> QED  BY <1>1, PartesSon

LEMMA TrasEs ==
  ASSUME NEW k \in 1..3
  PROVE  Tras(Partes, Partes[k]) = Partes[k + 1] /\ Partes[k + 1] \in {"nombre", "tamano", "datos"}
  <1> DEFINE c == CHOOSE i \in DOMAIN Partes : Partes[i] = Partes[k]
  <1>1. k \in 1..4 /\ DOMAIN Partes = 1..4  BY PartesSon
  <1>2. c \in 1..4 /\ Partes[c] = Partes[k]  BY <1>1
  <1> HIDE DEF c
  <1>3. c = k  BY <1>1, <1>2, PartesDistintas
  <1>4. k \in {1, 2, 3}  OBVIOUS
  <1>5. Partes[k + 1] \in {"nombre", "tamano", "datos"}  BY <1>4, PartesSon
  <1> QED  BY <1>3, <1>5 DEF Tras, c
-----------------------------------------------------------------------------
(* The invariant                                                           *)

Lee(w) == leyendo # Nulo /\ leyendo.worker = w

TiposW ==
  /\ TypeOKWorker /\ encargado \in [Jobs -> Workers] /\ fs \in {"vivo", "caido"}
  /\ leyendo \in Lecturas \cup {Nulo}
  /\ canal \in [Workers -> Seq([job : Jobs, parte : ToSet(Partes)])]

\* Of the storage of job j in Worker w the FileSystem has read r parts, and the next ones,
\* up to the k-th, are on their way.
Puesto(w, j, r, k) ==
  /\ Len(canal[w]) = k - r
  /\ \A i \in 1..(k - r) : canal[w][i] = [job |-> j, parte |-> Partes[r + i]]
  /\ IF r \in 1..3 THEN Lee(w) /\ leyendo = [worker |-> w, job |-> j, parte |-> Partes[r + 1]]
                   ELSE ~Lee(w)

\* And j is the only child of w, which has sent k parts and is answered after the last.
Turno(w, j, r, k) ==
  IF DelWorker(w) = {} THEN r = k /\ r \in {0, 4} /\ estados[w] = <<>>
  ELSE /\ DelWorker(w) = {j} /\ hijo[j] = (IF k < 4 THEN Partes[k + 1] ELSE "status")
       /\ IF r < 4 THEN estados[w] = <<>> ELSE Len(estados[w]) = 1

EnRegla(w) ==
  \E j \in Jobs \cup {Nulo}, r \in 0..4, k \in 0..4 :
    r <= k /\ Puesto(w, j, r, k) /\ (w \in vivos /\ fs = "vivo" => Turno(w, j, r, k))

\* The answer that was there when the FileSystem ended is still for the child that waits.
UltimoEstado(w) ==
  fs = "caido" /\ w \in vivos /\ estados[w] # <<>> =>
    Len(estados[w]) = 1 /\ \E j \in Jobs : DelWorker(w) = {j} /\ hijo[j] = "status"

Apagado      == fs = "caido" => leyendo = Nulo /\ \A w \in Workers : canal[w] = <<>>
HijosDeVivos == \A j \in Jobs : hijo[j] # Nulo => encargado[j] \in vivos

InvW ==
  /\ TiposW /\ corrido \subseteq revuelto /\ Apagado /\ HijosDeVivos
  /\ \A w \in Workers \ revuelto : EnRegla(w) /\ UltimoEstado(w)

LEMMA InvDaSinMezcla ==
  ASSUME InvW
  PROVE  SinMezcla
  <1> SUFFICES ASSUME NEW w \in vivos \ revuelto, estados[w] # <<>>
               PROVE  /\ Len(estados[w]) = 1 /\ canal[w] = <<>>
                      /\ (leyendo # Nulo => leyendo.worker # w)
                      /\ \A j \in DelWorker(w) : hijo[j] = "status"
    BY DEF InvW, TiposW, SinMezcla
  <1>1. w \in Workers \ revuelto /\ fs \in {"vivo", "caido"}
    BY DEF InvW, TiposW, TypeOKWorker
  <1>2. CASE fs = "caido"
    BY <1>1, <1>2 DEF InvW, Apagado, UltimoEstado
  <1>3. CASE fs = "vivo"
    <2>1. PICK j \in Jobs \cup {Nulo}, r \in 0..4, k \in 0..4 :
                 r <= k /\ Puesto(w, j, r, k) /\ Turno(w, j, r, k)
      BY <1>1, <1>3 DEF InvW, EnRegla
    <2>2. /\ r = 4 /\ Len(estados[w]) = 1 /\ DelWorker(w) = {j}
          /\ hijo[j] = (IF k < 4 THEN Partes[k + 1] ELSE "status")
      BY <2>1 DEF Turno
    <2>3. k = 4  BY <2>1, <2>2
    <2>4. canal[w] \in Seq([job : Jobs, parte : ToSet(Partes)])  BY <1>1 DEF InvW, TiposW
    <2>5. Len(canal[w]) = 0 /\ ~Lee(w)  BY <2>1, <2>2, <2>3 DEF Puesto
    <2> QED  BY <2>2, <2>3, <2>4, <2>5 DEF Lee
  <1> QED  BY <1>1, <1>2, <1>3

LEMMA InicioW ==
  ASSUME Init
  PROVE  InvW
  <1>1. encargado \in [Jobs -> Workers]  BY DEF Init
  <1>2. TypeOKWorker
    BY DEF Init, TypeOKWorker
  <1>3. TiposW  BY <1>1, <1>2 DEF Init, TiposW
  <1>4. corrido \subseteq revuelto /\ Apagado /\ HijosDeVivos  BY DEF Init, Apagado, HijosDeVivos
  <1>5. ASSUME NEW w \in Workers PROVE EnRegla(w) /\ UltimoEstado(w)
    <2>1. Puesto(w, Nulo, 0, 0)  BY DEF Init, Puesto, Lee
    <2>2. DelWorker(w) = {}  BY DEF Init, DelWorker
    <2>3. Turno(w, Nulo, 0, 0)  BY <2>2 DEF Init, Turno
    <2> QED  BY <2>1, <2>3 DEF EnRegla, UltimoEstado, Init
  <1> QED  BY <1>3, <1>4, <1>5 DEF InvW
-----------------------------------------------------------------------------
(* A step leaves a Worker as it is                                         *)

\* Nothing that the FileSystem and the children share through w changes.
IgualEn(w) ==
  /\ canal'[w] = canal[w] /\ estados'[w] = estados[w]
  /\ DelWorker(w)' = DelWorker(w) /\ (\A j \in DelWorker(w) : hijo'[j] = hijo[j])
  /\ (Lee(w) \/ Lee(w)' => leyendo' = leyendo)

LEMMA PuestoSigue ==
  ASSUME NEW w \in Workers, NEW j, NEW r \in 0..4, NEW k \in 0..4, Puesto(w, j, r, k), IgualEn(w)
  PROVE  Puesto(w, j, r, k)'
  <1>1. /\ Len(canal'[w]) = k - r
        /\ \A i \in 1..(k - r) : canal'[w][i] = [job |-> j, parte |-> Partes[r + i]]
    BY DEF Puesto, IgualEn
  <1>2. CASE r \in 1..3
    <2>1. Lee(w) /\ leyendo = [worker |-> w, job |-> j, parte |-> Partes[r + 1]]
      BY <1>2 DEF Puesto
    <2>2. leyendo' = leyendo  BY <2>1 DEF IgualEn
    <2>3. Lee(w)'  BY <2>1, <2>2 DEF Lee
    <2> QED  BY <1>1, <1>2, <2>1, <2>2, <2>3 DEF Puesto
  <1>3. CASE r \notin 1..3
    <2>1. ~Lee(w)  BY <1>3 DEF Puesto
    <2>2. ~Lee(w)'  BY <2>1 DEF Lee, IgualEn
    <2> QED  BY <1>1, <1>3, <2>2 DEF Puesto
  <1> QED  BY <1>2, <1>3

LEMMA TurnoSigue ==
  ASSUME NEW w \in Workers, NEW j, NEW r \in 0..4, NEW k \in 0..4, Turno(w, j, r, k), IgualEn(w)
  PROVE  Turno(w, j, r, k)'
  <1>1. DelWorker(w)' = DelWorker(w) /\ estados'[w] = estados[w]  BY DEF IgualEn
  <1>2. CASE DelWorker(w) = {}  BY <1>1, <1>2 DEF Turno
  <1>3. CASE DelWorker(w) # {}
    <2>1. DelWorker(w) = {j} /\ hijo'[j] = hijo[j]  BY <1>3 DEF Turno, IgualEn
    <2> QED  BY <1>1, <1>3, <2>1 DEF Turno
  <1> QED  BY <1>2, <1>3

LEMMA WorkerSigue ==
  ASSUME InvW, NEW w \in Workers \ revuelto, IgualEn(w), vivos' \subseteq vivos, fs' = fs
  PROVE  EnRegla(w)' /\ UltimoEstado(w)'
  <1>1. PICK j \in Jobs \cup {Nulo}, r \in 0..4, k \in 0..4 :
               r <= k /\ Puesto(w, j, r, k) /\ (w \in vivos /\ fs = "vivo" => Turno(w, j, r, k))
    BY DEF InvW, EnRegla
  <1>2. Puesto(w, j, r, k)'  BY <1>1, PuestoSigue
  <1>3. w \in vivos' /\ fs' = "vivo" => Turno(w, j, r, k)'  BY <1>1, TurnoSigue
  <1>4. EnRegla(w)'  BY <1>1, <1>2, <1>3 DEF EnRegla
  <1>5. UltimoEstado(w)  BY DEF InvW
  <1>6. UltimoEstado(w)'
    <2> SUFFICES ASSUME fs' = "caido", w \in vivos', estados'[w] # <<>>
                 PROVE  Len(estados'[w]) = 1
                        /\ \E i \in Jobs : DelWorker(w)' = {i} /\ hijo'[i] = "status"
      BY DEF UltimoEstado
    <2>1. fs = "caido" /\ w \in vivos /\ estados[w] # <<>>  BY DEF IgualEn
    <2>2. Len(estados[w]) = 1  BY <1>5, <2>1 DEF UltimoEstado
    <2>3. PICK i \in Jobs : DelWorker(w) = {i} /\ hijo[i] = "status"
      BY <1>5, <2>1 DEF UltimoEstado
    <2>4. hijo'[i] = hijo[i] /\ DelWorker(w)' = DelWorker(w)  BY <2>3 DEF IgualEn
    <2> QED  BY <2>2, <2>3, <2>4 DEF IgualEn
  <1> QED  BY <1>4, <1>6

\* The operations before the storage touch nothing of it.
LEMMA QuietosSiguen ==
  ASSUME InvW, UNCHANGED <<varsH, fs, leyendo, corrido, encargado>>, vivos' = vivos, TypeOKWorker'
  PROVE  InvW'
  <1>0. /\ hijo' = hijo /\ canal' = canal /\ estados' = estados /\ revuelto' = revuelto
        /\ fs' = fs /\ leyendo' = leyendo /\ corrido' = corrido /\ encargado' = encargado
    BY DEF varsH
  <1>1. ASSUME NEW w \in Workers PROVE IgualEn(w)
    BY <1>0 DEF IgualEn, DelWorker, Lee
  <1>2. TiposW'  BY <1>0 DEF InvW, TiposW, Lecturas
  <1>3. Apagado' /\ HijosDeVivos'  BY <1>0 DEF InvW, Apagado, HijosDeVivos
  <1>4. \A w \in Workers \ revuelto' : EnRegla(w)' /\ UltimoEstado(w)'
    BY <1>0, <1>1, WorkerSigue
  <1>5. corrido' \subseteq revuelto'  BY <1>0 DEF InvW
  <1> QED  BY <1>2, <1>3, <1>4, <1>5 DEF InvW

LEMMA OperacionesSiguen ==
  ASSUME InvW, NEW j \in Jobs, NEW w \in Workers,
         (\E i \in DOMAIN bloques[j][w] : iniciarTransformacion(j, w, i))
           \/ iniciarReduccion(j, w) \/ pedirArchivo(j, w) \/ iniciarGlobal(j)
  PROVE  InvW'
  <1>1. UNCHANGED <<varsH, varsF, encargado>> /\ vivos' = vivos
    BY DEF iniciarTransformacion, iniciarReduccion, pedirArchivo, iniciarGlobal, fijas
  <1>2. paso' \in [Jobs -> {"mapa", "global", "almacena", "bien", "mal", "espera"}]
    BY DEF iniciarTransformacion, iniciarReduccion, pedirArchivo, iniciarGlobal, Mal, InvW,
           TiposW, TypeOKWorker
  <1>3. tocado' \subseteq Jobs
    BY DEF iniciarTransformacion, iniciarReduccion, pedirArchivo, iniciarGlobal, Mal, Guarda,
           varsT, InvW, TiposW, TypeOKWorker
  <1>4. TypeOKWorker'
    BY <1>1, <1>2, <1>3 DEF InvW, TiposW, TypeOKWorker, varsH, varsF
  <1> QED  BY <1>1, <1>4, QuietosSiguen DEF varsF
-----------------------------------------------------------------------------
(* A Worker is lost                                                        *)

LEMMA PierdeSigue ==
  ASSUME InvW, NEW w \in Workers, Pierde(w), tocado' \subseteq Jobs
  PROVE  InvW'
  <1> DEFINE M == [job : Jobs, parte : ToSet(Partes)]
  <1>0. /\ w \in vivos /\ vivos' = vivos \ {w} /\ estados' = estados /\ revuelto' = revuelto
        /\ fs' = fs /\ leyendo' = leyendo /\ corrido' = corrido /\ encargado' = encargado
        /\ almacen' = almacen /\ hiloFS' = hiloFS
        /\ paso' = [j \in Jobs |-> IF hijo[j] # Nulo /\ encargado[j] = w THEN "mal" ELSE paso[j]]
        /\ hijo' = [j \in Jobs |-> IF encargado[j] = w THEN Nulo ELSE hijo[j]]
    BY DEF Pierde, fijas, varsF
  <1>1. PICK n \in 0..Len(canal[w]) : canal' = [canal EXCEPT ![w] = SubSeq(@, 1, n)]
    BY DEF Pierde
  <1>2. canal \in [Workers -> Seq(M)]  BY DEF InvW, TiposW
  <1>3. /\ canal'[w] = SubSeq(canal[w], 1, n) /\ canal'[w] \in Seq(M) /\ Len(canal'[w]) = n
        /\ \A i \in 1..n : canal'[w][i] = canal[w][i]
    <2>1. w \in DOMAIN canal /\ canal[w] \in Seq(M)  BY <1>2
    <2>2. canal'[w] = SubSeq(canal[w], 1, n)  BY <1>1, <2>1
    <2>3. /\ SubSeq(canal[w], 1, n) \in Seq(M) /\ Len(SubSeq(canal[w], 1, n)) = n
          /\ \A i \in 1..n : SubSeq(canal[w], 1, n)[i] = canal[w][i]
      <3> HIDE DEF M
      <3> QED  BY <2>1
    <2> QED  BY <2>2, <2>3
  <1>4. canal' \in [Workers -> Seq(M)]  BY <1>1, <1>2, <1>3
  <1>5. TiposW'  BY <1>0, <1>4 DEF InvW, TiposW, TypeOKWorker, Lecturas
  <1>6. Apagado'
    <2> SUFFICES ASSUME fs' = "caido" PROVE leyendo' = Nulo /\ \A v \in Workers : canal'[v] = <<>>
      BY DEF Apagado
    <2>1. fs = "caido" /\ leyendo = Nulo /\ \A v \in Workers : canal[v] = <<>>
      BY <1>0 DEF InvW, Apagado
    <2>2. Len(canal[w]) = 0  BY <2>1
    <2>3. n = 0  BY <2>2
    <2>4. canal'[w] = <<>>  BY <1>3, <2>3
    <2> QED  BY <1>0, <1>1, <1>2, <2>1, <2>4
  <1>7. HijosDeVivos'  BY <1>0 DEF InvW, HijosDeVivos
  <1>8. ASSUME NEW v \in Workers \ revuelto' PROVE EnRegla(v)' /\ UltimoEstado(v)'
    <2>1. CASE v # w
      <3>1. canal'[v] = canal[v] /\ estados'[v] = estados[v]  BY <1>0, <1>1, <1>2, <2>1
      <3>2. \A j \in Jobs : encargado[j] = v => hijo'[j] = hijo[j]  BY <1>0, <2>1
      <3>3. IgualEn(v)  BY <1>0, <3>1, <3>2 DEF IgualEn, DelWorker
      <3> QED  BY <1>0, <3>3, WorkerSigue
    <2>2. CASE v = w
      <3>1. PICK j \in Jobs \cup {Nulo}, r \in 0..4, k \in 0..4 : r <= k /\ Puesto(w, j, r, k)
        BY <1>0, <2>2 DEF InvW, EnRegla
      <3>2. n <= k - r  BY <3>1 DEF Puesto
      <3>3. r + n \in 0..4 /\ r <= r + n /\ (r + n) - r = n  BY <3>1, <3>2
      <3>4. \A i \in 1..n : canal[w][i] = [job |-> j, parte |-> Partes[r + i]]
        BY <3>1, <3>2 DEF Puesto
      <3>5. Lee(w)' <=> Lee(w)  BY <1>0 DEF Lee
      <3>6. Puesto(w, j, r, r + n)'  BY <1>0, <1>3, <3>1, <3>3, <3>4, <3>5 DEF Puesto
      <3>7. w \notin vivos'  BY <1>0
      <3> QED  BY <2>2, <3>3, <3>6, <3>7 DEF EnRegla, UltimoEstado
    <2> QED  BY <2>1, <2>2
  <1>9. corrido' \subseteq revuelto'  BY <1>0 DEF InvW
  <1> QED  BY <1>5, <1>6, <1>7, <1>8, <1>9 DEF InvW

LEMMA FallosSiguen ==
  ASSUME InvW, NEW w \in Workers, muere(w) \/ \E j \in Jobs : archivoCortado(j, w)
  PROVE  InvW'
  <1>1. tocado \subseteq Jobs  BY DEF InvW, TiposW, TypeOKWorker
  <1>2. CASE muere(w)
    <2>1. Pierde(w) /\ tocado' \subseteq Jobs  BY <1>1, <1>2 DEF muere, varsT
    <2> QED  BY <2>1, PierdeSigue
  <1>3. CASE \E j \in Jobs : archivoCortado(j, w)
    <2>1. Pierde(w) /\ tocado' \subseteq Jobs  BY <1>1, <1>3 DEF archivoCortado, Guarda
    <2> QED  BY <2>1, PierdeSigue
  <1> QED  BY <1>2, <1>3

LEMMA CaeSigue ==
  ASSUME InvW, Cae
  PROVE  InvW'
  <1>0. /\ fs = "vivo" /\ fs' = "caido" /\ leyendo' = Nulo /\ canal' = [w \in Workers |-> <<>>]
        /\ vivos' = vivos /\ hijo' = hijo /\ encargado' = encargado /\ paso' = paso
        /\ estados' = estados /\ revuelto' = revuelto /\ corrido' = corrido /\ almacen' = almacen
        /\ tocado' = tocado /\ hiloFS' = hiloFS
    BY DEF Cae, fijas, varsT
  <1>1. TiposW'  BY <1>0 DEF InvW, TiposW, TypeOKWorker
  <1>2. Apagado' /\ HijosDeVivos' /\ corrido' \subseteq revuelto'
    BY <1>0 DEF InvW, Apagado, HijosDeVivos
  <1>3. ASSUME NEW w \in Workers \ revuelto' PROVE EnRegla(w)' /\ UltimoEstado(w)'
    <2>1. PICK j \in Jobs \cup {Nulo}, r \in 0..4, k \in 0..4 :
                 r <= k /\ Puesto(w, j, r, k) /\ (w \in vivos => Turno(w, j, r, k))
      BY <1>0 DEF InvW, EnRegla
    <2>2. Puesto(w, Nulo, 0, 0)'  BY <1>0 DEF Puesto, Lee
    <2>3. EnRegla(w)'  BY <1>0, <2>2 DEF EnRegla
    <2>4. ASSUME w \in vivos', estados'[w] # <<>>
          PROVE  Len(estados'[w]) = 1 /\ \E i \in Jobs : DelWorker(w)' = {i} /\ hijo'[i] = "status"
      <3>1. w \in vivos /\ estados[w] # <<>>  BY <1>0, <2>4
      <3>2. /\ r = 4 /\ Len(estados[w]) = 1 /\ DelWorker(w) = {j}
            /\ hijo[j] = (IF k < 4 THEN Partes[k + 1] ELSE "status")
        BY <2>1, <3>1 DEF Turno
      <3>3. k = 4 /\ j \in Jobs  BY <2>1, <3>2 DEF DelWorker
      <3>4. DelWorker(w)' = DelWorker(w)  BY <1>0 DEF DelWorker
      <3> QED  BY <1>0, <3>2, <3>3, <3>4
    <2> QED  BY <2>3, <2>4 DEF UltimoEstado
  <1> QED  BY <1>1, <1>2, <1>3 DEF InvW
-----------------------------------------------------------------------------
(* The children of a Worker                                                *)

\* A step of the child of j, in its own Worker w, leaves the others as they are.
LEMMA OtroWorker ==
  ASSUME InvW, NEW j \in Jobs, NEW w \in Workers, encargado[j] = w, NEW v \in Workers, v # w,
         canal'[v] = canal[v], estados'[v] = estados[v], leyendo' = leyendo, encargado' = encargado,
         \A i \in Jobs : i # j => hijo'[i] = hijo[i]
  PROVE  IgualEn(v)
  <1>1. \A i \in Jobs : encargado[i] = v => hijo'[i] = hijo[i]  OBVIOUS
  <1> QED  BY <1>1 DEF IgualEn, DelWorker

LEMMA AlmacenamientoSigue ==
  ASSUME InvW, NEW j \in Jobs, almacenamiento(j)
  PROVE  InvW'
  <1>t. encargado \in [Jobs -> Workers] /\ hijo \in [Jobs -> ToSet(Partes) \cup {"status", Nulo}]
        /\ revuelto \subseteq Workers
    BY DEF InvW, TiposW, TypeOKWorker
  <1>w. PICK w \in Workers : w = encargado[j]  BY <1>t
  <1>0. encargado' = encargado /\ vivos' = vivos /\ UNCHANGED varsF
    BY DEF almacenamiento, fijas
  <1>1. CASE w \notin vivos
    <2>1. UNCHANGED varsH /\ Mal(j)  BY <1>1, <1>w DEF almacenamiento
    <2>2. TypeOKWorker'
      BY <1>0, <2>1 DEF Mal, varsH, varsF, varsT, InvW, TiposW, TypeOKWorker
    <2> QED  BY <1>0, <2>1, <2>2, QuietosSiguen DEF varsF
  <1>2. CASE w \in vivos
    <2>0. /\ hijo' = [hijo EXCEPT ![j] = Partes[1]] /\ canal' = canal /\ estados' = estados
          /\ revuelto' = IF DelWorker(w) # {} THEN revuelto \cup {w} ELSE revuelto
          /\ paso' = [paso EXCEPT ![j] = "almacena"] /\ tocado' = tocado
          /\ fs' = fs /\ leyendo' = leyendo /\ corrido' = corrido /\ almacen' = almacen /\ hiloFS' = hiloFS
      BY <1>0, <1>2, <1>w DEF almacenamiento, varsT, varsF
    <2>1. TiposW'
      <3>1. Partes[1] \in ToSet(Partes)  BY PartesSon
      <3> QED  BY <1>0, <1>t, <2>0, <3>1 DEF InvW, TiposW, TypeOKWorker, Lecturas
    <2>2. Apagado' /\ HijosDeVivos' /\ corrido' \subseteq revuelto'
      BY <1>0, <1>2, <1>t, <1>w, <2>0 DEF InvW, Apagado, HijosDeVivos
    <2>3. ASSUME NEW v \in Workers \ revuelto' PROVE EnRegla(v)' /\ UltimoEstado(v)'
      <3>0. v \in Workers \ revuelto  BY <2>0, <2>3
      <3>1. CASE v # w
        <4>1. \A i \in Jobs : i # j => hijo'[i] = hijo[i]  BY <1>t, <2>0
        <4>2. IgualEn(v)  BY <1>0, <1>w, <2>0, <3>1, <4>1, OtroWorker
        <4> QED  BY <1>0, <2>0, <3>0, <4>2, WorkerSigue
      <3>2. CASE v = w
        <4>1. DelWorker(w) = {} /\ w \notin revuelto  BY <2>0, <3>2, <2>3
        <4>2. hijo'[j] = "mensaje" /\ hijo'[j] # Nulo  BY <1>t, <2>0, PartesSon, SupuestoNulo
        <4>3. DelWorker(w)' = {j}
          <5>1. \A i \in Jobs : i # j => hijo'[i] = hijo[i]  BY <1>t, <2>0
          <5> QED  BY <1>0, <1>w, <4>1, <4>2, <5>1 DEF DelWorker
        <4>4. PICK i \in Jobs \cup {Nulo}, r \in 0..4, k \in 0..4 :
                     r <= k /\ Puesto(w, i, r, k) /\ (fs = "vivo" => Turno(w, i, r, k))
          BY <1>2, <3>0, <3>2 DEF InvW, EnRegla
        <4>5. canal[w] \in Seq([job : Jobs, parte : ToSet(Partes)]) /\ fs \in {"vivo", "caido"}
          BY <1>0 DEF InvW, TiposW
        <4>6. CASE fs = "vivo"
          <5>1. r = k /\ r \in {0, 4} /\ estados[w] = <<>>  BY <4>1, <4>4, <4>6 DEF Turno
          <5>2. Len(canal[w]) = 0 /\ ~Lee(w)  BY <4>4, <5>1 DEF Puesto
          <5>3. Puesto(w, j, 0, 0)'  BY <2>0, <5>2 DEF Puesto, Lee
          <5>4. Turno(w, j, 0, 0)'  BY <2>0, <4>2, <4>3, <5>1, PartesSon DEF Turno
          <5>5. EnRegla(w)'  BY <5>3, <5>4 DEF EnRegla
          <5>6. UltimoEstado(w)'  BY <2>0, <4>6 DEF UltimoEstado
          <5> QED  BY <3>2, <5>5, <5>6
        <4>7. CASE fs = "caido"
          <5>1. Puesto(w, i, r, k)'  BY <2>0, <4>4 DEF Puesto, Lee
          <5>2. EnRegla(w)'  BY <2>0, <4>4, <4>7, <5>1 DEF EnRegla
          <5>3. estados[w] = <<>>
            BY <1>2, <3>0, <3>2, <4>1, <4>7 DEF InvW, UltimoEstado
          <5>4. UltimoEstado(w)'  BY <2>0, <5>3 DEF UltimoEstado
          <5> QED  BY <3>2, <5>2, <5>4
        <4> QED  BY <4>5, <4>6, <4>7
      <3> QED  BY <3>1, <3>2
    <2> QED  BY <2>1, <2>2, <2>3 DEF InvW
  <1> QED  BY <1>1, <1>2

\* The child that sends or waits in a Worker in order is its only one.
LEMMA SoloHijo ==
  ASSUME InvW, NEW j \in Jobs, hijo[j] # Nulo, encargado[j] \notin revuelto, fs = "vivo"
  PROVE  \E r \in 0..4, k \in 0..4 :
           /\ r <= k /\ Puesto(encargado[j], j, r, k) /\ DelWorker(encargado[j]) = {j}
           /\ hijo[j] = (IF k < 4 THEN Partes[k + 1] ELSE "status")
           /\ IF r < 4 THEN estados[encargado[j]] = <<>> ELSE Len(estados[encargado[j]]) = 1
  <1> DEFINE w == encargado[j]
  <1>1. w \in vivos /\ w \in Workers  BY DEF InvW, HijosDeVivos, TiposW
  <1>2. PICK i \in Jobs \cup {Nulo}, r \in 0..4, k \in 0..4 :
               r <= k /\ Puesto(w, i, r, k) /\ Turno(w, i, r, k)
    BY <1>1 DEF InvW, EnRegla
  <1>3. j \in DelWorker(w)  BY DEF DelWorker
  <1>4. DelWorker(w) = {i} /\ i = j  BY <1>2, <1>3 DEF Turno
  <1> QED  BY <1>2, <1>4 DEF Turno

LEMMA EnviarSigue ==
  ASSUME InvW, NEW j \in Jobs, enviarParte(j)
  PROVE  InvW'
  <1> DEFINE M == [job : Jobs, parte : ToSet(Partes)]
             nada == hijo[j] = "nombre" /\ archivos[RG(j)] = <<>>
  <1>t. /\ encargado \in [Jobs -> Workers] /\ hijo \in [Jobs -> ToSet(Partes) \cup {"status", Nulo}]
        /\ revuelto \subseteq Workers /\ canal \in [Workers -> Seq(M)] /\ fs \in {"vivo", "caido"}
    BY DEF InvW, TiposW, TypeOKWorker
  <1>w. PICK w \in Workers : w = encargado[j]  BY <1>t
  <1>0. /\ encargado' = encargado /\ vivos' = vivos /\ estados' = estados /\ tocado' = tocado
        /\ fs' = fs /\ leyendo' = leyendo /\ corrido' = corrido /\ almacen' = almacen /\ hiloFS' = hiloFS
        /\ hijo[j] \in ToSet(Partes)
    BY DEF enviarParte, fijas, varsT, varsF
  <1>h. hijo[j] # Nulo /\ hijo[j] # "status" /\ w \in vivos
    <2>1. hijo[j] # Nulo /\ hijo[j] # "status"  BY <1>0, SupuestoNulo, PartesSon
    <2> QED  BY <1>w, <2>1 DEF InvW, HijosDeVivos
  <1>p. /\ revuelto \subseteq revuelto'
        /\ paso' \in [Jobs -> {"mapa", "global", "almacena", "bien", "mal", "espera"}]
        /\ \E h \in {Nulo, "status"} \cup ToSet(Partes) : hijo' = [hijo EXCEPT ![j] = h]
        /\ \/ canal' = canal
           \/ fs = "vivo" /\ canal' = [canal EXCEPT ![w] = Append(@, [job |-> j, parte |-> hijo[j]])]
        /\ (revuelto' = revuelto \/ revuelto' = revuelto \cup {w})
    <2>1. CASE /\ hijo' = [hijo EXCEPT ![j] = IF nada \/ hijo[j] = Last(Partes) THEN "status"
                                              ELSE Tras(Partes, hijo[j])]
               /\ revuelto' = IF nada THEN revuelto \cup {w} ELSE revuelto
               /\ canal' = IF fs = "caido" THEN canal
                           ELSE [canal EXCEPT ![w] = Append(@, [job |-> j, parte |-> hijo[j]])]
               /\ UNCHANGED paso
      <3>1. paso' \in [Jobs -> {"mapa", "global", "almacena", "bien", "mal", "espera"}]
        BY <2>1 DEF InvW, TiposW, TypeOKWorker
      <3>2. hijo[j] # Last(Partes) => Tras(Partes, hijo[j]) \in ToSet(Partes)
        <4> SUFFICES ASSUME hijo[j] # Last(Partes) PROVE Tras(Partes, hijo[j]) \in ToSet(Partes)
          OBVIOUS
        <4>1. PICK k \in {1, 2, 3} : hijo[j] = Partes[k]  BY <1>0, PartesSon
        <4> QED  BY <4>1, TrasEs, PartesSon
      <3> QED  BY <1>t, <2>1, <3>1, <3>2
    <2>2. CASE Termina(j, "mal") /\ UNCHANGED <<canal, revuelto>>
      <3>1. paso' \in [Jobs -> {"mapa", "global", "almacena", "bien", "mal", "espera"}]
        BY <2>2 DEF InvW, TiposW, TypeOKWorker, Termina
      <3> QED  BY <2>2, <3>1 DEF Termina
    <2> QED  BY <1>w, <2>1, <2>2 DEF enviarParte
  <1>c. canal' \in [Workers -> Seq(M)]
    <2>1. [job |-> j, parte |-> hijo[j]] \in M  BY <1>0
    <2>2. canal[w] \in Seq(M)  BY <1>t
    <2>3. Append(canal[w], [job |-> j, parte |-> hijo[j]]) \in Seq(M)  BY <2>1, <2>2
    <2> HIDE DEF M
    <2> QED  BY <1>t, <1>p, <2>3
  <1>1. TiposW'
    <2>1. hijo' \in [Jobs -> ToSet(Partes) \cup {"status", Nulo}]  BY <1>t, <1>p
    <2>2. revuelto' \subseteq Workers  BY <1>t, <1>p
    <2> QED  BY <1>0, <1>p, <1>c, <2>1, <2>2 DEF InvW, TiposW, TypeOKWorker, Lecturas
  <1>2. Apagado' /\ HijosDeVivos' /\ corrido' \subseteq revuelto'
    <2>1. corrido' \subseteq revuelto'  BY <1>0, <1>p DEF InvW
    <2>2. HijosDeVivos'  BY <1>0, <1>t, <1>w, <1>h, <1>p DEF InvW, HijosDeVivos
    <2>3. Apagado'  BY <1>0, <1>p DEF InvW, Apagado
    <2> QED  BY <2>1, <2>2, <2>3
  <1>3. ASSUME NEW v \in Workers \ revuelto' PROVE EnRegla(v)' /\ UltimoEstado(v)'
    <2>0. v \in Workers \ revuelto  BY <1>p
    <2>1. CASE v # w
      <3>1. \A i \in Jobs : i # j => hijo'[i] = hijo[i]  BY <1>t, <1>p
      <3>2. canal'[v] = canal[v]  BY <1>t, <1>p, <2>1
      <3>3. IgualEn(v)  BY <1>0, <1>w, <2>1, <3>1, <3>2, OtroWorker
      <3> QED  BY <1>0, <2>0, <3>3, WorkerSigue
    <2>2. CASE v = w /\ fs = "caido"
      <3>1. canal' = canal  BY <1>p, <2>2
      <3>2. PICK i \in Jobs \cup {Nulo}, r \in 0..4, k \in 0..4 : r <= k /\ Puesto(w, i, r, k)
        BY <2>0, <2>2 DEF InvW, EnRegla
      <3>3. Puesto(w, i, r, k)'  BY <1>0, <3>1, <3>2 DEF Puesto, Lee
      <3>4. EnRegla(w)'  BY <1>0, <2>2, <3>2, <3>3 DEF EnRegla
      <3>5. estados[w] = <<>>
        <4> SUFFICES ASSUME estados[w] # <<>> PROVE FALSE  OBVIOUS
        <4>1. PICK i1 \in Jobs : DelWorker(w) = {i1} /\ hijo[i1] = "status"
          BY <1>h, <2>0, <2>2 DEF InvW, UltimoEstado
        <4>2. j \in DelWorker(w)  BY <1>h, <1>w DEF DelWorker
        <4> QED  BY <1>h, <4>1, <4>2
      <3> QED  BY <1>0, <2>2, <3>4, <3>5 DEF UltimoEstado
    <2>3. CASE v = w /\ fs = "vivo"
      <3>1. PICK r \in 0..4, k \in 0..4 :
              /\ r <= k /\ Puesto(w, j, r, k) /\ DelWorker(w) = {j}
              /\ hijo[j] = (IF k < 4 THEN Partes[k + 1] ELSE "status")
              /\ IF r < 4 THEN estados[w] = <<>> ELSE Len(estados[w]) = 1
        BY <1>h, <1>w, <2>0, <2>3, SoloHijo
      <3>2. k \in 0..3 /\ hijo[j] = Partes[k + 1] /\ r < 4 /\ estados[w] = <<>>
        BY <1>h, <3>1
      <3>3. /\ hijo' = [hijo EXCEPT ![j] = IF hijo[j] = Last(Partes) THEN "status"
                                           ELSE Tras(Partes, hijo[j])]
            /\ canal' = [canal EXCEPT ![w] = Append(@, [job |-> j, parte |-> hijo[j]])]
        BY <1>w, <1>3, <2>3 DEF enviarParte
      <3>4. hijo'[j] = IF k + 1 < 4 THEN Partes[(k + 1) + 1] ELSE "status"
        <4>1. k + 1 \in 1..4 /\ 4 \in 1..4  BY <3>2
        <4>2. hijo[j] = Last(Partes) <=> k + 1 = 4
          BY <3>2, <4>1, PartesSon, PartesDistintas
        <4>3. k + 1 < 4 => Tras(Partes, hijo[j]) = Partes[(k + 1) + 1]
          BY <3>2, <4>1, TrasEs
        <4>4. hijo'[j] = IF hijo[j] = Last(Partes) THEN "status" ELSE Tras(Partes, hijo[j])
          BY <1>t, <3>3
        <4> QED  BY <3>2, <4>2, <4>3, <4>4
      <3>5. hijo'[j] # Nulo  BY <3>2, <3>4, PartesSon, SupuestoNulo
      <3>6. DelWorker(w)' = {j}
        <4>1. \A i \in Jobs : i # j => hijo'[i] = hijo[i]  BY <1>t, <3>3
        <4> QED  BY <1>0, <1>w, <3>1, <3>5, <4>1 DEF DelWorker
      <3>7. Puesto(w, j, r, k + 1)'
        <4> DEFINE e == [job |-> j, parte |-> hijo[j]]
        <4>1. canal[w] \in Seq(M) /\ Len(canal[w]) = k - r /\ e \in M
          BY <1>0, <1>t, <3>1 DEF Puesto
        <4>2. canal'[w] = Append(canal[w], e)  BY <1>t, <3>3
        <4>3. /\ Len(canal'[w]) = (k - r) + 1 /\ canal'[w][(k - r) + 1] = e
              /\ \A i \in 1..(k - r) : canal'[w][i] = canal[w][i]
          <5> HIDE DEF M, e
          <5> QED  BY <4>1, <4>2
        <4>4. ASSUME NEW i \in 1..((k + 1) - r)
              PROVE  canal'[w][i] = [job |-> j, parte |-> Partes[r + i]]
          <5>1. CASE i = (k - r) + 1
            <6>1. r + i = k + 1  BY <5>1
            <6> QED  BY <3>2, <4>3, <5>1, <6>1
          <5>2. CASE i \in 1..(k - r)  BY <3>1, <4>3, <5>2 DEF Puesto
          <5> QED  BY <5>1, <5>2
        <4>5. Len(canal'[w]) = (k + 1) - r  BY <4>3
        <4> QED  BY <1>0, <3>1, <4>4, <4>5 DEF Puesto, Lee
      <3>8. Turno(w, j, r, k + 1)'
        BY <1>0, <3>2, <3>4, <3>6 DEF Turno
      <3>9. EnRegla(w)'
        <4>1. k + 1 \in 0..4 /\ r <= k + 1  BY <3>1, <3>2
        <4> QED  BY <3>7, <3>8, <4>1 DEF EnRegla
      <3> QED  BY <1>0, <2>3, <3>9 DEF UltimoEstado
    <2> QED  BY <1>t, <2>1, <2>2, <2>3
  <1> QED  BY <1>1, <1>2, <1>3 DEF InvW

LEMMA RecibirSigue ==
  ASSUME InvW, NEW j \in Jobs, recibirStatus(j)
  PROVE  InvW'
  <1>t. /\ encargado \in [Jobs -> Workers] /\ hijo \in [Jobs -> ToSet(Partes) \cup {"status", Nulo}]
        /\ estados \in [Workers -> Seq({0, -1})] /\ fs \in {"vivo", "caido"}
    BY DEF InvW, TiposW, TypeOKWorker
  <1>w. PICK w \in Workers : w = encargado[j]  BY <1>t
  <1>0. /\ encargado' = encargado /\ vivos' = vivos /\ canal' = canal /\ tocado' = tocado
        /\ fs' = fs /\ leyendo' = leyendo /\ corrido' = corrido /\ almacen' = almacen /\ hiloFS' = hiloFS
        /\ hijo[j] = "status" /\ revuelto' = revuelto
    BY DEF recibirStatus, fijas, varsT, varsF
  <1>h. hijo[j] # Nulo /\ w \in vivos
    BY <1>0, <1>w, SupuestoNulo DEF InvW, HijosDeVivos
  <1>p. /\ hijo' = [hijo EXCEPT ![j] = Nulo]
        /\ paso' \in [Jobs -> {"mapa", "global", "almacena", "bien", "mal", "espera"}]
        /\ \/ estados[w] # <<>> /\ estados' = [estados EXCEPT ![w] = Tail(@)]
           \/ estados[w] = <<>> /\ fs = "caido" /\ UNCHANGED estados
    <2>1. /\ \E r \in {"bien", "mal"} : Termina(j, r)
          /\ \/ estados[w] # <<>> /\ estados' = [estados EXCEPT ![w] = Tail(@)]
             \/ estados[w] = <<>> /\ fs = "caido" /\ UNCHANGED estados
      BY <1>w DEF recibirStatus
    <2>2. PICK r \in {"bien", "mal"} :
            paso' = [paso EXCEPT ![j] = r] /\ hijo' = [hijo EXCEPT ![j] = Nulo]
      BY <2>1 DEF Termina
    <2>3. paso' \in [Jobs -> {"mapa", "global", "almacena", "bien", "mal", "espera"}]
      BY <2>2 DEF InvW, TiposW, TypeOKWorker
    <2> QED  BY <2>1, <2>2, <2>3
  <1>e. estados' \in [Workers -> Seq({0, -1})]
    <2>1. estados[w] # <<>> => Tail(estados[w]) \in Seq({0, -1})  BY <1>t
    <2> QED  BY <1>t, <1>p, <2>1
  <1>1. TiposW'
    BY <1>0, <1>t, <1>p, <1>e DEF InvW, TiposW, TypeOKWorker, Lecturas
  <1>2. Apagado' /\ HijosDeVivos' /\ corrido' \subseteq revuelto'
    BY <1>0, <1>t, <1>p DEF InvW, Apagado, HijosDeVivos
  <1>3. ASSUME NEW v \in Workers \ revuelto' PROVE EnRegla(v)' /\ UltimoEstado(v)'
    <2>1. CASE v # w
      <3>1. \A i \in Jobs : i # j => hijo'[i] = hijo[i]  BY <1>t, <1>p
      <3>2. canal'[v] = canal[v] /\ estados'[v] = estados[v]  BY <1>0, <1>t, <1>p, <2>1
      <3>3. IgualEn(v)  BY <1>0, <1>w, <2>1, <3>1, <3>2, OtroWorker
      <3> QED  BY <1>0, <3>3, WorkerSigue
    <2>2. CASE v = w
      <3>1. j \in DelWorker(w)  BY <1>h, <1>w DEF DelWorker
      <3>2. \A i \in Jobs : i # j => hijo'[i] = hijo[i]  BY <1>t, <1>p
      <3>3. hijo'[j] = Nulo  BY <1>t, <1>p
      <3>4. CASE fs = "vivo"
        <4>1. PICK r \in 0..4, k \in 0..4 :
                /\ r <= k /\ Puesto(w, j, r, k) /\ DelWorker(w) = {j}
                /\ hijo[j] = (IF k < 4 THEN Partes[k + 1] ELSE "status")
                /\ IF r < 4 THEN estados[w] = <<>> ELSE Len(estados[w]) = 1
          BY <1>0, <1>h, <1>w, <2>2, <3>4, SoloHijo
        <4>2. Partes[k + 1] # "status" \/ k = 4
          <5>1. k \in 0..3 => k + 1 \in {1, 2, 3, 4}  OBVIOUS
          <5> QED  BY <5>1, PartesSon
        <4>3. k = 4 /\ estados[w] # <<>>  BY <1>0, <1>p, <3>4, <4>1, <4>2
        <4>4. r = 4 /\ Len(estados[w]) = 1 /\ estados' = [estados EXCEPT ![w] = Tail(@)]
          BY <1>p, <4>1, <4>3
        <4>5. estados'[w] = <<>>
          <5>1. estados'[w] = Tail(estados[w]) /\ estados[w] \in Seq({0, -1})  BY <1>t, <4>4
          <5>2. Len(estados[w]) = 1 /\ estados[w] # <<>>  BY <4>3, <4>4
          <5>3. Len(estados'[w]) = 0 /\ estados'[w] \in Seq({0, -1})  BY <5>1, <5>2
          <5> QED  BY <5>3
        <4>6. DelWorker(w)' = {}  BY <1>0, <1>w, <3>2, <3>3, <4>1 DEF DelWorker
        <4>7. Puesto(w, j, 4, 4)'  BY <1>0, <4>1, <4>3, <4>4 DEF Puesto, Lee
        <4>8. Turno(w, j, 4, 4)'  BY <4>5, <4>6 DEF Turno
        <4> QED  BY <1>0, <2>2, <3>4, <4>7, <4>8 DEF EnRegla, UltimoEstado
      <3>5. CASE fs = "caido"
        <4>1. PICK i \in Jobs \cup {Nulo}, r \in 0..4, k \in 0..4 : r <= k /\ Puesto(w, i, r, k)
          BY <1>3, <1>0, <2>2 DEF InvW, EnRegla
        <4>2. Puesto(w, i, r, k)'  BY <1>0, <4>1 DEF Puesto, Lee
        <4>3. EnRegla(w)'  BY <1>0, <3>5, <4>1, <4>2 DEF EnRegla
        <4>4. estados'[w] = <<>>
          <5>1. CASE estados[w] = <<>>  BY <1>p, <5>1
          <5>2. CASE estados[w] # <<>>
            <6>1. Len(estados[w]) = 1  BY <1>0, <1>3, <1>h, <2>2, <3>5, <5>2 DEF InvW, UltimoEstado
            <6>2. estados'[w] = Tail(estados[w]) /\ estados[w] \in Seq({0, -1})  BY <1>t, <1>p, <5>2
            <6>3. Len(estados'[w]) = 0 /\ estados'[w] \in Seq({0, -1})  BY <5>2, <6>1, <6>2
            <6> QED  BY <6>3
          <5> QED  BY <5>1, <5>2
        <4> QED  BY <2>2, <4>3, <4>4 DEF UltimoEstado
      <3> QED  BY <1>t, <3>4, <3>5
    <2> QED  BY <2>1, <2>2
  <1> QED  BY <1>1, <1>2, <1>3 DEF InvW
-----------------------------------------------------------------------------
(* The FileSystem                                                          *)

LEMMA GuardadoEs ==
  ASSUME InvW, NEW j \in Jobs, NEW w \in Workers, NEW s, Guardado(w, j, s)
  PROVE  /\ \E e \in {0, -1} : estados' = [estados EXCEPT ![w] = Append(@, e)]
         /\ estados' \in [Workers -> Seq({0, -1})]
         /\ DOMAIN almacen' \subseteq Jobs /\ tocado' \subseteq Jobs
  <1>1. /\ estados \in [Workers -> Seq({0, -1})] /\ DOMAIN almacen \subseteq Jobs
        /\ tocado \subseteq Jobs
    BY DEF InvW, TiposW, TypeOKWorker
  <1>2. PICK e \in {0, -1} : estados' = [estados EXCEPT ![w] = Append(@, e)]
    BY DEF Guardado, Contesta
  <1>3. Append(estados[w], e) \in Seq({0, -1})  BY <1>1
  <1>4. estados' \in [Workers -> Seq({0, -1})]  BY <1>1, <1>2, <1>3
  <1>5. DOMAIN almacen' \subseteq Jobs /\ tocado' \subseteq Jobs
    BY <1>1 DEF Guardado, Almacena
  <1> QED  BY <1>2, <1>4, <1>5

\* What the FileSystem reads from w says nothing of the other Workers.
LEMMA LecturaSigue ==
  ASSUME InvW, NEW w \in Workers, fs = "vivo", ~Ocupado(w), fs' = fs, encargado' = encargado,
         vivos' = vivos, hijo' = hijo, revuelto' = revuelto, paso' = paso,
         DOMAIN almacen' \subseteq Jobs, tocado' \subseteq Jobs, corrido' \subseteq revuelto',
         leyendo' \in Lecturas \cup {Nulo}, leyendo' # Nulo => leyendo'.worker = w,
         estados' \in [Workers -> Seq({0, -1})], hiloFS' \in {"bien", "cerrado", "colgado"},
         canal' \in [Workers -> Seq([job : Jobs, parte : ToSet(Partes)])],
         \A v \in Workers : v # w => canal'[v] = canal[v] /\ estados'[v] = estados[v],
         w \notin revuelto => EnRegla(w)'
  PROVE  InvW'
  <1>1. TiposW'
    <2>1. revuelto' \subseteq Workers  BY DEF InvW, TiposW, TypeOKWorker
    <2> QED  BY <2>1 DEF InvW, TiposW, TypeOKWorker, Lecturas
  <1>2. Apagado' /\ HijosDeVivos'  BY DEF InvW, Apagado, HijosDeVivos
  <1>3. ASSUME NEW v \in Workers \ revuelto' PROVE EnRegla(v)' /\ UltimoEstado(v)'
    <2>1. CASE v = w  BY <1>3, <2>1 DEF UltimoEstado
    <2>2. CASE v # w
      <3>1. ~Lee(v) /\ ~Lee(v)'  BY <2>2 DEF Lee, Ocupado
      <3>2. IgualEn(v)  BY <2>2, <3>1 DEF IgualEn, DelWorker
      <3> QED  BY <3>2, WorkerSigue
    <2> QED  BY <2>1, <2>2
  <1> QED  BY <1>1, <1>2, <1>3 DEF InvW

\* What there is to read from a Worker in order is what is expected.
LEMMA EnOrden ==
  ASSUME InvW, NEW w \in Workers \ revuelto, fs = "vivo", ~Ocupado(w), canal[w] # <<>>
  PROVE  \E j \in Jobs, r \in 0..3, k \in 0..4 :
           /\ r < k /\ Puesto(w, j, r, k) /\ (w \in vivos => Turno(w, j, r, k))
           /\ Head(canal[w]) = [job |-> j, parte |-> Partes[r + 1]]
           /\ IF leyendo = Nulo THEN r = 0 ELSE leyendo.parte = Partes[r + 1] /\ leyendo.job = j
  <1> DEFINE M == [job : Jobs, parte : ToSet(Partes)]
  <1>1. PICK j \in Jobs \cup {Nulo}, r \in 0..4, k \in 0..4 :
               r <= k /\ Puesto(w, j, r, k) /\ (w \in vivos => Turno(w, j, r, k))
    BY DEF InvW, EnRegla
  <1>2. canal[w] \in Seq(M) /\ Len(canal[w]) \in Nat /\ Len(canal[w]) # 0
    <2>1. canal[w] \in Seq(M)  BY DEF InvW, TiposW
    <2> HIDE DEF M
    <2> QED  BY <2>1
  <1>3. r < k /\ r \in 0..3  BY <1>1, <1>2 DEF Puesto
  <1>4. canal[w][1] = [job |-> j, parte |-> Partes[r + 1]]  BY <1>1, <1>3 DEF Puesto
  <1>5. Head(canal[w]) = canal[w][1] /\ canal[w][1] \in M
    <2> HIDE DEF M
    <2> QED  BY <1>2
  <1>6. j \in Jobs  BY <1>4, <1>5
  <1>7. CASE leyendo = Nulo
    <2>1. ~Lee(w)  BY <1>7 DEF Lee
    <2>2. r \notin 1..3  BY <1>1, <2>1 DEF Puesto
    <2>3. r = 0  BY <1>3, <2>2
    <2> QED  BY <1>1, <1>3, <1>4, <1>5, <1>6, <1>7, <2>3
  <1>8. CASE leyendo # Nulo
    <2>1. Lee(w)  BY <1>8 DEF Lee, Ocupado
    <2>2. r \in 1..3 /\ leyendo = [worker |-> w, job |-> j, parte |-> Partes[r + 1]]
      BY <1>1, <2>1 DEF Puesto
    <2> QED  BY <1>1, <1>3, <1>4, <1>5, <1>6, <1>8, <2>2
  <1> QED  BY <1>7, <1>8

LEMMA LeerParteSigue ==
  ASSUME InvW, NEW w \in Workers, leerParte(w)
  PROVE  InvW'
  <1> DEFINE M == [job : Jobs, parte : ToSet(Partes)]
             t == Head(canal[w])
  <1>0. /\ fs = "vivo" /\ canal[w] # <<>> /\ ~Ocupado(w) /\ fs' = fs /\ encargado' = encargado
        /\ vivos' = vivos /\ hijo' = hijo /\ revuelto' = revuelto /\ paso' = paso
        /\ corrido' = corrido
        /\ canal' = [canal EXCEPT ![w] = Tail(@)]
    BY DEF leerParte, Atiende, fijas
  <1>f. hiloFS' \in {"bien", "cerrado", "colgado"}  BY DEF leerParte, InvW, TiposW, TypeOKWorker
  <1>t. canal \in [Workers -> Seq(M)] /\ estados \in [Workers -> Seq({0, -1})]
    BY DEF InvW, TiposW, TypeOKWorker
  <1>c. /\ t \in M /\ Tail(canal[w]) \in Seq(M) /\ Len(Tail(canal[w])) = Len(canal[w]) - 1
        /\ \A i \in 1..(Len(canal[w]) - 1) : Tail(canal[w])[i] = canal[w][i + 1]
    <2>1. canal[w] \in Seq(M)  BY <1>t
    <2> HIDE DEF M
    <2> QED  BY <1>0, <2>1
  <1>d. canal' \in [Workers -> Seq(M)]
    <2> HIDE DEF M
    <2> QED  BY <1>0, <1>t, <1>c
  <1>1. t.job \in Jobs /\ \E i \in {1, 2, 3, 4} : t.parte = Partes[i]
    BY <1>c, PartesSon
  <1>2. CASE t.parte = "datos"
    <2>1. Guardado(w, t.job, archivos[RG(t.job)]) /\ leyendo' = Nulo  BY <1>2 DEF leerParte
    <2>2. PICK e \in {0, -1} : estados' = [estados EXCEPT ![w] = Append(@, e)]
      BY <1>1, <2>1, GuardadoEs
    <2>3. /\ estados' \in [Workers -> Seq({0, -1})]
          /\ DOMAIN almacen' \subseteq Jobs /\ tocado' \subseteq Jobs
      BY <1>1, <2>1, GuardadoEs
    <2>4. w \notin revuelto => EnRegla(w)'
      <3> SUFFICES ASSUME w \notin revuelto PROVE EnRegla(w)'  OBVIOUS
      <3>1. PICK j \in Jobs, r \in 0..3, k \in 0..4 :
              /\ r < k /\ Puesto(w, j, r, k) /\ (w \in vivos => Turno(w, j, r, k))
              /\ t = [job |-> j, parte |-> Partes[r + 1]]
        BY <1>0, EnOrden
      <3>2. r = 3 /\ k = 4
        <4>1. r + 1 \in 1..4 /\ 4 \in 1..4 /\ Partes[r + 1] = Partes[4]  BY <1>2, <3>1, PartesSon
        <4>2. r + 1 = 4  BY <4>1, PartesDistintas
        <4> QED  BY <3>1, <4>2
      <3>3. Len(canal'[w]) = 0  BY <1>0, <1>t, <1>c, <3>1, <3>2 DEF Puesto
      <3>4. Puesto(w, j, 4, 4)'  BY <2>1, <3>3 DEF Puesto, Lee
      <3>5. w \in vivos => Turno(w, j, 4, 4)'
        <4> SUFFICES ASSUME w \in vivos PROVE Turno(w, j, 4, 4)'  OBVIOUS
        <4>1. /\ DelWorker(w) = {j} /\ hijo[j] = "status" /\ estados[w] = <<>>
          BY <3>1, <3>2 DEF Turno
        <4>2. DelWorker(w)' = {j}  BY <1>0, <4>1 DEF DelWorker
        <4>3. estados'[w] = Append(estados[w], e) /\ estados[w] \in Seq({0, -1})  BY <1>t, <2>2
        <4>4. Len(estados'[w]) = 1  BY <4>1, <4>3
        <4> QED  BY <1>0, <4>1, <4>2, <4>4 DEF Turno
      <3> QED  BY <1>0, <3>4, <3>5 DEF EnRegla
    <2>5. \A v \in Workers : v # w => canal'[v] = canal[v] /\ estados'[v] = estados[v]
      BY <1>0, <1>t, <2>2
    <2>6. corrido' \subseteq revuelto'  BY <1>0 DEF InvW
    <2> QED  BY <1>0, <1>d, <2>1, <2>3, <2>4, <2>5, <2>6, <1>f, LecturaSigue
  <1>3. CASE t.parte # "datos"
    <2>1. /\ leyendo' = [worker |-> w, job |-> t.job, parte |-> Tras(Lectura, t.parte)]
          /\ estados' = estados /\ almacen' = almacen /\ tocado' = tocado
      BY <1>3 DEF leerParte
    <2>2. PICK i \in {1, 2, 3} : t.parte = Partes[i]  BY <1>1, <1>3, PartesSon
    <2>3. Tras(Lectura, t.parte) = Partes[i + 1] /\ Partes[i + 1] \in {"nombre", "tamano", "datos"}
      BY <2>2, TrasEs, PartesSon
    <2>4. leyendo' \in Lecturas /\ leyendo' # Nulo /\ leyendo'.worker = w
      BY <1>1, <2>1, <2>3, SupuestoNulo DEF Lecturas
    <2>5. w \notin revuelto => EnRegla(w)'
      <3> SUFFICES ASSUME w \notin revuelto PROVE EnRegla(w)'  OBVIOUS
      <3>1. PICK j \in Jobs, r \in 0..3, k \in 0..4 :
              /\ r < k /\ Puesto(w, j, r, k) /\ (w \in vivos => Turno(w, j, r, k))
              /\ t = [job |-> j, parte |-> Partes[r + 1]]
        BY <1>0, EnOrden
      <3>2. r + 1 = i
        <4>1. r + 1 \in 1..4 /\ i \in 1..4 /\ Partes[r + 1] = Partes[i]  BY <2>2, <3>1
        <4> QED  BY <4>1, PartesDistintas
      <3>3. r + 1 \in 1..3 /\ r + 1 \in 0..4 /\ r + 1 <= k  BY <3>1, <3>2
      <3>4. Puesto(w, j, r + 1, k)'
        <4>1. Len(canal'[w]) = k - (r + 1)  BY <1>0, <1>t, <1>c, <3>1 DEF Puesto
        <4>2. ASSUME NEW n \in 1..(k - (r + 1))
              PROVE  canal'[w][n] = [job |-> j, parte |-> Partes[(r + 1) + n]]
          <5>1. n + 1 \in 1..(k - r) /\ Len(canal[w]) = k - r  BY <3>1 DEF Puesto
          <5>2. canal'[w][n] = canal[w][n + 1]  BY <1>0, <1>t, <1>c, <5>1
          <5>3. canal[w][n + 1] = [job |-> j, parte |-> Partes[r + (n + 1)]]
            BY <3>1, <5>1 DEF Puesto
          <5>4. r + (n + 1) = (r + 1) + n  OBVIOUS
          <5> QED  BY <5>2, <5>3, <5>4
        <4>3. Lee(w)'  BY <2>4 DEF Lee
        <4>4. leyendo' = [worker |-> w, job |-> j, parte |-> Partes[(r + 1) + 1]]
          BY <2>1, <2>3, <3>1, <3>2
        <4> QED  BY <3>3, <4>1, <4>2, <4>3, <4>4 DEF Puesto
      <3>5. w \in vivos => Turno(w, j, r + 1, k)'
        <4> SUFFICES ASSUME w \in vivos PROVE Turno(w, j, r + 1, k)'  OBVIOUS
        <4>1. Turno(w, j, r, k) /\ DelWorker(w)' = DelWorker(w)  BY <1>0, <3>1 DEF DelWorker
        <4> QED  BY <1>0, <2>1, <3>1, <3>3, <4>1 DEF Turno
      <3> QED  BY <1>0, <3>3, <3>4, <3>5 DEF EnRegla
    <2>6. \A v \in Workers : v # w => canal'[v] = canal[v] /\ estados'[v] = estados[v]
      BY <1>0, <1>t, <2>1
    <2>7. /\ corrido' \subseteq revuelto' /\ DOMAIN almacen' \subseteq Jobs
          /\ tocado' \subseteq Jobs
          /\ estados' \in [Workers -> Seq({0, -1})]
      BY <1>0, <1>t, <2>1 DEF InvW, TiposW, TypeOKWorker
    <2> QED  BY <1>0, <1>d, <2>4, <2>5, <2>6, <2>7, <1>f, LecturaSigue
  <1> QED  BY <1>2, <1>3

\* Only where storages overlapped, or one had nothing to send, is anything out of step.
LEMMA LeerCorridoSigue ==
  ASSUME InvW, NEW w \in Workers, leerCorrido(w)
  PROVE  InvW'
  <1> DEFINE M == [job : Jobs, parte : ToSet(Partes)]
  <1>0. /\ fs = "vivo" /\ canal[w] # <<>> /\ ~Ocupado(w) /\ fs' = fs /\ encargado' = encargado
        /\ vivos' = vivos /\ hijo' = hijo /\ revuelto' = revuelto /\ paso' = paso
        /\ corrido' = corrido \cup {w} /\ canal' = [canal EXCEPT ![w] = Tail(@)]
    BY DEF leerCorrido, Atiende, fijas
  <1>f. hiloFS' \in {"bien", "cerrado", "colgado"}  BY DEF leerCorrido, InvW, TiposW, TypeOKWorker
  <1>t. canal \in [Workers -> Seq(M)] /\ estados \in [Workers -> Seq({0, -1})]
    BY DEF InvW, TiposW, TypeOKWorker
  <1>1. w \in revuelto
    <2> SUFFICES ASSUME w \notin revuelto PROVE FALSE  OBVIOUS
    <2>1. w \notin corrido  BY DEF InvW
    <2>2. PICK j \in Jobs, r \in 0..3 :
            /\ Head(canal[w]) = [job |-> j, parte |-> Partes[r + 1]]
            /\ IF leyendo = Nulo THEN r = 0 ELSE leyendo.parte = Partes[r + 1] /\ leyendo.job = j
      BY <1>0, EnOrden
    <2> QED  BY <2>1, <2>2, PartesSon DEF leerCorrido
  <1>2. canal' \in [Workers -> Seq(M)]
    <2>1. canal[w] \in Seq(M)  BY <1>t
    <2>2. Tail(canal[w]) \in Seq(M)
      <3> HIDE DEF M
      <3> QED  BY <1>0, <2>1
    <2> HIDE DEF M
    <2> QED  BY <1>0, <1>t, <2>2
  <1>3. /\ leyendo' \in Lecturas \cup {Nulo} /\ (leyendo' # Nulo => leyendo'.worker = w)
    BY DEF leerCorrido, Lecturas
  <1>4. /\ estados' \in [Workers -> Seq({0, -1})] /\ DOMAIN almacen' \subseteq Jobs
        /\ tocado' \subseteq Jobs
        /\ \A v \in Workers : v # w => estados'[v] = estados[v]
    <2>1. CASE \E j \in DelWorker(w) : Guardado(w, j, Basura)
      <3>1. PICK j \in Jobs : Guardado(w, j, Basura)  BY <2>1 DEF DelWorker
      <3> QED  BY <1>t, <3>1, GuardadoEs
    <2>2. CASE UNCHANGED <<estados, almacen, tocado>>
      BY <1>t, <2>2 DEF InvW, TiposW, TypeOKWorker
    <2> QED  BY <2>1, <2>2 DEF leerCorrido
  <1>5. corrido' \subseteq revuelto'  BY <1>0, <1>1 DEF InvW
  <1>6. \A v \in Workers : v # w => canal'[v] = canal[v]  BY <1>0, <1>t
  <1> QED  BY <1>0, <1>1, <1>2, <1>3, <1>4, <1>5, <1>6, <1>f, LecturaSigue

LEMMA LeerCortadoSigue ==
  ASSUME InvW, NEW w \in Workers, leerCortado(w)
  PROVE  InvW'
  <1>0. /\ fs = "vivo" /\ leyendo # Nulo /\ leyendo.worker = w /\ w \notin vivos /\ canal[w] = <<>>
        /\ fs' = fs /\ encargado' = encargado /\ vivos' = vivos /\ hijo' = hijo /\ paso' = paso
        /\ revuelto' = revuelto /\ corrido' = corrido /\ canal' = canal /\ leyendo' = Nulo
    BY DEF leerCortado, Atiende, fijas
  <1>f. hiloFS' \in {"bien", "cerrado", "colgado"}  BY DEF leerCortado, InvW, TiposW, TypeOKWorker
  <1>1. ~Ocupado(w)  BY <1>0 DEF Ocupado
  <1>2. /\ estados' \in [Workers -> Seq({0, -1})] /\ DOMAIN almacen' \subseteq Jobs
        /\ tocado' \subseteq Jobs
        /\ \A v \in Workers : v # w => estados'[v] = estados[v]
    <2>t. estados \in [Workers -> Seq({0, -1})] /\ leyendo \in Lecturas
      BY <1>0 DEF InvW, TiposW, TypeOKWorker
    <2>1. CASE leyendo.parte \in {"tamano", "datos"}
      <3>1. leyendo.job \in Jobs  BY <2>t, <2>1 DEF Lecturas
      <3>2. PICK s \in {<<>>, Basura} : Guardado(w, leyendo.job, s)  BY <2>1 DEF leerCortado
      <3> QED  BY <2>t, <3>1, <3>2, GuardadoEs
    <2>2. CASE leyendo.parte \notin {"tamano", "datos"}
      <3>1. UNCHANGED <<estados, almacen, tocado>>  BY <2>2 DEF leerCortado
      <3> QED  BY <2>t, <3>1 DEF InvW, TiposW, TypeOKWorker
    <2> QED  BY <2>1, <2>2
  <1>3. EnRegla(w)'
    <2>1. Puesto(w, Nulo, 0, 0)'  BY <1>0 DEF Puesto, Lee
    <2> QED  BY <1>0, <2>1 DEF EnRegla
  <1>4. /\ canal' \in [Workers -> Seq([job : Jobs, parte : ToSet(Partes)])]
        /\ corrido' \subseteq revuelto'
    BY <1>0 DEF InvW, TiposW
  <1> QED  BY <1>0, <1>1, <1>2, <1>3, <1>4, <1>f, LecturaSigue
-----------------------------------------------------------------------------
(* The storages do not mix                                                 *)

LEMMA CuelgaSigue ==
  ASSUME InvW, fsCuelga
  PROVE  InvW'
  <1>1. /\ UNCHANGED <<fijas, vivos, paso, varsT, varsH, fs, leyendo, corrido, almacen>>
        /\ hiloFS' = "colgado"
    BY DEF fsCuelga
  <1>2. TypeOKWorker'  BY <1>1 DEF InvW, TiposW, TypeOKWorker, varsT, varsH
  <1> QED  BY <1>1, <1>2, QuietosSiguen DEF fijas, varsT

LEMMA PasoW ==
  ASSUME InvW, [Next]_vars
  PROVE  InvW'
  <1>1. CASE \E j \in Jobs : Operacion(j)
    <2>1. PICK j \in Jobs : Operacion(j)  BY <1>1
    <2>2. CASE almacenamiento(j)  BY <2>2, AlmacenamientoSigue
    <2>3. CASE iniciarGlobal(j)
      <3>1. PICK w \in Workers : w = encargado[j]  BY DEF InvW, TiposW
      <3> QED  BY <2>3, <3>1, OperacionesSiguen
    <2>4. CASE \E w \in Workers : (\E i \in DOMAIN bloques[j][w] : iniciarTransformacion(j, w, i))
                                    \/ iniciarReduccion(j, w) \/ pedirArchivo(j, w)
      BY <2>4, OperacionesSiguen
    <2> QED  BY <2>1, <2>2, <2>3, <2>4 DEF Operacion
  <1>2. CASE \E j \in Jobs : Hijo(j)  BY <1>2, EnviarSigue, RecibirSigue DEF Hijo
  <1>3. CASE \E w \in Workers : FileSystem(w)
    BY <1>3, LeerParteSigue, LeerCorridoSigue, LeerCortadoSigue DEF FileSystem
  <1>4. CASE Fallo  BY <1>4, FallosSiguen, CaeSigue, CuelgaSigue DEF Fallo, fsMuere, fsSale
  <1>5. CASE UNCHANGED vars
    <2>1. /\ UNCHANGED <<varsH, varsF, encargado>> /\ vivos' = vivos
          /\ paso' = paso /\ tocado' = tocado
      BY <1>5 DEF vars, fijas, varsT
    <2>2. TypeOKWorker'  BY <2>1 DEF InvW, TiposW, TypeOKWorker, varsH, varsF
    <2> QED  BY <2>1, <2>2, QuietosSiguen DEF varsF
  <1> QED  BY <1>1, <1>2, <1>3, <1>4, <1>5 DEF Next

\* As long as the storages of a Worker do not overlap and none has nothing to send, its
\* connection is read in step and every answer is that of the child that waits for it: of
\* _almacenamiento and recibirArchivo, for any number of jobs and Workers, any blocks and
\* files, and whatever scripts fail and machines are lost.
THEOREM AlmacenesSinMezcla == Spec => []SinMezcla
  <1>1. Init => InvW  BY InicioW
  <1>2. InvW /\ [Next]_vars => InvW'  BY PasoW
  <1>3. InvW => SinMezcla  BY InvDaSinMezcla
  <1> QED  BY <1>1, <1>2, <1>3, PTL DEF Spec
-----------------------------------------------------------------------------
(* Files: recursion, the merge and the folds have a value                  *)

LEMMA Menor ==
  ASSUME NEW S \in SUBSET Nat, S # {}
  PROVE  \E x \in S : \A y \in S : x <= y
  <1>1. \E x \in S : \A y \in S : ~ (<<y, x>> \in OpToRel(<, Nat))
    BY WFMin, NatLessThanWellFounded
  <1>2. PICK x \in S : \A y \in S : ~ (<<y, x>> \in OpToRel(<, Nat))  BY <1>1
  <1>3. \A y \in S : ~ (y < x)  BY <1>2 DEF OpToRel
  <1> QED  BY <1>3

LEMMA Induccion ==
  ASSUME NEW A, 0 \in A, \A k \in Nat : k \in A => k + 1 \in A
  PROVE  Nat \subseteq A
  <1> DEFINE S == Nat \ A
  <1> SUFFICES ASSUME S # {} PROVE FALSE  OBVIOUS
  <1>1. PICK x \in S : \A y \in S : x <= y  BY Menor
  <1>2. x \in Nat \ {0} /\ x \notin A  OBVIOUS
  <1>3. x - 1 \in Nat /\ x - 1 \notin S  BY <1>1, <1>2
  <1>4. x - 1 \in A /\ (x - 1) + 1 = x  BY <1>2, <1>3
  <1> QED  BY <1>2, <1>3, <1>4

\* The functions that are known at once in the elements of B, and elsewhere from an element
\* that is smaller.
Recursivas(D, V, B, base, up, F) ==
  {g \in [D -> V] : \A d \in D : g[d] = IF d \in B THEN base[d] ELSE F[<<d, g[up[d]]>>]}

LEMMA RecursivaHay ==
  ASSUME NEW D, NEW V, NEW B, NEW base, NEW up, NEW F,
         NEW m, \A d \in D : m[d] \in Nat,
         \A d \in D : d \in B => base[d] \in V,
         \A d \in D : d \notin B => up[d] \in D /\ m[up[d]] < m[d] /\ \A v \in V : F[<<d, v>>] \in V
  PROVE  Recursivas(D, V, B, base, up, F) # {}
  <1> DEFINE E(k) == {d \in D : m[d] < k}
             R(k) == Recursivas(E(k), V, B, base, up, F)
             A == {k \in Nat : R(k) # {}}
  <1>1. 0 \in A
    <2>1. E(0) = {}  OBVIOUS
    <2> DEFINE g == [d \in {} |-> d]
    <2>2. g \in Recursivas({}, V, B, base, up, F)  BY DEF Recursivas
    <2> QED  BY <2>1, <2>2
  <1>2. \A k \in Nat : k \in A => k + 1 \in A
    <2> SUFFICES ASSUME NEW k \in Nat, R(k) # {} PROVE R(k + 1) # {}  OBVIOUS
    <2>1. PICK g : g \in R(k)  OBVIOUS
    <2>2. g \in [E(k) -> V] /\ \A d \in E(k) : g[d] = IF d \in B THEN base[d] ELSE F[<<d, g[up[d]]>>]
      BY <2>1 DEF Recursivas
    <2> DEFINE h == [d \in E(k + 1) |-> IF d \in B THEN base[d] ELSE F[<<d, g[up[d]]>>]]
    <2>3. \A d \in E(k + 1) : d \notin B => up[d] \in E(k)
      <3> TAKE d \in E(k + 1)
      <3> HAVE d \notin B
      <3>1. up[d] \in D /\ m[up[d]] < m[d] /\ m[d] < k + 1 /\ m[d] \in Nat /\ m[up[d]] \in Nat
        OBVIOUS
      <3> QED  BY <3>1
    <2>4. \A d \in E(k) : d \in E(k + 1)
      <3> TAKE d \in E(k)
      <3>1. d \in D /\ m[d] \in Nat /\ m[d] < k  OBVIOUS
      <3> QED  BY <3>1
    <2>5. \A d \in E(k + 1) : d \in D  OBVIOUS
    <2> HIDE DEF E
    <2>6. h \in [E(k + 1) -> V]  BY <2>2, <2>3, <2>5
    <2>7. \A d \in E(k) : h[d] = g[d]  BY <2>2, <2>4
    <2>8. \A d \in E(k + 1) : h[d] = IF d \in B THEN base[d] ELSE F[<<d, h[up[d]]>>]
      BY <2>3, <2>7
    <2> HIDE DEF h
    <2>9. h \in R(k + 1)  BY <2>6, <2>8 DEF Recursivas
    <2> QED  BY <2>9
  <1>3. \A k \in Nat : R(k) # {}
    <2> HIDE DEF R
    <2>1. Nat \subseteq A
      <3> HIDE DEF A
      <3> QED  BY <1>1, <1>2, Induccion
    <2> QED  BY <2>1
  \* They agree where both are defined.
  <1>4. ASSUME NEW k \in Nat, NEW n \in Nat, NEW f \in R(k), NEW g \in R(n)
        PROVE  \A d \in E(k) \cap E(n) : f[d] = g[d]
    <2> DEFINE S == {x \in Nat : \E d \in E(k) \cap E(n) : m[d] = x /\ f[d] # g[d]}
    <2> SUFFICES ASSUME S # {} PROVE FALSE  OBVIOUS
    <2>1. S \in SUBSET Nat  OBVIOUS
    <2>2. PICK x \in S : \A y \in S : x <= y
      <3> HIDE DEF S
      <3> QED  BY <2>1, Menor
    <2>3. PICK d \in E(k) \cap E(n) : m[d] = x /\ f[d] # g[d]  OBVIOUS
    <2>4. /\ f[d] = IF d \in B THEN base[d] ELSE F[<<d, f[up[d]]>>]
          /\ g[d] = IF d \in B THEN base[d] ELSE F[<<d, g[up[d]]>>]
      BY DEF Recursivas
    <2>5. d \notin B /\ f[up[d]] # g[up[d]]  BY <2>3, <2>4
    <2>6. up[d] \in E(k) \cap E(n) /\ m[up[d]] < m[d] /\ m[up[d]] \in Nat /\ m[d] \in Nat
      BY <2>5
    <2>7. m[up[d]] \in S  BY <2>5, <2>6
    <2>8. x <= m[up[d]]  BY <2>2, <2>7
    <2> QED  BY <2>3, <2>6, <2>8
  <1> DEFINE c(k) == CHOOSE g : g \in R(k)
             h == [d \in D |-> c(m[d] + 1)[d]]
  <1>5. \A k \in Nat : c(k) \in R(k)
    <2> HIDE DEF R
    <2> QED  BY <1>3
  <1>6. ASSUME NEW k \in Nat
        PROVE  /\ c(k) \in [E(k) -> V]
               /\ \A d \in E(k) : c(k)[d] = IF d \in B THEN base[d] ELSE F[<<d, c(k)[up[d]]>>]
    <2> HIDE DEF c
    <2> QED  BY <1>5 DEF Recursivas
  <1>7. ASSUME NEW d \in D
        PROVE  h[d] \in V /\ h[d] = IF d \in B THEN base[d] ELSE F[<<d, h[up[d]]>>]
    <2> DEFINE k == m[d] + 1
    <2>1. k \in Nat /\ d \in E(k) /\ h[d] = c(k)[d]  OBVIOUS
    <2> HIDE DEF c, k
    <2>2. h[d] \in V /\ h[d] = IF d \in B THEN base[d] ELSE F[<<d, c(k)[up[d]]>>]  BY <1>6, <2>1
    <2>3. CASE d \in B  BY <2>2, <2>3
    <2>4. CASE d \notin B
      <3> DEFINE e == up[d]
                 n == m[e] + 1
      <3>1. e \in D /\ m[e] \in Nat /\ m[e] < m[d] /\ n \in Nat /\ e \in E(n)  BY <2>4
      <3>2. e \in E(k)  BY <2>1, <3>1
      <3>3. h[e] = c(n)[e]  BY <3>1
      <3>4. c(n) \in R(n) /\ c(k) \in R(k)  BY <1>5, <2>1, <3>1
      <3> HIDE DEF E, R, n, e, h
      <3>5. c(n)[e] = c(k)[e]  BY <1>4, <2>1, <3>1, <3>2, <3>4
      <3> QED  BY <2>2, <2>4, <3>3, <3>5 DEF e
    <2> QED  BY <2>3, <2>4
  <1>8. h \in [D -> V]
    <2>1. h = [d \in D |-> h[d]]  OBVIOUS
    <2> HIDE DEF h
    <2> QED  BY <1>7, <2>1
  <1> HIDE DEF h
  <1>9. h \in Recursivas(D, V, B, base, up, F)  BY <1>7, <1>8 DEF Recursivas
  <1> QED  BY <1>9
-----------------------------------------------------------------------------
(* Files in order                                                          *)

Sube(s)  == s \in Seq(Nat) /\ \A i, k \in DOMAIN s : i < k => s[i] <= s[k]
Crece(s) == s \in Seq(Nat) /\ \A i, k \in DOMAIN s : i < k => s[i] < s[k]

LEMMA LineasNat ==
  ASSUME NEW s, Sube(s)
  PROVE  ToSet(s) \subseteq Nat
  <1>1. \A i \in DOMAIN s : s[i] \in Nat  BY DEF Sube
  <1> QED  BY <1>1 DEF ToSet

LEMMA CreceSube ==
  ASSUME NEW s, Crece(s)
  PROVE  Sube(s)
  <1>1. s \in Seq(Nat) /\ \A i \in DOMAIN s : s[i] \in Nat  BY DEF Crece
  <1>2. ASSUME NEW i \in DOMAIN s, NEW k \in DOMAIN s, i < k PROVE s[i] <= s[k]
    <2>1. s[i] < s[k]  BY <1>2 DEF Crece
    <2> QED  BY <1>1, <2>1
  <1> QED  BY <1>1, <1>2 DEF Sube

\* A file in order and without repetitions is its set of lines.
LEMMA CreceUnica ==
  ASSUME NEW s, NEW t, Crece(s), Crece(t), ToSet(s) = ToSet(t)
  PROVE  s = t
  <1>0. /\ s \in Seq(Nat) /\ t \in Seq(Nat) /\ Len(s) \in Nat /\ Len(t) \in Nat
        /\ DOMAIN s = 1..Len(s) /\ DOMAIN t = 1..Len(t)
    BY DEF Crece
  <1>1. ASSUME NEW u, NEW v, Crece(u), Crece(v), ToSet(u) = ToSet(v), NEW i \in DOMAIN u,
               i \in DOMAIN v, \A k \in 1..(i - 1) : u[k] = v[k], u[i] < v[i]
        PROVE  FALSE
    <2>0. /\ u \in Seq(Nat) /\ v \in Seq(Nat) /\ DOMAIN u = 1..Len(u) /\ DOMAIN v = 1..Len(v)
          /\ Len(u) \in Nat /\ Len(v) \in Nat
      BY <1>1 DEF Crece
    <2>1. PICK k \in DOMAIN v : v[k] = u[i]  BY <1>1 DEF ToSet
    <2>2. k \in Nat /\ i \in Nat /\ u[i] \in Nat /\ v[i] \in Nat /\ v[k] \in Nat
      BY <1>1, <2>0, <2>1
    <2>3. k < i
      <3> SUFFICES ASSUME ~ (k < i) PROVE FALSE  OBVIOUS
      <3>1. k = i \/ i < k  BY <2>2
      <3>2. v[i] <= v[k]  BY <1>1, <2>2, <3>1 DEF Crece
      <3> QED  BY <1>1, <2>1, <2>2, <3>2
    <2>4. k \in 1..(i - 1) /\ k \in DOMAIN u  BY <1>1, <2>0, <2>1, <2>2, <2>3
    <2>5. u[k] = u[i] /\ u[k] < u[i]  BY <1>1, <2>1, <2>3, <2>4 DEF Crece
    <2> QED  BY <2>2, <2>5
  <1>2. ASSUME NEW u, NEW v, Crece(u), Crece(v), ToSet(u) = ToSet(v), Len(u) < Len(v),
               \A k \in 1..Len(u) : u[k] = v[k]
        PROVE  FALSE
    <2>0. /\ u \in Seq(Nat) /\ v \in Seq(Nat) /\ DOMAIN u = 1..Len(u) /\ DOMAIN v = 1..Len(v)
          /\ Len(u) \in Nat /\ Len(v) \in Nat
      BY <1>2 DEF Crece
    <2> DEFINE n == Len(u) + 1
    <2>1. n \in DOMAIN v /\ n \in Nat  BY <1>2, <2>0
    <2>2. PICK k \in DOMAIN u : u[k] = v[n]  BY <1>2, <2>1 DEF ToSet
    <2>3. k \in DOMAIN v /\ k < n /\ v[k] = v[n] /\ v[k] \in Nat  BY <1>2, <2>0, <2>1, <2>2
    <2>4. v[k] < v[n]  BY <1>2, <2>1, <2>3 DEF Crece
    <2> QED  BY <2>3, <2>4
  <1>3. \A i \in DOMAIN s \cap DOMAIN t : s[i] = t[i]
    <2> DEFINE S == {i \in DOMAIN s \cap DOMAIN t : s[i] # t[i]}
    <2> SUFFICES ASSUME S # {} PROVE FALSE  OBVIOUS
    <2>1. S \in SUBSET Nat  BY <1>0
    <2>2. PICK i \in S : \A k \in S : i <= k
      <3> HIDE DEF S
      <3> QED  BY <2>1, Menor
    <2>3. i \in DOMAIN s /\ i \in DOMAIN t /\ i \in Nat /\ s[i] # t[i] /\ s[i] \in Nat /\ t[i] \in Nat
      BY <1>0
    <2>4. \A k \in 1..(i - 1) : s[k] = t[k]
      <3> TAKE k \in 1..(i - 1)
      <3>1. k \in DOMAIN s \cap DOMAIN t /\ ~ (i <= k)  BY <1>0, <2>3
      <3> QED  BY <2>2, <3>1
    <2>5. CASE s[i] < t[i]  BY <1>1, <2>3, <2>4, <2>5
    <2>6. CASE t[i] < s[i]  BY <1>1, <2>3, <2>4, <2>6
    <2> QED  BY <2>3, <2>5, <2>6
  <1>4. Len(s) = Len(t)
    <2>1. CASE Len(s) < Len(t)
      <3>1. \A k \in 1..Len(s) : s[k] = t[k]  BY <1>0, <1>3, <2>1
      <3> QED  BY <1>2, <2>1, <3>1
    <2>2. CASE Len(t) < Len(s)
      <3>1. \A k \in 1..Len(t) : t[k] = s[k]  BY <1>0, <1>3, <2>2
      <3> QED  BY <1>2, <2>2, <3>1
    <2>3. ~ (Len(s) < Len(t)) /\ ~ (Len(t) < Len(s))  BY <2>1, <2>2
    <2>4. Len(s) \in Nat /\ Len(t) \in Nat  BY <1>0
    <2> QED  BY <2>3, <2>4
  <1> QED  BY <1>0, <1>3, <1>4, SeqEqual

LEMMA JuntasSon ==
  ASSUME NEW S, NEW s \in Seq(S), NEW t \in Seq(S)
  PROVE  s \o t \in Seq(S) /\ ToSet(s \o t) = ToSet(s) \cup ToSet(t)
  <1>1. /\ s \o t \in Seq(S) /\ Len(s \o t) = Len(s) + Len(t) /\ Len(s) \in Nat /\ Len(t) \in Nat
        /\ DOMAIN s = 1..Len(s) /\ DOMAIN t = 1..Len(t) /\ DOMAIN (s \o t) = 1..(Len(s) + Len(t))
        /\ \A i \in 1..(Len(s) + Len(t)) :
             (s \o t)[i] = IF i <= Len(s) THEN s[i] ELSE t[i - Len(s)]
    OBVIOUS
  <1>2. \A x : x \in ToSet(s) => x \in ToSet(s \o t)
    <2> SUFFICES ASSUME NEW i \in DOMAIN s PROVE s[i] \in ToSet(s \o t)  BY DEF ToSet
    <2>1. i \in DOMAIN (s \o t) /\ (s \o t)[i] = s[i]  BY <1>1
    <2> QED  BY <2>1 DEF ToSet
  <1>3. \A x : x \in ToSet(t) => x \in ToSet(s \o t)
    <2> SUFFICES ASSUME NEW i \in DOMAIN t PROVE t[i] \in ToSet(s \o t)  BY DEF ToSet
    <2> DEFINE k == Len(s) + i
    <2>1. k \in DOMAIN (s \o t) /\ k \in Nat /\ ~ (k <= Len(s)) /\ k - Len(s) = i  BY <1>1
    <2>2. (s \o t)[k] = t[i]  BY <1>1, <2>1
    <2> QED  BY <2>1, <2>2 DEF ToSet
  <1>4. \A x : x \in ToSet(s \o t) => x \in ToSet(s) \cup ToSet(t)
    <2> SUFFICES ASSUME NEW i \in DOMAIN (s \o t) PROVE (s \o t)[i] \in ToSet(s) \cup ToSet(t)
      BY DEF ToSet
    <2>1. i \in 1..(Len(s) + Len(t))  BY <1>1
    <2>2. CASE i <= Len(s)
      <3>1. i \in DOMAIN s /\ (s \o t)[i] = s[i]  BY <1>1, <2>1, <2>2
      <3> QED  BY <3>1 DEF ToSet
    <2>3. CASE ~ (i <= Len(s))
      <3>1. i - Len(s) \in DOMAIN t /\ (s \o t)[i] = t[i - Len(s)]  BY <1>1, <2>1, <2>3
      <3> QED  BY <3>1 DEF ToSet
    <2> QED  BY <2>2, <2>3
  <1> QED  BY <1>1, <1>2, <1>3, <1>4

LEMMA UnaLinea ==
  ASSUME NEW l
  PROVE  ToSet(<<l>>) = {l} /\ ToSet(<<>>) = {} /\ DOMAIN <<l>> = {1} /\ <<l>>[1] = l
  <1>1. DOMAIN <<l>> = {1} /\ <<l>>[1] = l  BY SMT
  <1>2. DOMAIN <<>> = {}  BY SMT
  <1> QED  BY <1>1, <1>2 DEF ToSet

\* A line before a file in order whose lines are no less.
LEMMA AntesSube ==
  ASSUME NEW l \in Nat, NEW s, Sube(s), \A x \in ToSet(s) : l <= x
  PROVE  Sube(<<l>> \o s) /\ ToSet(<<l>> \o s) = {l} \cup ToSet(s)
  <1> DEFINE u == <<l>> \o s
  <1>1. s \in Seq(Nat) /\ <<l>> \in Seq(Nat)  BY DEF Sube
  <1>2. u \in Seq(Nat) /\ ToSet(u) = ToSet(<<l>>) \cup ToSet(s)
    <2> DEFINE v == <<l>>
    <2>1. v \in Seq(Nat)  BY <1>1
    <2> HIDE DEF v
    <2>2. v \o s \in Seq(Nat) /\ ToSet(v \o s) = ToSet(v) \cup ToSet(s)  BY <1>1, <2>1, JuntasSon
    <2> QED  BY <2>2 DEF v
  <1>3. /\ DOMAIN u = 1..(Len(s) + 1) /\ Len(s) \in Nat /\ DOMAIN s = 1..Len(s) /\ u[1] = l
        /\ \A i \in 2..(Len(s) + 1) : u[i] = s[i - 1]
    BY <1>1
  <1>4. ASSUME NEW i \in DOMAIN u, NEW k \in DOMAIN u, i < k PROVE u[i] <= u[k]
    <2>1. k \in 2..(Len(s) + 1) /\ k - 1 \in DOMAIN s /\ i \in 1..(Len(s) + 1)  BY <1>3, <1>4
    <2>2. CASE i = 1
      <3>1. s[k - 1] \in ToSet(s)  BY <2>1 DEF ToSet
      <3> QED  BY <1>3, <2>1, <2>2, <3>1
    <2>3. CASE i # 1
      <3>1. i \in 2..(Len(s) + 1) /\ i - 1 \in DOMAIN s /\ i - 1 < k - 1  BY <1>3, <1>4, <2>1, <2>3
      <3>2. s[i - 1] <= s[k - 1]  BY <2>1, <3>1 DEF Sube
      <3> QED  BY <1>3, <2>1, <3>1, <3>2
    <2> QED  BY <2>2, <2>3
  <1> QED  BY <1>2, <1>4, UnaLinea DEF Sube

\* The first line of a file in order is the least; without it the rest is in order.
LEMMA PrimeraDeSube ==
  ASSUME NEW s, Sube(s), s # <<>>
  PROVE  /\ Head(s) \in Nat /\ Sube(Tail(s)) /\ Len(Tail(s)) = Len(s) - 1
         /\ ToSet(s) = {Head(s)} \cup ToSet(Tail(s)) /\ \A x \in ToSet(s) : Head(s) <= x
  <1>1. s \in Seq(Nat)  BY DEF Sube
  <1>2. /\ Head(s) = s[1] /\ Tail(s) \in Seq(Nat) /\ Len(Tail(s)) = Len(s) - 1
        /\ Len(s) \in Nat \ {0}
        /\ \A i \in 1..(Len(s) - 1) : Tail(s)[i] = s[i + 1]
        /\ DOMAIN Tail(s) = 1..(Len(s) - 1) /\ DOMAIN s = 1..Len(s)
    BY <1>1
  <1>3. ASSUME NEW i \in DOMAIN Tail(s), NEW k \in DOMAIN Tail(s), i < k
        PROVE  Tail(s)[i] <= Tail(s)[k]
    <2>1. i + 1 \in DOMAIN s /\ k + 1 \in DOMAIN s /\ i + 1 < k + 1  BY <1>2, <1>3
    <2>2. s[i + 1] <= s[k + 1]  BY <2>1 DEF Sube
    <2> QED  BY <1>2, <2>2
  <1>4. Sube(Tail(s))  BY <1>2, <1>3 DEF Sube
  <1>5. 1 \in DOMAIN s /\ s[1] \in Nat  BY <1>1, <1>2
  <1>6. \A x \in ToSet(s) : Head(s) <= x
    <2> SUFFICES ASSUME NEW i \in DOMAIN s PROVE s[1] <= s[i]  BY <1>2 DEF ToSet
    <2>1. i = 1 \/ 1 < i  BY <1>2
    <2> QED  BY <1>5, <2>1 DEF Sube
  <1>7. \A x : x \in ToSet(s) => x = Head(s) \/ x \in ToSet(Tail(s))
    <2> SUFFICES ASSUME NEW i \in DOMAIN s, i # 1 PROVE s[i] \in ToSet(Tail(s))  BY <1>2 DEF ToSet
    <2>1. i - 1 \in DOMAIN Tail(s) /\ (i - 1) + 1 = i  BY <1>2
    <2>2. Tail(s)[i - 1] = s[i]  BY <1>2, <2>1
    <2> QED  BY <2>1, <2>2 DEF ToSet
  <1>8. \A x : x \in ToSet(Tail(s)) => x \in ToSet(s)
    <2> SUFFICES ASSUME NEW i \in DOMAIN Tail(s) PROVE Tail(s)[i] \in ToSet(s)  BY DEF ToSet
    <2>1. i + 1 \in DOMAIN s /\ Tail(s)[i] = s[i + 1]  BY <1>2
    <2> QED  BY <2>1 DEF ToSet
  <1>9. Head(s) \in ToSet(s)  BY <1>2, <1>5 DEF ToSet
  <1> QED  BY <1>2, <1>4, <1>5, <1>6, <1>7, <1>8, <1>9
-----------------------------------------------------------------------------
(* The merge                                                               *)

LEMMA ApareoEcuacion ==
  \A a, b \in Archivo :
    apareo[<<a, b>>] =
      IF a = <<>> THEN b
      ELSE IF b = <<>> THEN a
           ELSE IF Head(a) <= Head(b) THEN <<Head(a)>> \o apareo[<<Tail(a), b>>]
                                      ELSE <<Head(b)>> \o apareo[<<a, Tail(b)>>]
  <1> DEFINE D == Archivo \X Archivo
             B == {p \in D : p[1] = <<>> \/ p[2] = <<>>}
             base == [p \in D |-> IF p[1] = <<>> THEN p[2] ELSE p[1]]
             m == [p \in D |-> Len(p[1]) + Len(p[2])]
             menor(p) == IF Head(p[1]) <= Head(p[2]) THEN Head(p[1]) ELSE Head(p[2])
             up == [p \in D |-> IF Head(p[1]) <= Head(p[2]) THEN <<Tail(p[1]), p[2]>>
                                                             ELSE <<p[1], Tail(p[2])>>]
             F == [x \in D \X Archivo |-> <<menor(x[1])>> \o x[2]]
             Cuerpo(g, p) ==
               IF p[1] = <<>> THEN p[2]
               ELSE IF p[2] = <<>> THEN p[1]
                    ELSE IF Head(p[1]) <= Head(p[2])
                         THEN <<Head(p[1])>> \o g[<<Tail(p[1]), p[2]>>]
                         ELSE <<Head(p[2])>> \o g[<<p[1], Tail(p[2])>>]
             Es(g) == g = [p \in D |-> Cuerpo(g, p)]
  <1>1. \A p \in D : p[1] \in Archivo /\ p[2] \in Archivo /\ p = <<p[1], p[2]>>  OBVIOUS
  <1>2. \A s \in Archivo : Len(s) \in Nat /\ (s # <<>> => /\ Head(s) \in Nat /\ Tail(s) \in Archivo
                                                         /\ Len(Tail(s)) = Len(s) - 1)
    BY DEF Archivo
  <1>3. \A p \in D : m[p] \in Nat  BY <1>1, <1>2
  <1>4. \A p \in D : p \in B => base[p] \in Archivo  BY <1>1
  <1>5. ASSUME NEW p \in D, p \notin B
        PROVE  /\ up[p] \in D /\ m[up[p]] < m[p] /\ menor(p) \in Nat
               /\ \A v \in Archivo : F[<<p, v>>] = <<menor(p)>> \o v /\ F[<<p, v>>] \in Archivo
    <2>1. /\ p[1] \in Archivo /\ p[2] \in Archivo /\ p[1] # <<>> /\ p[2] # <<>>  BY <1>1, <1>5
    <2>2. /\ Head(p[1]) \in Nat /\ Head(p[2]) \in Nat /\ Tail(p[1]) \in Archivo
          /\ Tail(p[2]) \in Archivo
          /\ Len(Tail(p[1])) = Len(p[1]) - 1 /\ Len(Tail(p[2])) = Len(p[2]) - 1
          /\ Len(p[1]) \in Nat /\ Len(p[2]) \in Nat
      BY <1>2, <2>1
    <2>3. up[p] \in D /\ m[up[p]] < m[p]
      <3>1. CASE Head(p[1]) <= Head(p[2])
        <4>1. up[p] = <<Tail(p[1]), p[2]>>  BY <3>1
        <4>2. up[p] \in D /\ m[up[p]] = Len(Tail(p[1])) + Len(p[2])  BY <2>1, <2>2, <4>1
        <4> QED  BY <2>2, <4>2
      <3>2. CASE ~ (Head(p[1]) <= Head(p[2]))
        <4>1. up[p] = <<p[1], Tail(p[2])>>  BY <3>2
        <4>2. up[p] \in D /\ m[up[p]] = Len(p[1]) + Len(Tail(p[2]))  BY <2>1, <2>2, <4>1
        <4> QED  BY <2>2, <4>2
      <3> QED  BY <3>1, <3>2
    <2>4. menor(p) \in Nat  BY <2>2
    <2>5. ASSUME NEW v \in Archivo
          PROVE  F[<<p, v>>] = <<menor(p)>> \o v /\ F[<<p, v>>] \in Archivo
      <3>1. F[<<p, v>>] = <<menor(p)>> \o v
        <4> HIDE DEF D, menor
        <4> QED  OBVIOUS
      <3>2. <<menor(p)>> \o v \in Archivo
        <4> HIDE DEF menor
        <4> QED  BY <2>4 DEF Archivo
      <3> QED  BY <3>1, <3>2
    <2> QED  BY <2>3, <2>4, <2>5
  <1>6. \E g \in [D -> Archivo] : Es(g)
    <2>1. Recursivas(D, Archivo, B, base, up, F) # {}
      <3> HIDE DEF D, B, base, m, up, F, menor
      <3> QED  BY ONLY <1>3, <1>4, <1>5, RecursivaHay
    <2>2. PICK g \in [D -> Archivo] :
            \A p \in D : g[p] = IF p \in B THEN base[p] ELSE F[<<p, g[up[p]]>>]
      <3> HIDE DEF D, B, base, up, F
      <3> QED  BY <2>1 DEF Recursivas
    <2>3. ASSUME NEW p \in D PROVE g[p] = Cuerpo(g, p)
      <3>1. CASE p \in B  BY <2>2, <3>1
      <3>2. CASE p \notin B
        <4>1. up[p] \in D /\ g[up[p]] \in Archivo  BY <1>5, <2>2, <3>2
        <4>2. g[p] = <<menor(p)>> \o g[up[p]]
          <5> HIDE DEF D, B, base, up, F, menor
          <5> QED  BY <1>5, <2>2, <3>2, <4>1
        <4>3. p[1] # <<>> /\ p[2] # <<>>  BY <3>2
        <4> HIDE DEF F, base
        <4> QED  BY <4>2, <4>3
      <3> QED  BY <3>1, <3>2
    <2>4. g = [p \in D |-> g[p]]  OBVIOUS
    <2>5. Es(g)
      <3> HIDE DEF D, Cuerpo
      <3> QED  BY <2>3, <2>4
    <2> QED  BY <2>5
  <1>7. apareo = CHOOSE g : Es(g)  BY DEF apareo
  <1>8. Es(apareo)
    <2> HIDE DEF Es
    <2> QED  BY <1>6, <1>7
  <1> HIDE DEF apareo
  <1>9. ASSUME NEW a \in Archivo, NEW b \in Archivo
        PROVE  apareo[<<a, b>>] = Cuerpo(apareo, <<a, b>>)
    <2>1. <<a, b>> \in D  OBVIOUS
    <2> HIDE DEF D, Cuerpo
    <2> QED  BY <1>8, <2>1
  <1> QED  BY <1>9

\* A merge of files in order is in order, and loses no line.
LEMMA ApareoEs ==
  ASSUME NEW a, NEW b, Sube(a), Sube(b)
  PROVE  Sube(Apareo(a, b)) /\ ToSet(Apareo(a, b)) = ToSet(a) \cup ToSet(b)
  <1> DEFINE Bien(c, d) == Sube(apareo[<<c, d>>])
                           /\ ToSet(apareo[<<c, d>>]) = ToSet(c) \cup ToSet(d)
             A == {n \in Nat : \A c, d \in Archivo :
                                Sube(c) /\ Sube(d) /\ Len(c) + Len(d) = n => Bien(c, d)}
  <1>0. /\ \A s \in Archivo : Len(s) \in Nat
        /\ \A s : Sube(s) => s \in Archivo
    BY DEF Archivo, Sube
  <1>1. ASSUME NEW c \in Archivo, NEW d \in Archivo, Sube(c), Sube(d), c = <<>> \/ d = <<>>
        PROVE  Bien(c, d)
    <2>1. apareo[<<c, d>>] = IF c = <<>> THEN d ELSE c  BY <1>1, ApareoEcuacion
    <2>2. ToSet(<<>>) = {}  BY UnaLinea
    <2> QED  BY <1>1, <2>1, <2>2
  <1>2. 0 \in A
    <2> SUFFICES ASSUME NEW c \in Archivo, NEW d \in Archivo, Sube(c), Sube(d), Len(c) + Len(d) = 0
                 PROVE  Bien(c, d)
      OBVIOUS
    <2>1. Len(c) = 0  BY <1>0
    <2>2. c = <<>>  BY <2>1 DEF Archivo
    <2> QED  BY <1>1, <2>2
  <1>3. \A n \in Nat : n \in A => n + 1 \in A
    <2> SUFFICES ASSUME NEW n \in Nat, n \in A, NEW c \in Archivo, NEW d \in Archivo, Sube(c), Sube(d),
                        Len(c) + Len(d) = n + 1, c # <<>>, d # <<>>
                 PROVE  Bien(c, d)
      BY <1>1
    <2>1. /\ Head(c) \in Nat /\ Sube(Tail(c)) /\ Len(Tail(c)) = Len(c) - 1
          /\ ToSet(c) = {Head(c)} \cup ToSet(Tail(c)) /\ \A x \in ToSet(c) : Head(c) <= x
      BY PrimeraDeSube
    <2>2. /\ Head(d) \in Nat /\ Sube(Tail(d)) /\ Len(Tail(d)) = Len(d) - 1
          /\ ToSet(d) = {Head(d)} \cup ToSet(Tail(d)) /\ \A x \in ToSet(d) : Head(d) <= x
      BY PrimeraDeSube
    <2>3. /\ Tail(c) \in Archivo /\ Tail(d) \in Archivo /\ Len(c) \in Nat /\ Len(d) \in Nat
          /\ Len(Tail(c)) + Len(d) = n /\ Len(c) + Len(Tail(d)) = n
          /\ ToSet(c) \subseteq Nat /\ ToSet(d) \subseteq Nat
      <3>1. /\ Tail(c) \in Archivo /\ Tail(d) \in Archivo /\ Len(c) \in Nat /\ Len(d) \in Nat
        BY <1>0, <2>1, <2>2
      <3>2. Len(Tail(c)) + Len(d) = n /\ Len(c) + Len(Tail(d)) = n  BY <2>1, <2>2, <3>1
      <3>3. ToSet(c) \subseteq Nat /\ ToSet(d) \subseteq Nat  BY LineasNat
      <3> QED  BY <3>1, <3>2, <3>3
    <2>4. CASE Head(c) <= Head(d)
      <3>1. Bien(Tail(c), d)  BY <2>1, <2>3
      <3>2. apareo[<<c, d>>] = <<Head(c)>> \o apareo[<<Tail(c), d>>]  BY <2>4, ApareoEcuacion
      <3>3. \A x \in ToSet(Tail(c)) \cup ToSet(d) : Head(c) <= x  BY <2>1, <2>2, <2>3, <2>4
      <3> DEFINE u == apareo[<<Tail(c), d>>]
      <3> HIDE DEF u
      <3>4. Sube(u) /\ ToSet(u) = ToSet(Tail(c)) \cup ToSet(d)  BY <3>1 DEF u
      <3>5. Sube(<<Head(c)>> \o u) /\ ToSet(<<Head(c)>> \o u) = {Head(c)} \cup ToSet(u)
        BY <2>1, <3>3, <3>4, AntesSube
      <3>6. apareo[<<c, d>>] = <<Head(c)>> \o u  BY <3>2 DEF u
      <3> QED  BY <2>1, <3>4, <3>5, <3>6
    <2>5. CASE ~ (Head(c) <= Head(d))
      <3>1. Bien(c, Tail(d))  BY <2>2, <2>3
      <3>2. apareo[<<c, d>>] = <<Head(d)>> \o apareo[<<c, Tail(d)>>]  BY <2>5, ApareoEcuacion
      <3>3. \A x \in ToSet(c) \cup ToSet(Tail(d)) : Head(d) <= x  BY <2>1, <2>2, <2>3, <2>5
      <3> DEFINE u == apareo[<<c, Tail(d)>>]
      <3> HIDE DEF u
      <3>4. Sube(u) /\ ToSet(u) = ToSet(c) \cup ToSet(Tail(d))  BY <3>1 DEF u
      <3>5. Sube(<<Head(d)>> \o u) /\ ToSet(<<Head(d)>> \o u) = {Head(d)} \cup ToSet(u)
        BY <2>2, <3>3, <3>4, AntesSube
      <3>6. apareo[<<c, d>>] = <<Head(d)>> \o u  BY <3>2 DEF u
      <3> QED  BY <2>2, <3>4, <3>5, <3>6
    <2> QED  BY <2>4, <2>5
  <1>4. Nat \subseteq A
    <2> HIDE DEF A
    <2> QED  BY <1>2, <1>3, Induccion
  <1>5. a \in Archivo /\ b \in Archivo /\ Len(a) + Len(b) \in Nat  BY <1>0
  <1> QED  BY <1>4, <1>5 DEF Apareo
-----------------------------------------------------------------------------
(* The order of the lines, and folds                                       *)

\* sort orders the lines as strcmp does.
Igualdad == \A k, l \in Lineas : Cotejo[k] < Cotejo[l] <=> k < l

LEMMA SubSeqEs ==
  ASSUME NEW s \in Seq(Nat), NEW i \in Nat, NEW k \in Nat, 1 <= i, i <= k + 1, k <= Len(s)
  PROVE  /\ SubSeq(s, i, k) \in Seq(Nat) /\ Len(SubSeq(s, i, k)) = k - i + 1
         /\ \A q \in 1..(k - i + 1) : SubSeq(s, i, k)[q] = s[i + q - 1]
  <1>1. \A q \in i..k : s[q] \in Nat  OBVIOUS
  <1>2. /\ SubSeq(s, i, k) \in Seq(Nat)
        /\ Len(SubSeq(s, i, k)) = IF i <= k THEN k - i + 1 ELSE 0
        /\ \A q \in 1..(k - i + 1) : SubSeq(s, i, k)[q] = s[i + q - 1]
    BY <1>1, SubSeqProperties
  <1>3. ~ (i <= k) => k - i + 1 = 0  OBVIOUS
  <1> QED  BY <1>2, <1>3

LEMMA JuntaEs ==
  ASSUME NEW S, NEW s \in Seq(S), NEW t \in Seq(S)
  PROVE  /\ s \o t \in Seq(S) /\ Len(s \o t) = Len(s) + Len(t)
         /\ \A i \in 1..(Len(s) + Len(t)) :
               (s \o t)[i] = IF i <= Len(s) THEN s[i] ELSE t[i - Len(s)]
  OBVIOUS

LEMMA InsertAtEs ==
  ASSUME NEW s \in Seq(Nat), NEW k \in 1..(Len(s) + 1), NEW l \in Nat
  PROVE  /\ InsertAt(s, k, l) \in Seq(Nat) /\ Len(InsertAt(s, k, l)) = Len(s) + 1
         /\ \A i \in 1..(Len(s) + 1) :
              InsertAt(s, k, l)[i] = IF i < k THEN s[i] ELSE IF i = k THEN l ELSE s[i - 1]
  <1> DEFINE n == Len(s)
             a == SubSeq(s, 1, k - 1)
             b == SubSeq(s, k, n)
             u == a \o <<l>>
  <1>0. n \in Nat /\ k \in Nat /\ k - 1 \in Nat /\ k <= n + 1 /\ 1 <= k  OBVIOUS
  <1>1. a \in Seq(Nat) /\ Len(a) = k - 1 /\ \A i \in 1..(k - 1) : a[i] = s[i]
    <2>1. /\ a \in Seq(Nat) /\ Len(a) = (k - 1) - 1 + 1
          /\ \A i \in 1..((k - 1) - 1 + 1) : a[i] = s[1 + i - 1]
      BY <1>0, SubSeqEs
    <2> HIDE DEF a
    <2> QED  BY <1>0, <2>1
  <1>2. b \in Seq(Nat) /\ Len(b) = n - k + 1 /\ \A i \in 1..(n - k + 1) : b[i] = s[k + i - 1]
    BY <1>0, SubSeqEs
  <1>3. InsertAt(s, k, l) = u \o b  BY DEF InsertAt
  <1> HIDE DEF a, b
  <1>4. /\ u \in Seq(Nat) /\ Len(u) = k /\ \A i \in 1..k : u[i] = IF i < k THEN s[i] ELSE l
    <2>1. <<l>> \in Seq(Nat) /\ Len(<<l>>) = 1 /\ <<l>>[1] = l  OBVIOUS
    <2>2. /\ u \in Seq(Nat) /\ Len(u) = Len(a) + 1
          /\ \A i \in 1..(Len(a) + 1) : u[i] = IF i <= Len(a) THEN a[i] ELSE <<l>>[i - Len(a)]
      BY <1>1, <2>1, JuntaEs
    <2> HIDE DEF u
    <2>3. Len(u) = k  BY <1>0, <1>1, <2>2
    <2>4. ASSUME NEW i \in 1..k PROVE u[i] = IF i < k THEN s[i] ELSE l
      <3>1. i \in 1..(Len(a) + 1) /\ (i <= Len(a) <=> i < k)  BY <1>0, <1>1
      <3>2. CASE i < k
        <4>1. u[i] = a[i] /\ i \in 1..(k - 1)  BY <2>2, <3>1, <3>2, <1>0
        <4> QED  BY <1>1, <3>2, <4>1
      <3>3. CASE ~ (i < k)
        <4>1. u[i] = <<l>>[i - Len(a)] /\ i - Len(a) = 1  BY <1>0, <1>1, <2>2, <3>1, <3>3
        <4> QED  BY <2>1, <3>3, <4>1
      <3> QED  BY <3>2, <3>3
    <2> QED  BY <2>2, <2>3, <2>4
  <1> HIDE DEF u, n
  <1>5. /\ u \o b \in Seq(Nat) /\ Len(u \o b) = n + 1
        /\ \A i \in 1..(n + 1) :
                (u \o b)[i] = IF i <= k THEN u[i] ELSE b[i - k]
    <2>1. /\ u \o b \in Seq(Nat) /\ Len(u \o b) = Len(u) + Len(b)
          /\ \A i \in 1..(Len(u) + Len(b)) :
                (u \o b)[i] = IF i <= Len(u) THEN u[i] ELSE b[i - Len(u)]
      BY <1>2, <1>4, JuntaEs
    <2>2. Len(u) = k /\ Len(u) + Len(b) = n + 1  BY <1>0, <1>2, <1>4
    <2> QED  BY <2>1, <2>2
  <1>6. ASSUME NEW i \in 1..(n + 1)
        PROVE  (u \o b)[i] = IF i < k THEN s[i] ELSE IF i = k THEN l ELSE s[i - 1]
    <2>1. CASE i <= k
      <3>1. i \in 1..k /\ (u \o b)[i] = u[i]  BY <1>0, <1>5, <2>1
      <3> QED  BY <1>0, <1>4, <2>1, <3>1
    <2>2. CASE ~ (i <= k)
      <3>1. /\ i - k \in 1..(n - k + 1) /\ k + (i - k) - 1 = i - 1 /\ ~ (i < k) /\ i # k
            /\ (u \o b)[i] = b[i - k]
        BY <1>0, <1>5, <2>2
      <3>2. b[i - k] = s[k + (i - k) - 1]  BY <1>2, <3>1
      <3> QED  BY <3>1, <3>2
    <2> QED  BY <2>1, <2>2
  <1> QED  BY <1>3, <1>5, <1>6 DEF n

\* The lines that do not follow l are the first.
LEMMA NoSiguen ==
  ASSUME NEW s, Sube(s), NEW l \in Nat
  PROVE  \E k \in 1..(Len(s) + 1) :
           /\ Cardinality({i \in DOMAIN s : s[i] <= l}) = k - 1
           /\ \A i \in DOMAIN s : s[i] <= l <=> i < k
  <1> DEFINE n == Len(s)
             S == {i \in 1..(n + 1) : i = n + 1 \/ ~ (s[i] <= l)}
  <1>0. n \in Nat /\ DOMAIN s = 1..n /\ \A i \in 1..n : s[i] \in Nat  BY DEF Sube
  <1>1. S \in SUBSET Nat /\ n + 1 \in S  BY <1>0
  <1>2. PICK k \in S : \A i \in S : k <= i
    <2> HIDE DEF S
    <2> QED  BY <1>1, Menor
  <1>3. k \in 1..(n + 1) /\ k \in Nat  BY <1>0
  <1>4. ASSUME NEW i \in DOMAIN s PROVE s[i] <= l <=> i < k
    <2>1. CASE i < k
      <3>1. i \notin S /\ i \in 1..(n + 1)  BY <1>0, <1>2, <1>3, <2>1
      <3> QED  BY <2>1, <3>1
    <2>2. CASE ~ (i < k)
      <3>1. k \in DOMAIN s /\ k # n + 1 /\ (k = i \/ k < i)  BY <1>0, <1>3, <2>2
      <3>2. ~ (s[k] <= l) /\ s[k] \in Nat /\ s[i] \in Nat  BY <1>0, <3>1
      <3>3. s[k] <= s[i]  BY <3>1, <3>2 DEF Sube
      <3> QED  BY <2>2, <3>2, <3>3
    <2> QED  BY <2>1, <2>2
  <1>5. {i \in DOMAIN s : s[i] <= l} = 1..(k - 1)
    <2>1. \A i : i \in 1..(k - 1) <=> i \in DOMAIN s /\ i < k  BY <1>0, <1>3
    <2> QED  BY <1>4, <2>1
  <1>6. Cardinality(1..(k - 1)) = k - 1
    <2>1. Cardinality(1..(k - 1)) = IF 1 > k - 1 THEN 0 ELSE (k - 1) - 1 + 1  BY <1>3, FS_Interval
    <2> QED  BY <1>3, <2>1
  <1> QED  BY <1>3, <1>4, <1>5, <1>6

\* To insert a line keeps the order.
LEMMA InsertaEs ==
  ASSUME Igualdad, NEW s \in Seq(Lineas), Sube(s), NEW l \in Lineas
  PROVE  /\ Inserta(s, l) \in Seq(Lineas) /\ Sube(Inserta(s, l))
         /\ ToSet(Inserta(s, l)) = ToSet(s) \cup {l}
  <1>0. /\ Lineas \subseteq Nat /\ (\A x \in Lineas : Cotejo[x] \in Nat) /\ l \in Nat
        /\ Len(s) \in Nat /\ DOMAIN s = 1..Len(s) /\ \A i \in 1..Len(s) : s[i] \in Lineas
    BY SupuestoArchivos
  <1>1. \A i \in DOMAIN s : Cotejo[s[i]] <= Cotejo[l] <=> s[i] <= l
    <2> TAKE i \in DOMAIN s
    <2>1. s[i] \in Lineas /\ s[i] \in Nat /\ Cotejo[s[i]] \in Nat /\ Cotejo[l] \in Nat  BY <1>0
    <2>2. Cotejo[l] < Cotejo[s[i]] <=> l < s[i]  BY <2>1 DEF Igualdad
    <2> QED  BY <1>0, <2>1, <2>2
  <1>2. {i \in DOMAIN s : Cotejo[s[i]] <= Cotejo[l]} = {i \in DOMAIN s : s[i] <= l}  BY <1>1
  <1>3. PICK k \in 1..(Len(s) + 1) :
          /\ Cardinality({i \in DOMAIN s : s[i] <= l}) = k - 1
          /\ \A i \in DOMAIN s : s[i] <= l <=> i < k
    BY <1>0, NoSiguen
  <1> DEFINE t == InsertAt(s, k, l)
  <1>4. Inserta(s, l) = t
    <2>1. (k - 1) + 1 = k  OBVIOUS
    <2>2. Cardinality({i \in DOMAIN s : Cotejo[s[i]] <= Cotejo[l]}) + 1 = k  BY <1>2, <1>3, <2>1
    <2> QED  BY <2>2 DEF Inserta
  <1>5. /\ t \in Seq(Nat) /\ Len(t) = Len(s) + 1
        /\ \A i \in 1..(Len(s) + 1) :
             t[i] = IF i < k THEN s[i] ELSE IF i = k THEN l ELSE s[i - 1]
    <2>1. s \in Seq(Nat) /\ l \in Nat /\ k \in 1..(Len(s) + 1)  BY <1>0 DEF Sube
    <2> HIDE DEF t
    <2>2. /\ InsertAt(s, k, l) \in Seq(Nat) /\ Len(InsertAt(s, k, l)) = Len(s) + 1
          /\ \A i \in 1..(Len(s) + 1) :
               InsertAt(s, k, l)[i] = IF i < k THEN s[i] ELSE IF i = k THEN l ELSE s[i - 1]
      BY <2>1, InsertAtEs
    <2> QED  BY <2>2 DEF t
  <1> HIDE DEF t
  <1>6. DOMAIN t = 1..(Len(s) + 1)  BY <1>5
  <1>7. Sube(t)
    <2> SUFFICES ASSUME NEW i \in DOMAIN t, NEW q \in DOMAIN t, i < q PROVE t[i] <= t[q]
      BY <1>5 DEF Sube
    <2>0. i \in 1..(Len(s) + 1) /\ q \in 1..(Len(s) + 1) /\ k \in 1..(Len(s) + 1)  BY <1>6
    <2>1. \A x \in DOMAIN s : s[x] \in Nat  BY <1>0
    <2>2. CASE q < k
      <3>1. i < k /\ i \in DOMAIN s /\ q \in DOMAIN s  BY <1>0, <2>0, <2>2
      <3>2. s[i] <= s[q]  BY <3>1 DEF Sube
      <3> QED  BY <1>5, <2>0, <2>2, <3>1, <3>2
    <2>3. CASE q = k
      <3>1. i < k /\ i \in DOMAIN s  BY <1>0, <2>0, <2>3
      <3> QED  BY <1>3, <1>5, <2>0, <2>3, <3>1
    <2>4. CASE k < q
      <3>1. q - 1 \in DOMAIN s /\ t[q] = s[q - 1] /\ ~ (q - 1 < k)  BY <1>0, <1>5, <2>0, <2>4
      <3>2. CASE i < k
        <4>1. i \in DOMAIN s /\ i < q - 1 /\ t[i] = s[i]  BY <1>0, <1>5, <2>0, <2>4, <3>2
        <4>2. s[i] <= s[q - 1]  BY <3>1, <4>1 DEF Sube
        <4> QED  BY <3>1, <4>1, <4>2
      <3>3. CASE i = k
        <4>1. t[i] = l /\ ~ (s[q - 1] <= l) /\ s[q - 1] \in Nat
          BY <1>3, <1>5, <2>0, <2>1, <3>1, <3>3
        <4> QED  BY <1>0, <3>1, <4>1
      <3>4. CASE k < i
        <4>1. i - 1 \in DOMAIN s /\ i - 1 < q - 1 /\ t[i] = s[i - 1]  BY <1>0, <1>5, <2>0, <3>4
        <4>2. s[i - 1] <= s[q - 1]  BY <3>1, <4>1 DEF Sube
        <4> QED  BY <3>1, <4>1, <4>2
      <3> QED  BY <2>0, <3>2, <3>3, <3>4
    <2> QED  BY <2>0, <2>2, <2>3, <2>4
  <1>8. \A x : x \in ToSet(t) => x \in ToSet(s) \cup {l}
    <2> SUFFICES ASSUME NEW i \in 1..(Len(s) + 1) PROVE t[i] \in ToSet(s) \cup {l}
      BY <1>6 DEF ToSet
    <2>1. i < k \/ i = k \/ k < i  OBVIOUS
    <2>2. i < k => i \in DOMAIN s /\ t[i] = s[i]  BY <1>0, <1>5
    <2>3. k < i => i - 1 \in DOMAIN s /\ t[i] = s[i - 1]  BY <1>0, <1>5
    <2>4. i = k => t[i] = l  BY <1>5
    <2> QED  BY <2>1, <2>2, <2>3, <2>4 DEF ToSet
  <1>9. \A x : x \in ToSet(s) \cup {l} => x \in ToSet(t)
    <2>1. k \in DOMAIN t /\ t[k] = l  BY <1>5, <1>6
    <2>2. ASSUME NEW i \in DOMAIN s PROVE \E q \in DOMAIN t : t[q] = s[i]
      <3>1. CASE i < k
        <4>1. i \in DOMAIN t /\ t[i] = s[i]  BY <1>0, <1>5, <1>6, <3>1
        <4> QED  BY <4>1
      <3>2. CASE ~ (i < k)
        <4>1. i + 1 \in 1..(Len(s) + 1) /\ ~ (i + 1 < k) /\ i + 1 # k /\ (i + 1) - 1 = i
          BY <1>0, <3>2
        <4>2. i + 1 \in DOMAIN t /\ t[i + 1] = s[i]  BY <1>5, <1>6, <4>1
        <4> QED  BY <4>2
      <3> QED  BY <3>1, <3>2
    <2> QED  BY <2>1, <2>2 DEF ToSet
  <1>10. ToSet(t) = ToSet(s) \cup {l}  BY <1>8, <1>9
  <1>11. t \in Seq(Lineas)
    <2>1. ToSet(s) \subseteq Lineas  BY <1>0 DEF ToSet
    <2>2. \A i \in 1..Len(t) : t[i] \in Lineas
      <3> TAKE i \in 1..Len(t)
      <3>1. t[i] \in ToSet(t)  BY <1>5, <1>6 DEF ToSet
      <3> QED  BY <1>10, <2>1, <3>1
    <2>3. Len(t) \in Nat /\ t = [i \in 1..Len(t) |-> t[i]]  BY <1>5
    <2> QED  BY <2>2, <2>3
  <1> QED  BY <1>4, <1>7, <1>10, <1>11
-----------------------------------------------------------------------------
(* Folds over a sequence                                                   *)

LEMMA MaxEs ==
  ASSUME NEW n \in Nat, NEW s \in SUBSET (1..n), s # {}
  PROVE  Max(s) \in s /\ \A y \in s : y <= Max(s)
  <1> DEFINE S == {n - x : x \in s}
  <1>0. \A x \in s : x \in Nat /\ x <= n  OBVIOUS
  <1>1. S \in SUBSET Nat /\ S # {}  BY <1>0
  <1>2. PICK q \in S : \A y \in S : q <= y
    <2> HIDE DEF S
    <2> QED  BY <1>1, Menor
  <1>3. PICK x \in s : q = n - x  OBVIOUS
  <1>4. \A y \in s : n - x <= n - y  BY <1>2, <1>3
  <1>5. \A y \in s : x >= y
    <2> TAKE y \in s
    <2>1. n - x <= n - y /\ x \in Nat /\ y \in Nat  BY <1>0, <1>4
    <2> QED  BY <2>1
  <1>6. Max(s) \in s /\ \A y \in s : Max(s) >= y  BY <1>5 DEF Max
  <1>7. \A y \in s : y <= Max(s)
    <2> TAKE y \in s
    <2>1. Max(s) >= y /\ Max(s) \in Nat /\ y \in Nat  BY <1>0, <1>6
    <2> QED  BY <2>1
  <1> QED  BY <1>6, <1>7

LEMMA MaxPrefijo ==
  ASSUME NEW n \in Nat, NEW k \in 1..n
  PROVE  /\ 1..k \in SUBSET (1..n) /\ 1..k # {} /\ Max(1..k) = k /\ (1..k) \ {k} = 1..(k - 1)
         /\ 1..(k - 1) \in SUBSET (1..n)
  <1>1. 1..k \in SUBSET (1..n) /\ k \in 1..k /\ 1..(k - 1) \in SUBSET (1..n)  OBVIOUS
  <1>2. Max(1..k) \in 1..k /\ k <= Max(1..k)
    <2>1. 1..k # {}  BY <1>1
    <2> QED  BY <1>1, <2>1, MaxEs
  <1>3. Max(1..k) = k  BY <1>2
  <1>4. \A x : x \in (1..k) \ {k} <=> x \in 1..(k - 1)  OBVIOUS
  <1> QED  BY <1>1, <1>3, <1>4

\* The values of a fold, by the positions that it has taken.
Pliegues(n, V, base, F) ==
  {it \in [SUBSET (1..n) -> V] :
     /\ it[{}] = base
     /\ \A s \in SUBSET (1..n) : s # {} => it[s] = F[<<Max(s), it[s \ {Max(s)}]>>]}

LEMMA PliegueHay ==
  ASSUME NEW n \in Nat, NEW V, NEW base \in V, NEW F, \A i \in 1..n : \A v \in V : F[<<i, v>>] \in V
  PROVE  Pliegues(n, V, base, F) # {}
  <1> DEFINE D  == SUBSET (1..n)
             z  == [s \in D |-> base]
             m  == [s \in D |-> Cardinality(s)]
             up == [s \in D |-> s \ {Max(s)}]
             G  == [x \in D \X V |-> F[<<Max(x[1]), x[2]>>]]
  <1>1. \A s \in D : IsFiniteSet(s)
    <2>1. IsFiniteSet(1..n)  BY FS_Interval
    <2> QED  BY <2>1, FS_Subset
  <1>2. \A s \in D : m[s] \in Nat  BY <1>1, FS_CardinalityType
  <1>3. \A s \in D : s \in {{}} => z[s] \in V  OBVIOUS
  <1>4. ASSUME NEW s \in D, s \notin {{}}
        PROVE  /\ Max(s) \in 1..n /\ up[s] = s \ {Max(s)} /\ up[s] \in D /\ m[up[s]] < m[s]
               /\ \A v \in V : G[<<s, v>>] = F[<<Max(s), v>>] /\ G[<<s, v>>] \in V
    <2>1. Max(s) \in s /\ Max(s) \in 1..n  BY <1>4, MaxEs
    <2>2. up[s] = s \ {Max(s)} /\ up[s] \in D  OBVIOUS
    <2>3. IsFiniteSet(s) /\ Cardinality(s \ {Max(s)}) = Cardinality(s) - 1
      BY <1>1, <2>1, FS_RemoveElement
    <2>4. m[up[s]] = m[s] - 1 /\ m[s] \in Nat  BY <1>2, <2>2, <2>3
    <2>5. \A v \in V : G[<<s, v>>] = F[<<Max(s), v>>]
      <3> HIDE DEF D
      <3> QED  OBVIOUS
    <2>6. \A v \in V : F[<<Max(s), v>>] \in V  BY <2>1
    <2> HIDE DEF G, up, m
    <2> QED  BY <2>1, <2>2, <2>4, <2>5, <2>6
  <1>5. Recursivas(D, V, {{}}, z, up, G) # {}
    <2> HIDE DEF D, z, m, up, G
    <2> QED  BY ONLY <1>2, <1>3, <1>4, RecursivaHay
  <1>6. PICK it \in [D -> V] : \A s \in D : it[s] = IF s \in {{}} THEN z[s] ELSE G[<<s, it[up[s]]>>]
    <2> HIDE DEF D, z, up, G
    <2> QED  BY <1>5 DEF Recursivas
  <1>7. it[{}] = base  BY <1>6
  <1>8. ASSUME NEW s \in D, s # {} PROVE it[s] = F[<<Max(s), it[s \ {Max(s)}]>>]
    <2>1. s \notin {{}}  BY <1>8
    <2>2. up[s] = s \ {Max(s)} /\ up[s] \in D /\ \A v \in V : G[<<s, v>>] = F[<<Max(s), v>>]
      BY <1>4, <2>1
    <2>3. it[up[s]] \in V /\ it[s] = G[<<s, it[up[s]]>>]
      <3> HIDE DEF D, G, up, z
      <3> QED  BY <1>6, <2>1, <2>2
    <2> HIDE DEF D, G, up
    <2> QED  BY <2>2, <2>3
  <1> QED  BY <1>7, <1>8 DEF Pliegues

LEMMA Recorrido ==
  ASSUME NEW n \in Nat, NEW A, 0 \in A, \A k \in 1..n : k - 1 \in A => k \in A
  PROVE  n \in A
  <1> DEFINE B == {k \in Nat : k <= n => k \in A}
  <1>1. 0 \in B  OBVIOUS
  <1>2. \A k \in Nat : k \in B => k + 1 \in B
    <2> SUFFICES ASSUME NEW k \in Nat, k \in B, k + 1 <= n PROVE k + 1 \in A  OBVIOUS
    <2>1. k \in A /\ k + 1 \in 1..n /\ (k + 1) - 1 = k  OBVIOUS
    <2> QED  BY <2>1
  <1>3. Nat \subseteq B
    <2> HIDE DEF B
    <2> QED  BY <1>1, <1>2, Induccion
  <1> QED  BY <1>3

\* The transformation of a block: its lines transformed, in order.
LEMMA TransformarEs ==
  ASSUME Igualdad, NEW b \in Seq(Lineas)
  PROVE  /\ Sube(Transformar(b))
         /\ ToSet(Transformar(b)) = {Transformado[l] : l \in ToSet(b)}
  <1> DEFINE n == Len(b)
             q == [i \in DOMAIN b |-> Transformado[b[i]]]
             V == {s \in Seq(Lineas) : Sube(s)}
             F == [p \in (1..n) \X V |-> Inserta(p[2], q[p[1]])]
             Es(it) == it = [s \in SUBSET (1..n) |->
                               IF s = {} THEN <<>> ELSE Inserta(it[s \ {Max(s)}], q[Max(s)])]
             I == CHOOSE it : Es(it)
  <1>1. /\ n \in Nat /\ DOMAIN b = 1..n /\ DOMAIN q = 1..n
        /\ \A i \in 1..n : q[i] = Transformado[b[i]] /\ q[i] \in Lineas
    BY SupuestoArchivos
  <1>2. Transformar(b) = I[1..n]
    BY <1>1 DEF Transformar, FoldLeft, MapThenFoldSet, Max
  <1>3. <<>> \in V
    <2>1. Sube(<<>>)  BY DEF Sube
    <2> QED  BY <2>1
  <1>4. \A i \in 1..n : \A v \in V : F[<<i, v>>] = Inserta(v, q[i])
    <2> HIDE DEF V, n, q
    <2> QED  OBVIOUS
  <1>5. \A v \in V : \A l \in Lineas :
          Inserta(v, l) \in V /\ ToSet(Inserta(v, l)) = ToSet(v) \cup {l}
    BY InsertaEs
  <1>6. \A i \in 1..n : \A v \in V : F[<<i, v>>] \in V
    <2> HIDE DEF V, F, n, q
    <2> QED  BY <1>1, <1>4, <1>5
  <1> HIDE DEF V, F, q, n
  <1>7. PICK it \in [SUBSET (1..n) -> V] :
          /\ it[{}] = <<>>
          /\ \A s \in SUBSET (1..n) : s # {} => it[s] = F[<<Max(s), it[s \ {Max(s)}]>>]
    <2> DEFINE z == <<>>
    <2>1. n \in Nat /\ z \in V  BY <1>1, <1>3
    <2> HIDE DEF Es, I, z
    <2>2. Pliegues(n, V, z, F) # {}  BY ONLY <1>6, <2>1, PliegueHay
    <2> QED  BY <2>2 DEF z, Pliegues
  <1>8. ASSUME NEW s \in SUBSET (1..n), s # {} PROVE it[s] = Inserta(it[s \ {Max(s)}], q[Max(s)])
    <2>1. Max(s) \in 1..n /\ it[s \ {Max(s)}] \in V  BY <1>1, <1>7, <1>8, MaxEs
    <2> QED  BY <1>4, <1>7, <1>8, <2>1
  <1>9. Es(it)
    <2>1. it = [s \in SUBSET (1..n) |-> it[s]]  BY <1>7
    <2> QED  BY <1>7, <1>8, <2>1
  <1>10. Es(I)
    <2> HIDE DEF Es
    <2> QED  BY <1>9
  <1> HIDE DEF I
  <1>11. I[1..0] = <<>> /\ \A k \in 1..n : I[1..k] = Inserta(I[1..(k - 1)], q[k])
    <2>1. /\ I[{}] = <<>>
          /\ \A s \in SUBSET (1..n) : s # {} => I[s] = Inserta(I[s \ {Max(s)}], q[Max(s)])
      BY <1>10
    <2> HIDE DEF Es
    <2>2. 1..0 = {}  OBVIOUS
    <2>3. ASSUME NEW k \in 1..n PROVE I[1..k] = Inserta(I[1..(k - 1)], q[k])
      <3>1. 1..k \in SUBSET (1..n) /\ 1..k # {} /\ Max(1..k) = k /\ (1..k) \ {k} = 1..(k - 1)
        BY <1>1, MaxPrefijo
      <3> QED  BY <2>1, <3>1
    <2> QED  BY <2>1, <2>2, <2>3
  <1> HIDE DEF Es
  <1> DEFINE P(k) == I[1..k] \in V /\ ToSet(I[1..k]) = {q[i] : i \in 1..k}
             A == {k \in Nat : P(k)}
  <1>12. P(0)
    <2>1. 1..0 = {} /\ ToSet(<<>>) = {}
      <3>1. 1..0 = {}  OBVIOUS
      <3>2. ToSet(<<>>) = {}  BY UnaLinea, Zenon
      <3> QED  BY <3>1, <3>2
    <2>2. {q[i] : i \in {}} = {}  OBVIOUS
    <2> QED  BY <1>3, <1>11, <2>1, <2>2
  <1>13. ASSUME NEW k \in 1..n, P(k - 1) PROVE P(k)
    <2>1. I[1..(k - 1)] \in V /\ ToSet(I[1..(k - 1)]) = {q[i] : i \in 1..(k - 1)} /\ q[k] \in Lineas
      BY <1>1, <1>13
    <2>2. I[1..k] = Inserta(I[1..(k - 1)], q[k])  BY <1>11
    <2>3. I[1..k] \in V /\ ToSet(I[1..k]) = ToSet(I[1..(k - 1)]) \cup {q[k]}  BY <1>5, <2>1, <2>2
    <2>4. \A x : x \in 1..k <=> x \in 1..(k - 1) \/ x = k  OBVIOUS
    <2>5. {q[i] : i \in 1..k} = {q[i] : i \in 1..(k - 1)} \cup {q[k]}  BY <2>4
    <2> QED  BY <2>1, <2>3, <2>5
  <1>14. n \in A
    <2> HIDE DEF P
    <2>1. 0 \in A /\ \A k \in 1..n : k - 1 \in A => k \in A  BY <1>12, <1>13
    <2> HIDE DEF A
    <2> QED  BY <1>1, <2>1, Recorrido
  <1>15. P(n)
    <2> HIDE DEF P
    <2> QED  BY <1>14
  <1>16. {q[i] : i \in 1..n} = {Transformado[l] : l \in ToSet(b)}  BY <1>1 DEF ToSet
  <1> QED  BY <1>2, <1>15, <1>16 DEF V

LEMMA AgregaCrece ==
  ASSUME NEW r, Crece(r), NEW l \in Nat, \A x \in ToSet(r) : x < l
  PROVE  /\ Crece(Append(r, l)) /\ ToSet(Append(r, l)) = ToSet(r) \cup {l}
         /\ Append(r, l) # <<>> /\ Last(Append(r, l)) = l
  <1> DEFINE n == Len(r)
             t == Append(r, l)
  <1>1. r \in Seq(Nat) /\ n \in Nat /\ DOMAIN r = 1..n  BY DEF Crece
  <1>2. /\ t \in Seq(Nat) /\ Len(t) = n + 1 /\ DOMAIN t = 1..(n + 1) /\ t[n + 1] = l
        /\ \A i \in 1..n : t[i] = r[i]
    BY <1>1
  <1> HIDE DEF t, n
  <1>3. ASSUME NEW i \in DOMAIN t, NEW k \in DOMAIN t, i < k PROVE t[i] < t[k]
    <2>1. i \in 1..n /\ i \in DOMAIN r /\ t[i] = r[i]  BY <1>1, <1>2, <1>3
    <2>2. CASE k = n + 1
      <3>1. r[i] \in ToSet(r)  BY <2>1 DEF ToSet
      <3> QED  BY <1>2, <2>1, <2>2, <3>1
    <2>3. CASE k # n + 1
      <3>1. k \in DOMAIN r /\ t[k] = r[k]  BY <1>1, <1>2, <2>3
      <3> QED  BY <1>3, <2>1, <3>1 DEF Crece
    <2> QED  BY <2>2, <2>3
  <1>4. \A x : x \in ToSet(t) <=> x \in ToSet(r) \/ x = l
    <2>1. \A x : x \in ToSet(r) => x \in ToSet(t)
      <3> SUFFICES ASSUME NEW i \in DOMAIN r PROVE r[i] \in ToSet(t)  BY DEF ToSet
      <3>1. i \in DOMAIN t /\ t[i] = r[i]  BY <1>1, <1>2
      <3> QED  BY <3>1 DEF ToSet
    <2>2. l \in ToSet(t)
      <3>1. n + 1 \in DOMAIN t  BY <1>1, <1>2
      <3> QED  BY <1>2, <3>1 DEF ToSet
    <2>3. \A x : x \in ToSet(t) => x \in ToSet(r) \/ x = l
      <3> SUFFICES ASSUME NEW i \in DOMAIN t PROVE t[i] \in ToSet(r) \/ t[i] = l  BY DEF ToSet
      <3>1. i = n + 1 \/ (i \in DOMAIN r /\ t[i] = r[i])  BY <1>1, <1>2
      <3> QED  BY <1>2, <3>1 DEF ToSet
    <2> QED  BY <2>1, <2>2, <2>3
  <1>5. Crece(t)  BY <1>2, <1>3 DEF Crece
  <1>6. t # <<>>  BY <1>1, <1>2
  <1>7. Last(t) = l  BY <1>2 DEF Last
  <1> QED  BY <1>4, <1>5, <1>6, <1>7 DEF t

\* The last line of a file in order is the greatest.
LEMMA UltimaCrece ==
  ASSUME NEW r, Crece(r), r # <<>>
  PROVE  Last(r) \in ToSet(r) /\ \A x \in ToSet(r) : x <= Last(r)
  <1>1. r \in Seq(Nat) /\ Len(r) \in Nat /\ DOMAIN r = 1..Len(r) /\ Len(r) # 0  BY DEF Crece
  <1>2. Len(r) \in DOMAIN r /\ Last(r) = r[Len(r)] /\ r[Len(r)] \in Nat  BY <1>1 DEF Last
  <1>3. \A i \in DOMAIN r : r[i] <= Last(r)
    <2> TAKE i \in DOMAIN r
    <2>1. i = Len(r) \/ i < Len(r)  BY <1>1
    <2>2. r[i] \in Nat  BY <1>1
    <2>3. i < Len(r) => r[i] < r[Len(r)]  BY <1>2 DEF Crece
    <2> QED  BY <1>2, <2>1, <2>2, <2>3
  <1> QED  BY <1>2, <1>3 DEF ToSet

\* The reduction of lines in order: each one once.
LEMMA ReducirEs ==
  ASSUME NEW s, Sube(s)
  PROVE  Crece(Reducir(s)) /\ ToSet(Reducir(s)) = ToSet(s)
  <1> DEFINE n == Len(s)
             V == Seq(Nat)
             pone(r, l) == IF r # <<>> /\ Last(r) = l THEN r ELSE Append(r, l)
             F == [p \in (1..n) \X V |-> pone(p[2], s[p[1]])]
             z == <<>>
             Es(it) == it = [x \in SUBSET (1..n) |->
                               IF x = {} THEN <<>> ELSE pone(it[x \ {Max(x)}], s[Max(x)])]
             I == CHOOSE it : Es(it)
  <1>1. n \in Nat /\ DOMAIN s = 1..n /\ \A i \in 1..n : s[i] \in Nat  BY DEF Sube
  <1>2. Reducir(s) = I[1..n]  BY <1>1 DEF Reducir, FoldLeft, MapThenFoldSet, Max
  <1>3. z \in V  OBVIOUS
  <1>4. \A i \in 1..n : \A v \in V : F[<<i, v>>] = pone(v, s[i])
    <2> HIDE DEF V, n, pone
    <2> QED  OBVIOUS
  <1>5. \A i \in 1..n : \A v \in V : F[<<i, v>>] \in V
    <2>1. \A v \in V : \A l \in Nat : pone(v, l) \in V  OBVIOUS
    <2> HIDE DEF V, F, n, pone
    <2> QED  BY <1>1, <1>4, <2>1
  <1> HIDE DEF V, F, n, pone
  <1>6. PICK it \in [SUBSET (1..n) -> V] :
          /\ it[{}] = <<>>
          /\ \A x \in SUBSET (1..n) : x # {} => it[x] = F[<<Max(x), it[x \ {Max(x)}]>>]
    <2>1. n \in Nat  BY <1>1
    <2> HIDE DEF Es, I, z
    <2>2. Pliegues(n, V, z, F) # {}  BY ONLY <1>3, <1>5, <2>1, PliegueHay
    <2> QED  BY <2>2 DEF z, Pliegues
  <1>7. ASSUME NEW x \in SUBSET (1..n), x # {} PROVE it[x] = pone(it[x \ {Max(x)}], s[Max(x)])
    <2>1. Max(x) \in 1..n /\ it[x \ {Max(x)}] \in V  BY <1>1, <1>6, <1>7, MaxEs
    <2> QED  BY <1>4, <1>6, <1>7, <2>1
  <1>8. Es(I)
    <2>1. it = [x \in SUBSET (1..n) |-> it[x]]  BY <1>6
    <2>2. Es(it)  BY <1>6, <1>7, <2>1
    <2> HIDE DEF Es
    <2> QED  BY <2>2
  <1> HIDE DEF I
  <1>9. I[1..0] = <<>> /\ \A k \in 1..n : I[1..k] = pone(I[1..(k - 1)], s[k])
    <2>1. /\ I[{}] = <<>>
          /\ \A x \in SUBSET (1..n) : x # {} => I[x] = pone(I[x \ {Max(x)}], s[Max(x)])
      BY <1>8
    <2> HIDE DEF Es
    <2>2. 1..0 = {}  OBVIOUS
    <2>3. ASSUME NEW k \in 1..n PROVE I[1..k] = pone(I[1..(k - 1)], s[k])
      <3>1. 1..k \in SUBSET (1..n) /\ 1..k # {} /\ Max(1..k) = k /\ (1..k) \ {k} = 1..(k - 1)
        BY <1>1, MaxPrefijo
      <3> QED  BY <2>1, <3>1
    <2> QED  BY <2>1, <2>2, <2>3
  <1> HIDE DEF Es
  <1> DEFINE P(k) == /\ Crece(I[1..k]) /\ ToSet(I[1..k]) = {s[i] : i \in 1..k}
                     /\ (k > 0 => I[1..k] # <<>> /\ Last(I[1..k]) = s[k])
             A == {k \in Nat : P(k)}
  <1>10. P(0)
    <2>1. 1..0 = {}  OBVIOUS
    <2>2. ToSet(<<>>) = {}  BY UnaLinea, Zenon
    <2>3. {s[i] : i \in {}} = {}  OBVIOUS
    <2>4. Crece(<<>>)  BY DEF Crece
    <2> QED  BY <1>9, <2>1, <2>2, <2>3, <2>4
  <1>11. ASSUME NEW k \in 1..n, P(k - 1) PROVE P(k)
    <2> DEFINE r == I[1..(k - 1)]
    <2>1. /\ Crece(r) /\ ToSet(r) = {s[i] : i \in 1..(k - 1)}
          /\ (k - 1 > 0 => r # <<>> /\ Last(r) = s[k - 1])
      BY <1>11
    <2>2. I[1..k] = IF r # <<>> /\ Last(r) = s[k] THEN r ELSE Append(r, s[k])  BY <1>9 DEF pone
    <2>3. \A x : x \in 1..k <=> x \in 1..(k - 1) \/ x = k  OBVIOUS
    <2>4. {s[i] : i \in 1..k} = {s[i] : i \in 1..(k - 1)} \cup {s[k]}  BY <2>3
    <2> HIDE DEF r, P
    <2>5. CASE r # <<>> /\ Last(r) = s[k]
      <3>1. s[k] \in ToSet(r)  BY <2>1, <2>5, UltimaCrece
      <3>2. ToSet(r) = {s[i] : i \in 1..k}  BY <2>1, <2>4, <3>1
      <3> QED  BY <2>1, <2>2, <2>5, <3>2 DEF P
    <2>6. CASE ~ (r # <<>> /\ Last(r) = s[k])
      <3>1. \A x \in ToSet(r) : x < s[k]
        <4> SUFFICES ASSUME NEW x \in ToSet(r) PROVE x < s[k]  OBVIOUS
        <4>1. PICK i \in 1..(k - 1) : x = s[i]  BY <2>1
        <4>2. k - 1 \in 1..n /\ k - 1 < k /\ k - 1 > 0  BY <1>1
        <4>3. r # <<>> /\ Last(r) = s[k - 1] /\ x <= s[k - 1]  BY <2>1, <4>2, UltimaCrece
        <4>4. k - 1 \in DOMAIN s /\ k \in DOMAIN s /\ i \in 1..n  BY <1>1, <4>2
        <4>5. s[k] \in Nat /\ s[k - 1] \in Nat /\ x \in Nat  BY <1>1, <4>1, <4>4
        <4>6. s[k - 1] <= s[k]  BY <4>2, <4>4 DEF Sube
        <4> QED  BY <2>6, <4>3, <4>5, <4>6
      <3>2. s[k] \in Nat  BY <1>1
      <3>3. /\ Crece(Append(r, s[k])) /\ ToSet(Append(r, s[k])) = ToSet(r) \cup {s[k]}
            /\ Append(r, s[k]) # <<>> /\ Last(Append(r, s[k])) = s[k]
        BY <2>1, <3>1, <3>2, AgregaCrece
      <3> QED  BY <2>1, <2>2, <2>4, <2>6, <3>3 DEF P
    <2> QED  BY <2>5, <2>6
  <1>12. n \in A
    <2> HIDE DEF P
    <2>1. 0 \in A /\ \A k \in 1..n : k - 1 \in A => k \in A  BY <1>10, <1>11
    <2> HIDE DEF A
    <2> QED  BY <1>1, <2>1, Recorrido
  <1>13. P(n)
    <2> HIDE DEF P
    <2> QED  BY <1>12
  <1>14. {s[i] : i \in 1..n} = ToSet(s)  BY <1>1 DEF ToSet
  <1> QED  BY <1>2, <1>13, <1>14

\* The chain of merges before a reduction: all the lines of the files, in order.
LEMMA AparearEs ==
  ASSUME NEW a, a \in Seq(Seq(Nat)), a # <<>>, \A i \in DOMAIN a : Sube(a[i])
  PROVE  /\ Sube(Aparear(a))
         /\ ToSet(Aparear(a)) = UNION {ToSet(a[i]) : i \in DOMAIN a}
  <1> DEFINE q == Tail(a)
             n == Len(q)
             z == Head(a)
             V == {s \in Seq(Nat) : Sube(s)}
             F == [p \in (1..n) \X V |-> Apareo(p[2], q[p[1]])]
             Es(it) == it = [s \in SUBSET (1..n) |->
                               IF s = {} THEN z ELSE Apareo(it[s \ {Max(s)}], q[Max(s)])]
             I == CHOOSE it : Es(it)
  <1>1. /\ n \in Nat /\ DOMAIN q = 1..n /\ Len(a) = n + 1 /\ DOMAIN a = 1..(n + 1)
        /\ z = a[1] /\ \A i \in 1..n : q[i] = a[i + 1]
    OBVIOUS
  <1>2. Aparear(a) = I[1..n]  BY <1>1 DEF Aparear, FoldLeft, MapThenFoldSet, Max
  <1> HIDE DEF q, n, z
  <1>3. z \in V /\ \A i \in 1..n : q[i] \in V
    <2>1. 1 \in DOMAIN a /\ \A i \in 1..n : i + 1 \in DOMAIN a  BY <1>1
    <2>2. \A i \in DOMAIN a : a[i] \in V  OBVIOUS
    <2> HIDE DEF V
    <2> QED  BY <1>1, <2>1, <2>2
  <1>4. \A i \in 1..n : \A v \in V : F[<<i, v>>] = Apareo(v, q[i])
    <2> HIDE DEF V
    <2> QED  OBVIOUS
  <1>5. \A v, w \in V : Apareo(v, w) \in V /\ ToSet(Apareo(v, w)) = ToSet(v) \cup ToSet(w)
    BY ApareoEs DEF Sube
  <1> HIDE DEF V, F
  <1>6. \A i \in 1..n : \A v \in V : F[<<i, v>>] \in V  BY <1>3, <1>4, <1>5
  <1>7. PICK it \in [SUBSET (1..n) -> V] :
          /\ it[{}] = z
          /\ \A x \in SUBSET (1..n) : x # {} => it[x] = F[<<Max(x), it[x \ {Max(x)}]>>]
    <2>1. n \in Nat /\ z \in V  BY <1>1, <1>3
    <2> HIDE DEF Es, I
    <2>2. Pliegues(n, V, z, F) # {}  BY ONLY <1>6, <2>1, PliegueHay
    <2> QED  BY <2>2 DEF Pliegues
  <1>8. ASSUME NEW x \in SUBSET (1..n), x # {} PROVE it[x] = Apareo(it[x \ {Max(x)}], q[Max(x)])
    <2>1. Max(x) \in 1..n /\ it[x \ {Max(x)}] \in V  BY <1>1, <1>7, <1>8, MaxEs
    <2> QED  BY <1>4, <1>7, <1>8, <2>1
  <1>9. Es(I)
    <2>1. it = [x \in SUBSET (1..n) |-> it[x]]  BY <1>7
    <2>2. Es(it)  BY <1>7, <1>8, <2>1
    <2> HIDE DEF Es
    <2> QED  BY <2>2
  <1> HIDE DEF I
  <1>10. I[1..0] = z /\ \A k \in 1..n : I[1..k] = Apareo(I[1..(k - 1)], q[k])
    <2>1. /\ I[{}] = z
          /\ \A x \in SUBSET (1..n) : x # {} => I[x] = Apareo(I[x \ {Max(x)}], q[Max(x)])
      BY <1>9
    <2> HIDE DEF Es
    <2>2. 1..0 = {}  OBVIOUS
    <2>3. ASSUME NEW k \in 1..n PROVE I[1..k] = Apareo(I[1..(k - 1)], q[k])
      <3>1. 1..k \in SUBSET (1..n) /\ 1..k # {} /\ Max(1..k) = k /\ (1..k) \ {k} = 1..(k - 1)
        BY <1>1, MaxPrefijo
      <3> QED  BY <2>1, <3>1
    <2> QED  BY <2>1, <2>2, <2>3
  <1> HIDE DEF Es
  <1> DEFINE P(k) == I[1..k] \in V /\ ToSet(I[1..k]) = UNION {ToSet(a[i]) : i \in 1..(k + 1)}
             A == {k \in Nat : P(k)}
  <1>11. P(0)
    <2>1. 1..(0 + 1) = {1}  OBVIOUS
    <2>2. UNION {ToSet(a[i]) : i \in {1}} = ToSet(a[1])  OBVIOUS
    <2> QED  BY <1>1, <1>3, <1>10, <2>1, <2>2
  <1>12. ASSUME NEW k \in 1..n, P(k - 1) PROVE P(k)
    <2>1. (k - 1) + 1 = k  OBVIOUS
    <2>2. I[1..(k - 1)] \in V /\ ToSet(I[1..(k - 1)]) = UNION {ToSet(a[i]) : i \in 1..k}
      BY <1>12, <2>1
    <2>3. I[1..k] = Apareo(I[1..(k - 1)], q[k]) /\ q[k] \in V /\ q[k] = a[k + 1]
      BY <1>1, <1>3, <1>10
    <2>4. I[1..k] \in V /\ ToSet(I[1..k]) = ToSet(I[1..(k - 1)]) \cup ToSet(a[k + 1])
      BY <1>5, <2>2, <2>3
    <2>5. \A x : x \in 1..(k + 1) <=> x \in 1..k \/ x = k + 1  OBVIOUS
    <2>6. UNION {ToSet(a[i]) : i \in 1..(k + 1)}
            = (UNION {ToSet(a[i]) : i \in 1..k}) \cup ToSet(a[k + 1])
      BY <2>5
    <2> QED  BY <2>2, <2>4, <2>6
  <1>13. n \in A
    <2> HIDE DEF P
    <2>1. 0 \in A /\ \A k \in 1..n : k - 1 \in A => k \in A  BY <1>11, <1>12
    <2> HIDE DEF A
    <2> QED  BY <1>1, <2>1, Recorrido
  <1>14. P(n)
    <2> HIDE DEF P
    <2> QED  BY <1>13
  <1> QED  BY <1>1, <1>2, <1>14 DEF V

\* The blocks one after another, and what the scripts make of them.
LEMMA ResultadoEs ==
  ASSUME Igualdad, NEW b \in Seq(Seq(Lineas))
  PROVE  /\ Crece(Resultado(b))
         /\ ToSet(Resultado(b)) = {Transformado[l] : l \in UNION {ToSet(b[i]) : i \in DOMAIN b}}
  <1> DEFINE n == Len(b)
             z == <<>>
             V == Seq(Lineas)
             junta(s, t) == s \o t
             F == [p \in (1..n) \X V |-> junta(p[2], b[p[1]])]
             Es(it) == it = [s \in SUBSET (1..n) |->
                               IF s = {} THEN <<>> ELSE junta(it[s \ {Max(s)}], b[Max(s)])]
             I == CHOOSE it : Es(it)
  <1>1. n \in Nat /\ DOMAIN b = 1..n /\ \A i \in 1..n : b[i] \in V  OBVIOUS
  <1>2. Resultado(b) = Reducir(Transformar(I[1..n]))
    BY <1>1 DEF Resultado, FoldLeft, MapThenFoldSet, Max
  <1>3. z \in V  OBVIOUS
  <1>4. \A i \in 1..n : \A v \in V : F[<<i, v>>] = junta(v, b[i])
    <2> HIDE DEF V, n, junta
    <2> QED  OBVIOUS
  <1>5. \A v, w \in V : junta(v, w) \in V /\ ToSet(junta(v, w)) = ToSet(v) \cup ToSet(w)
    BY JuntasSon
  <1> HIDE DEF V, F, n, junta
  <1>6. \A i \in 1..n : \A v \in V : F[<<i, v>>] \in V  BY <1>1, <1>4, <1>5
  <1>7. PICK it \in [SUBSET (1..n) -> V] :
          /\ it[{}] = <<>>
          /\ \A x \in SUBSET (1..n) : x # {} => it[x] = F[<<Max(x), it[x \ {Max(x)}]>>]
    <2>1. n \in Nat  BY <1>1
    <2> HIDE DEF Es, I, z
    <2>2. Pliegues(n, V, z, F) # {}  BY ONLY <1>3, <1>6, <2>1, PliegueHay
    <2> QED  BY <2>2 DEF z, Pliegues
  <1>8. ASSUME NEW x \in SUBSET (1..n), x # {} PROVE it[x] = junta(it[x \ {Max(x)}], b[Max(x)])
    <2>1. Max(x) \in 1..n /\ it[x \ {Max(x)}] \in V  BY <1>1, <1>7, <1>8, MaxEs
    <2> QED  BY <1>4, <1>7, <1>8, <2>1
  <1>9. Es(I)
    <2>1. it = [x \in SUBSET (1..n) |-> it[x]]  BY <1>7
    <2>2. Es(it)  BY <1>7, <1>8, <2>1
    <2> HIDE DEF Es
    <2> QED  BY <2>2
  <1> HIDE DEF I
  <1>10. I[1..0] = <<>> /\ \A k \in 1..n : I[1..k] = junta(I[1..(k - 1)], b[k])
    <2>1. /\ I[{}] = <<>>
          /\ \A x \in SUBSET (1..n) : x # {} => I[x] = junta(I[x \ {Max(x)}], b[Max(x)])
      BY <1>9
    <2> HIDE DEF Es
    <2>2. 1..0 = {}  OBVIOUS
    <2>3. ASSUME NEW k \in 1..n PROVE I[1..k] = junta(I[1..(k - 1)], b[k])
      <3>1. 1..k \in SUBSET (1..n) /\ 1..k # {} /\ Max(1..k) = k /\ (1..k) \ {k} = 1..(k - 1)
        BY <1>1, MaxPrefijo
      <3> QED  BY <2>1, <3>1
    <2> QED  BY <2>1, <2>2, <2>3
  <1> HIDE DEF Es
  <1> DEFINE P(k) == I[1..k] \in V /\ ToSet(I[1..k]) = UNION {ToSet(b[i]) : i \in 1..k}
             A == {k \in Nat : P(k)}
  <1>11. P(0)
    <2>1. 1..0 = {}  OBVIOUS
    <2>2. UNION {ToSet(b[i]) : i \in {}} = {}  OBVIOUS
    <2>3. ToSet(<<>>) = {}  BY UnaLinea, Zenon
    <2> QED  BY <1>3, <1>10, <2>1, <2>2, <2>3
  <1>12. ASSUME NEW k \in 1..n, P(k - 1) PROVE P(k)
    <2>1. I[1..(k - 1)] \in V /\ ToSet(I[1..(k - 1)]) = UNION {ToSet(b[i]) : i \in 1..(k - 1)}
      BY <1>12
    <2>2. I[1..k] = junta(I[1..(k - 1)], b[k]) /\ b[k] \in V  BY <1>1, <1>10
    <2>3. I[1..k] \in V /\ ToSet(I[1..k]) = ToSet(I[1..(k - 1)]) \cup ToSet(b[k])
      BY <1>5, <2>1, <2>2
    <2>4. \A x : x \in 1..k <=> x \in 1..(k - 1) \/ x = k  OBVIOUS
    <2>5. UNION {ToSet(b[i]) : i \in 1..k} =
            (UNION {ToSet(b[i]) : i \in 1..(k - 1)}) \cup ToSet(b[k])
      BY <2>4
    <2> QED  BY <2>1, <2>3, <2>5
  <1>13. n \in A
    <2> HIDE DEF P
    <2>1. 0 \in A /\ \A k \in 1..n : k - 1 \in A => k \in A  BY <1>11, <1>12
    <2> HIDE DEF A
    <2> QED  BY <1>1, <2>1, Recorrido
  <1>14. P(n)
    <2> HIDE DEF P
    <2> QED  BY <1>13
  <1> DEFINE u == I[1..n]
  <1>15. u \in Seq(Lineas) /\ ToSet(u) = UNION {ToSet(b[i]) : i \in DOMAIN b}
    BY <1>1, <1>14 DEF V
  <1> HIDE DEF u
  <1>16. Sube(Transformar(u)) /\ ToSet(Transformar(u)) = {Transformado[l] : l \in ToSet(u)}
    BY <1>15, TransformarEs
  <1>17. Crece(Reducir(Transformar(u))) /\ ToSet(Reducir(Transformar(u))) = ToSet(Transformar(u))
    BY <1>16, ReducirEs
  <1> QED  BY <1>2, <1>15, <1>16, <1>17 DEF u

LEMMA SetToSeqEs ==
  ASSUME NEW S, IsFiniteSet(S)
  PROVE  SetToSeq(S) \in Seq(S) /\ \A x \in S : \E i \in DOMAIN SetToSeq(S) : SetToSeq(S)[i] = x
  <1> DEFINE n == Cardinality(S)
             Es(f) == f \in [1..n -> S] /\ IsInjective(f)
             f == SetToSeq(S)
  <1>1. PICK g : g \in Bijection(1..n, S)
    <2>1. ExistsBijection(1..n, S)  BY FS_CardinalityType
    <2> QED  BY <2>1 DEF ExistsBijection
  <1>2. Es(g)  BY <1>1 DEF Bijection, Injection
  <1>3. Es(f)
    <2>1. f = CHOOSE h : Es(h)  BY DEF SetToSeq
    <2> HIDE DEF Es
    <2> QED  BY <1>2, <2>1
  <1>4. n \in Nat /\ IsFiniteSet(1..n) /\ Cardinality(1..n) = n
    <2>1. n \in Nat  BY FS_CardinalityType
    <2>2. IsFiniteSet(1..n) /\ Cardinality(1..n) = IF 1 > n THEN 0 ELSE n - 1 + 1
      BY <2>1, FS_Interval
    <2> QED  BY <2>1, <2>2
  <1> HIDE DEF f, n
  <1>5. f \in Seq(S) /\ DOMAIN f = 1..n  BY <1>3, <1>4
  <1>6. f \in Surjection(1..n, S)
    <2>1. f \in Injection(1..n, S)  BY <1>3 DEF Injection
    <2>2. Cardinality(1..n) = Cardinality(S)  BY <1>4 DEF n
    <2> QED  BY <2>1, <2>2, FS_Injection
  <1>7. \A x \in S : \E i \in 1..n : f[i] = x  BY <1>6 DEF Surjection
  <1> QED  BY <1>5, <1>7 DEF f

\* All the blocks of a job are those of its Workers.
LEMMA EnteroEs ==
  ASSUME NEW j \in Jobs, bloques[j] \in [Workers -> Seq(Seq(Lineas))]
  PROVE  /\ Entero(j) \in Seq(Seq(Lineas))
         /\ ToSet(Entero(j)) = UNION {ToSet(bloques[j][w]) : w \in Workers}
  <1> DEFINE W == SetToSeq(Workers)
             B == bloques[j]
             n == Len(W)
             z == <<>>
             V == Seq(Seq(Lineas))
             junta(s, t) == s \o t
             F == [p \in (1..n) \X V |-> junta(p[2], B[W[p[1]]])]
             Es(it) == it = [s \in SUBSET (1..n) |->
                               IF s = {} THEN <<>> ELSE junta(it[s \ {Max(s)}], B[W[Max(s)]])]
             I == CHOOSE it : Es(it)
  <1>0. W \in Seq(Workers) /\ \A w \in Workers : \E i \in DOMAIN W : W[i] = w
    BY SetToSeqEs, SupuestoWorker
  <1> HIDE DEF W
  <1>1. /\ n \in Nat /\ DOMAIN W = 1..n /\ \A i \in 1..n : W[i] \in Workers /\ B[W[i]] \in V
    BY <1>0
  <1>2. Entero(j) = I[1..n]  BY <1>1 DEF Entero, FoldLeft, MapThenFoldSet, Max, W
  <1> HIDE DEF B
  <1>3. z \in V  OBVIOUS
  <1>4. \A i \in 1..n : \A v \in V : F[<<i, v>>] = junta(v, B[W[i]])
    <2> HIDE DEF V, n, junta
    <2> QED  OBVIOUS
  <1>5. \A v, w \in V : junta(v, w) \in V /\ ToSet(junta(v, w)) = ToSet(v) \cup ToSet(w)
    BY JuntasSon
  <1> HIDE DEF V, F, n, junta
  <1>6. \A i \in 1..n : \A v \in V : F[<<i, v>>] \in V  BY <1>1, <1>4, <1>5
  <1>7. PICK it \in [SUBSET (1..n) -> V] :
          /\ it[{}] = <<>>
          /\ \A x \in SUBSET (1..n) : x # {} => it[x] = F[<<Max(x), it[x \ {Max(x)}]>>]
    <2>1. n \in Nat  BY <1>1
    <2> HIDE DEF Es, I, z
    <2>2. Pliegues(n, V, z, F) # {}  BY ONLY <1>3, <1>6, <2>1, PliegueHay
    <2> QED  BY <2>2 DEF z, Pliegues
  <1>8. ASSUME NEW x \in SUBSET (1..n), x # {} PROVE it[x] = junta(it[x \ {Max(x)}], B[W[Max(x)]])
    <2>1. Max(x) \in 1..n /\ it[x \ {Max(x)}] \in V  BY <1>1, <1>7, <1>8, MaxEs
    <2> QED  BY <1>4, <1>7, <1>8, <2>1
  <1>9. Es(I)
    <2>1. it = [x \in SUBSET (1..n) |-> it[x]]  BY <1>7
    <2>2. Es(it)  BY <1>7, <1>8, <2>1
    <2> HIDE DEF Es
    <2> QED  BY <2>2
  <1> HIDE DEF I
  <1>10. I[1..0] = <<>> /\ \A k \in 1..n : I[1..k] = junta(I[1..(k - 1)], B[W[k]])
    <2>1. /\ I[{}] = <<>>
          /\ \A x \in SUBSET (1..n) : x # {} => I[x] = junta(I[x \ {Max(x)}], B[W[Max(x)]])
      BY <1>9
    <2> HIDE DEF Es
    <2>2. 1..0 = {}  OBVIOUS
    <2>3. ASSUME NEW k \in 1..n PROVE I[1..k] = junta(I[1..(k - 1)], B[W[k]])
      <3>1. 1..k \in SUBSET (1..n) /\ 1..k # {} /\ Max(1..k) = k /\ (1..k) \ {k} = 1..(k - 1)
        BY <1>1, MaxPrefijo
      <3> QED  BY <2>1, <3>1
    <2> QED  BY <2>1, <2>2, <2>3
  <1> HIDE DEF Es
  <1> DEFINE P(k) == I[1..k] \in V /\ ToSet(I[1..k]) = UNION {ToSet(B[W[i]]) : i \in 1..k}
             A == {k \in Nat : P(k)}
  <1>11. P(0)
    <2>1. 1..0 = {}  OBVIOUS
    <2>2. UNION {ToSet(B[W[i]]) : i \in {}} = {}  OBVIOUS
    <2>3. ToSet(<<>>) = {}  BY UnaLinea, Zenon
    <2> QED  BY <1>3, <1>10, <2>1, <2>2, <2>3
  <1>12. ASSUME NEW k \in 1..n, P(k - 1) PROVE P(k)
    <2>1. I[1..(k - 1)] \in V /\ ToSet(I[1..(k - 1)]) = UNION {ToSet(B[W[i]]) : i \in 1..(k - 1)}
      BY <1>12
    <2>2. I[1..k] = junta(I[1..(k - 1)], B[W[k]]) /\ B[W[k]] \in V  BY <1>1, <1>10
    <2>3. I[1..k] \in V /\ ToSet(I[1..k]) = ToSet(I[1..(k - 1)]) \cup ToSet(B[W[k]])
      BY <1>5, <2>1, <2>2
    <2>4. \A x : x \in 1..k <=> x \in 1..(k - 1) \/ x = k  OBVIOUS
    <2>5. UNION {ToSet(B[W[i]]) : i \in 1..k}
            = (UNION {ToSet(B[W[i]]) : i \in 1..(k - 1)}) \cup ToSet(B[W[k]])
      BY <2>4
    <2> QED  BY <2>1, <2>3, <2>5
  <1>13. n \in A
    <2> HIDE DEF P
    <2>1. 0 \in A /\ \A k \in 1..n : k - 1 \in A => k \in A  BY <1>11, <1>12
    <2> HIDE DEF A
    <2> QED  BY <1>1, <2>1, Recorrido
  <1>14. P(n)
    <2> HIDE DEF P
    <2> QED  BY <1>13
  <1>15. UNION {ToSet(B[W[i]]) : i \in 1..n} = UNION {ToSet(B[w]) : w \in Workers}
    BY <1>0, <1>1
  <1> QED  BY <1>2, <1>14, <1>15 DEF B, V
-----------------------------------------------------------------------------
(* The invariant of the results                                            *)

\* The lines that the job j must reduce: those of the blocks in w, and all of them, transformed.
Lineas1(b)    == {Transformado[l] : l \in ToSet(b)}
LineasW(j, w) == UNION {Lineas1(bloques[j][w][i]) : i \in DOMAIN bloques[j][w]}
LineasJ(j)    == UNION {LineasW(j, w) : w \in Workers}

SonBloques == bloques \in [Jobs -> [Workers -> Seq(Seq(Lineas))]]

\* The temporaries of a job that no silent failure touched.
TempBien(j) ==
  /\ \A w \in Workers : \A i \in DOMAIN bloques[j][w] : Esta(T(j, w, i)) =>
       Sube(archivos[T(j, w, i)]) /\ ToSet(archivos[T(j, w, i)]) = Lineas1(bloques[j][w][i])
  /\ \A w \in Workers : Esta(RL(j, w)) =>
       Crece(archivos[RL(j, w)]) /\ ToSet(archivos[RL(j, w)]) = LineasW(j, w)
  /\ \A w \in Workers : Esta(Copia(j, w)) =>
       Esta(RL(j, w)) /\ archivos[Copia(j, w)] = archivos[RL(j, w)]
  /\ Esta(RG(j)) => Crece(archivos[RG(j)]) /\ ToSet(archivos[RG(j)]) = LineasJ(j)

PasosBien ==
  \A j \in Jobs : /\ paso[j] \in {"global", "almacena", "bien"} => Esta(RG(j))
                  /\ hijo[j] # Nulo <=> paso[j] = "almacena"

\* What is on its way from w is of jobs of w, and when w is lost their Masters know.
DeSuWorker ==
  /\ \A w \in Workers : \A i \in DOMAIN canal[w] :
       /\ encargado[canal[w][i].job] = w
       /\ w \notin revuelto /\ w \notin vivos => paso[canal[w][i].job] = "mal"
  /\ leyendo # Nulo /\ leyendo.parte # "perdida" =>
       /\ encargado[leyendo.job] = leyendo.worker
       /\ leyendo.worker \notin revuelto /\ leyendo.worker \notin vivos => paso[leyendo.job] = "mal"

Guardada(j) == j \in DOMAIN almacen /\ almacen[j] = archivos[RG(j)]

\* Of a job that no silent failure touched, in a Worker whose storages did not overlap, an
\* answer that it ended well means that the FileSystem has the file.
RespuestaBien(j) ==
  fs = "vivo" /\ j \notin tocado /\ encargado[j] \notin revuelto =>
    /\ hijo[j] = "status" /\ estados[encargado[j]] # <<>> =>
         Head(estados[encargado[j]]) = 0 /\ Guardada(j)
    /\ paso[j] = "bien" => Guardada(j)

InvF ==
  /\ InvW /\ PasosBien /\ DeSuWorker
  /\ SonBloques /\ \A j \in Jobs : encargado[j] \in De(j)
  /\ \A j \in Jobs : RespuestaBien(j) /\ (Igualdad /\ j \notin tocado => TempBien(j))
-----------------------------------------------------------------------------
(* The temporaries                                                         *)

LEMMA NombresSon ==
  ASSUME NEW j, NEW w, NEW i
  PROVE  /\ T(j, w, i)[2] = j /\ RL(j, w)[2] = j /\ Copia(j, w)[2] = j /\ RG(j)[2] = j
         /\ T(j, w, i)[1] = "transformacion" /\ RL(j, w)[1] = "reducido"
         /\ Copia(j, w)[1] = "copia" /\ RG(j)[1] = "global"
         /\ T(j, w, i)[3] = w /\ T(j, w, i)[4] = i /\ RL(j, w)[3] = w /\ Copia(j, w)[3] = w
  BY SMT DEF T, RL, Copia, RG

LEMMA NombresDistintos ==
  ASSUME NEW j
  PROVE  /\ \A w, i, v, k : T(j, w, i) = T(j, v, k) => w = v /\ i = k
         /\ \A w, v : (RL(j, w) = RL(j, v) => w = v) /\ (Copia(j, w) = Copia(j, v) => w = v)
         /\ \A w, i, v : T(j, w, i) # RL(j, v) /\ T(j, w, i) # Copia(j, v) /\ T(j, w, i) # RG(j)
         /\ \A w, v : RL(j, w) # Copia(j, v) /\ RL(j, w) # RG(j) /\ Copia(j, w) # RG(j)
  <1>1. \A w, i, v, k : T(j, w, i) = T(j, v, k) => w = v /\ i = k
    <2> TAKE w, i, v, k
    <2>1. T(j, w, i)[3] = w /\ T(j, w, i)[4] = i /\ T(j, v, k)[3] = v /\ T(j, v, k)[4] = k
      BY NombresSon
    <2> QED  BY <2>1
  <1>2. \A w, v : (RL(j, w) = RL(j, v) => w = v) /\ (Copia(j, w) = Copia(j, v) => w = v)
    <2> TAKE w, v
    <2>1. RL(j, w)[3] = w /\ RL(j, v)[3] = v /\ Copia(j, w)[3] = w /\ Copia(j, v)[3] = v
      BY NombresSon
    <2> QED  BY <2>1
  <1>3. ASSUME NEW w, NEW i, NEW v
        PROVE  /\ T(j, w, i) # RL(j, v) /\ T(j, w, i) # Copia(j, v) /\ T(j, w, i) # RG(j)
               /\ RL(j, w) # Copia(j, v) /\ RL(j, w) # RG(j) /\ Copia(j, w) # RG(j)
    <2>1. /\ T(j, w, i)[1] = "transformacion" /\ RL(j, v)[1] = "reducido"
          /\ RL(j, w)[1] = "reducido"
          /\ Copia(j, v)[1] = "copia" /\ Copia(j, w)[1] = "copia" /\ RG(j)[1] = "global"
      BY NombresSon
    <2> QED  BY <2>1
  <1> QED  BY <1>1, <1>2, <1>3

LEMMA EscribeEs ==
  ASSUME NEW n, NEW s, Escribe(n, s)
  PROVE  /\ \A x : Esta(x)' <=> Esta(x) \/ x = n
         /\ archivos'[n] = s /\ \A x : Esta(x) /\ x # n => archivos'[x] = archivos[x]
  BY DEF Escribe, Esta

\* A step that leaves alone the temporaries of j.
Intactos(j) ==
  \A x : x[2] = j => (Esta(x)' <=> Esta(x)) /\ (Esta(x) => archivos'[x] = archivos[x])

LEMMA TempSigue ==
  ASSUME NEW j, TempBien(j), Intactos(j), bloques' = bloques
  PROVE  TempBien(j)'
  <1>1. \A w, i : LET x == T(j, w, i)
                  IN  (Esta(x)' <=> Esta(x)) /\ (Esta(x) => archivos'[x] = archivos[x])
    BY NombresSon DEF Intactos
  <1>2. \A w : LET x == RL(j, w)
               IN  (Esta(x)' <=> Esta(x)) /\ (Esta(x) => archivos'[x] = archivos[x])
    BY NombresSon DEF Intactos
  <1>3. \A w : LET x == Copia(j, w)
               IN  (Esta(x)' <=> Esta(x)) /\ (Esta(x) => archivos'[x] = archivos[x])
    BY NombresSon DEF Intactos
  <1>4. LET x == RG(j) IN  (Esta(x)' <=> Esta(x)) /\ (Esta(x) => archivos'[x] = archivos[x])
    BY NombresSon DEF Intactos
  <1>5. \A w : LineasW(j, w)' = LineasW(j, w)  BY DEF LineasW
  <1>6. LineasJ(j)' = LineasJ(j)  BY DEF LineasJ, LineasW
  <1> QED  BY <1>1, <1>2, <1>3, <1>4, <1>5, <1>6 DEF TempBien

LEMMA OtrosIntactos ==
  ASSUME NEW n, NEW s, Escribe(n, s), NEW j, n[2] # j
  PROVE  Intactos(j)
  BY EscribeEs DEF Intactos

\* One more temporary of j, with the lines that it must have.
LEMMA TempMas ==
  ASSUME NEW j, TempBien(j), bloques' = bloques, NEW n, NEW s, Escribe(n, s), Esta(n) => n = RG(j),
         \A w \in Workers : \A i \in DOMAIN bloques[j][w] :
           n = T(j, w, i) => Sube(s) /\ ToSet(s) = Lineas1(bloques[j][w][i]),
         \A w \in Workers : n = RL(j, w) => Crece(s) /\ ToSet(s) = LineasW(j, w),
         \A w \in Workers : n = Copia(j, w) => Esta(RL(j, w)) /\ s = archivos[RL(j, w)],
         n = RG(j) => Crece(s) /\ ToSet(s) = LineasJ(j)
  PROVE  TempBien(j)'
  <1>0. /\ \A x : Esta(x)' <=> Esta(x) \/ x = n
        /\ archivos'[n] = s /\ \A x : Esta(x) /\ x # n => archivos'[x] = archivos[x]
    BY EscribeEs
  <1>1. ASSUME NEW w \in Workers, NEW i \in DOMAIN bloques[j][w], Esta(T(j, w, i))'
        PROVE  /\ Sube(archivos'[T(j, w, i)])
               /\ ToSet(archivos'[T(j, w, i)]) = Lineas1(bloques[j][w][i])
    <2>1. CASE T(j, w, i) = n  BY <1>0, <2>1
    <2>2. CASE T(j, w, i) # n
      <3>1. Esta(T(j, w, i)) /\ archivos'[T(j, w, i)] = archivos[T(j, w, i)]  BY <1>0, <1>1, <2>2
      <3> QED  BY <3>1 DEF TempBien
    <2> QED  BY <2>1, <2>2
  <1>2. ASSUME NEW w \in Workers, Esta(RL(j, w))'
        PROVE  Crece(archivos'[RL(j, w)]) /\ ToSet(archivos'[RL(j, w)]) = LineasW(j, w)
    <2>1. CASE RL(j, w) = n  BY <1>0, <2>1
    <2>2. CASE RL(j, w) # n
      <3>1. Esta(RL(j, w)) /\ archivos'[RL(j, w)] = archivos[RL(j, w)]  BY <1>0, <1>2, <2>2
      <3> QED  BY <3>1 DEF TempBien
    <2> QED  BY <2>1, <2>2
  <1>3. ASSUME NEW w \in Workers, Esta(Copia(j, w))'
        PROVE  Esta(RL(j, w))' /\ archivos'[Copia(j, w)] = archivos'[RL(j, w)]
    <2>0. RL(j, w) # Copia(j, w) /\ RL(j, w) # RG(j)  BY NombresDistintos
    <2>1. CASE Copia(j, w) = n  BY <1>0, <2>0, <2>1
    <2>2. CASE Copia(j, w) # n
      <3>1. Esta(Copia(j, w)) /\ archivos'[Copia(j, w)] = archivos[Copia(j, w)]  BY <1>0, <1>3, <2>2
      <3>2. Esta(RL(j, w)) /\ archivos[Copia(j, w)] = archivos[RL(j, w)]  BY <3>1 DEF TempBien
      <3>3. RL(j, w) # n  BY <2>0, <3>2
      <3> QED  BY <1>0, <3>1, <3>2, <3>3
    <2> QED  BY <2>1, <2>2
  <1>4. Esta(RG(j))' => Crece(archivos'[RG(j)]) /\ ToSet(archivos'[RG(j)]) = LineasJ(j)
    <2>1. CASE RG(j) = n  BY <1>0, <2>1
    <2>2. CASE RG(j) # n
      <3>1. Esta(RG(j))' => Esta(RG(j)) /\ archivos'[RG(j)] = archivos[RG(j)]  BY <1>0, <2>2
      <3> QED  BY <3>1 DEF TempBien
    <2> QED  BY <2>1, <2>2
  <1>5. \A w : LineasW(j, w)' = LineasW(j, w)  BY DEF LineasW
  <1>6. LineasJ(j)' = LineasJ(j)  BY DEF LineasJ, LineasW
  <1> QED  BY <1>1, <1>2, <1>3, <1>4, <1>5, <1>6 DEF TempBien

LEMMA TransformacionTemp ==
  ASSUME Igualdad, SonBloques, NEW j \in Jobs, NEW w \in Workers, NEW i \in DOMAIN bloques[j][w],
         iniciarTransformacion(j, w, i), TempBien(j), j \notin tocado'
  PROVE  TempBien(j)'
  <1> DEFINE n == T(j, w, i)
             b == bloques[j][w][i]
  <1>0. bloques' = bloques /\ ~Esta(n)  BY DEF iniciarTransformacion, fijas
  <1>1. b \in Seq(Lineas)
    <2>1. bloques[j][w] \in Seq(Seq(Lineas))  BY DEF SonBloques
    <2> QED  BY <2>1
  <1>2. Sube(Transformar(b)) /\ ToSet(Transformar(b)) = Lineas1(b)
    BY <1>1, TransformarEs DEF Lineas1
  <1>3. CASE archivos' = archivos
    BY <1>0, <1>3, TempSigue DEF Intactos, Esta
  <1>4. CASE Escribe(n, Transformar(b))
    <2>1. /\ n[2] = j /\ \A v, k : n = T(j, v, k) => v = w /\ k = i
          /\ \A v : n # RL(j, v) /\ n # Copia(j, v)
          /\ n # RG(j)
      BY NombresSon, NombresDistintos
    <2> DEFINE s == Transformar(b)
    <2>2. \A v \in Workers : \A k \in DOMAIN bloques[j][v] :
            n = T(j, v, k) => Sube(s) /\ ToSet(s) = Lineas1(bloques[j][v][k])
      BY <1>2, <2>1
    <2> HIDE DEF n, s, b
    <2> QED  BY <1>0, <1>4, <2>1, <2>2, TempMas DEF s
  <1> QED  BY <1>3, <1>4 DEF iniciarTransformacion, Mal, varsT

LEMMA ReduccionTemp ==
  ASSUME SonBloques, NEW j \in Jobs, NEW w \in Workers, iniciarReduccion(j, w), TempBien(j),
         j \notin tocado'
  PROVE  TempBien(j)'
  <1> DEFINE n == RL(j, w)
             B == bloques[j][w]
             t == [i \in DOMAIN B |-> archivos[T(j, w, i)]]
             s == Reducir(Aparear(t))
  <1>0. /\ bloques' = bloques /\ ~Esta(n) /\ B # <<>> /\ \A i \in DOMAIN B : Esta(T(j, w, i))
    BY DEF iniciarReduccion, fijas
  <1>1. CASE archivos' = archivos
    BY <1>0, <1>1, TempSigue DEF Intactos, Esta
  <1>2. CASE Escribe(n, s)
    <2>1. B \in Seq(Seq(Lineas))  BY DEF SonBloques
    <2>2. \A i \in DOMAIN B : Sube(t[i]) /\ ToSet(t[i]) = Lineas1(B[i])  BY <1>0 DEF TempBien
    <2>3. /\ Len(B) \in Nat /\ DOMAIN B = 1..Len(B) /\ DOMAIN t = 1..Len(B) /\ Len(B) # 0
      BY <1>0, <2>1
    <2>4. t \in Seq(Seq(Nat)) /\ t # <<>>
      <3>1. \A i \in DOMAIN B : archivos[T(j, w, i)] \in Seq(Nat)  BY <2>2 DEF Sube
      <3>2. t \in Seq(Seq(Nat)) /\ Len(t) = Len(B)  BY <2>3, <3>1
      <3> QED  BY <2>3, <3>2
    <2> HIDE DEF t
    <2>5. /\ Sube(Aparear(t)) /\ ToSet(Aparear(t)) = UNION {ToSet(t[i]) : i \in DOMAIN t}
      BY <2>2, <2>3, <2>4, AparearEs
    <2>6. Crece(s) /\ ToSet(s) = UNION {ToSet(t[i]) : i \in DOMAIN t}  BY <2>5, ReducirEs
    <2>7. UNION {ToSet(t[i]) : i \in DOMAIN t} = LineasW(j, w)
      BY <2>2, <2>3 DEF LineasW
    <2>8. /\ n[2] = j /\ \A v : n = RL(j, v) => v = w
          /\ \A v, k : n # T(j, v, k)
          /\ \A v : n # Copia(j, v)
          /\ n # RG(j)
      BY NombresSon, NombresDistintos
    <2>9. \A v \in Workers : n = RL(j, v) => Crece(s) /\ ToSet(s) = LineasW(j, v)
      BY <2>6, <2>7, <2>8
    <2> HIDE DEF n, s, B
    <2> QED  BY <1>0, <1>2, <2>8, <2>9, TempMas
  <1> QED  BY <1>1, <1>2 DEF iniciarReduccion, Mal, varsT

LEMMA GuardaTemp ==
  ASSUME NEW j \in Jobs, NEW w \in Workers, NEW s, Guarda(j, w, s), Esta(RL(j, w)), ~Esta(Copia(j, w)),
         bloques' = bloques, TempBien(j), j \notin tocado'
  PROVE  TempBien(j)'
  <1> DEFINE n == Copia(j, w)
  <1>1. Escribe(n, s) /\ s = archivos[RL(j, w)]  BY DEF Guarda
  <1>2. /\ n[2] = j /\ \A v : n = Copia(j, v) => v = w
        /\ \A v, k : n # T(j, v, k)
        /\ \A v : n # RL(j, v)
        /\ n # RG(j)
    BY NombresSon, NombresDistintos
  <1>3. \A v \in Workers : n = Copia(j, v) => Esta(RL(j, v)) /\ s = archivos[RL(j, v)]
    BY <1>1, <1>2
  <1>4. ~Esta(n)  OBVIOUS
  <1> HIDE DEF n
  <1> QED  BY <1>1, <1>2, <1>3, <1>4, TempMas

LEMMA GlobalTemp ==
  ASSUME SonBloques, NEW j \in Jobs, encargado[j] \in De(j), iniciarGlobal(j), TempBien(j),
         j \notin tocado'
  PROVE  TempBien(j)'
  <1> DEFINE n == RG(j)
             e == encargado[j]
             O == SetToSeq(Otros(j))
             r == <<archivos[RL(j, e)]>>
             c == [i \in DOMAIN O |-> archivos[Copia(j, O[i])]]
             t == r \o c
             s == Reducir(Aparear(t))
  <1>0. /\ bloques' = bloques /\ (\A w \in De(j) : Esta(RL(j, w)))
        /\ \A w \in Otros(j) : Esta(Copia(j, w))
    BY DEF iniciarGlobal, fijas, Reducidos
  <1>1. CASE archivos' = archivos
    BY <1>0, <1>1, TempSigue DEF Intactos, Esta
  <1>2. CASE Escribe(n, s)
    <2>1. De(j) \subseteq Workers /\ Otros(j) \subseteq De(j) /\ De(j) = {e} \cup Otros(j)
      BY DEF De, Otros
    <2>2. IsFiniteSet(Otros(j))  BY <2>1, SupuestoWorker, FS_Subset
    <2>3. O \in Seq(Otros(j)) /\ \A w \in Otros(j) : \E i \in DOMAIN O : O[i] = w
      BY <2>2, SetToSeqEs
    <2> HIDE DEF O, e
    <2>4. Len(O) \in Nat /\ DOMAIN O = 1..Len(O) /\ \A i \in DOMAIN O : O[i] \in Otros(j)
      BY <2>3
    <2>5. \A w \in De(j) : Crece(archivos[RL(j, w)]) /\ ToSet(archivos[RL(j, w)]) = LineasW(j, w)
      BY <1>0, <2>1 DEF TempBien
    <2>6. \A w \in Otros(j) : archivos[Copia(j, w)] = archivos[RL(j, w)]
      BY <1>0, <2>1 DEF TempBien
    <2>7. /\ Crece(archivos[RL(j, e)]) /\ ToSet(archivos[RL(j, e)]) = LineasW(j, e)
      BY <2>1, <2>5
    <2>8. \A i \in DOMAIN O : /\ c[i] = archivos[RL(j, O[i])]
                              /\ Crece(c[i]) /\ ToSet(c[i]) = LineasW(j, O[i])
      BY <2>1, <2>4, <2>5, <2>6
    <2>9. r \in Seq(Seq(Nat)) /\ Len(r) = 1 /\ r[1] = archivos[RL(j, e)]  BY <2>7 DEF Crece
    <2>10. c \in Seq(Seq(Nat)) /\ Len(c) = Len(O)
      <3>1. \A i \in DOMAIN O : archivos[Copia(j, O[i])] \in Seq(Nat)  BY <2>8 DEF Crece
      <3> QED  BY <2>4, <3>1
    <2> HIDE DEF r, c
    <2>11. /\ t \in Seq(Seq(Nat)) /\ Len(t) = 1 + Len(O)
           /\ \A i \in 1..(1 + Len(O)) : t[i] = IF i <= 1 THEN r[i] ELSE c[i - 1]
      <3> DEFINE S == Seq(Nat)
      <3>1. r \in Seq(S) /\ c \in Seq(S)  BY <2>9, <2>10
      <3> HIDE DEF S
      <3>2. /\ r \o c \in Seq(S) /\ Len(r \o c) = Len(r) + Len(c)
            /\ \A i \in 1..(Len(r) + Len(c)) :
                 (r \o c)[i] = IF i <= Len(r) THEN r[i] ELSE c[i - Len(r)]
        BY <3>1, JuntaEs
      <3> QED  BY <2>9, <2>10, <3>2 DEF S
    <2> HIDE DEF t
    <2>12. t # <<>> /\ DOMAIN t = 1..(1 + Len(O))  BY <2>4, <2>11
    <2>13. t[1] = archivos[RL(j, e)] /\ \A i \in DOMAIN O : i + 1 \in DOMAIN t /\ t[i + 1] = c[i]
      <3>1. 1 \in 1..(1 + Len(O)) /\ 1 <= 1  BY <2>4
      <3>2. t[1] = r[1]  BY <2>11, <3>1
      <3>3. ASSUME NEW i \in DOMAIN O PROVE i + 1 \in DOMAIN t /\ t[i + 1] = c[i]
        <4>1. i + 1 \in 1..(1 + Len(O)) /\ ~ (i + 1 <= 1) /\ (i + 1) - 1 = i  BY <2>4
        <4> QED  BY <2>11, <2>12, <4>1
      <3> QED  BY <2>9, <3>2, <3>3
    <2>14. \A k \in DOMAIN t : k = 1 \/ \E i \in DOMAIN O : k = i + 1
      <3> TAKE k \in DOMAIN t
      <3>1. k # 1 => k - 1 \in DOMAIN O /\ k = (k - 1) + 1  BY <2>4, <2>12
      <3> QED  BY <3>1
    <2>15. \A k \in DOMAIN t : Sube(t[k])
      <3>1. \A x : Crece(x) => Sube(x)  BY CreceSube
      <3> QED  BY <2>7, <2>8, <2>13, <2>14, <3>1
    <2>16. /\ Sube(Aparear(t)) /\ ToSet(Aparear(t)) = UNION {ToSet(t[i]) : i \in DOMAIN t}
      BY <2>11, <2>12, <2>15, AparearEs
    <2>17. Crece(s) /\ ToSet(s) = UNION {ToSet(t[i]) : i \in DOMAIN t}  BY <2>16, ReducirEs
    <2>18. \A x : x \in UNION {ToSet(t[i]) : i \in DOMAIN t} <=>
                    \E w \in De(j) : x \in LineasW(j, w)
      <3> TAKE x
      <3>1. ASSUME NEW k \in DOMAIN t, x \in ToSet(t[k]) PROVE \E w \in De(j) : x \in LineasW(j, w)
        <4>1. CASE k = 1  BY <2>1, <2>7, <2>13, <3>1, <4>1
        <4>2. CASE k # 1
          <5>1. PICK i \in DOMAIN O : k = i + 1  BY <2>14, <4>2
          <5>2. x \in LineasW(j, O[i]) /\ O[i] \in De(j)  BY <2>1, <2>4, <2>8, <2>13, <3>1, <5>1
          <5> QED  BY <5>2
        <4> QED  BY <4>1, <4>2
      <3>2. ASSUME NEW w \in De(j), x \in LineasW(j, w) PROVE \E k \in DOMAIN t : x \in ToSet(t[k])
        <4>1. CASE w = e
          <5>1. 1 \in DOMAIN t  BY <2>4, <2>12
          <5> QED  BY <2>7, <2>13, <3>2, <4>1, <5>1
        <4>2. CASE w # e
          <5>1. PICK i \in DOMAIN O : O[i] = w  BY <2>1, <2>3, <4>2
          <5> QED  BY <2>8, <2>13, <3>2, <5>1
        <4> QED  BY <4>1, <4>2
      <3> QED  BY <3>1, <3>2
    <2>19. \A x : x \in LineasJ(j) <=>
                    \E w \in De(j) : x \in LineasW(j, w)
      <3>1. ASSUME NEW w \in Workers, NEW x \in LineasW(j, w) PROVE w \in De(j)
        <4>1. bloques[j][w] # <<>>
          <5>1. PICK i \in DOMAIN bloques[j][w] : TRUE  BY <3>1 DEF LineasW
          <5>2. DOMAIN <<>> = {}  BY SMT
          <5> QED  BY <5>1, <5>2
        <4> QED  BY <4>1 DEF De
      <3> QED  BY <2>1, <3>1 DEF LineasJ
    <2>20. ToSet(s) = LineasJ(j)  BY <2>17, <2>18, <2>19
    <2>21. /\ n[2] = j
           /\ \A v, k : n # T(j, v, k)
           /\ \A v : n # RL(j, v) /\ n # Copia(j, v)
      BY NombresSon, NombresDistintos
    <2> HIDE DEF s
    <2>22. n = RG(j) => Crece(s) /\ ToSet(s) = LineasJ(j)  BY <2>17, <2>20
    <2>23. Esta(n) => n = RG(j)  OBVIOUS
    <2> HIDE DEF n
    <2> QED  BY <1>0, <1>2, <2>21, <2>22, <2>23, TempMas
  <1> QED  BY <1>1, <1>2 DEF iniciarGlobal, Mal, varsT
-----------------------------------------------------------------------------
(* The steps                                                               *)

LEMMA InicioF ==
  ASSUME Init
  PROVE  InvF
  <1>1. InvW  BY InicioW
  <1>2. SonBloques  BY SupuestoWorker DEF Init, SonBloques
  <1>3. encargado \in [Jobs -> Workers] /\ \A j \in Jobs : encargado[j] \in De(j)  BY DEF Init
  <1>4. \A x : ~Esta(x)
    <2>1. DOMAIN <<>> = {}  BY SMT
    <2> QED  BY <2>1 DEF Init, Esta
  <1>5. PasosBien  BY DEF Init, PasosBien
  <1>6. DeSuWorker
    <2>1. DOMAIN <<>> = {}  BY SMT
    <2> QED  BY <2>1 DEF Init, DeSuWorker
  <1>7. \A j \in Jobs : RespuestaBien(j)
    <2>1. Nulo # "status"  BY SupuestoNulo
    <2> QED  BY <2>1 DEF Init, RespuestaBien
  <1>8. \A j \in Jobs : TempBien(j)  BY <1>4 DEF TempBien
  <1> QED  BY <1>1, <1>2, <1>3, <1>5, <1>6, <1>7, <1>8 DEF InvF

LEMMA FijasSiguen ==
  ASSUME InvF, UNCHANGED fijas
  PROVE  /\ bloques' = bloques /\ encargado' = encargado
         /\ SonBloques' /\ \A j \in Jobs : encargado'[j] \in De(j)'
  <1>1. bloques' = bloques /\ encargado' = encargado  BY DEF fijas
  <1> QED  BY <1>1 DEF InvF, SonBloques, De

\* Where the temporaries do not change, what they are does not change.
LEMMA TemporalesSiguen ==
  ASSUME InvF, UNCHANGED fijas, archivos' = archivos, tocado \subseteq tocado'
  PROVE  \A j \in Jobs : Igualdad /\ j \notin tocado' => TempBien(j)'
  <1> SUFFICES ASSUME NEW j \in Jobs, Igualdad, j \notin tocado' PROVE TempBien(j)'  OBVIOUS
  <1>1. TempBien(j) /\ bloques' = bloques  BY FijasSiguen DEF InvF
  <1>2. Intactos(j)  BY DEF Intactos, Esta
  <1> QED  BY <1>1, <1>2, TempSigue

\* What an operation before the storage does besides.
LEMMA OperacionHace ==
  ASSUME NEW j \in Jobs, paso \in [Jobs -> {"mapa", "global", "almacena", "bien", "mal", "espera"}],
         NEW w \in Workers,
         (\E i \in DOMAIN bloques[j][w] : iniciarTransformacion(j, w, i))
           \/ iniciarReduccion(j, w) \/ pedirArchivo(j, w) \/ iniciarGlobal(j)
  PROVE  /\ UNCHANGED <<fijas, vivos, varsH, varsF>> /\ paso[j] = "mapa" /\ tocado \subseteq tocado'
         /\ paso'[j] \in {"mapa", "global", "mal", "espera"}
         /\ \A i \in Jobs : i # j => paso'[i] = paso[i] /\ Intactos(i)
         /\ paso'[j] = "global" => Esta(RG(j))'
  <1>0. \A i \in Jobs : archivos' = archivos => Intactos(i)  BY DEF Intactos, Esta
  <1>1. ASSUME NEW i \in DOMAIN bloques[j][w], iniciarTransformacion(j, w, i)
        PROVE  /\ paso[j] = "mapa" /\ tocado \subseteq tocado'
               /\ paso'[j] \in {"mapa", "mal"}
               /\ \A k \in Jobs : k # j => paso'[k] = paso[k] /\ Intactos(k)
    <2>1. CASE Mal(j)  BY <1>0, <1>1, <2>1 DEF iniciarTransformacion, Mal, varsT
    <2>2. CASE \E s : Escribe(T(j, w, i), s) /\ paso' = paso /\ tocado \subseteq tocado'
      <3>1. PICK s : Escribe(T(j, w, i), s)  BY <2>2
      <3>2. \A k \in Jobs : k # j => Intactos(k)  BY <3>1, NombresSon, OtrosIntactos
      <3> QED  BY <1>1, <2>2, <3>2 DEF iniciarTransformacion
    <2> QED  BY <1>1, <2>1, <2>2 DEF iniciarTransformacion
  <1>2. ASSUME iniciarReduccion(j, w)
        PROVE  /\ paso[j] = "mapa" /\ tocado \subseteq tocado'
               /\ paso'[j] \in {"mapa", "mal", "espera"}
               /\ \A k \in Jobs : k # j => paso'[k] = paso[k] /\ Intactos(k)
    <2>1. CASE archivos' = archivos
      BY <1>0, <1>2, <2>1 DEF iniciarReduccion, Mal, varsT
    <2>2. CASE \E s : Escribe(RL(j, w), s) /\ paso' = paso /\ tocado \subseteq tocado'
      <3>1. PICK s : Escribe(RL(j, w), s)  BY <2>2
      <3>2. \A k \in Jobs : k # j => Intactos(k)  BY <3>1, NombresSon, OtrosIntactos
      <3> QED  BY <1>2, <2>2, <3>2 DEF iniciarReduccion
    <2> QED  BY <1>2, <2>1, <2>2 DEF iniciarReduccion, Mal, varsT
  <1>3. ASSUME pedirArchivo(j, w)
        PROVE  /\ paso[j] = "mapa" /\ tocado \subseteq tocado'
               /\ paso'[j] \in {"mapa", "mal"}
               /\ \A k \in Jobs : k # j => paso'[k] = paso[k] /\ Intactos(k)
    <2>0. paso[j] = "mapa"  BY <1>3 DEF pedirArchivo, Reducidos
    <2>1. CASE Mal(j)  BY <1>0, <2>0, <2>1 DEF Mal, varsT
    <2>2. CASE \E s : Guarda(j, w, s) /\ paso' = paso
      <3>1. PICK s : Guarda(j, w, s)  BY <2>2
      <3>2. Escribe(Copia(j, w), s) /\ tocado \subseteq tocado'  BY <3>1 DEF Guarda
      <3>3. \A k \in Jobs : k # j => Intactos(k)  BY <3>2, NombresSon, OtrosIntactos
      <3> QED  BY <2>0, <2>2, <3>2, <3>3
    <2> QED  BY <1>3, <2>1, <2>2 DEF pedirArchivo
  <1>4. ASSUME iniciarGlobal(j)
        PROVE  /\ paso[j] = "mapa" /\ tocado \subseteq tocado'
               /\ paso'[j] \in {"global", "mal"} /\ (paso'[j] = "global" => Esta(RG(j))')
               /\ \A k \in Jobs : k # j => paso'[k] = paso[k] /\ Intactos(k)
    <2>0. paso[j] = "mapa"  BY <1>4 DEF iniciarGlobal, Reducidos
    <2>1. CASE Mal(j)  BY <1>0, <2>0, <2>1 DEF Mal, varsT
    <2>2. CASE \E s : Escribe(RG(j), s) /\ paso' = [paso EXCEPT ![j] = "global"] /\ tocado' = tocado
      <3>1. PICK s : Escribe(RG(j), s)  BY <2>2
      <3>2. \A k \in Jobs : k # j => Intactos(k)  BY <3>1, NombresSon, OtrosIntactos
      <3>3. Esta(RG(j))'  BY <3>1, EscribeEs
      <3> QED  BY <2>0, <2>2, <3>2, <3>3
    <2> QED  BY <1>4, <2>1, <2>2 DEF iniciarGlobal
  <1>5. UNCHANGED <<fijas, vivos, varsH, varsF>>
    BY DEF iniciarTransformacion, iniciarReduccion, pedirArchivo, iniciarGlobal
  <1> QED  BY <1>1, <1>2, <1>3, <1>4, <1>5

LEMMA PasoTipo ==
  ASSUME InvF
  PROVE  /\ paso \in [Jobs -> {"mapa", "global", "almacena", "bien", "mal", "espera"}]
         /\ hijo \in [Jobs -> ToSet(Partes) \cup {"status", Nulo}]
         /\ encargado \in [Jobs -> Workers]
         /\ estados \in [Workers -> Seq({0, -1})] /\ Nulo # "status"
         /\ canal \in [Workers -> Seq([job : Jobs, parte : ToSet(Partes)])]
         /\ revuelto \subseteq Workers /\ vivos \subseteq Workers /\ fs \in {"vivo", "caido"}
         /\ leyendo \in Lecturas \cup {Nulo}
  BY SupuestoNulo DEF InvF, InvW, TiposW, TypeOKWorker

LEMMA MensajeDeJob ==
  ASSUME InvF, NEW w \in Workers, NEW i \in DOMAIN canal[w]
  PROVE  canal[w][i].job \in Jobs
  <1> DEFINE M == [job : Jobs, parte : ToSet(Partes)]
  <1>1. canal[w] \in Seq(M)  BY PasoTipo
  <1>2. canal[w][i] \in M
    <2> HIDE DEF M
    <2> QED  BY <1>1
  <1> QED  BY <1>2

\* The file of a job that is being stored, or is stored, is not written again.
LEMMA RGSigue ==
  ASSUME InvF, NEW i \in Jobs, Intactos(i), paso[i] \in {"global", "almacena", "bien"}
  PROVE  Esta(RG(i))' /\ archivos'[RG(i)] = archivos[RG(i)]
  <1>1. Esta(RG(i))  BY DEF InvF, PasosBien
  <1>2. RG(i)[2] = i  BY NombresSon
  <1> QED  BY <1>1, <1>2 DEF Intactos

LEMMA OperacionesF ==
  ASSUME InvF, InvW', NEW j \in Jobs, NEW w \in Workers,
         (\E i \in DOMAIN bloques[j][w] : iniciarTransformacion(j, w, i))
           \/ iniciarReduccion(j, w) \/ pedirArchivo(j, w) \/ iniciarGlobal(j)
  PROVE  InvF'
  <1>t. /\ paso \in [Jobs -> {"mapa", "global", "almacena", "bien", "mal", "espera"}]
        /\ Nulo # "status"
    BY PasoTipo
  <1>0. /\ UNCHANGED <<fijas, vivos, varsH, varsF>> /\ paso[j] = "mapa" /\ tocado \subseteq tocado'
        /\ paso'[j] \in {"mapa", "global", "mal", "espera"}
        /\ \A i \in Jobs : i # j => paso'[i] = paso[i] /\ Intactos(i)
        /\ paso'[j] = "global" => Esta(RG(j))'
    BY <1>t, OperacionHace
  <1>1. /\ bloques' = bloques /\ encargado' = encargado
        /\ SonBloques' /\ \A i \in Jobs : encargado'[i] \in De(i)'
    BY <1>0, FijasSiguen
  <1>2. /\ hijo' = hijo /\ canal' = canal /\ estados' = estados /\ revuelto' = revuelto
        /\ fs' = fs /\ leyendo' = leyendo /\ almacen' = almacen /\ vivos' = vivos
    BY <1>0 DEF varsH, varsF
  <1>3. hijo[j] = Nulo  BY <1>0 DEF InvF, PasosBien
  <1>4. PasosBien'
    <2> SUFFICES ASSUME NEW i \in Jobs
                 PROVE  /\ paso'[i] \in {"global", "almacena", "bien"} => Esta(RG(i))'
                        /\ hijo'[i] # Nulo <=> paso'[i] = "almacena"
      BY DEF PasosBien
    <2>1. CASE i = j  BY <1>0, <1>2, <1>3, <2>1
    <2>2. CASE i # j  BY <1>0, <1>2, <2>2, RGSigue DEF InvF, PasosBien
    <2> QED  BY <2>1, <2>2
  <1>5. DeSuWorker'
    <2>1. \A i \in Jobs : paso[i] = "mal" => paso'[i] = "mal"  BY <1>0
    <2>2. \A v \in Workers : \A i \in DOMAIN canal[v] : canal[v][i].job \in Jobs
      BY MensajeDeJob
    <2>3. leyendo # Nulo /\ leyendo.parte # "perdida" => leyendo.job \in Jobs
      BY PasoTipo DEF Lecturas
    <2> QED  BY <1>1, <1>2, <2>1, <2>2, <2>3 DEF InvF, DeSuWorker
  <1>6. ASSUME NEW i \in Jobs PROVE RespuestaBien(i)'
    <2>1. CASE i = j  BY <1>0, <1>2, <1>3, <1>t, <2>1 DEF RespuestaBien
    <2>2. CASE i # j
      <3>1. RespuestaBien(i) /\ paso'[i] = paso[i]  BY <1>0, <2>2 DEF InvF
      <3>2. hijo[i] = "status" => paso[i] = "almacena"  BY <1>t DEF InvF, PasosBien
      <3>3. paso[i] \in {"almacena", "bien"} => archivos'[RG(i)] = archivos[RG(i)]
        BY <1>0, <2>2, RGSigue
      <3> QED  BY <1>0, <1>1, <1>2, <3>1, <3>2, <3>3 DEF RespuestaBien, Guardada
    <2> QED  BY <2>1, <2>2
  <1>7. ASSUME NEW i \in Jobs, Igualdad, i \notin tocado' PROVE TempBien(i)'
    <2>0. TempBien(i) /\ SonBloques /\ encargado[i] \in De(i)  BY <1>0, <1>7 DEF InvF
    <2>1. CASE i # j  BY <1>0, <1>1, <2>0, <2>1, TempSigue
    <2>2. CASE i = j
      <3>1. CASE \E k \in DOMAIN bloques[j][w] : iniciarTransformacion(j, w, k)
        BY <1>7, <2>0, <2>2, <3>1, TransformacionTemp
      <3>2. CASE iniciarReduccion(j, w)  BY <1>7, <2>0, <2>2, <3>2, ReduccionTemp
      <3>3. CASE pedirArchivo(j, w)
        <4>1. Esta(RL(j, w)) /\ ~Esta(Copia(j, w))  BY <3>3 DEF pedirArchivo, Reducidos, Otros
        <4>2. CASE Mal(j)
          <5>1. archivos' = archivos  BY <4>2 DEF Mal, varsT
          <5> QED  BY <1>0, <1>7, <5>1, TemporalesSiguen
        <4>3. CASE \E s : Guarda(j, w, s)
          <5>1. PICK s : Guarda(j, w, s)  BY <4>3
          <5> QED  BY <1>1, <1>7, <2>0, <2>2, <4>1, <5>1, GuardaTemp
        <4> QED  BY <3>3, <4>2, <4>3 DEF pedirArchivo
      <3>4. CASE iniciarGlobal(j)  BY <1>7, <2>0, <2>2, <3>4, GlobalTemp
      <3> QED  BY <3>1, <3>2, <3>3, <3>4
    <2> QED  BY <2>1, <2>2
  <1> QED  BY <1>1, <1>4, <1>5, <1>6, <1>7 DEF InvF

\* In a Worker that runs and where storages did not overlap, what is on its way is of its child.
LEMMA EnCaminoDelHijo ==
  ASSUME InvW, NEW w \in vivos \ revuelto, fs = "vivo"
  PROVE  /\ \A i \in DOMAIN canal[w] : canal[w][i].job \in DelWorker(w)
         /\ Lee(w) => leyendo.job \in DelWorker(w)
  <1>1. w \in Workers \ revuelto  BY DEF InvW, TiposW, TypeOKWorker
  <1>2. PICK j \in Jobs \cup {Nulo}, r \in 0..4, k \in 0..4 :
               r <= k /\ Puesto(w, j, r, k) /\ Turno(w, j, r, k)
    BY <1>1 DEF InvW, EnRegla
  <1>3. canal[w] \in Seq([job : Jobs, parte : ToSet(Partes)])  BY <1>1 DEF InvW, TiposW
  <1>4. DOMAIN canal[w] = 1..(k - r)  BY <1>2, <1>3 DEF Puesto
  <1>5. \A i \in 1..(k - r) : canal[w][i].job = j
    <2> TAKE i \in 1..(k - r)
    <2>1. canal[w][i] = [job |-> j, parte |-> Partes[r + i]]  BY <1>2 DEF Puesto
    <2> QED  BY <2>1
  <1>6. Lee(w) => r \in 1..3 /\ leyendo.job = j  BY <1>2 DEF Puesto
  <1>7. CASE DelWorker(w) = {}
    <2>1. r = k /\ r \in {0, 4}  BY <1>2, <1>7 DEF Turno
    <2> QED  BY <1>4, <1>6, <2>1
  <1>8. CASE DelWorker(w) # {}
    <2>1. DelWorker(w) = {j}  BY <1>2, <1>8 DEF Turno
    <2> QED  BY <1>4, <1>5, <1>6, <2>1
  <1> QED  BY <1>7, <1>8

\* A Worker is lost: w, with what archivoCortado writes before.
LEMMA PierdeF ==
  ASSUME InvF, InvW', NEW w \in Workers, Pierde(w), tocado \subseteq tocado',
         \A i \in Jobs : Esta(RG(i)) => Esta(RG(i))' /\ archivos'[RG(i)] = archivos[RG(i)],
         \A i \in Jobs : Igualdad /\ i \notin tocado' => TempBien(i)'
  PROVE  InvF'
  <1>t. /\ paso \in [Jobs -> {"mapa", "global", "almacena", "bien", "mal", "espera"}]
        /\ hijo \in [Jobs -> ToSet(Partes) \cup {"status", Nulo}] /\ encargado \in [Jobs -> Workers]
        /\ canal \in [Workers -> Seq([job : Jobs, parte : ToSet(Partes)])] /\ Nulo # "status"
        /\ leyendo \in Lecturas \cup {Nulo} /\ fs \in {"vivo", "caido"}
    BY PasoTipo
  <1>0. /\ w \in vivos /\ vivos' = vivos \ {w} /\ estados' = estados /\ revuelto' = revuelto
        /\ fs' = fs /\ leyendo' = leyendo /\ almacen' = almacen /\ UNCHANGED fijas
        /\ paso' = [j \in Jobs |-> IF hijo[j] # Nulo /\ encargado[j] = w THEN "mal" ELSE paso[j]]
        /\ hijo' = [j \in Jobs |-> IF encargado[j] = w THEN Nulo ELSE hijo[j]]
    BY DEF Pierde, varsF
  <1>1. /\ bloques' = bloques /\ encargado' = encargado
        /\ SonBloques' /\ \A i \in Jobs : encargado'[i] \in De(i)'
    BY <1>0, FijasSiguen
  <1>2. PasosBien'
    <2> SUFFICES ASSUME NEW i \in Jobs
                 PROVE  /\ paso'[i] \in {"global", "almacena", "bien"} => Esta(RG(i))'
                        /\ hijo'[i] # Nulo <=> paso'[i] = "almacena"
      BY DEF PasosBien
    <2>1. /\ paso[i] \in {"global", "almacena", "bien"} => Esta(RG(i))
          /\ hijo[i] # Nulo <=> paso[i] = "almacena"
      BY DEF InvF, PasosBien
    <2> QED  BY <1>0, <2>1
  <1>3. \A i \in Jobs : paso[i] = "mal" \/ i \in DelWorker(w) => paso'[i] = "mal"
    BY <1>0 DEF DelWorker
  <1>4. PICK n \in 0..Len(canal[w]) : canal' = [canal EXCEPT ![w] = SubSeq(@, 1, n)]
    BY DEF Pierde
  <1>5. /\ \A v \in Workers : v # w => canal'[v] = canal[v]
        /\ \A i \in DOMAIN canal'[w] : i \in DOMAIN canal[w] /\ canal'[w][i] = canal[w][i]
    <2> DEFINE M == [job : Jobs, parte : ToSet(Partes)]
               c == canal[w]
    <2>1. canal'[w] = SubSeq(c, 1, n) /\ c \in Seq(M)  BY <1>4, <1>t
    <2> HIDE DEF M, c
    <2>2. \A i \in DOMAIN SubSeq(c, 1, n) : i \in DOMAIN c /\ SubSeq(c, 1, n)[i] = c[i]
      <3>1. n \in Nat /\ n <= Len(c)  BY <1>4, <2>1 DEF c
      <3> QED  BY <2>1, <3>1
    <2>3. canal'[w] = SubSeq(c, 1, n) /\ c = canal[w]  BY <2>1 DEF c
    <2> QED  BY <1>4, <1>t, <2>2, <2>3
  <1>6. w \notin revuelto => \A i \in DOMAIN canal[w] : paso'[canal[w][i].job] = "mal"
    <2> SUFFICES ASSUME w \notin revuelto, NEW i \in DOMAIN canal[w]
                 PROVE  paso'[canal[w][i].job] = "mal"
      OBVIOUS
    <2>1. canal[w][i].job \in Jobs  BY MensajeDeJob
    <2>2. fs = "vivo"
      <3> SUFFICES ASSUME fs = "caido" PROVE FALSE  BY <1>t
      <3>1. canal[w] = <<>>  BY DEF InvF, InvW, Apagado
      <3>2. DOMAIN <<>> = {}  BY SMT
      <3> QED  BY <3>1, <3>2
    <2>3. canal[w][i].job \in DelWorker(w)  BY <1>0, <2>2, EnCaminoDelHijo DEF InvF
    <2> QED  BY <1>3, <2>1, <2>3
  <1>7. DeSuWorker'
    <2>1. ASSUME NEW v \in Workers, NEW i \in DOMAIN canal'[v]
          PROVE  /\ encargado'[canal'[v][i].job] = v
                 /\ v \notin revuelto' /\ v \notin vivos' => paso'[canal'[v][i].job] = "mal"
      <3>1. i \in DOMAIN canal[v] /\ canal'[v][i] = canal[v][i] /\ canal[v][i].job \in Jobs
        BY <1>5, <2>1, MensajeDeJob
      <3>2. /\ encargado[canal[v][i].job] = v
            /\ v \notin revuelto /\ v \notin vivos => paso[canal[v][i].job] = "mal"
        BY <3>1 DEF InvF, DeSuWorker
      <3> QED  BY <1>0, <1>1, <1>3, <1>6, <3>1, <3>2
    <2>2. ASSUME leyendo # Nulo, leyendo.parte # "perdida"
          PROVE  /\ encargado[leyendo.job] = leyendo.worker
                 /\ leyendo.worker \notin revuelto /\ leyendo.worker \notin vivos' =>
                      paso'[leyendo.job] = "mal"
      <3>1. leyendo.job \in Jobs  BY <1>t, <2>2 DEF Lecturas
      <3>2. /\ encargado[leyendo.job] = leyendo.worker
            /\ leyendo.worker \notin revuelto /\ leyendo.worker \notin vivos =>
                 paso[leyendo.job] = "mal"
        BY <2>2 DEF InvF, DeSuWorker
      <3>3. CASE leyendo.worker = w /\ w \notin revuelto
        <4>1. fs = "vivo"  BY <1>t, <2>2 DEF InvF, InvW, Apagado
        <4>2. leyendo.job \in DelWorker(w)
          BY <1>0, <2>2, <3>3, <4>1, EnCaminoDelHijo DEF InvF, Lee
        <4> QED  BY <1>3, <3>1, <3>2, <4>2
      <3> QED  BY <1>0, <1>3, <3>1, <3>2, <3>3
    <2> QED  BY <1>0, <1>1, <2>1, <2>2 DEF DeSuWorker
  <1>8. ASSUME NEW i \in Jobs PROVE RespuestaBien(i)'
    <2>0. RespuestaBien(i) /\ (hijo[i] # Nulo => paso[i] = "almacena")  BY DEF InvF, PasosBien
    <2>1. /\ hijo'[i] = "status" => hijo[i] = "status" /\ paso[i] = "almacena"
          /\ paso'[i] = "bien" => paso[i] = "bien"
      BY <1>0, <1>t, <2>0
    <2>2. paso[i] \in {"almacena", "bien"} => archivos'[RG(i)] = archivos[RG(i)]
      BY DEF InvF, PasosBien
    <2> QED  BY <1>0, <1>1, <2>0, <2>1, <2>2 DEF RespuestaBien, Guardada
  <1> QED  BY <1>1, <1>2, <1>7, <1>8 DEF InvF

LEMMA FallosF ==
  ASSUME InvF, InvW', NEW w \in Workers, muere(w) \/ \E j \in Jobs : archivoCortado(j, w)
  PROVE  InvF'
  <1>1. CASE muere(w)
    <2>1. Pierde(w) /\ archivos' = archivos /\ tocado' = tocado  BY <1>1 DEF muere, varsT
    <2>2. UNCHANGED fijas  BY <2>1 DEF Pierde
    <2>3. \A i \in Jobs : Igualdad /\ i \notin tocado' => TempBien(i)'
      BY <2>1, <2>2, TemporalesSiguen
    <2> QED  BY <2>1, <2>3, PierdeF DEF Esta
  <1>2. CASE \E j \in Jobs : archivoCortado(j, w)
    <2>1. PICK j \in Jobs : archivoCortado(j, w)  BY <1>2
    <2>2. PICK s : Guarda(j, w, s)  BY <2>1 DEF archivoCortado
    <2>3. Pierde(w) /\ Esta(RL(j, w)) /\ ~Esta(Copia(j, w))
      BY <2>1 DEF archivoCortado, Reducidos, Otros
    <2>4. Escribe(Copia(j, w), s) /\ tocado \subseteq tocado'  BY <2>2 DEF Guarda
    <2>5. bloques' = bloques  BY <2>3 DEF Pierde, fijas
    <2>6. \A i \in Jobs : i # j => Intactos(i)  BY <2>4, NombresSon, OtrosIntactos
    <2>7. ASSUME NEW i \in Jobs, Igualdad, i \notin tocado' PROVE TempBien(i)'
      <3>1. TempBien(i)  BY <2>4, <2>7 DEF InvF
      <3>2. CASE i # j  BY <2>5, <2>6, <3>1, <3>2, TempSigue
      <3>3. CASE i = j  BY <2>2, <2>3, <2>5, <2>7, <3>1, <3>3, GuardaTemp
      <3> QED  BY <3>2, <3>3
    <2>8. ASSUME NEW i \in Jobs, Esta(RG(i))
          PROVE  Esta(RG(i))' /\ archivos'[RG(i)] = archivos[RG(i)]
      <3>1. RG(i) # Copia(j, w)
        <4>1. RG(i)[1] = "global" /\ Copia(j, w)[1] = "copia"  BY NombresSon
        <4> QED  BY <4>1
      <3> QED  BY <2>4, <2>8, <3>1, EscribeEs
    <2> QED  BY <2>3, <2>4, <2>7, <2>8, PierdeF
  <1> QED  BY <1>1, <1>2

LEMMA CaeF ==
  ASSUME InvF, InvW', Cae
  PROVE  InvF'
  <1>0. /\ fs' = "caido" /\ leyendo' = Nulo /\ canal' = [v \in Workers |-> <<>>]
        /\ UNCHANGED fijas /\ paso' = paso /\ archivos' = archivos /\ tocado' = tocado
        /\ hijo' = hijo
    BY DEF Cae, varsT
  <1>1. SonBloques' /\ \A i \in Jobs : encargado'[i] \in De(i)'  BY <1>0, FijasSiguen
  <1>2. PasosBien'  BY <1>0 DEF InvF, PasosBien, Esta
  <1>3. DeSuWorker'
    <2>1. DOMAIN <<>> = {}  BY SMT
    <2> QED  BY <1>0, <2>1 DEF DeSuWorker
  <1>4. \A i \in Jobs : RespuestaBien(i)'  BY <1>0 DEF RespuestaBien
  <1>5. \A i \in Jobs : Igualdad /\ i \notin tocado' => TempBien(i)'  BY <1>0, TemporalesSiguen
  <1> QED  BY <1>1, <1>2, <1>3, <1>4, <1>5 DEF InvF

\* A step of the storage of job j, by its Master or its child: what the FileSystem has stays
\* as it is, and what is on its way is only more of j.
LEMMA StorageF ==
  ASSUME InvF, InvW', NEW j \in Jobs, UNCHANGED <<fijas, vivos, varsT, varsF>>,
         revuelto \subseteq revuelto', paso[j] \in {"global", "almacena"},
         \A i \in Jobs : i # j => paso'[i] = paso[i] /\ hijo'[i] = hijo[i],
         paso'[j] \in {"almacena", "bien", "mal"}, hijo'[j] # Nulo <=> paso'[j] = "almacena",
         \A v \in Workers : \A i \in DOMAIN canal'[v] :
           \/ i \in DOMAIN canal[v] /\ canal'[v][i] = canal[v][i]
           \/ canal'[v][i].job = j /\ v = encargado[j] /\ v \in vivos,
         \A i \in Jobs : RespuestaBien(i)'
  PROVE  InvF'
  <1>0. /\ vivos' = vivos /\ tocado' = tocado /\ archivos' = archivos /\ leyendo' = leyendo
    BY DEF varsT, varsF
  <1>1. /\ bloques' = bloques /\ encargado' = encargado
        /\ SonBloques' /\ \A i \in Jobs : encargado'[i] \in De(i)'
    BY FijasSiguen
  <1>2. PasosBien'  BY <1>0 DEF InvF, PasosBien, Esta
  <1>3. \A i \in Jobs : paso[i] = "mal" => paso'[i] = "mal"  OBVIOUS
  <1>4. DeSuWorker'
    <2>1. ASSUME NEW v \in Workers, NEW i \in DOMAIN canal'[v]
          PROVE  /\ encargado[canal'[v][i].job] = v
                 /\ v \notin revuelto' /\ v \notin vivos => paso'[canal'[v][i].job] = "mal"
      <3>1. CASE i \in DOMAIN canal[v] /\ canal'[v][i] = canal[v][i]
        <4>1. canal[v][i].job \in Jobs  BY <3>1, MensajeDeJob
        <4>2. /\ encargado[canal[v][i].job] = v
              /\ v \notin revuelto /\ v \notin vivos => paso[canal[v][i].job] = "mal"
          BY <3>1 DEF InvF, DeSuWorker
        <4> QED  BY <1>3, <3>1, <4>1, <4>2
      <3>2. CASE canal'[v][i].job = j /\ v = encargado[j] /\ v \in vivos  BY <3>2
      <3> QED  BY <2>1, <3>1, <3>2
    <2>2. ASSUME leyendo # Nulo, leyendo.parte # "perdida"
          PROVE  /\ encargado[leyendo.job] = leyendo.worker
                 /\ leyendo.worker \notin revuelto' /\ leyendo.worker \notin vivos =>
                      paso'[leyendo.job] = "mal"
      <3>1. leyendo.job \in Jobs  BY <2>2, PasoTipo DEF Lecturas
      <3>2. /\ encargado[leyendo.job] = leyendo.worker
            /\ leyendo.worker \notin revuelto /\ leyendo.worker \notin vivos =>
                 paso[leyendo.job] = "mal"
        BY <2>2 DEF InvF, DeSuWorker
      <3> QED  BY <1>3, <3>1, <3>2
    <2> QED  BY <1>0, <1>1, <2>1, <2>2 DEF DeSuWorker
  <1>5. \A i \in Jobs : Igualdad /\ i \notin tocado' => TempBien(i)'  BY <1>0, TemporalesSiguen
  <1> QED  BY <1>1, <1>2, <1>4, <1>5 DEF InvF

\* Nothing that RespuestaBien(i) speaks of changes, but that more storages overlap.
LEMMA RespuestaSigue ==
  ASSUME InvF, NEW i \in Jobs, UNCHANGED <<fijas, archivos, fs, almacen>>, tocado \subseteq tocado',
         revuelto \subseteq revuelto', paso'[i] = paso[i], hijo'[i] = hijo[i],
         estados'[encargado[i]] = estados[encargado[i]]
  PROVE  RespuestaBien(i)'
  <1>1. encargado' = encargado  BY DEF fijas
  <1>2. RespuestaBien(i)  BY DEF InvF
  <1> QED  BY <1>1, <1>2 DEF RespuestaBien, Guardada

LEMMA AlmacenamientoF ==
  ASSUME InvF, InvW', NEW j \in Jobs, almacenamiento(j)
  PROVE  InvF'
  <1> DEFINE w == encargado[j]
  <1>t. /\ paso \in [Jobs -> {"mapa", "global", "almacena", "bien", "mal", "espera"}]
        /\ hijo \in [Jobs -> ToSet(Partes) \cup {"status", Nulo}] /\ Nulo # "status"
    BY PasoTipo
  <1>0. paso[j] = "global" /\ UNCHANGED <<fijas, vivos, varsF>>
        /\ canal' = canal /\ estados' = estados
    BY DEF almacenamiento, varsH
  <1>1. UNCHANGED varsT /\ archivos' = archivos /\ fs' = fs /\ almacen' = almacen /\ tocado' = tocado
    BY <1>0 DEF almacenamiento, Mal, varsT, varsF
  <1>2. hijo[j] = Nulo  BY <1>0 DEF InvF, PasosBien
  <1>3. /\ revuelto \subseteq revuelto'
        /\ \A i \in Jobs : i # j => paso'[i] = paso[i] /\ hijo'[i] = hijo[i]
        /\ paso'[j] \in {"almacena", "mal"} /\ (hijo'[j] # Nulo <=> paso'[j] = "almacena")
        /\ hijo'[j] # "status"
    <2>1. CASE w \in vivos
      <3>1. /\ paso' = [paso EXCEPT ![j] = "almacena"] /\ hijo' = [hijo EXCEPT ![j] = Partes[1]]
            /\ revuelto \subseteq revuelto'
        BY <2>1 DEF almacenamiento
      <3>2. Partes[1] # Nulo /\ Partes[1] # "status"  BY PartesSon, SupuestoNulo
      <3> QED  BY <1>t, <3>1, <3>2
    <2>2. CASE w \notin vivos
      <3>1. paso' = [paso EXCEPT ![j] = "mal"] /\ hijo' = hijo /\ revuelto' = revuelto
        BY <2>2 DEF almacenamiento, Mal, varsH
      <3> QED  BY <1>t, <1>2, <3>1
    <2> QED  BY <2>1, <2>2
  <1>4. \A i \in Jobs : i # j => RespuestaBien(i)'  BY <1>0, <1>1, <1>3, RespuestaSigue
  <1>5. RespuestaBien(j)'  BY <1>3 DEF RespuestaBien
  <1> QED  BY <1>0, <1>1, <1>3, <1>4, <1>5, StorageF

LEMMA EnviarF ==
  ASSUME InvF, InvW', NEW j \in Jobs, enviarParte(j)
  PROVE  InvF'
  <1> DEFINE w == encargado[j]
             m == [job |-> j, parte |-> hijo[j]]
             M == [job : Jobs, parte : ToSet(Partes)]
  <1>t. /\ paso \in [Jobs -> {"mapa", "global", "almacena", "bien", "mal", "espera"}]
        /\ hijo \in [Jobs -> ToSet(Partes) \cup {"status", Nulo}] /\ encargado \in [Jobs -> Workers]
        /\ canal \in [Workers -> Seq(M)] /\ Nulo # "status"
    BY PasoTipo
  <1>0. /\ UNCHANGED <<fijas, vivos, varsT, varsF>> /\ estados' = estados
        /\ hijo[j] \in ToSet(Partes)
        /\ archivos' = archivos /\ fs' = fs /\ almacen' = almacen /\ tocado' = tocado
        /\ revuelto \subseteq revuelto'
    BY DEF enviarParte, varsT, varsF
  <1>1. hijo[j] # Nulo /\ hijo[j] # "status" /\ paso[j] = "almacena" /\ w \in vivos
    <2>1. hijo[j] # Nulo /\ hijo[j] # "status"  BY <1>0, SupuestoNulo, PartesSon
    <2> QED  BY <2>1 DEF InvF, PasosBien, InvW, HijosDeVivos
  <1>2. PICK k \in 1..4 : hijo[j] = Partes[k]
    <2>1. PICK k \in DOMAIN Partes : hijo[j] = Partes[k]  BY <1>0 DEF ToSet
    <2> QED  BY <2>1, PartesSon
  <1>3. /\ \A i \in Jobs : i # j => paso'[i] = paso[i] /\ hijo'[i] = hijo[i]
        /\ paso'[j] \in {"almacena", "mal"} /\ (hijo'[j] # Nulo <=> paso'[j] = "almacena")
        /\ paso'[j] = "mal" => fs = "caido"
    <2>1. CASE fs = "caido" /\ Termina(j, "mal")  BY <1>t, <2>1 DEF Termina
    <2>2. CASE paso' = paso /\ \E h \in {"status", Tras(Partes, hijo[j])} :
                 hijo' = [hijo EXCEPT ![j] = h] /\ (h = "status" \/ hijo[j] # Last(Partes))
      <3>1. PICK h \in {"status", Tras(Partes, hijo[j])} :
                 hijo' = [hijo EXCEPT ![j] = h] /\ (h = "status" \/ hijo[j] # Last(Partes))
        BY <2>2
      <3>2. h # Nulo
        <4>1. CASE h = "status"  BY <1>t, <4>1
        <4>2. CASE h # "status"
          <5>1. k # 4 /\ h = Tras(Partes, Partes[k])  BY <1>2, <3>1, <4>2, PartesSon
          <5>2. k \in 1..3  BY <5>1
          <5>3. h \in {"nombre", "tamano", "datos"}  BY <5>1, <5>2, TrasEs
          <5> QED  BY <5>3, PartesSon, SupuestoNulo
        <4> QED  BY <4>1, <4>2
      <3> QED  BY <1>t, <1>1, <2>2, <3>1, <3>2
    <2> QED  BY <2>1, <2>2 DEF enviarParte
  <1>4. ASSUME NEW v \in Workers, NEW i \in DOMAIN canal'[v]
        PROVE  \/ i \in DOMAIN canal[v] /\ canal'[v][i] = canal[v][i]
               \/ canal'[v][i].job = j /\ v = encargado[j] /\ v \in vivos
    <2>1. CASE canal' = canal  BY <1>4, <2>1
    <2>2. CASE canal' = [canal EXCEPT ![w] = Append(@, m)]
      <3>1. CASE v # w  BY <1>4, <1>t, <2>2, <3>1
      <3>2. CASE v = w
        <4> DEFINE c == canal[w]
        <4>1. c \in Seq(M) /\ m \in M  BY <1>t, <1>0
        <4>2. canal'[v] = Append(c, m)  BY <1>t, <2>2, <3>2
        <4>3. m.job = j  OBVIOUS
        <4> HIDE DEF c, M, m
        <4>4. \A q \in DOMAIN Append(c, m) :
                (q \in DOMAIN c /\ Append(c, m)[q] = c[q]) \/ Append(c, m)[q] = m
          BY <4>1
        <4>5. (i \in DOMAIN c /\ canal'[v][i] = c[i]) \/ canal'[v][i] = m  BY <1>4, <4>2, <4>4
        <4> QED  BY <1>1, <3>2, <4>3, <4>5 DEF c
      <3> QED  BY <3>1, <3>2
    <2> QED  BY <2>1, <2>2 DEF enviarParte
  <1>5. \A i \in Jobs : i # j => RespuestaBien(i)'  BY <1>0, <1>3, RespuestaSigue
  <1>6. RespuestaBien(j)'
    <2> SUFFICES ASSUME fs = "vivo", w \notin revuelto PROVE estados[w] = <<>> /\ paso'[j] # "bien"
      <3>1. encargado' = encargado  BY <1>0 DEF fijas
      <3> QED  BY <1>0, <3>1 DEF RespuestaBien
    <2>1. PICK r \in 0..4, q \in 0..4 :
                 /\ r <= q /\ hijo[j] = (IF q < 4 THEN Partes[q + 1] ELSE "status")
                 /\ IF r < 4 THEN estados[w] = <<>> ELSE Len(estados[w]) = 1
      BY <1>1, SoloHijo DEF InvF
    <2>2. q < 4 /\ r < 4  BY <1>1, <2>1
    <2> QED  BY <1>3, <2>1, <2>2
  <1> QED  BY <1>0, <1>1, <1>3, <1>4, <1>5, <1>6, StorageF

LEMMA RecibirF ==
  ASSUME InvF, InvW', NEW j \in Jobs, recibirStatus(j)
  PROVE  InvF'
  <1> DEFINE w == encargado[j]
  <1>t. /\ paso \in [Jobs -> {"mapa", "global", "almacena", "bien", "mal", "espera"}]
        /\ hijo \in [Jobs -> ToSet(Partes) \cup {"status", Nulo}] /\ encargado \in [Jobs -> Workers]
        /\ estados \in [Workers -> Seq({0, -1})] /\ Nulo # "status"
    BY PasoTipo
  <1>0. /\ hijo[j] = "status" /\ UNCHANGED <<fijas, vivos, varsT, varsF>> /\ canal' = canal
        /\ revuelto' = revuelto /\ archivos' = archivos /\ fs' = fs /\ almacen' = almacen
        /\ tocado' = tocado
    BY DEF recibirStatus, varsT, varsF
  <1>1. paso[j] = "almacena"  BY <1>0, <1>t DEF InvF, PasosBien
  <1>2. PICK r \in {"bien", "mal"} :
          /\ Termina(j, r)
          /\ \/ /\ estados[w] # <<>> /\ estados' = [estados EXCEPT ![w] = Tail(@)]
                /\ Head(estados[w]) = 0 => r = "bien"
             \/ fs = "caido" /\ estados' = estados
    BY DEF recibirStatus
  <1>3. /\ \A i \in Jobs : i # j => paso'[i] = paso[i] /\ hijo'[i] = hijo[i]
        /\ paso'[j] = r /\ hijo'[j] = Nulo
    BY <1>2, <1>t DEF Termina
  <1>4. ASSUME NEW i \in Jobs, i # j PROVE RespuestaBien(i)'
    <2>1. CASE encargado[i] # w
      <3>1. estados'[encargado[i]] = estados[encargado[i]]  BY <1>2, <1>t, <2>1
      <3> QED  BY <1>0, <1>3, <1>4, <3>1, RespuestaSigue
    <2>2. CASE encargado[i] = w
      <3> SUFFICES ASSUME fs = "vivo", i \notin tocado, w \notin revuelto
                   PROVE  hijo[i] # "status" /\ (paso[i] = "bien" => Guardada(i))
        <4>1. encargado' = encargado  BY <1>0 DEF fijas
        <4> QED  BY <1>0, <1>3, <1>4, <2>2, <4>1 DEF RespuestaBien, Guardada
      <3>1. DelWorker(w) = {j}  BY <1>0, <1>t, SoloHijo DEF InvF
      <3>2. hijo[i] = Nulo  BY <1>4, <2>2, <3>1 DEF DelWorker
      <3>3. paso[i] = "bien" => Guardada(i)  BY <2>2 DEF InvF, RespuestaBien
      <3> QED  BY <1>t, <3>2, <3>3
    <2> QED  BY <2>1, <2>2
  <1>5. RespuestaBien(j)'
    <2> SUFFICES ASSUME fs = "vivo", j \notin tocado, w \notin revuelto, r = "bien"
                 PROVE  Guardada(j)
      <3>1. encargado' = encargado  BY <1>0 DEF fijas
      <3> QED  BY <1>0, <1>3, <1>t, <3>1 DEF RespuestaBien, Guardada
    <2>1. estados[w] # <<>>  BY <1>2
    <2> QED  BY <1>0, <2>1 DEF InvF, RespuestaBien
  <1>6. \A i \in Jobs : RespuestaBien(i)'  BY <1>4, <1>5
  <1> QED  BY <1>0, <1>1, <1>3, <1>6, StorageF

LEMMA GuardadoHace ==
  ASSUME InvF, NEW w \in Workers, NEW j \in Jobs, NEW s, Guardado(w, j, s)
  PROVE  /\ tocado \subseteq tocado' /\ \A v \in Workers : v # w => estados'[v] = estados[v]
         /\ \A i \in Jobs : i # j => /\ i \in DOMAIN almacen' <=> i \in DOMAIN almacen
                                     /\ i \in DOMAIN almacen => almacen'[i] = almacen[i]
         /\ \/ j \in DOMAIN almacen' /\ almacen'[j] = s /\ estados'[w] = Append(estados[w], 0)
            \/ j \in tocado'
  <1>1. estados \in [Workers -> Seq({0, -1})]  BY PasoTipo
  <1>2. CASE Almacena(j, s) /\ Contesta(w, 0) /\ UNCHANGED tocado
    BY <1>1, <1>2 DEF Almacena, Contesta
  <1>3. CASE Contesta(w, -1) /\ tocado' = tocado \cup {j} /\ UNCHANGED almacen
    BY <1>1, <1>3 DEF Contesta
  <1> QED  BY <1>2, <1>3 DEF Guardado

\* The FileSystem stores what w sent of a job of w: either all of it, for the child that waits,
\* or something else of a job whose Master knows that it failed, or in a Worker out of order.
LEMMA GuardadoF ==
  ASSUME InvF, NEW w \in Workers, NEW j \in Jobs, NEW s, Guardado(w, j, s), encargado[j] = w,
         UNCHANGED <<fijas, paso, archivos, hijo, revuelto, fs>>,
         w \notin revuelto => IF w \in vivos
                              THEN /\ s = archivos[RG(j)] /\ estados[w] = <<>>
                                   /\ DelWorker(w) = {j}
                              ELSE paso[j] = "mal",
         NEW i \in Jobs
  PROVE  RespuestaBien(i)'
  <1>0. /\ tocado \subseteq tocado' /\ \A v \in Workers : v # w => estados'[v] = estados[v]
        /\ i # j => /\ i \in DOMAIN almacen' <=> i \in DOMAIN almacen
                    /\ i \in DOMAIN almacen => almacen'[i] = almacen[i]
        /\ \/ j \in DOMAIN almacen' /\ almacen'[j] = s /\ estados'[w] = Append(estados[w], 0)
           \/ j \in tocado'
    BY GuardadoHace
  <1>1. encargado' = encargado /\ encargado[i] \in Workers /\ Nulo # "status"
    BY PasoTipo DEF fijas
  <1>2. RespuestaBien(i)  BY DEF InvF
  <1>3. i # j /\ Guardada(i) => Guardada(i)'  BY <1>0 DEF Guardada
  <1>4. CASE encargado[i] # w
    <2>1. i # j /\ estados'[encargado[i]] = estados[encargado[i]]  BY <1>0, <1>1, <1>4
    <2> QED  BY <1>0, <1>1, <1>2, <1>3, <2>1 DEF RespuestaBien
  <1>5. CASE encargado[i] = w
    <2> SUFFICES ASSUME fs = "vivo", i \notin tocado', w \notin revuelto
                 PROVE  /\ hijo[i] = "status" => Head(estados'[w]) = 0 /\ Guardada(i)'
                        /\ paso[i] = "bien" => Guardada(i)'
      BY <1>1, <1>5 DEF RespuestaBien
    <2>1. hijo[i] # Nulo => w \in vivos  BY <1>5 DEF InvF, InvW, HijosDeVivos
    <2>2. hijo[i] = "status" => i = j /\ w \in vivos  BY <1>1, <1>5, <2>1 DEF DelWorker
    <2>3. i = j /\ w \in vivos => Guardada(i)' /\ Head(estados'[w]) = 0
      <3> SUFFICES ASSUME i = j, w \in vivos PROVE Guardada(i)' /\ Head(estados'[w]) = 0  OBVIOUS
      <3>1. /\ j \in DOMAIN almacen' /\ almacen'[j] = archivos[RG(j)]
            /\ estados'[w] = Append(<<>>, 0)
        BY <1>0
      <3>2. Head(Append(<<>>, 0)) = 0  BY SMT
      <3>3. RG(j)' = RG(j)  BY DEF RG
      <3> QED  BY <3>1, <3>2, <3>3 DEF Guardada
    <2>4. paso[i] = "bien" => Guardada(i)'
      <3>1. paso[i] = "bien" => Guardada(i)  BY <1>0, <1>2, <1>5 DEF RespuestaBien
      <3> QED  BY <1>3, <2>3, <3>1
    <2> QED  BY <2>2, <2>3, <2>4
  <1> QED  BY <1>4, <1>5

\* What the FileSystem reads from w is of a job of w.
LEMMA LecturaF ==
  ASSUME InvF, InvW', NEW w \in Workers, tocado \subseteq tocado',
         UNCHANGED <<fijas, vivos, paso, archivos, hijo, revuelto, fs>>,
         canal' = canal \/ (canal[w] # <<>> /\ canal' = [canal EXCEPT ![w] = Tail(@)]),
         leyendo' # Nulo /\ leyendo'.parte # "perdida" =>
           canal[w] # <<>> /\ leyendo'.worker = w /\ leyendo'.job = Head(canal[w]).job,
         \A i \in Jobs : RespuestaBien(i)'
  PROVE  InvF'
  <1> DEFINE M == [job : Jobs, parte : ToSet(Partes)]
  <1>t. canal \in [Workers -> Seq(M)]  BY PasoTipo
  <1>1. /\ bloques' = bloques /\ encargado' = encargado
        /\ SonBloques' /\ \A i \in Jobs : encargado'[i] \in De(i)'
    BY FijasSiguen
  <1>2. PasosBien'  BY DEF InvF, PasosBien, Esta
  <1>3. \A i \in Jobs : Igualdad /\ i \notin tocado' => TempBien(i)'  BY TemporalesSiguen
  <1>4. ASSUME NEW v \in Workers, NEW i \in DOMAIN canal'[v]
        PROVE  \E k \in DOMAIN canal[v] : canal'[v][i] = canal[v][k]
    <2>1. CASE canal' = canal  BY <1>4, <2>1
    <2>2. CASE canal[w] # <<>> /\ canal' = [canal EXCEPT ![w] = Tail(@)]
      <3>1. CASE v # w  BY <1>4, <1>t, <2>2, <3>1
      <3>2. CASE v = w
        <4> DEFINE c == canal[w]
        <4>1. c \in Seq(M) /\ c # <<>> /\ canal'[v] = Tail(c)  BY <1>t, <2>2, <3>2
        <4> HIDE DEF c, M
        <4>2. \A q \in DOMAIN Tail(c) : q + 1 \in DOMAIN c /\ Tail(c)[q] = c[q + 1]  BY <4>1
        <4>3. i + 1 \in DOMAIN c /\ canal'[v][i] = c[i + 1]  BY <1>4, <4>1, <4>2
        <4> QED  BY <3>2, <4>3 DEF c
      <3> QED  BY <3>1, <3>2
    <2> QED  BY <2>1, <2>2
  <1>5. ASSUME canal[w] # <<>>
        PROVE  1 \in DOMAIN canal[w] /\ Head(canal[w]) = canal[w][1]
    <2>1. canal[w] \in Seq(M)  BY <1>t
    <2> HIDE DEF M
    <2> QED  BY <1>5, <2>1
  <1>6. DeSuWorker'
    <2>1. ASSUME NEW v \in Workers, NEW i \in DOMAIN canal'[v]
          PROVE  /\ encargado[canal'[v][i].job] = v
                 /\ v \notin revuelto /\ v \notin vivos => paso[canal'[v][i].job] = "mal"
      <3>1. PICK k \in DOMAIN canal[v] : canal'[v][i] = canal[v][k]  BY <1>4, <2>1
      <3> QED  BY <3>1 DEF InvF, DeSuWorker
    <2>2. ASSUME leyendo' # Nulo, leyendo'.parte # "perdida"
          PROVE  /\ encargado[leyendo'.job] = leyendo'.worker
                 /\ leyendo'.worker \notin revuelto /\ leyendo'.worker \notin vivos =>
                      paso[leyendo'.job] = "mal"
      <3>1. 1 \in DOMAIN canal[w] /\ leyendo'.worker = w /\ leyendo'.job = canal[w][1].job
        BY <1>5, <2>2
      <3> QED  BY <3>1 DEF InvF, DeSuWorker
    <2> QED  BY <1>1, <2>1, <2>2 DEF DeSuWorker
  <1> QED  BY <1>1, <1>2, <1>3, <1>6 DEF InvF

\* A reading that stores nothing.
LEMMA SinGuardarF ==
  ASSUME InvF, UNCHANGED <<fijas, paso, archivos, hijo, revuelto, fs, estados, almacen, tocado>>
  PROVE  tocado \subseteq tocado' /\ \A i \in Jobs : RespuestaBien(i)'
  BY RespuestaSigue

LEMMA LeerParteF ==
  ASSUME InvF, InvW', NEW w \in Workers, leerParte(w)
  PROVE  InvF'
  <1> DEFINE t == Head(canal[w])
             M == [job : Jobs, parte : ToSet(Partes)]
  <1>t. canal \in [Workers -> Seq(M)] /\ revuelto \subseteq Workers  BY PasoTipo
  <1>0. /\ fs = "vivo" /\ canal[w] # <<>> /\ ~Ocupado(w)
        /\ UNCHANGED <<fijas, vivos, paso, archivos, hijo, revuelto, fs>>
        /\ canal' = [canal EXCEPT ![w] = Tail(@)]
    BY DEF leerParte, Atiende
  <1>1. 1 \in DOMAIN canal[w] /\ t = canal[w][1] /\ t.job \in Jobs
    <2>1. canal[w] \in Seq(M)  BY <1>t
    <2>2. 1 \in DOMAIN canal[w] /\ t = canal[w][1]
      <3> HIDE DEF M
      <3> QED  BY <1>0, <2>1
    <2> QED  BY <2>2, MensajeDeJob
  <1>2. encargado[t.job] = w /\ (w \notin revuelto /\ w \notin vivos => paso[t.job] = "mal")
    BY <1>1 DEF InvF, DeSuWorker
  <1>3. CASE t.parte = "datos"
    <2>1. Guardado(w, t.job, archivos[RG(t.job)]) /\ leyendo' = Nulo  BY <1>3 DEF leerParte
    <2>2. ASSUME w \notin revuelto, w \in vivos
          PROVE  estados[w] = <<>> /\ DelWorker(w) = {t.job}
      <3>1. PICK j \in Jobs, r \in 0..3, k \in 0..4 :
              /\ r < k /\ Turno(w, j, r, k) /\ t = [job |-> j, parte |-> Partes[r + 1]]
        BY <1>0, <2>2, EnOrden DEF InvF
      <3>2. t.job \in DelWorker(w)  BY <1>0, <1>1, <2>2, EnCaminoDelHijo DEF InvF
      <3> QED  BY <3>1, <3>2 DEF Turno
    <2>3. \A i \in Jobs : RespuestaBien(i)'  BY <1>0, <1>1, <1>2, <2>1, <2>2, GuardadoF
    <2>4. tocado \subseteq tocado'  BY <1>1, <2>1, GuardadoHace
    <2> QED  BY <1>0, <2>1, <2>3, <2>4, LecturaF
  <1>4. CASE t.parte # "datos"
    <2>1. /\ leyendo' = [worker |-> w, job |-> t.job, parte |-> Tras(Lectura, t.parte)]
          /\ UNCHANGED <<estados, almacen, tocado>>
      BY <1>4 DEF leerParte
    <2>2. tocado \subseteq tocado' /\ \A i \in Jobs : RespuestaBien(i)'
      BY <1>0, <2>1, SinGuardarF
    <2>3. leyendo'.worker = w /\ leyendo'.job = t.job  BY <2>1
    <2> QED  BY <1>0, <2>2, <2>3, LecturaF
  <1> QED  BY <1>3, <1>4

LEMMA LeerCorridoF ==
  ASSUME InvF, InvW', NEW w \in Workers, leerCorrido(w)
  PROVE  InvF'
  <1>0. /\ canal[w] # <<>> /\ UNCHANGED <<fijas, vivos, paso, archivos, hijo, revuelto, fs>>
        /\ canal' = [canal EXCEPT ![w] = Tail(@)]
    BY DEF leerCorrido
  <1>1. w \in revuelto
    <2>1. w \in corrido' /\ revuelto' = revuelto  BY DEF leerCorrido
    <2>2. corrido' \subseteq revuelto'  BY DEF InvW
    <2> QED  BY <2>1, <2>2
  <1>2. leyendo' # Nulo => leyendo'.parte = "perdida"  BY DEF leerCorrido
  <1>3. tocado \subseteq tocado' /\ \A i \in Jobs : RespuestaBien(i)'
    <2>1. CASE \E j \in DelWorker(w) : Guardado(w, j, Basura)
      <3>1. PICK j \in Jobs : encargado[j] = w /\ Guardado(w, j, Basura)  BY <2>1 DEF DelWorker
      <3> QED  BY <1>0, <1>1, <3>1, GuardadoF, GuardadoHace
    <2>2. CASE UNCHANGED <<estados, almacen, tocado>>  BY <1>0, <2>2, SinGuardarF
    <2> QED  BY <2>1, <2>2 DEF leerCorrido
  <1> QED  BY <1>0, <1>2, <1>3, LecturaF

LEMMA LeerCortadoF ==
  ASSUME InvF, InvW', NEW w \in Workers, leerCortado(w)
  PROVE  InvF'
  <1>0. /\ leyendo # Nulo /\ leyendo.worker = w /\ w \notin vivos /\ leyendo' = Nulo
        /\ canal' = canal
        /\ UNCHANGED <<fijas, vivos, paso, archivos, hijo, revuelto, fs>>
    BY DEF leerCortado
  <1>1. tocado \subseteq tocado' /\ \A i \in Jobs : RespuestaBien(i)'
    <2>1. CASE leyendo.parte \in {"tamano", "datos"}
      <3>1. leyendo.job \in Jobs
        <4>1. leyendo \in Lecturas  BY <1>0, PasoTipo
        <4> QED  BY <2>1, <4>1 DEF Lecturas
      <3>2. leyendo.parte # "perdida"  BY <2>1
      <3>3. encargado[leyendo.job] = w /\ (w \notin revuelto => paso[leyendo.job] = "mal")
        BY <1>0, <3>2 DEF InvF, DeSuWorker
      <3>4. PICK s \in {<<>>, Basura} : Guardado(w, leyendo.job, s)  BY <2>1 DEF leerCortado
      <3> QED  BY <1>0, <3>1, <3>3, <3>4, GuardadoF, GuardadoHace
    <2>2. CASE leyendo.parte \notin {"tamano", "datos"}
      <3>1. UNCHANGED <<estados, almacen, tocado>>  BY <2>2 DEF leerCortado
      <3> QED  BY <1>0, <3>1, SinGuardarF
    <2> QED  BY <2>1, <2>2
  <1> QED  BY <1>0, <1>1, LecturaF

LEMMA QuietosF ==
  ASSUME InvF, InvW',
         UNCHANGED <<fijas, vivos, paso, archivos, tocado, hijo, canal, estados, revuelto, fs>>,
         leyendo' = leyendo, almacen' = almacen
  PROVE  InvF'
  <1>0. /\ UNCHANGED <<fijas, vivos, paso, archivos, tocado, hijo, canal, estados, revuelto, fs>>
        /\ leyendo' = leyendo /\ almacen' = almacen
    OBVIOUS
  <1>1. SonBloques' /\ \A i \in Jobs : encargado'[i] \in De(i)'  BY <1>0, FijasSiguen
  <1>2. PasosBien' /\ DeSuWorker'  BY <1>0 DEF InvF, PasosBien, DeSuWorker, Esta, fijas
  <1>3. \A i \in Jobs : RespuestaBien(i)'  BY <1>0, SinGuardarF
  <1>4. \A i \in Jobs : Igualdad /\ i \notin tocado' => TempBien(i)'  BY <1>0, TemporalesSiguen
  <1> QED  BY <1>1, <1>2, <1>3, <1>4 DEF InvF
-----------------------------------------------------------------------------
(* The results are those of the whole file                                 *)

LEMMA PasoF ==
  ASSUME InvF, [Next]_vars
  PROVE  InvF'
  <1>0. InvW'  BY PasoW DEF InvF
  <1>1. CASE \E j \in Jobs : Operacion(j)
    <2>1. PICK j \in Jobs : Operacion(j)  BY <1>1
    <2>2. CASE almacenamiento(j)  BY <1>0, <2>2, AlmacenamientoF
    <2>3. CASE iniciarGlobal(j)
      <3>1. PICK w \in Workers : w = encargado[j]  BY PasoTipo
      <3> QED  BY <1>0, <2>3, <3>1, OperacionesF
    <2>4. CASE \E w \in Workers : (\E i \in DOMAIN bloques[j][w] : iniciarTransformacion(j, w, i))
                                    \/ iniciarReduccion(j, w) \/ pedirArchivo(j, w)
      BY <1>0, <2>4, OperacionesF
    <2> QED  BY <2>1, <2>2, <2>3, <2>4 DEF Operacion
  <1>2. CASE \E j \in Jobs : Hijo(j)  BY <1>0, <1>2, EnviarF, RecibirF DEF Hijo
  <1>3. CASE \E w \in Workers : FileSystem(w)
    BY <1>0, <1>3, LeerParteF, LeerCorridoF, LeerCortadoF DEF FileSystem
  <1>4. CASE Fallo
    <2>1. CASE fsCuelga
      <3>1. UNCHANGED <<fijas, vivos, paso, varsT, varsH, fs, leyendo, almacen>>  BY <2>1 DEF fsCuelga
      <3> QED  BY <1>0, <3>1, QuietosF DEF varsT, varsH
    <2> QED  BY <1>0, <1>4, <2>1, FallosF, CaeF DEF Fallo, fsMuere, fsSale
  <1>5. CASE UNCHANGED vars  BY <1>0, <1>5, QuietosF DEF vars, varsT, varsH, varsF
  <1> QED  BY <1>1, <1>2, <1>3, <1>4, <1>5 DEF Next

\* The lines of the whole file, transformed, are those of the blocks.
LEMMA LineasEntero ==
  ASSUME NEW j \in Jobs, SonBloques
  PROVE  {Transformado[l] : l \in UNION {ToSet(Entero(j)[i]) : i \in DOMAIN Entero(j)}} = LineasJ(j)
  <1> DEFINE B == UNION {ToSet(bloques[j][w]) : w \in Workers}
             E == UNION {ToSet(Entero(j)[i]) : i \in DOMAIN Entero(j)}
  <1>1. ToSet(Entero(j)) = B  BY EnteroEs DEF SonBloques
  <1>2. E = UNION {ToSet(b) : b \in B}
    <2>1. E = UNION {ToSet(b) : b \in ToSet(Entero(j))}  BY DEF ToSet
    <2> QED  BY <1>1, <2>1
  <1>3. LineasJ(j) = UNION {Lineas1(b) : b \in B}
    <2>1. \A w \in Workers : LineasW(j, w) = UNION {Lineas1(b) : b \in ToSet(bloques[j][w])}
      BY DEF LineasW, ToSet
    <2>2. \A x : x \in LineasJ(j) <=>
                   \E w \in Workers : \E b \in ToSet(bloques[j][w]) : x \in Lineas1(b)
      BY <2>1 DEF LineasJ
    <2> QED  BY <2>2
  <1>4. \A x : x \in LineasJ(j) <=> \E b \in B : \E l \in ToSet(b) : x = Transformado[l]
    BY <1>3 DEF Lineas1
  <1>5. \A l : l \in E <=> \E b \in B : l \in ToSet(b)  BY <1>2
  <1>6. \A x : x \in {Transformado[l] : l \in E} <=> x \in LineasJ(j)
    <2> HIDE DEF B, E
    <2> QED  BY <1>4, <1>5
  <1> QED  BY <1>6

LEMMA InvDaFiel ==
  ASSUME InvF
  PROVE  ResultadoFiel
  <1> SUFFICES ASSUME Igualdad, NEW j \in Jobs, paso[j] = "bien", fs = "vivo", j \notin tocado,
                      encargado[j] \notin revuelto
               PROVE  j \in DOMAIN almacen /\ almacen[j] = Resultado(Entero(j))
    BY DEF ResultadoFiel, Igualdad
  <1>1. Guardada(j) /\ TempBien(j) /\ Esta(RG(j)) /\ SonBloques
    BY DEF InvF, RespuestaBien, PasosBien
  <1>2. Crece(archivos[RG(j)]) /\ ToSet(archivos[RG(j)]) = LineasJ(j)  BY <1>1 DEF TempBien
  <1>3. Entero(j) \in Seq(Seq(Lineas))  BY <1>1, EnteroEs DEF SonBloques
  <1>4. Crece(Resultado(Entero(j))) /\ ToSet(Resultado(Entero(j))) = LineasJ(j)
    BY <1>1, <1>3, ResultadoEs, LineasEntero
  <1>5. archivos[RG(j)] = Resultado(Entero(j))  BY <1>2, <1>4, CreceUnica
  <1> QED  BY <1>1, <1>5 DEF Guardada

\* If sort orders lines as strcmp does, a job whose Master is told that it is stored has in
\* the FileSystem exactly what its scripts make of the whole file at once: the pipes of each
\* block, the merges of apareo and both reductions lose no line, bring in none and keep their
\* order, however the blocks are spread (the reducer writes a line once, so how often it came
\* is not told), and the answer is that of its own storage.  For any jobs, Workers, blocks
\* and lines, unless a failure that nobody tells touched the job, storages overlapped in its
\* Worker or the FileSystem has ended.
THEOREM ResultadosFieles == Spec => []ResultadoFiel
  <1>1. Init => InvF  BY InicioF
  <1>2. InvF /\ [Next]_vars => InvF'  BY PasoF
  <1>3. InvF => ResultadoFiel  BY InvDaFiel
  <1> QED  BY <1>1, <1>2, <1>3, PTL DEF Spec
=============================================================================
