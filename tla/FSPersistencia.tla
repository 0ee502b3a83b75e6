--------------------------- MODULE FSPersistencia ---------------------------
(***************************************************************************)
(* What the FileSystem keeps between one run and the next.  The command    *)
(* exit saves nodes, directories and files, in that order and without a    *)
(* mutex, so that the server's thread may store a file meanwhile; a kill   *)
(* may come at any point.  The next start takes what it finds on disk.     *)
(* How a block is placed and sent is in FSBloques, where directories hang  *)
(* in FSDirectorios: here a command is one step and a file has blocks.     *)
(***************************************************************************)
EXTENDS Integers, Sequences, FiniteSets, SequencesExt

CONSTANTS Nodos,      \* the DataNodes
          Capacidad,  \* Capacidad[n]: its blocks
          Rutas,      \* the names of files
          Sesiones,   \* what the world may do: see sesion
          MaxBloques, \* bound: blocks of a file
          MaxOtras,   \* bound: further copies of a block
          Nulo,
          Basura,     \* a pointer nobody wrote
          Cortado     \* a file that was opened for writing, and nothing more

ASSUME SupuestoPersistencia ==
  /\ IsFiniteSet(Nodos) /\ Capacidad \in [Nodos -> Nat \ {0}]
  /\ MaxBloques \in Nat \ {0} /\ MaxOtras \in Nat
  /\ Nulo # Basura /\ Cortado \notin {Nulo, Basura} /\ "bien" \notin {Nulo, Cortado}
  /\ (\A N \in SUBSET Nodos : N # Nulo) /\ {Nulo, Basura} \cap Seq([nodo : Nodos, num : Nat]) = {}

VARIABLES
  sesion,     \* chosen at the beginning: the commands that are typed, the nodes that
              \* come, whether YAMA is used, how often the FileSystem may be started
              \* (a bound) and what an earlier exit left on disk
  fs,         \* "apagado", "vivo", "roto" (it cannot start), or "indefinido": it
              \* followed a pointer that is NULL or that nobody wrote
  arranques,
  hayData,    \* there were nodes on disk
  estable,    \* fileSystemEstable
  conocidos,  \* the keys of the dictionary of nodes
  conectados, \* those whose socket is not -1
  bitmap,     \* per node, the bits that are set
  archivos,   \* the dictionary of files: for each, its blocks
  guardando,  \* Nulo, or how far exit has come
  disco,      \* metadata/
  viejos,     \* the files on disk whose blocks were released after they were saved
  dudas       \* why the files may not be what was stored (see BloquesMarcados)

memoria == <<hayData, estable, conocidos, conectados, bitmap, archivos>>
varsP   == <<sesion, fs, arranques, memoria, guardando, disco, viejos, dudas>>

\* Where a copy is.  Of the first two, rm -b may take one away: its number is then -1.
Ubi(n, k) == [nodo |-> n, num |-> k]
Lugar     == [nodo : Nodos, num : Nat]
Ubicacion == [nodo : Nodos, num : Nat \cup {-1}]
Bloque    == [c0 : Ubicacion, c1 : Ubicacion, otras : Seq(Lugar) \cup {Nulo, Basura}]

\* An empty metadata/, as --clean leaves it.
SinDatos == [tabla |-> Nulo, bitmaps |-> <<>>, dirs |-> Nulo, archivos |-> <<>>]

Otras(b)  == IF b.otras \in {Nulo, Basura} THEN <<>> ELSE b.otras
Copias(b) == {b.c0, b.c1} \cup ToSet(Otras(b))
Reales(b) == {u \in Copias(b) : u.num >= 0}
BloquesDe(A) == UNION {ToSet(A[r]) : r \in DOMAIN A}
HayBasura(A) == \E b \in BloquesDe(A) : b.otras = Basura

\* The bits that are left when the copies of B are released.
Libera(m, B) == [n \in Nodos |-> m[n] \ {u.num : u \in {v \in UNION {Reales(b) : b \in B} : v.nodo = n}}]
Marca(m, U)  == [n \in Nodos |-> m[n] \cup {u.num : u \in {v \in U : v.nodo = n}}]

\* The blocks of the files A are on nodes of N, with their bits set in m.
Marcados(A, m, N) == \A b \in BloquesDe(A) : \A u \in Reales(b) : u.nodo \in N /\ u.num \in m[u.nodo]

\* No two of them share a place.
Aparte(A) ==
  \A r, q \in DOMAIN A : \A i \in DOMAIN A[r], k \in DOMAIN A[q] :
    <<r, i>> # <<q, k>> => Reales(A[r][i]) \cap Reales(A[q][k]) = {}

\* Nor do two copies of a block.
Distintas(b) ==
  /\ b.c0.num >= 0 => b.c0 # b.c1
  /\ \A i, k \in DOMAIN Otras(b) :
       Otras(b)[i] \notin {b.c0, b.c1} /\ (Otras(b)[i] = Otras(b)[k] => i = k)

\* metadata/ as exit leaves it, with no file from before that was released since, or empty.
Guardable(d) ==
  /\ d = [tabla |-> d.tabla, bitmaps |-> d.bitmaps, dirs |-> d.dirs, archivos |-> d.archivos]
  /\ d.bitmaps = [n \in DOMAIN d.bitmaps |-> d.bitmaps[n]] /\ DOMAIN d.bitmaps \subseteq Nodos
  /\ \A n \in DOMAIN d.bitmaps : d.bitmaps[n] \subseteq 0..(Capacidad[n] - 1)
  /\ d.archivos = [r \in DOMAIN d.archivos |-> d.archivos[r]] /\ DOMAIN d.archivos \subseteq Rutas
  /\ \A r \in DOMAIN d.archivos : d.archivos[r] \in Seq(Bloque)
  /\ Aparte(d.archivos) /\ \A b \in BloquesDe(d.archivos) : Distintas(b)
  /\ \/ d.tabla = Nulo /\ d.dirs \in {Nulo, "bien"} /\ \A b \in BloquesDe(d.archivos) : Reales(b) = {}
     \/ /\ d.tabla \in SUBSET Nodos /\ d.dirs = "bien"
        /\ Marcados(d.archivos, d.bitmaps, d.tabla \cap DOMAIN d.bitmaps)

ASSUME SupuestoSesiones ==
  \A s \in Sesiones :
    s.nodos \subseteq Nodos /\ s.yama \in BOOLEAN /\ s.arranques \in Nat /\ Guardable(s.disco)

Quita(f, r)  == [x \in DOMAIN f \ {r} |-> f[x]]
Pon(f, r, v) == [x \in DOMAIN f \cup {r} |-> IF x = r THEN v ELSE f[x]]

Init ==
  /\ sesion \in Sesiones
  /\ fs = "apagado" /\ arranques = 0
  /\ hayData = FALSE /\ estable = FALSE /\ conocidos = {} /\ conectados = {}
  /\ bitmap = [n \in Nodos |-> {}] /\ archivos = <<>>
  /\ guardando = Nulo /\ disco = sesion.disco /\ viejos = {} /\ dudas = {}

-----------------------------------------------------------------------------
(* The files                                                               *)

\* Mutant of ConLugar: a node without free blocks still counts.
ConLugarDeMas(m) == {n \in conectados : Cardinality(m[n]) <= Capacidad[n]}

ConLugar(m) == {n \in conectados : Cardinality(m[n]) < Capacidad[n]}
BitLibre(B) == CHOOSE k \in 0..Cardinality(B) : k \notin B /\ \A i \in 0..(k - 1) : i \in B

\* Both copies of a block, given the bits that are set: on two nodes if there are two.
Lugares(m) ==
  UNION {LET u  == Ubi(n, BitLibre(m[n]))
             m1 == Marca(m, {u})
             Q  == IF ConLugar(m1) = {n} THEN {n} ELSE ConLugar(m1) \ {n}
         IN  {[c0 |-> u, c1 |-> Ubi(q, BitLibre(m1[q])), otras |-> Nulo] : q \in Q} : n \in ConLugar(m)}

\* The ways to place a file of k blocks.
Ubicados[k \in 0..MaxBloques] ==
  IF k = 0 THEN {<<>>}
  ELSE UNION {{Append(s, b) : b \in Lugares(Marca(bitmap, UNION {Reales(c) : c \in ToSet(s)}))} :
                s \in Ubicados[k - 1]}

\* cpfrom: typed, or asked for by a Worker (then also while exit is saving).
guardar(r) ==
  /\ fs = "vivo" /\ "cpfrom" \in sesion.comandos /\ r \notin DOMAIN archivos
  /\ \E s \in UNION {Ubicados[k] : k \in 1..MaxBloques} :
       /\ archivos' = Pon(archivos, r, s)
       /\ bitmap' = Marca(bitmap, UNION {Reales(b) : b \in ToSet(s)})
  /\ \/ guardando = Nulo /\ UNCHANGED <<guardando, dudas>>
     \/ /\ guardando # Nulo /\ dudas' = dudas \cup {"carrera"}
        /\ \/ UNCHANGED guardando
           \/ /\ guardando.paso = "archivos"
              /\ guardando' = [guardando EXCEPT !.faltan = @ \cup {r}]
  /\ UNCHANGED <<sesion, fs, arranques, hayData, estable, conocidos, conectados, disco, viejos>>

EnConsola(c) == fs = "vivo" /\ guardando = Nulo /\ c \in sesion.comandos
Indefinido == fs' = "indefinido" /\ UNCHANGED <<sesion, arranques, memoria, guardando, disco, viejos, dudas>>

\* The metadata of these files stay on disk, if they were there.
Envejecen(R) == viejos' = viejos \cup (R \cap DOMAIN disco.archivos)

rm(r) ==
  /\ EnConsola("rm") /\ r \in DOMAIN archivos
  /\ \/ /\ ~HayBasura([x \in {r} |-> archivos[x]])
        /\ archivos' = Quita(archivos, r) /\ bitmap' = Libera(bitmap, ToSet(archivos[r]))
        /\ Envejecen({r})
        /\ UNCHANGED <<sesion, fs, arranques, hayData, estable, conocidos, conectados, guardando,
                       disco, dudas>>
     \/ HayBasura([x \in {r} |-> archivos[x]]) /\ Indefinido

Copia(b, c) == CASE c = "c0" -> b.c0 [] c = "c1" -> b.c1 [] OTHER -> Head(b.otras)

\* One of the first two can go if the other has a number, another if there is one.
Sobra(b, c) ==
  CASE c = "c0" -> b.c1.num # -1 [] c = "c1" -> b.c0.num # -1 [] OTHER -> Otras(b) # <<>>

\* Block b without its copy c; the first of the others takes the place of one of the two.
SinCopia(b, c) ==
  LET queda(u) == IF Otras(b) = <<>> THEN Ubi(u.nodo, -1) ELSE Head(b.otras)
      resto    == IF Otras(b) = <<>> THEN b.otras ELSE Tail(b.otras)
  IN  CASE c = "c0" -> [b EXCEPT !.c0 = queda(b.c0), !.otras = resto]
        [] c = "c1" -> [b EXCEPT !.c1 = queda(b.c1), !.otras = resto]
        [] OTHER    -> [b EXCEPT !.otras = resto]

\* rm -b of one of the first two copies, unless the other is gone, or of the third.
rmBloque(r, i, c) ==
  /\ EnConsola("rm -b") /\ r \in DOMAIN archivos /\ i \in DOMAIN archivos[r]
  /\ LET b == archivos[r][i]
         u == Copia(b, c)
     IN  \/ /\ b.otras # Basura /\ Sobra(b, c)
            /\ archivos' = [archivos EXCEPT ![r][i] = SinCopia(b, c)]
            /\ bitmap' = [bitmap EXCEPT ![u.nodo] = @ \ {u.num}]
            /\ Envejecen({r})
            /\ UNCHANGED <<sesion, fs, arranques, hayData, estable, conocidos, conectados,
                           guardando, disco, dudas>>
         \/ b.otras = Basura /\ (c = "otra" \/ Sobra(b, c)) /\ Indefinido

\* Block b with a copy at u, which goes where one was taken away, if any was.
ConCopia(b, u) ==
  IF b.c0.num = -1 THEN [b EXCEPT !.c0 = u]
  ELSE IF b.c1.num = -1 THEN [b EXCEPT !.c1 = u]
       ELSE [b EXCEPT !.otras = Append(Otras(b), u)]

\* generarCopia reads the block from a node of the first two copies, whatever the number.
\* (One that fails is in FSBloques.)
cpblock(r, i, n) ==
  /\ EnConsola("cpblock") /\ r \in DOMAIN archivos /\ i \in DOMAIN archivos[r] /\ n \in ConLugar(bitmap)
  /\ LET b == archivos[r][i]
         u == Ubi(n, BitLibre(bitmap[n]))
     IN  /\ Len(Otras(b)) < MaxOtras
         /\ {b.c0.nodo, b.c1.nodo} \cap conectados # {}
         /\ \/ /\ b.otras # Basura \/ b.c0.num = -1 \/ b.c1.num = -1
               /\ archivos' = [archivos EXCEPT ![r][i] = ConCopia(b, u)]
               /\ bitmap' = [bitmap EXCEPT ![n] = @ \cup {u.num}]
               /\ UNCHANGED <<sesion, fs, arranques, hayData, estable, conocidos, conectados,
                              guardando, disco, viejos, dudas>>
            \/ b.otras = Basura /\ b.c0.num >= 0 /\ b.c1.num >= 0 /\ Indefinido

formatFileSystem ==
  /\ EnConsola("format") /\ archivos # <<>>
  /\ archivos' = <<>> /\ bitmap' = [n \in Nodos |-> {}]
  /\ Envejecen(DOMAIN archivos)
  /\ UNCHANGED <<sesion, fs, arranques, hayData, estable, conocidos, conectados, guardando, disco, dudas>>

-----------------------------------------------------------------------------
(* exit                                                                    *)

\* How far it has come, what this part still lacks, and the nodes the table will have.
Paso(p, F, N) == [paso |-> p, faltan |-> F, nodos |-> N]

exit ==
  /\ EnConsola("exit")
  /\ IF conocidos = {} THEN guardando' = Paso("directorios", {}, {}) /\ UNCHANGED disco
                       ELSE /\ guardando' = Paso("bitmaps", conocidos, conocidos)
                            /\ disco' = [disco EXCEPT !.tabla = Cortado]
  /\ UNCHANGED <<sesion, fs, arranques, memoria, viejos, dudas>>

Guardando(p) == fs = "vivo" /\ guardando # Nulo /\ guardando.paso = p
Sigue == UNCHANGED <<sesion, arranques, memoria, dudas>>

persistirNodo(n) ==
  /\ Guardando("bitmaps") /\ n \in guardando.faltan
  /\ disco' = [disco EXCEPT !.bitmaps = Pon(@, n, bitmap[n])]
  /\ guardando' = [guardando EXCEPT !.faltan = @ \ {n}]
  /\ Sigue /\ UNCHANGED <<fs, viejos>>

guardarTablaNodos ==
  /\ Guardando("bitmaps") /\ guardando.faltan = {}
  /\ disco' = [disco EXCEPT !.tabla = guardando.nodos]
  /\ guardando' = Paso("directorios", {}, {})
  /\ Sigue /\ UNCHANGED <<fs, viejos>>

guardarTablaDirectorio ==
  /\ Guardando("directorios")
  /\ disco' = [disco EXCEPT !.dirs = "bien"]
  /\ guardando' = Paso("archivos", DOMAIN archivos, {})
  /\ Sigue /\ UNCHANGED <<fs, viejos>>

persistirArchivo(r) ==
  /\ Guardando("archivos") /\ r \in guardando.faltan
  /\ IF HayBasura([x \in {r} |-> archivos[x]])
     THEN fs' = "indefinido" /\ UNCHANGED <<disco, guardando, viejos>>
     ELSE /\ disco' = [disco EXCEPT !.archivos = Pon(@, r, archivos[r])]
          /\ guardando' = [guardando EXCEPT !.faltan = @ \ {r}]
          /\ viejos' = viejos \ {r} /\ UNCHANGED fs
  /\ Sigue

\* Memory and connections go with the process.
Apaga ==
  /\ fs' = "apagado" /\ guardando' = Nulo
  /\ hayData' = FALSE /\ estable' = FALSE /\ conocidos' = {} /\ conectados' = {}
  /\ bitmap' = [n \in Nodos |-> {}] /\ archivos' = <<>>
  /\ UNCHANGED <<sesion, arranques, dudas>>

finExit == Guardando("archivos") /\ guardando.faltan = {} /\ Apaga /\ UNCHANGED <<disco, viejos>>

\* A signal.  The file that was being written may be left empty.
matar ==
  /\ fs = "vivo" /\ Apaga
  /\ \/ UNCHANGED <<disco, viejos>>
     \/ /\ Guardando("directorios")
        /\ disco' = [disco EXCEPT !.dirs = Cortado] /\ UNCHANGED viejos
     \/ /\ Guardando("archivos")
        /\ \E r \in guardando.faltan :
             /\ disco' = [disco EXCEPT !.archivos = Pon(@, r, Cortado)]
             /\ viejos' = viejos \ {r}

-----------------------------------------------------------------------------
(* The start: _cargarFileSystem                                            *)

\* _procesarBloques: what it finds, and otrasCopias as malloc left it if there are none.
\* (If there are some and malloc left something else than NULL, see arrancar.)
Cargas(s) ==
  {t \in [DOMAIN s -> UNION {{b, [b EXCEPT !.otras = Basura]} : b \in ToSet(s)}] :
     \A i \in DOMAIN s : t[i] = s[i] \/ (Otras(s[i]) = <<>> /\ t[i] = [s[i] EXCEPT !.otras = Basura])}

\* A list that is empty is not on disk.
SinVacias(s) == [i \in DOMAIN s |-> IF s[i].otras = <<>> THEN [s[i] EXCEPT !.otras = Nulo] ELSE s[i]]

\* Mutant of Bitmaps: the bitmap is made anew, as for a node that comes for the first time.
BitmapsVacios(N) == [n \in Nodos |-> {}]

\* _cargarBitMap, for the nodes N of the table.
Bitmaps(N) == [n \in Nodos |-> IF n \in N THEN disco.bitmaps[n] ELSE {}]

EnDisco == {r \in DOMAIN disco.archivos : disco.archivos[r] # Cortado}

\* Without directories nothing is read, and without a table of nodes, no file.  An empty
\* table has no list of nodes; an empty file of directories leaves the root without its
\* list, and the first file that is read or stored ends the process, at this start and at
\* the next ones ("roto" stands also for the time it runs until then).  The further copies
\* of a block are added to the list that otrasCopias points to, whatever malloc left there.
arrancar ==
  /\ fs = "apagado" /\ arranques < sesion.arranques /\ arranques' = arranques + 1
  /\ \/ /\ disco.dirs = Nulo \/ (disco.dirs = "bien" /\ disco.tabla = Nulo)
        /\ fs' = "vivo"
        /\ UNCHANGED <<hayData, conocidos, bitmap, archivos, dudas>>
     \/ /\ disco.dirs = Cortado \/ (disco.dirs = "bien" /\ disco.tabla = Cortado)
        /\ fs' = "roto"
        /\ UNCHANGED <<hayData, conocidos, bitmap, archivos, dudas>>
     \/ /\ disco.dirs = "bien" /\ disco.tabla \notin {Nulo, Cortado}
        /\ fs' = "vivo" /\ hayData' = TRUE
        /\ conocidos' = disco.tabla \cap DOMAIN disco.bitmaps
        /\ bitmap' = Bitmaps(conocidos')
        /\ archivos' \in {a \in [EnDisco -> UNION {Cargas(SinVacias(disco.archivos[r])) : r \in EnDisco}] :
                            \A r \in EnDisco : a[r] \in Cargas(SinVacias(disco.archivos[r]))}
        /\ dudas' = IF viejos # {} THEN dudas \cup {"viejos"} ELSE dudas
     \/ /\ disco.dirs = "bien" /\ disco.tabla \notin {Nulo, Cortado}
        /\ \E r \in EnDisco : \E b \in ToSet(disco.archivos[r]) : Otras(b) # <<>>
        /\ fs' = "indefinido"
        /\ UNCHANGED <<hayData, conocidos, bitmap, archivos, dudas>>
  /\ UNCHANGED <<sesion, estable, conectados, guardando, disco, viejos>>

\* --clean
arrancarLimpio ==
  /\ fs \in {"apagado", "roto"} /\ arranques < sesion.arranques /\ arranques' = arranques + 1
  /\ "--clean" \in sesion.comandos /\ disco # SinDatos
  /\ fs' = "vivo" /\ disco' = SinDatos /\ viejos' = {} /\ dudas' = {}
  /\ UNCHANGED <<sesion, memoria, guardando>>

\* What takes semaforoConsola, and what does not.
ConMutex ==
  \/ \E r \in Rutas : guardar(r)
  \/ \E r \in Rutas, i \in 1..MaxBloques, n \in Nodos : cpblock(r, i, n)

SinMutex ==
  \/ \E r \in Rutas : rm(r) \/ persistirArchivo(r)
  \/ \E r \in Rutas, i \in 1..MaxBloques, c \in {"c0", "c1", "otra"} : rmBloque(r, i, c)
  \/ \E n \in Nodos : persistirNodo(n)
  \/ formatFileSystem \/ exit \/ guardarTablaNodos \/ guardarTablaDirectorio \/ finExit

Vida == arrancar \/ arrancarLimpio \/ matar
=============================================================================
