----------------------------- MODULE FSDirectorios -----------------------------
(***************************************************************************)
(* The directories of the FileSystem (src/FileSystem): the table of        *)
(* directories, the list of files of each, the dictionary of files by      *)
(* path, the console commands that change them, and what of them is on     *)
(* disk when the process ends and starts again.  A path is the sequence of *)
(* its names; every path that is typed begins with "/" and has a name.     *)
(***************************************************************************)
EXTENDS Integers, Sequences, FiniteSets, SequencesExt, FiniteSetsExt, Functions

CONSTANTS MAX_DIRECTORIOS,
          Nombres,      \* what is typed as the name of a directory
          NombresArch,  \* what is typed as the name of a file
          Hondo,        \* bound: how many directories a typed path goes through
          MaxArchivos,  \* bound: how many files are stored
          Arranques,    \* bound: how many times the process is started again
          Cuidados,     \* what whoever types the commands sees to: see Cuidado
          Nulo

ASSUME SupuestoDirectorios ==
  /\ MAX_DIRECTORIOS \in Nat \ {0} /\ {Hondo, MaxArchivos, Arranques} \subseteq Nat
  /\ Nombres \cap (NombresArch \cup {"root", Nulo}) = {} /\ Nulo \notin NombresArch
  /\ Cuidados \subseteq {"rutas", "nombres", "rename", "mv"}

VARIABLES
  estado,    \* "vivo"; "apagado" by exit; "caido" by any other way
  fs,        \* the memory: tabla_Directorios, listaArchivosDirectorios, the descriptors
             \* of the files (archivo) and the dictionary archivos (dic)
  disco,     \* directorios.dat, or Nulo, and the files under metadata/archivos
  arranques

vars == <<estado, fs, disco, arranques>>

Ids      == 0..(MAX_DIRECTORIOS - 1)
Vacia    == [nombre |-> Nulo, padre |-> 0]
SinNada  == [tabla |-> [d \in Ids |-> Vacia], lista |-> [d \in Ids |-> {}],
             archivo |-> <<>>, dic |-> <<>>]
crearRootDir(s) == [s EXCEPT !.tabla[0] = [nombre |-> "root", padre |-> -1], !.lista[0] = {}]

-----------------------------------------------------------------------------
(* utilidadesFileSystem.c                                                  *)

_buscarDirectorio(t, n) ==
  IF \E d \in Ids : t[d].nombre = n THEN Min({d \in Ids : t[d].nombre = n}) ELSE -1

\* By the names alone: that one is in the other is not looked at.
calcularDirectorioPadre(t, r) ==
  CASE Len(r) = 1 -> 0
    [] \E i \in 1..(Len(r) - 1) : _buscarDirectorio(t, r[i]) = -1 -> -1
    [] OTHER -> _buscarDirectorio(t, r[Len(r) - 1])

calcularEntradaDirectorio(t, r) ==
  LET d(i) == IF i = 0 THEN 0 ELSE _buscarDirectorio(t, r[i])
  IN  IF \A i \in 1..Len(r) : d(i) # -1 /\ t[d(i)].padre = d(i - 1) THEN d(Len(r)) ELSE -1

Hijos(t, d) == {i \in Ids : t[i].padre = d /\ t[i].nombre # Nulo}

obtenerIdDirectorio(t) ==
  IF \E d \in Ids : t[d].nombre = Nulo THEN Min({d \in Ids : t[d].nombre = Nulo}) ELSE -1

\* Of a directory that is there: with -1 the word before the array is taken for a list, and
\* the process ends.
nombreValido(s, d, n) ==
  n \notin {Last(s.archivo[x].ruta) : x \in s.lista[d]} \cup {s.tabla[i].nombre : i \in Hijos(s.tabla, d)}

\* The directory k levels above d, and the path of d.
Arriba(t, d) == LET a[k \in 0..MAX_DIRECTORIOS] ==
                      IF k = 0 THEN d ELSE IF a[k - 1] <= 0 THEN 0 ELSE t[a[k - 1]].padre
                IN  a
LlegaARaiz(t, d) == Arriba(t, d)[MAX_DIRECTORIOS] = 0
calcularRutaDirectorio(t, d) ==
  LET n == Min({k \in 0..MAX_DIRECTORIOS : Arriba(t, d)[k] = 0})
  IN  [i \in 1..n |-> t[Arriba(t, d)[n - i]].nombre]
calcularRuta(t, d, n) == Append(calcularRutaDirectorio(t, d), n)

-----------------------------------------------------------------------------
(* The dictionary and the lists                                            *)

dictionary_remove(dic, r) == Restrict(dic, DOMAIN dic \ {r})
dictionary_put(dic, r, x) == [q \in DOMAIN dic \cup {r} |-> IF q = r THEN x ELSE dic[q]]

\* list_remove_by_condition: the file of path r.
list_remove(s, d, r) ==
  LET iguales == {x \in s.lista[d] : s.archivo[x].ruta = r}
  IN  IF iguales = {} THEN s.lista[d] ELSE s.lista[d] \ {Min(iguales)}

registrarArchivo(s, r, d) ==
  LET x == Min(1..(Cardinality(DOMAIN s.archivo) + 1) \ DOMAIN s.archivo)
  IN  [s EXCEPT !.archivo = [y \in DOMAIN @ \cup {x} |->
                              IF y = x THEN [ruta |-> r, padre |-> d] ELSE @[y]],
                !.dic = dictionary_put(@, r, x), !.lista[d] = @ \cup {x}]

\* A file gets another path, which is its key too.
ConRuta(s, x, r) ==
  [s EXCEPT !.dic = dictionary_put(dictionary_remove(@, s.archivo[x].ruta), r, x),
            !.archivo[x].ruta = r]

-----------------------------------------------------------------------------
(* doMv, and what rename does with a directory                             *)

\* File r goes to path nueva, from the list of directory de to that of directory a.
MoverArchivo(s, r, nueva, de, a, padre) ==
  LET x  == s.dic[r]
      s1 == [s EXCEPT !.dic = dictionary_remove(@, r), !.lista[de] = list_remove(s, de, s.archivo[x].ruta)]
  IN  [s1 EXCEPT !.archivo[x] = [ruta |-> nueva, padre |-> padre],
                 !.lista[a] = @ \cup {x}, !.dic = dictionary_put(@, nueva, x)]

\* actualizarRuta on each file of directory d, which is now at path base.
actualizarRutas(s, d, base) ==
  FoldLeft(LAMBDA u, x : ConRuta(u, x, Append(base, Last(u.archivo[x].ruta))), s,
           SetToSortSeq(s.lista[d], <))

RECURSIVE doMv(_, _, _)

\* Mutant of MoverHijos: what is below the directories inside keeps its path.
NoMoverHijos(s, d, base) == s

\* The loop over the directories inside d.
MoverHijos(s, d, base) ==
  FoldLeft(LAMBDA u, i : IF i \in Hijos(u.tabla, d)
                         THEN LET h == Append(base, u.tabla[i].nombre) IN doMv(u, h, h)
                         ELSE u,
           s, [i \in 1..MAX_DIRECTORIOS |-> i - 1])

MoverDirectorio(s, d, entrada, base) ==
  MoverHijos(actualizarRutas([s EXCEPT !.tabla[d] = entrada], d, base), d, base)

doMv(s, viejo, nuevo) ==
  LET de == calcularDirectorioPadre(s.tabla, viejo)
      a  == calcularDirectorioPadre(s.tabla, nuevo)
      d  == calcularEntradaDirectorio(s.tabla, viejo)
  IN  CASE de = -1 -> s
        [] de # -1 /\ viejo \in DOMAIN s.dic -> MoverArchivo(s, viejo, nuevo, de, a, a)
        [] de # -1 /\ viejo \notin DOMAIN s.dic /\ d = -1 -> s
        [] OTHER -> MoverDirectorio(s, d, [nombre |-> Last(nuevo), padre |-> a], nuevo)

-----------------------------------------------------------------------------
(* The console                                                             *)

Rutas     == UNION {[1..k -> Nombres] : k \in 1..Hondo}
RutasArch == {Append(r, n) : r \in {<<>>} \cup UNION {[1..k -> Nombres] : k \in 1..Hondo}, n \in NombresArch}

(***************************************************************************)
(* What whoever types must see to, where the code does not.  "rutas": a    *)
(* path does not name directories that are elsewhere.  "nombres": a        *)
(* directory gets a name that no other has.  "rename": only directories of *)
(* the root are renamed.  "mv": no directory is moved below itself.        *)
(***************************************************************************)
Cuidado(cual, c) == cual \in Cuidados => c
SinEquivoco(r) ==
  calcularDirectorioPadre(fs.tabla, r) \in {-1, calcularEntradaDirectorio(fs.tabla, Front(r))}
NombreNuevo(n) == _buscarDirectorio(fs.tabla, n) = -1
Debajo(d, r) == \E i \in 1..Len(r) : calcularEntradaDirectorio(fs.tabla, SubSeq(r, 1, i)) = d

Comando == estado = "vivo" /\ UNCHANGED <<disco, arranques>>
Queda(s) == fs' = s /\ UNCHANGED estado
Cae == estado' = "caido" /\ fs' = SinNada

mkdirConsola(r) ==
  LET padre == calcularDirectorioPadre(fs.tabla, r)
      id    == obtenerIdDirectorio(fs.tabla)
  IN  /\ Comando /\ Cuidado("rutas", SinEquivoco(r)) /\ Cuidado("nombres", NombreNuevo(Last(r)))
      /\ calcularEntradaDirectorio(fs.tabla, r) = -1
      /\ \/ padre = -1 /\ Cae
         \/ /\ padre # -1 /\ nombreValido(fs, padre, Last(r)) /\ id # -1
            /\ Queda([fs EXCEPT !.tabla[id] = [nombre |-> Last(r), padre |-> padre], !.lista[id] = {}])

EstaVacio(d) == fs.lista[d] = {} /\ Hijos(fs.tabla, d) = {}

rmDirectorio(r) ==
  LET d == calcularEntradaDirectorio(fs.tabla, r)
  IN  /\ Comando /\ d # -1 /\ EstaVacio(d)
      /\ Queda([fs EXCEPT !.tabla[d] = Vacia])

rmArchivo(r) ==
  /\ Comando /\ r \in DOMAIN fs.dic
  /\ LET x == fs.dic[r]
         d == fs.archivo[x].padre
     IN  Queda([fs EXCEPT !.dic = dictionary_remove(@, r), !.lista[d] = list_remove(fs, d, r),
                          !.archivo = Restrict(@, DOMAIN @ \ {x})])

\* Name n for the file or the directory of path r.
renameFs(r, n) ==
  LET padre == calcularDirectorioPadre(fs.tabla, r)
      d     == calcularEntradaDirectorio(fs.tabla, r)
  IN  /\ Comando /\ padre # -1 /\ nombreValido(fs, padre, n)
      /\ \/ /\ r \in DOMAIN fs.dic
            /\ LET dir == fs.archivo[fs.dic[r]].padre
               IN  IF LlegaARaiz(fs.tabla, dir)
                   THEN Queda(MoverArchivo(fs, r, calcularRuta(fs.tabla, dir, n), padre, padre, dir))
                   ELSE Cae   \* calcularRuta goes round for ever, writing
         \/ /\ r \notin DOMAIN fs.dic /\ d # -1
            /\ Cuidado("nombres", NombreNuevo(n)) /\ Cuidado("rename", padre = 0)
            /\ Queda(MoverDirectorio(fs, d, [fs.tabla[d] EXCEPT !.nombre = n], <<n>>))

\* Of something that is there: there is nothing to do with anything else.
mv(r, nueva) ==
  LET padre == calcularDirectorioPadre(fs.tabla, nueva)
      d     == calcularEntradaDirectorio(fs.tabla, r)
  IN  /\ Comando
      /\ \/ r \in DOMAIN fs.dic
         \/ /\ r \notin DOMAIN fs.dic /\ d # -1
            /\ Cuidado("mv", ~Debajo(d, Front(nueva)))
            /\ Cuidado("nombres", _buscarDirectorio(fs.tabla, Last(nueva)) \in {-1, d})
      /\ padre # -1 /\ Cuidado("rutas", SinEquivoco(nueva))
      /\ nombreValido(fs, padre, Last(nueva))
      /\ Queda(doMv(fs, r, nueva))

\* Of anything, to a directory that is not there.
mvANada(nueva) == Comando /\ calcularDirectorioPadre(fs.tabla, nueva) = -1 /\ Cae

\* cpfrom, cpfrombinary and cpfile of a file there is room for.
cpfrom(r) ==
  LET padre == calcularDirectorioPadre(fs.tabla, r)
  IN  /\ Comando /\ Cuidado("rutas", SinEquivoco(r)) /\ Cardinality(DOMAIN fs.archivo) < MaxArchivos
      /\ r \notin DOMAIN fs.dic /\ padre # -1
      /\ Queda(registrarArchivo(fs, r, padre))

formatFileSystem == Comando /\ Queda(crearRootDir(SinNada))

-----------------------------------------------------------------------------
(* The end of the process and its next start                               *)

\* metadata/archivos/<id of the directory>/<name>, for each file of the dictionary.
Metadatos(s) == {<<s.archivo[x].padre, Last(s.archivo[x].ruta)>> : x \in Range(s.dic)}

\* The entries in use, in order.
guardarTablaDirectorio(t) ==
  LET usadas == SetToSortSeq({d \in Ids : t[d].nombre # Nulo}, <)
  IN  [i \in DOMAIN usadas |-> [id |-> usadas[i], nombre |-> t[usadas[i]].nombre, padre |-> t[usadas[i]].padre]]

\* exit: the metadata of a file that is no longer there stay.  fs is kept to compare.
salir ==
  /\ estado = "vivo" /\ estado' = "apagado"
  /\ disco' = [tabla |-> guardarTablaDirectorio(fs.tabla), archivos |-> disco.archivos \cup Metadatos(fs)]
  /\ UNCHANGED <<fs, arranques>>

\* The process is killed.
matar == estado = "vivo" /\ Cae /\ UNCHANGED <<disco, arranques>>

\* Mutant of cargarTablaDirectorio: each entry stays where it was read.
CargarSeguido(guardada) ==
  [d \in Ids |-> IF d + 1 \in DOMAIN guardada
                 THEN [nombre |-> guardada[d + 1].nombre, padre |-> guardada[d + 1].padre] ELSE Vacia]

\* Each entry goes to the place of its id.
cargarTablaDirectorio(guardada) ==
  [d \in Ids |-> IF \E e \in Range(guardada) : e.id = d
                 THEN LET e == CHOOSE e \in Range(guardada) : e.id = d
                      IN  [nombre |-> e.nombre, padre |-> e.padre]
                 ELSE Vacia]

cargarTablaArchivos(s, metadatos) ==
  FoldSet(LAMBDA m, u : registrarArchivo(u, calcularRuta(u.tabla, m[1], m[2]), m[1]), s, metadatos)

\* A file of a directory that is not in the table has no list to go to.
arrancar ==
  /\ estado # "vivo" /\ arranques < Arranques /\ arranques' = arranques + 1
  /\ UNCHANGED disco
  /\ IF disco.tabla = Nulo THEN estado' = "vivo" /\ fs' = crearRootDir(SinNada)
     ELSE LET s == [SinNada EXCEPT !.tabla = cargarTablaDirectorio(disco.tabla)]
          IN  IF \E m \in disco.archivos : s.tabla[m[1]].nombre = Nulo \/ ~LlegaARaiz(s.tabla, m[1])
              THEN Cae
              ELSE estado' = "vivo" /\ fs' = cargarTablaArchivos(s, disco.archivos)

-----------------------------------------------------------------------------
Init ==
  /\ estado = "vivo" /\ fs = crearRootDir(SinNada) /\ arranques = 0
  /\ disco = [tabla |-> Nulo, archivos |-> {}]

Next ==
  \/ \E r \in Rutas : mkdirConsola(r) \/ rmDirectorio(r)
  \/ \E r \in RutasArch : rmArchivo(r) \/ cpfrom(r)
  \/ \E r \in Rutas, n \in Nombres : renameFs(r, n)
  \/ \E r \in RutasArch, n \in NombresArch : renameFs(r, n)
  \/ \E r, q \in Rutas : mv(r, q)
  \/ \E r, q \in RutasArch : mv(r, q)
  \/ \E q \in Rutas : mvANada(q)
  \/ formatFileSystem \/ salir \/ matar \/ arrancar

Spec == Init /\ [][Next]_vars

-----------------------------------------------------------------------------
(* What holds, of commands typed with care                                 *)

TypeOKDir ==
  /\ estado \in {"vivo", "apagado", "caido"} /\ arranques \in 0..Arranques
  /\ \A d \in Ids : fs.tabla[d].nombre \in Nombres \cup {"root", Nulo} /\ fs.tabla[d].padre \in Ids \cup {-1}
  /\ \A d \in Ids : fs.lista[d] \subseteq DOMAIN fs.archivo
  /\ estado # "caido" => fs.tabla[0] = [nombre |-> "root", padre |-> -1]

\* The dictionary, the lists and the descriptors tell of the same files: each file is under
\* its path, and in the list of its directory and no other.
MismosArchivos ==
  /\ DOMAIN fs.archivo = Range(fs.dic)
  /\ \A r \in DOMAIN fs.dic : fs.archivo[fs.dic[r]].ruta = r
  /\ \A d \in Ids : fs.lista[d] = {x \in DOMAIN fs.archivo : fs.archivo[x].padre = d}

\* The path of a file, which the commands change in the file, is the one its directories
\* give it, which they change in the table.
RutasFieles ==
  \A x \in DOMAIN fs.archivo :
    fs.archivo[x].ruta = calcularRuta(fs.tabla, fs.archivo[x].padre, Last(fs.archivo[x].ruta))

\* With that care, whatever is made, moved and removed, every directory and file hangs from
\* the root by directories that are there.
TodoCuelga ==
  /\ \A d \in Ids \ {0} : fs.tabla[d].nombre # Nulo =>
       LlegaARaiz(fs.tabla, d) /\ fs.tabla[fs.tabla[d].padre].nombre # Nulo
  /\ \A x \in DOMAIN fs.archivo : fs.tabla[fs.archivo[x].padre].nombre # Nulo

\* Commands typed with the care that Cuidados names, in whatever order, leave one tree in
\* the table, the lists, the dictionary and the paths.  (Without that care they do not: two
\* directories of one name, a path that does not lead, a directory moved under itself.)
ArbolCoherente == TypeOKDir /\ MismosArchivos /\ RutasFieles /\ TodoCuelga

\* What exit saved is what is there after the next start, with no file left of those that
\* were removed or moved.
SinViejos == disco.archivos = Metadatos(fs)
Visible(s) == [tabla |-> s.tabla, archivos |-> {s.archivo[x] : x \in Range(s.dic)}]
VuelveIgual ==
  [][estado = "apagado" /\ estado' # estado /\ SinViejos =>
       estado' = "vivo" /\ Visible(fs') = Visible(fs)]_vars
=============================================================================
