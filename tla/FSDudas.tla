------------------------------ MODULE FSDudas -------------------------------
(***************************************************************************)
(* The blocks of the FileSystem with a history variable: dudosos, the      *)
(* places whose data may not be what is noted, or not there, each for a    *)
(* cause that is named where it is met.  No step of FSBloques is taken     *)
(* away; a place is doubtful for as long as a copy is noted there.  What   *)
(* is claimed of the others assumes nothing of commands, threads, deaths   *)
(* or probes.                                                              *)
(***************************************************************************)
EXTENDS FSBloquesProps

VARIABLE dudosos

varsD == <<vars, dudosos>>

\* Where block b has copies, and where any block has.
VivasDe(b)   == {Copias(b)[j] : j \in {j \in DOMAIN Copias(b) : Copias(b)[j].num >= 0}}
LugaresDe(G) == UNION {VivasDe(b) : b \in G}

Anota(S) == dudosos' = (dudosos \cup S) \cap LugaresDe(Guardados')

-----------------------------------------------------------------------------
\* A DataNode that still waits for the probe takes what is sent for it; and behind an
\* answer that nobody read, the next one is not the answer to this block.
Pendiente(n) == prueba[n] # 0 \/ sobra[n] # <<>>

EnviaD == enviarBloque /\ Anota({u \in LugaresDe(Guardados' \ Guardados) : Pendiente(u.nodo)})

\* cpblock does not read the answer to what it sends, and what it reads may be shifted, or
\* doubtful itself, or what generarCopia finds by the number of a copy that was removed.
CopiaSegura(o, u) ==
  /\ o.num >= 0 /\ o \notin dudosos /\ sobra[o.nodo] = <<>>
  /\ u.nodo \in vivos /\ prueba[u.nodo] = 0 /\ u.num < Capacidad[u.nodo]

CopiaD(r, i, n) ==
  LET u == Ubi(n, BitLibre(bitmap[n]))
  IN  /\ cpblock(r, i, n)
      /\ Anota(IF CopiaSegura(Fuente(archivos[r][i]), u) THEN {} ELSE {u})

\* What rm does without the mutex may give back the last block of a store under way, and
\* format gives back all of them.
Ultimo == IF EnCurso = <<>> THEN {} ELSE {Last(EnCurso)}

RmD(r)            == rmArchivo(r) /\ Anota(LugaresDe(Ultimo))
RmBloqueD(r, i, c) == rmBloque(r, i, c) /\ Anota(LugaresDe(Ultimo))
FormatD           == formatFileSystem /\ Anota(LugaresDe(Range(EnCurso)))

InitD == Init /\ dudosos = {}

\* The other steps make nothing doubtful.
NextD ==
  \/ \E r \in Rutas, t \in Textos : \/ cpfromBinary(r, t) /\ Anota({})
                                  \/ \E h \in Hilos : cpfrom(r, t, h) /\ Anota({})
  \/ EnviaD
  \/ enviarBloqueCae /\ Anota({})
  \/ registrarArchivo /\ Anota({})
  \/ \E r \in Rutas : RmD(r)
  \/ FormatD
  \/ \E r \in DOMAIN archivos : \E i \in DOMAIN archivos[r] :
       \/ \E c \in 0..(MaxOtras + 2) : RmBloqueD(r, i, c)
       \/ \E n \in Nodos : CopiaD(r, i, n) \/ (cpblockCae(r, i, n) /\ Anota({}))
  \/ \E n \in Nodos : \/ asociarNodo(n) /\ Anota({})
                      \/ manejarCliente(n) /\ Anota({})
                      \/ marcarNodoDesconectado(n) /\ Anota({})
                      \/ DataNodeMuere(n) /\ Anota({})

SpecD == InitD /\ [][NextD]_varsD

\* The thread that stores a file goes on until it has ended.
SpecJusta == SpecD /\ WF_vars(enviarBloque \/ enviarBloqueCae \/ registrarArchivo)

-----------------------------------------------------------------------------
Seguras == {c \in CopiasVivas : Lugar(c) \notin dudosos}

\* A block is on its DataNodes with the data of its file, wherever a copy of it is noted:
\* through failed stores, removals, copies of copies, DataNodes that die and come back and
\* probes that fail, the causes above are the only ones (enviarBloques, cpblock, rm).
DatosEnDisco ==
  \A c \in Seguras : /\ Lugar(c).num < Capacidad[Lugar(c).nodo]
                     /\ disco[Lugar(c).nodo][Lugar(c).num] = c[1].dato

\* The block of a DataNode that holds a copy holds no other, and is not free to be given
\* again: what rm, rm -b and format do without the mutex while the server's thread stores a
\* file spoils at most what that thread had stored, and never what another file has.
SitiosPropios ==
  \A c \in Seguras : /\ Lugar(c).num \in bitmap[Lugar(c).nodo]
                     /\ \A d \in CopiasVivas : Lugar(d) = Lugar(c) => d = c
=============================================================================
