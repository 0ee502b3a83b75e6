# YAMA: verification project

YAMA is a small map-reduce platform in C. A *Master* submits a job over a file of
the *FileSystem*; *YAMA* plans where each block of the file is transformed and when
each node, and then the whole job, is reduced; *Workers* run the operations beside the
*DataNodes* that hold the blocks. This directory holds TLA+ models of that code, the TLC
instances that check them and TLAPS proofs of the main results. Names in the
modules are those of the source; `PROJECT.json` maps every definition to its lines.

## 1. Inventory

### Components, their state and their operations

| Component | State | Operations | Talks to |
|---|---|---|---|
| **YAMA**, `src/YAMA` | `tablaEstado` (log of operations), `socketJobs` (job of each socket), `fd_set master`, per-job `InfoNodo.bloques` dictionaries | one handler per message in `manejarDatos`; `comprobarConexion`; planner | Masters and FileSystem by TCP |
| **Planner**, `planificacionYama.c` | `listaNodos`, availability, clock, first position, skipped flag | `ordenarNodos`, `planificarBloquesYEnviarAMaster` | table of YAMA |
| **YAMA configuration**, `yama.c` | algorithm, base, delay | load; reload on `SIGUSR1` | planner |
| **Master**, `src/Master` | main loop position, threads, metrics | one reaction per order; one thread per operation; storage | YAMA, Workers |
| **Worker**, `src/Worker` | temporary files, `socketFS` shared by its children | transformation, local reduction, global reduction with other Workers, storage; `apareo` merges sorted files | Masters, Workers, FileSystem |
| **FileSystem: blocks**, `envioBloques.c` | per node: bitmap, free counter, socket; round-robin pointer | place, send, copy, release blocks | DataNodes |
| **FileSystem: reading**, `recepcionBloques.c` | one mutex per node, one thread per block | read a file | DataNodes |
| **FileSystem: directories**, `utilidadesFileSystem.c`, `funcionesConsolaFS.c` | 100 directories, dictionary and lists of files | `mkdir`, `mv`, `rename`, `rm`, ... | console |
| **FileSystem: persistence**, `inicializacionFileSystem.c` | `metadata/` | load at start, save at `exit` only | disk |
| **FileSystem: connections**, `servidor.c`, `serializacionFileSystem.c`, `conexionesFileSystem.c` | connected nodes, `fileSystemEstable`, `semaforoConsola` | hello of a DataNode and its probe, requests of YAMA and of Workers | all |
| **DataNode**, `src/DataNode` | blocks on disk, `pruebaConexion` | get and set a block | FileSystem |
| **Z-Commons** | none | send, receive | all |

YAMA is single-threaded: it selects, reads one message and runs its handler to the end.
Masters are threaded and share one socket under a mutex. Workers fork a child for each
connection. The FileSystem has a select loop and a console thread, with a mutex taken by
some of the commands only.

### What is hard, and what makes each component correct

* **YAMA.** Answers of concurrent operations arrive in any order, also after
  the operation was cancelled, replanned or its job given up. Correct: every
  block of a followed job has exactly one entry in force; every operation in process
  has somebody who will answer for it; the global reduction waits for everything and is
  ordered once; nothing is counted twice; a cancelled entry stays cancelled; a late
  message never reaches another job's entries; jobs end with their whole file reduced.
* **Planner.** A loop whose exit depends on availability it gives out itself.
  Correct: it ends, every block goes to a holder, with a copy elsewhere that is still
  free for replanning, and the load is evened out.
* **Master.** Follows orders in the state it expects them; threads update shared
  metrics under two mutexes. Correct: every way a job can end ends the process; the metric says
  no more than there was.
* **Worker.** Correct: concurrent storages do not mix and each gets its own answer; what is stored
  is what the scripts make of the whole file.
* **FileSystem.** Correct: free counters agree with bitmaps; each block has two copies on
  different nodes, or the file is not registered and nothing stays reserved; a file is
  available exactly when a live copy of every block is; paths and directories
  agree; what is loaded is what was saved, and its blocks are nobody else's; YAMA is let in and
  answered.
* **DataNode.** Correct: a block that was acknowledged is on disk.

`PROJECT.json` lists each hazard at its line.

## 2. Plan

| Order | Module | What | State |
|---|---|---|---|
| 1 | `YamaTabla` | the table and the questions handlers ask of it | done |
| 2 | `YamaTrabajos` | YAMA composed with Masters, threads, channels | done |
| 3 | `TrabajoAbstracto` | abstract contract of a job; refined by 2 | done, model-checked and proved (16) |
| 4 | `YamaTrabajosProps`, `MCYama` | properties, instances | done |
| 5 | `YamaPlanificador`, `MCPlan` | clock loop and reload by `SIGUSR1`; what it does is a single step of 2 | done, model-checked and proved (18) |
| 6 | `YamaTrabajosPrueba` | types and message routing, then the safety properties of 4, proved | done |
| 7 | `FSBloques`, `FSBloquesProps`, `FSDudas`, `MCFS` | blocks, bitmaps, copies, DataNodes and the probe; the places that became doubtful, and why | done, model-checked and proved (19) |
| 8 | `FSLectura`, `MCLectura` | threads and mutexes of a read, against DataNodes that die | done, model-checked and proved (17) |
| 9 | `FSDirectorios` | directories, files and paths; exit and start | done, model-checked |
| 10 | `FSPersistencia` | files, blocks and bitmaps saved, killed, loaded | done, model-checked and proved (20) |
| 11 | `FSConexiones`, `MCConexiones` | DataNodes that come and go, the stable state and YAMA, on 10 | done, model-checked and proved (20) |
| 12 | `WorkerArchivos`, `Worker`, `MCWorker` | merge and reductions over lines; children on a shared socket | done, model-checked and proved (15) |
| 13 | `MasterMetricas`, `MCMetricas` | counters shared by threads | done, model-checked |
| 14 | `MasterMetricasProof` | the bound of the metric and when it is exact, proved | done |
| 15 | `WorkerPrueba` | storages of a Worker do not mix, and what is stored is what the scripts make of the whole file (12), proved | done |
| 16 | `YamaContratoPrueba` | 2 implements 3, proved on top of 6 | done |
| 17 | `FSLecturaPrueba` | the safety properties of 8, and that the search for a copy ends | done |
| 18 | `YamaPlanPrueba` | types of 5, that its loop is the single step of 2, and that it balances the load | done |
| 19 | `FSBloquesPrueba` | all the safety properties of 7 | done |
| 20 | `FSConexionesPrueba` | all the safety properties of 11, with saving, kills and starts of 10 | done |

No module to be proved about declares a RECURSIVE operator: loops are
recursive functions or folds. `FSDirectorios`, whose `doMv` calls itself as in the code, is for
TLC only.

## 3. YAMA and its jobs

`YamaTabla` is the table. An entry is never removed, so its index stands for the
temporary file name that `generarArchivoTemporal` makes from the length of the list. The
index 0 is used where a message carries no name. Its operators are the loops and
`list_find`, `list_filter` calls of the handlers.

`YamaTrabajos` has one action per handler (`ManejarDatos`), one per reaction of a Master's
main thread (`HiloPrincipal`), and the end of each operation (`HiloDeOperacion`).

| Variable | Code |
|---|---|
| `tabla` | `tablaEstado` |
| `asociados` | jobs in `socketJobs` |
| `conectados` | sockets in `fd_set master` |
| `copiasLibres` | blocks left in `InfoNodo.bloques` |
| `yama` | `viva`; `caida` after a NULL dereference; `indefinida` after a pointer nobody wrote is followed |
| `replan` | inside the loop of `replanificar`, which sends a message per block |
| `aYama`, `aMaster` | messages on a socket, in order |
| `maestro` | where the main thread is; `Salidas` when the process has ended |
| `hilos` | operations whose threads wait for a Worker |
| `archivos` | the temporaries written, with the blocks whose data is in them |

*Sending to a Master that has exited* either succeeds (the kernel took it) or fails, in which
case `ysend` closes the socket and removes the SocketJob (`EnvioRoto`); `_enviarAMaster`,
which looks the SocketJob up again, then dereferences NULL (`Cae`). A handler that adds an
entry after its sends adds it after that removal: the order is the code's.
Handlers are atomic, for YAMA has one thread, except `replanificar`: its loop is one
action per entry, so that the invariants are also checked between its messages. No other
message is read meanwhile (`Llega` requires `replan = Nulo`).

The plan of a job is any element of `Planes`: a holder for each block and another holder, if
there is one, for its copy. `YamaPlanificador` is the loop that chooses, and `PlanCumple` is
that it chooses an element of `Planes` and leaves table and dictionaries as the single
step does. `SIGUSR1` runs its handler on the main thread while the thread of the server plans, so
`recargarConfiguracion` is two actions, the algorithm and then the base, which may fall between any
two steps of the plan; with an algorithm it does not know YAMA ends (`salida`). With base 0 the
loop may go round for ever, which `PlanTermina` excludes by name.

`TrabajoAbstracto` is what YAMA promises about one job: phases in order, global reduction
only when the last operation of the map has ended, operations that follow only from
operations, and no return from *hecho* or *dejado*. `CumpleContrato` maps `tabla` and
`asociados` to its two variables.

### Runs

| Run | Instance | Question |
|---|---|---|
| `yama_fallos` | 1 job, 3 blocks on the same 2 nodes, every stage may fail, the Master may be killed | the invariants of the table, channels and threads; `CanceladaNoRevive` |
| `yama_contrato` | 2 jobs of 1 block on the same nodes, failures in the map, one Master may be killed | `CumpleContrato`, `BienDirigido` |
| `yama_termina` | 1 job, 2 blocks on disjoint pairs of nodes, fairness | jobs end, with the whole file |
| `plan` | 3 nodes loaded in every way, 3 shapes of file, both clocks, base 2 (that of `yama.conf`), 1 and 0; `SIGUSR1` may arrive once | `PlanCumple`: the plan is legal; `CargaPareja`: the weighted clock evens loads out, the plain one deals in turn; `PlanTermina` |

**Bounds.** Two nodes and three blocks are the least with which a node holds a finished, a
failed and a running block at once, a replanned block joins a group, and a node gets a
second local reduction while the first still runs. Two jobs are needed for one
to touch another's entries; one block each is enough, since what they share is the table
and the nodes. Entries need no bound: a block is replanned at most once, and each stage
adds a bounded number. In the planner three nodes and files of up to nine blocks make the
hand go round more than once, with nodes that lack blocks, and nodes that run out.

**Fairness** (`Justicia`). YAMA's loop visits every socket with data: weak fairness of
`ManejarDatos(j)`. Threads of a Master are scheduled by the system, and an operation of a
Worker ends, well or badly: weak fairness of `HiloPrincipal(j)` once started and of
`HiloDeOperacion(j)`. Nothing obliges a Master to be started, to die, or
an operation to fail. The planner is one thread that nothing interrupts: weak fairness
of its `Next`.

**Deadlock** is off because every job ends and the model then stops; whether jobs do end is
`TodoTrabajoTermina`.

## 4. The blocks of the FileSystem

`FSBloques` is the placement of blocks with the DataNodes that hold them. One action stores
one block of a file (`enviarBloque`: both copies placed, sent, and their answers read); the
commands of the console are one action each; the thread of the server registers nodes, reads
words left on a connection and marks nodes disconnected.

| Variable | Code |
|---|---|
| `op` | the call of `enviarBloques` that is running: while it is not `Nulo`, `semaforoConsola` is taken |
| `nombres`, `socket`, `bitmap`, `libres` | `nombreNodos`, and of each `DescriptorNodo` its socket, bitmap and `bloquesLibres` |
| `archivos` | the dictionary of files, each a sequence of `Bloque` |
| `puntero` | `punteroNodo` |
| `vivos`, `disco`, `prueba` | per DataNode: whether it runs, `data.bin`, `pruebaConexion` |
| `sobra` | per connection, the words a DataNode sent and nobody has read |
| `fs` | `caido` when the process has ended |

*What a command waits for.* `cpfrom`, `cpfrombinary`, `cpblock` and everything the server
does need `op = Nulo`. `rm`, `rm -b` and `format` take no mutex: they run while the server's
thread stores a file for a Worker. A counter or a byte of a bitmap that both then read and
write is a data race, and `LiberarSinMutex` takes any outcome of it: either change lost.

*An exchange with a DataNode* is an operator that gives the set of its outcomes (`Manda`,
`Acuse`, `Lee`). A DataNode that is gone may still take a send, end the process by SIGPIPE
(`enviarBloqueCae`, `cpblockCae`), or leave `zrecv` with nothing. Words left unread come
before the next answer: `cpblock` leaves one every time.

*The text of a file* is the sequence of the lengths of its lines; data is the name of the file
and the number of the block, or `Basura`. The probe of a new node is one step of
`asociarNodo`, with its effect on counters, pointer and `pruebaConexion`; `archivo.txt` is
taken to be of one block, and the node not to die during the probe. The FileSystem starts
without the files of an earlier run (`hayData` is 0); a word left over from a block's data is
taken not to be a message's number. Commands that only read files move `punteroNodo` too, and
are in `FSLectura`.

| Run | Instance | Question |
|---|---|---|
| `fs_consola` | 2 nodes of 2 blocks, 1 file of 1, all commands, a DataNode may die and come back | counters, bitmaps and lists of copies agree; data where it is noted, but for the causes below |
| `fs_guardar` | 2 nodes of 3 blocks, 2 files of 1 and 2 blocks and one of 3 whose size asks for 2; `rm`, `rm -b`, `format` | nothing leaked, copies apart, a store ends unless its lines need more room than was asked for |
| `fs_dos_hilos` | 2 nodes of 2 blocks, 2 files of 1; the server stores, the console removes and formats, a DataNode may die | the race spoils only what the server's thread had stored; no partial file |

`FSDudas` is `FSBloques` with a history, `dudosos`: the places whose data may not be what is noted there.
It takes no step away, so what is said of the other places is said under every command, thread, death and
probe. The causes, each at its action: a block sent to a DataNode that still waits for blocks of the probe, or whose
connection has an unread answer (`EnviaD`); a `cpblock` from such a place, by the number of a removed
copy, by a shifted connection, or to a DataNode that is gone or has no such block (`CopiaD`), for it does not read
the answer; and what `rm`, `rm -b` or `format` give back beside a store (`RmD`, `RmBloqueD`, `FormatD`).
`DatosEnDisco` says that the data of every other place is on the disk, `SitiosPropios` that its bit is set and no
other copy is there: what a race or an unread answer spoils does not reach another file.

**Bounds.** Two nodes are the least with which copies can be apart, two files with which one
can be removed under the other's blocks; one file is enough where `cpblock` and `rm -b` move
its copies about, since a third copy already competes with the first two for the blocks of a
node. Two or three blocks per node fill up, so that the space check refuses, the hand skips full
nodes and both copies land on the last one. `MaxOtras` and `MaxSobra` allow one further copy
and one unread answer, `Muertes` one death. `MaxDeriva` stops a counter, or the number of a
block, at its node's size or one beyond: once a failed `cpblock` or a lost change has made them
disagree they would drift without end.

**What each run leaves out, it leaves out because the code breaks it there**: `BitsExactos` fails with
`cpblock`; `BitsExactos` and `ContadorBitmap` after a DataNode has failed in the middle of a store or a
copy, which is why `ContadorBitmap` says `muertes = 0`; `ContadorBitmap` and `NingunBloqueCompartido` with
two threads (section 8). `CpfromTermina` has its exception in the formula: a text that is cut into more
blocks than were asked for, with no room left. In these runs `archivo.txt` is there (`HayPrueba`): the repository does
not have it, so that is a condition on how the system is installed, and without it two
blocks are given back that were not taken. The proofs of section 7 name it (`PruebaCabe`) where they need it.

**Fairness** (`SpecJusta`): the thread that stores a file goes on, which is the loop of
`enviarBloques` and needs nobody else while the DataNodes answer. **Deadlock** is off: the
FileSystem may have ended, and a store that finds no node is a loop of the code that the
model shows as no step.

## 5. Reading, directories, persistence and connections

### `FSLectura`

The thread that reads a file (the console for `cat`, `cpto`, `cpfile`, `md5`; the server's for
the probe) holds `semaforoConsola` throughout: `lectura` is not `Nulo`. For each block it
chooses a copy, takes the mutex of its node and creates a thread (`crearHilo`); thread `h`
asks, waits, and gives the mutex back (`pedirBloque`, `recibirBloque`), which the creator of the
next thread of that node waits for.

| Variable | Code |
|---|---|
| `lectura`, `resultados` | the call of `obtenerArchivo` under way, and what the earlier ones returned and wrote |
| `hilos` | every thread of `_guardarBloque`, those of a read that was given up included |
| `mutex`, `socket`, `puntero` | `DescriptorNodo.semaforo` and `.socket`, `punteroNodo` |
| `pedido`, `canal` | what a connection carries each way; the first block of `canal` may have been begun by another reader, or cut |
| `vivos`, `muertes` | the DataNodes |

A block is the node and number it was read from. The loop that looks for a copy is `Turnos`,
how many nodes it passes: `CHOOSE` has no value if it went on for ever, and TLC would stop.
Of what is received, a block that was begun by another reader is `Basura`. That a sent word
may be read by the server as a message of its own is left out, as in section 4.
Files are as the commands on blocks leave them (`Guardado`): a copy has the number -1 only if it is one
of the first two of a block without further ones. `SoloSinCopias` excepts by name a copy that
is behind a removed one (`Tapada`, section 8).

| Run | Instance | Question |
|---|---|---|
| `fs_lectura` | 2 nodes, either of them connected or not at first; 3 reads of 4 files: copies apart, all on one node, removed by `rm -b`, hidden behind a removed one; one death, any number of returns | each answer belongs to one thread, the file written is the file, a read is given up only if it must, and ends |

*Bounds.* Three blocks on two nodes make a thread wait for the mutex of a node another one
holds; three reads let the second and third meet what the first left behind: threads, mutexes and
words on the connection. *Fairness*: threads are scheduled, and a DataNode that runs answers.
`LecturaTermina` and `ArchivoFiel` say what they say of nodes that stay and reads
that were not given up: section 8 tells what happens otherwise. `UnaRespuesta` has no such
condition: the mutex that a failed thread never gives back is what keeps it true.

### `FSDirectorios`

| Variable | Code |
|---|---|
| `fs.tabla` | `tabla_Directorios`; the name is `Nulo` where the code has an empty one |
| `fs.lista`, `fs.archivo`, `fs.dic` | `listaArchivosDirectorios`, the `Archivo` structures (`ruta`, `directorioPadre`), the dictionary `archivos` |
| `disco` | `directorios.dat` and the files under `metadata/archivos`, named by directory and name |
| `estado` | whether the process runs, was ended by `exit`, or otherwise |

Each command is one action. Directories are looked up as in the code: `calcularDirectorioPadre`
by each name alone, `calcularEntradaDirectorio` by name and then by parent. `rename` and
`mv` change the table, then the paths of the files of that directory, then call `doMv` for
each directory inside. With -1 for a directory, `nombreValido` reads the word before the array:
`Cae` takes it for the end of the process. `exit` writes the table's used entries and the
metadata of each file of the dictionary, and removes nothing; `arrancar` puts each entry back at
its id, works out the path of every file found on disk, and fails on a file whose directory
is gone.

The code relies on whoever types, and `Cuidados` names for what: see the comment of `Cuidado`.
`fs_directorios` has them all. What is typed is any path of at most
`Hondo` directories, also of what does not exist; names of files and of directories are not
confused. Stores are one step here; how they interleave with commands is `FSBloques`.

| Run | Instance | Question |
|---|---|---|
| `fs_directorios` | a table of 3, three names, 2 files, one restart | `ArbolCoherente`: dictionary, lists, paths and parents tell of one tree; `VuelveIgual`: what exit saved comes back |

*Bounds.* Two directories besides the root can be apart or one inside the other, which is every
case the loops tell apart (a directory with files, with directories inside, both); the third name is
refused when the table is full, and is what a rename changes to. One restart after any history.
*Deadlock* is off: after the last start the process may end.

### `FSPersistencia` and `FSConexiones`

`FSPersistencia` is what the FileSystem keeps from one run to the next, and `FSConexiones`, which
extends it, the DataNodes that come and go and YAMA as its client. A block is placed in one step
and a directory is not seen: those are `FSBloques` and `FSDirectorios`.

| Variable | Code |
|---|---|
| `fs`, `arranques` | whether the process runs, `roto` when what is on disk ends every start, and how often it was started |
| `hayData`, `estable` | `hayData`, `fileSystemEstable` |
| `conocidos`, `conectados`, `bitmap`, `archivos` | `nombreNodos`, and of each `DescriptorNodo` its socket and bitmap; the dictionary of files |
| `guardando` | how far `exit` has come |
| `disco` | `metadata/`: the table of nodes, bitmaps, directories, files; each may have been begun and cut |
| `yama`, `sockFS` | where YAMA is with the FileSystem, and what its `sock_fs` now is |
| `pedido`, `canal` | the request and the answer on that connection |
| `semaforo` | the thread that keeps `semaforoConsola` for good (`trabaSemaforo`): the server's, in the select loop, or the console's; otherwise `libre` |
| `sesion` | the case: which commands are typed, which nodes come, whether YAMA runs, how many starts, what is on disk at first |
| `viejos`, `dudas` | history: files on disk whose blocks were released since, and why what is loaded may be wrong |

`exit` is one action per file it writes (`persistirNodo`, `guardarTablaNodos`,
`guardarTablaDirectorio`, `persistirArchivo`), and `matar` may come at any of them and leave that
file cut. Meanwhile the server's thread may store a file for a Worker (`guardar`): `exit` takes no
mutex. `Cargas` gives what a start finds: a block saved with two copies comes back with
`otrasCopias` as `malloc` left it, NULL or `Basura`. A command that follows `Basura` makes the
process `indefinido`, and there the model stops; so does a start that adds further copies to such a
list. `roto` stands for a start with an empty table of nodes or file of directories also for the time
the process runs until it meets the missing list, which is the first file it reads or stores.

| Run | Instance | Question |
|---|---|---|
| `fs_conexiones` | nodes of 2, 2 and 1 blocks, files of one; two cases that begin empty and are saved, killed and started, once more and twice more; two that begin with a saved file and serve YAMA, one started once more, one in which somebody may keep `semaforoConsola` | `BloquesMarcados`: blocks of a file are marked and are of one file only; `RespuestaUtil`: what YAMA is told it can use; `PreguntaRespondida`: what it asks is answered; `YamaEntra`: it is let in once the nodes are back |

*Bounds.* Saving, being killed while saving again, and starting from that mixture takes two starts
after the first; a file on two nodes with or without a copy on a third is every case `Ofrece` and
`archivoDisponible` tell apart. The commands are split over the cases, because all of them with YAMA and
two files have too many states: the first two are about the disk, the others about the answers.
*Fairness* (`SpecC`): the server's thread goes round its connections and YAMA's threads go on;
nobody has to type, to start a DataNode or to kill. *Deadlock* is off: the last run of the FileSystem ends.

`PreguntaRespondida` covers both waits of YAMA after a question: for the FileSystem (`pide`) and, when
`sock_fs` is by then the socket of a Master, for that Master (`trabada`). Its exceptions are three, each by cause: that
Master; somebody who keeps `semaforoConsola`; and a process that follows garbage. It needs
nothing of the nodes: a FileSystem that ends ends the wait too. `YamaEntra` is of a FileSystem whose nodes
are all connected from some moment on whenever it runs; it must then let YAMA in, however often it is
started, or YAMA ends (`doConnect` ends it when nobody listens). Who keeps the mutex may be the server's
thread (a store of a Worker whose lines do not fit), which then serves nobody, or the console's (the same by `cpfrom`, or
`cpblock` of a node whose mutex a failed read left taken), and the server's thread waits for it at its next message.

`BloquesMarcados` excepts what `dudas` and `viejos` name: a file removed or changed since it was
saved, with a kill before the next `exit`, comes back with blocks that may by now be another's; and
a file stored while `exit` saves has bits that were saved before it. Section 8 lists both.

## 6. Workers and Masters

### `WorkerArchivos` and `Worker`

A file is a sequence of lines, a line a number. `WorkerArchivos` has the pipe of a transformation
(`Transformar`: each line of the transformer goes after those that `sort` does not put behind it), the
three loops of `apareo` as a recursive function of the two files, the chain of merges, and
`Resultado`, what the command line of `Master/README.md` makes of the whole file at once: the
reference the distributed operations are checked against. The user's transformer is a parameter that
changes lines one by one; the reducer writes each line of a sorted file once, which is enough to tell
lines that are lost, invented or out of order.

`Worker` runs jobs over it: `iniciarTransformacion`, `iniciarReduccion`, then the file of each other
Worker (`pedirArchivo`), `iniciarGlobal` and the storage. Which operation is ordered, and what
happens after a failure, is `YamaTrabajos`: here a failure ends the job.

| Variable | Code |
|---|---|
| `bloques`, `encargado` | where the blocks of each job are, and the Worker of its global reduction |
| `archivos` | temporaries on the disks of the Workers |
| `hijo` | the child that stores, at the part it sends next: message, name, length, data |
| `canal`, `estados` | what is on `socketFS` of each Worker: parts one way, status the other |
| `fs`, `leyendo` | the FileSystem, and the part its thread reads next, with `semaforoConsola` |
| `hiloFS` | that thread: `bien`; `cerrado`, with a closed socket in its set, so that its next `select` ends the process (`fsSale`); `colgado`, in a `cpfrom` that does not end or at a mutex nobody gives back (`fsCuelga`) |
| `almacen` | what the FileSystem has stored |
| `vivos` | the Workers that run |
| `tocado`, `revuelto`, `corrido` | history: jobs with a failure nobody tells; Workers whose storages overlapped or had nothing to send; connections read out of step |

| Run | Instance | Question |
|---|---|---|
| `worker` | 2 jobs, 2 Workers, 5 ways to spread their blocks; the scripts of one job may fail, one Worker may be lost, the FileSystem may end or hang, at any step | `SinMezcla`: storages are read in step and each child gets its own status; `ResultadoFiel`: what is stored is `Resultado`; `AlmacenResponde` |

*Bounds.* The spreads are a job with three blocks to merge in one Worker beside another job's
storage; one in both Workers, which merge and send; two jobs in one Worker, or each in its own; and one with a
single block in a Worker, whose merge loop runs zero times. In the second and the third the two jobs are
stored by one Worker: two storages are enough to overlap. Four lines, two of which the transformer makes equal, in
blocks that are not sorted, make merges take from either side, run out on either side and meet
equal lines. *Fairness*: children run, and so does the thread of the FileSystem; nobody has to
order an operation. *Deadlock* is off: jobs end.

`ResultadoFiel` supposes that `sort`, which follows the locale, orders lines as `strcmp` does, and
leaves out the jobs of `tocado` and the Workers of `revuelto`, where section 8 says what the code
does. `AlmacenResponde` says that three things may keep a storage for ever: storages that
overlapped in some Worker, one that had nothing to send, and a thread of the FileSystem that
does not come back (`colgado`). It is not kept by a Worker that is lost in the middle, nor by the end of the FileSystem.

### `MasterMetricas`

`calcularMaximos`, one action for each read or write of a shared variable. A thread calls it under
the mutex of its own kind (`mutexTransformacion`, `mutexReduccion`), so that a thread of the other
kind may be in it as well. The three ways an operation ends do the same to the counters, and are
one action. A compiler that keeps in a register a counter it has read gives values that counter
had: for the own kind it cannot change meanwhile. `pico`, the most operations of both kinds at
once, and `cruce` are histories.

| Run | Instance | Question |
|---|---|---|
| `master_metricas` | 3 transformations and 2 reductions | `CotaReal`: the metric never says more than there was; `MaximoExacto`: where nobody crossed, exactly that |

*Bounds.* Two threads of a kind, one in the calculation and one counted, and one of the other kind
are enough to lose a maximum; the third makes the maxima change twice. Threads of a kind are
interchangeable, hence the symmetry. *Deadlock* is off: all threads end.

## 7. What is proved

`YamaTrabajosPrueba`, for every set of jobs and nodes, every file (non-empty, each block with at
least one holder) and every choice of what may fail and die:

* `TipoCorrecto`: `Spec => []TypeOK`. Beyond types, every temporary file named in a
  message or written by a Worker is an index of the table.
* `MensajesBienDirigidos`: `Spec => []BienDirigido`. Orders, threads and answers name only
  entries of their own job and of the right stage, and operations read files of the
  previous stage of their own job.

*Assumptions*: `SupuestoTabla`, `SupuestoFallos`. *Argument*: `TypeOK` is not inductive: that
`transformacionOK` may index the table with what it reads requires that an answer on the
socket names an entry, which requires that of the threads, of the orders they came from,
and of the files they read. `Inv` is the conjunction of those facts, one predicate per
variable and relative to a table (`AYamaOK(t, c)`, ...). The lemma that carries the proof is
that the table is a log: `CreceDesde(t, u)` says that `u` has the entries of `t` with the
same job, stage, node and block, then perhaps more; everything said of names under `t`
holds under `u`. There is then one lemma per handler. The proofs hold of `Cae` and of
`indefinida` too, where nothing moves.

The second part of `YamaTrabajosPrueba`, under the same assumptions, proves of every job YAMA follows what the
runs check: `UnaVigentePorBloque`, `EnProcesoConResponsable`, `BarreraGlobal`, `NingunBloqueDosVeces`,
`CopiaEnDiccionario`, `SinPunteroBasura` as invariants and `CanceladaNoRevive` of every step.
None of them is inductive: whether an entry may be cancelled, for example, depends on what may still
be answered about it. *Argument*: the invariant `IInv` says, for each followed job,

* `Seguido`, of its table: each block has one entry in force; one that may be replanned has its
  block in the dictionary of its copy; where something was reduced, nothing that may be replanned
  is in process; once there is a global reduction there is only one and the map is over; only the
  stages of the map are cancelled; each node has at most one finished local reduction.
* `Reparto`, of orders, threads and answers: each operation of the map they name is in process,
  and no two of them name the same one. While YAMA and the Master live, `Completo`:
  each operation in process is named by one of them. Together they are a bijection between
  what runs and who will answer for it, and each handler is shown to consume one answer
  and to produce one order for each entry it adds.
* `OpLista` and `ArchivoL`, of temporaries: a local reduction reads finished entries of its node only,
  and its file holds no other block.
* `UnaSolicitud`: a Master asks for its job once, when nothing of the job exists.

One lemma per handler says what it does to each of those parts for its own job, and one (`Ajena`)
that it leaves the other jobs as they were. Inside the loop of `replanificar` the invariant holds too,
with `EnReplan`: nothing of the job has been reduced where the operation failed.

`YamaContratoPrueba` proves `YamaCumpleElContrato`: `Spec => CumpleContrato`, the refinement
of `TrabajoAbstracto`. *Argument*: `IInv` bounds what can be said of the map. `CInv` adds what can
be said of the rest. Of a followed job, `Fase` (the table is in one of the phases) and `Fin` (at most one
order, thread or answer is about the global reduction or the storage, and it is about the stage
that is in process). Of a job let go, `Suelto`: its socket is closed, or its Master has nothing left to
say, or a local reduction failed and the Master exits before it reads whatever
the late answers of the map make YAMA order. That third case is why a job let go is never
taken up again although its threads go on answering. Each handler and each step of a Master is then
a step of the contract of its job (`PasoDe`) or none, and none for the others (`SoloDe`).

`YamaPlanPrueba`, for every finite set of nodes, every file, any tables and bases, and any
number of reloads at any moment (`SupuestoTabla`, `SupuestoPlanificador`), proves

* `PlanConTipo`: `Spec => []PlanTypeOK` (proved, so no run repeats it).
* `PlanImplementaElPaso`: `Spec => []PlanCumple`: the loop implements the step of
  `enviarTablaTransformacion` in `YamaTrabajos`.
* `RepartoDelReloj`: `Spec => []CargaPareja`: while nobody reloads and every node holds the file, the
  clock deals the blocks out in turn and the weighted clock evens the loads.

*Argument*: `InvPlan` says, half-way through the file, what `PlanCumple` says of its end: the entries
added so far are those of a plan of the first blocks (`Puestos`), and a dictionary has lost a block only
to the node it went to (`Diccionarios`). That `buscarCopia` finds another holder if there is one needs
that the list has every node of the file (`EnLista`), which is where `Ordenes` is shown to be a
bijection. Availability stays an int of no sign because the weight of a node is a maximum
less one of the numbers it is the maximum of (`PWlEs`). *Argument*, of the balance: availability alone does not
say how the loads differ, for it depends on who was skipped and given the base. So `Reparto` looks at two
nodes, one before the other in the list, and says how their availabilities and their loads go together when
the hand has passed both the same number of times (`Iguales`) and when it has passed the first once more
(`Tras`): the node with more availability has less load, by as much as it may still receive. Each move of
the hand, with a block or without, turns one into the other, and the base given to the nodes that were skipped
in one round (`EnOrden`) restores the first.

`MasterMetricasProof`, for any finite number of threads of each kind (`SupuestoHilos`):

* `CotaDeLaMetrica`: `Spec => []CotaReal`.
* `ContadoresExactos`: each counter is the number of threads of its kind that are counted in.
* `MetricaExacta`: `Spec => []MaximoExacto`.

*Argument*: the invariant `Ind` says that a thread that calculates has its mutex (`Exclusion`), that
counters are cardinalities (`Cuenta`), and, at each place of the calculation, what the thread has
seen so far (`Visto`): its own counter cannot change, the other was read once, and the sum
was true when it was read. `MaximoExacto` needs more, `IndExacto`: as long as nobody crossed there is at
most one thread in the calculation, and all that is not up to date is what that thread still has
to write.

`FSLecturaPrueba`, for every finite set of nodes, every set of files whose blocks are `Guardado`, and any
number of reads and deaths (`SupuestoLectura`), proves the three invariants of `fs_lectura`:

* `LecturaUnaRespuesta`: `Spec => []UnaRespuesta`.
* `LecturaFiel`: `Spec => []ArchivoFiel`.
* `LecturaSoloSinCopias`: `Spec => []SoloSinCopias`.

*Argument*, of the search: any `Cardinality(Nodos)` turns in a row pass by every node (`PasaPor`), so each
round counts at least the node of copy 0 and the search ends (`TurnosHay`: the `CHOOSE` of `Turnos` always
has a value). If it gives up although a node serves, it has not come to that node yet, so it is in its
first round; it has met no node twice (`SinRepetir`), and the nodes it counted, without the one that
serves, are fewer than the copies (`SiNoElige`). *Argument*, of the connections: the invariant `Inv` ties
the mutex of a node, the threads and the two directions of its connection (`Atiende`): the mutex is
locked exactly while one thread of that node has not ended well, and the one word there may be is
the answer to that thread, or cut. Cut words come only from a death or from a read given up (`Cortes`), threads
fail only after a death (`SinMuertes`), and outlive their read only after one that was given up
(`SinRestos`), which is when the server may take a word of theirs. With `EnOrden` (the threads of a read
are for the first blocks of its file, in order) this gives what is written when it ends.

`FSBloquesPrueba`, for every finite set of nodes of any size, any texts cut by any block size, and any bounds
(`SupuestoBloques`; `SupuestoNulo`: a NULL pointer is not a list), proves every safety property of
`FSBloquesProps` and `FSDudas`. Without further assumptions, so with the console and the server's thread at
once, DataNodes that die, `cpblock` and probes that fail:

* `BloquesConTipo`: `Spec => []TypeOKFS`.
* `SiempreEnteros`: `Spec => []ArchivoEntero`.
* `SiempreAparte`: `Spec => CopiasAparte`.
* `DatosDondeDicen`: `SpecD => []DatosEnDisco`.
* `SitiosSinOtro`: `SpecD => []SitiosPropios`.

The rest does not hold of everything the code may do (section 8), so each theorem states when it does, as
its `ASSUME`; the runs `fs_consola` and `fs_guardar` are instances of those conditions:

| Theorem | States | `SinCarreras` | `PruebaCabe` | `SinPerdidas` |
|---|---|---|---|---|
| `NadieComparte` | `Spec => []NingunBloqueCompartido` | x | | |
| `CuentaExacta` | `Spec => []ContadorBitmap` | x | x | |
| `BitsDeCopias` | `Spec => []BitsExactos` | x | x | x |

* `SinCarreras`: the server's thread stores nothing, or of the commands only `cpblock` is typed, which takes
  the mutex. Otherwise `rm`, `rm -b` and `format` race with a store.
* `PruebaCabe`: `archivo.txt` is there, which depends on how the system is installed, and every node has two
  blocks or more. Otherwise `_probarConexion`
  gives back two blocks it did not take.
* `SinPerdidas`: no DataNode dies and nobody types `cpblock`, whose bit stays set when it fails, and whose
  data may come from a place that was given back.

*Argument*: `Invariante` has the types and what the loops rely on: the list of nodes has no repetition and the
sockets are of nodes in it, every block is well formed (`Bien`: one of the first two copies is there, both if there
are others), the blocks done so far are those of the file in order, and their number with what is left is
that of the text. The cuts of a text and the sums of counters are folds, of which `SumaEs`, `TrozosEs` and
`PedidosEs` say what they return; their induction is over finite sets and comes from a well-founded order
(`Menor`, `Induccion`, `InduccionConjuntos`). The search from `punteroNodo` passes by every node (`VueltaLlega`), which is where
`SiempreAparte` comes from. `SitiosBien` says that the places of blocks are disjoint and set: each store
takes bits that were free (`EnvioEs`), each removal frees the places of its own blocks only
(`LibreSeguro`). `Contado` adds, until a death, that each counter and its bitmap make up the size of
the node, which needs the former: a block given back was set, and is counted once (`UsosNumeros`). `Fieles`
adds that each set bit has a copy. `SanoBien` is what remains of all that when nothing is assumed: each place
that is not doubtful is of one copy, set, and has its data. A store takes bits that were free, so never such a place; what
it writes is at the two new places and nowhere else (`EnvioSolo`), and is what was sent
unless the DataNode was waiting or owed an answer; what a command frees is its own blocks' places or, in a race, those
of the store beside it, and both leave the claim: the former are noted nowhere, the latter are doubtful.

`FSConexionesPrueba`, for every set of nodes of any size, any names of files, and any sessions with any
number of starts, proves the three safety properties of `fs_conexiones`:

* `TypeOKSiempre`: `Spec => []TypeOKConexiones`.
* `MarcadosSiempre`: `Spec => []BloquesMarcados`.
* `RespuestaSiempre`: `Spec => RespuestaUtil`.

*Assumptions*: `SupuestoPersistencia` (nodes have blocks; a NULL pointer, one that nobody wrote, a list and a
file that was cut are different things) and `SupuestoSesiones`: what is on disk before the first start is
`Guardable`, that is, empty or as a complete `exit` leaves it with no file from before that was released
since. Without the latter the first start could load two files with a block in common, which is what
`dudas` records of later ones.

*Argument*: `BloquesMarcados` speaks of memory, but a kill loses the memory, and the next start takes what is on
disk, half of it perhaps of an `exit` that was cut. So the invariant `Fieles` says of the disk, at
every step (`Metadata`): if a start would load it, the files that are not old are on bits of the saved
bitmaps of nodes of the saved table, apart; if it would load none, they have no places. It holds half-way
through `exit` because of its order, which `Salvado` follows: the table is cut first, so nothing is loaded
while bitmaps are saved; when the table is whole, bitmaps and table cover all the places there are in memory
(`Cubiertos`); and the files on disk are a part of those in memory (`Dentro`), so whichever have been
saved so far are covered too. A command that releases blocks makes their file old (`Envejecen`), and the places it
leaves are a part of those before (`QuitaBien`). Each command needs besides that no two copies *of a block* share
a place (`Distintas`, which no run states: without it, `rm -b` of a copy would clear the bit of another),
and that places for a new file are free and apart (`LugaresEs`, `UbicadosEs`: `Ubicados` is a recursive
function, of which `UbicadosSon` shows that it exists). `RespuestaUtil` is `OfreceEs`: if neither of
the first two nodes is there, an available block has another copy on a third node, and the first of those
is offered.

`WorkerPrueba`, for every set of jobs and Workers, any blocks, and any scripts that fail and machines that are
lost, the FileSystem's too (`SupuestoArchivos`, `SupuestoWorker`, `SupuestoNulo`: a NULL pointer is no part of a storage):

* `AlmacenesSinMezcla`: `Spec => []SinMezcla`;
* `ResultadosFieles`: `Spec => []ResultadoFiel`.

*Assumptions* on the data: lines are positive numbers, there are finitely many Workers, and a block is a finite
sequence of lines. That `sort` orders lines as `strcmp` does (`Igualdad`) is a premise of the property itself.

*Argument for `SinMezcla`*: `SinMezcla` speaks of the moment when there is an answer; `InvW` follows each Worker that is in
order (`EnRegla`) through a storage: of its four parts the FileSystem has read the first `r`, and those up to
`k` are on their way, in order (`Puesto`); while the Worker runs, one child at most is at it, it is about to send
the next part or waits after the last, and there is an answer exactly when all four were read (`Turno`). The loss
of the Worker cuts what is on its way, never its order. When the FileSystem ends, what it answered
before is still for the child that waits (`UltimoEstado`). The FileSystem reads one storage at a
time, so what it reads from one Worker says nothing of another (`LecturaSigue`), and a part it did not expect
proves that storages of that Worker overlapped (`LeerCorridoSigue`).

*Argument for `ResultadoFiel`*: it says of the last state what is true of every file on the way, so `InvF` says it of
each temporary of a job that nothing silent touched (`TempBien`): that of a block is in order and has the lines
of the block, transformed; the reduced one of a Worker grows strictly and has those of all its blocks; a copy is
equal to its original; the global one grows strictly and has all the lines. Two files that grow strictly
and have the same lines are equal (`CreceUnica`), and `Resultado` of the whole file is such a one
(`ResultadoEs`, `EnteroEs`), so nothing is said of how the blocks were spread. The other half is the
answer: `InvW` already says that the only child of a Worker in order is the one that waits, and `RespuestaBien` that the
status it will read is 0 only if the FileSystem has the file that the global reduction left. What a lost Worker
left half-way is stored too, but its Master was told of the failure (`DeSuWorker`), so no such storage ends well.

*Induction over data*: what `apareo` and the folds (`FoldLeft`, that is, `MapThenFoldSet` over the positions)
compute is proved for every input. The theorems of the library that take an operator cannot be used, but that the
order of the naturals is well founded takes none: from it each set of naturals has a least element
(`Menor`), a set with 0 and the successor of each of its elements has them all (`Induccion`), and a function
that is defined by smaller elements exists (`RecursivaHay`), which is what a recursive definition needs to be
more than a `CHOOSE`. So `ApareoEcuacion` unfolds `apareo` once, `ApareoEs` says that the merge of two files in
order is in order and has the lines of both, and `Recorrido` unfolds a fold from its last step.

*Only model-checked*: `BloquesCompletos`, which holds only where no two blocks of a job share
a node (see the hazard at `respuestaTransformacion.c:80`), and `FSDirectorios`
(`ArbolCoherente`, `VuelveIgual`: its `doMv` is RECURSIVE). Liveness is out of the prover's reach
(`TodoTrabajoTermina`, `PlanTermina`, `CpfromTermina`, `LecturaTermina`,
`PreguntaRespondida`, `YamaEntra`, `AlmacenResponde`).

## 8. What the code does that a reader may not expect

The models have these behaviours; the properties say where they except them.

YAMA and Masters:

* A block that finishes on a node after a sibling failed there is
  never reduced (`respuestaTransformacion.c:80` requires *all* entries of the node
  finished, and the cancelled one never will be), and the job ends without it; or, finishing last,
  it leaves the job waiting for ever, for only the end of a local reduction starts the global one
  (`respuestaTransformacion.c:142`). `yama_termina` has blocks on disjoint pairs of nodes for that
  reason.
* Two failed local reductions of one job end YAMA: the second finds no SocketJob
  (`serializacion.c:258`).
* The end of an older local reduction of a node cancels the newer one, which has the
  replanned block (`cancelarFinalizadasAnteriores`, `respuestaTransformacion.c:109`).
* A late answer to a job given up adds an entry in process for ever (`respuestaTransformacion.c:143`);
  its node looks loaded to every later plan.
* With `DISPONIBILIDAD_BASE=0` the planner may go round for ever (`planificacionYama.c:203`).
  `SIGUSR1` may change algorithm and base in the middle of a plan (`yama.c:22`).
* When the FileSystem ends, `yrecv` closes `sock_fs` and leaves `respuesta` as it was on the
  stack (`serializacion.c:39`); the next Master that connects may get that number
  (`servidor.c:18`), and YAMA then waits for a Master as if it were the FileSystem.
* When YAMA ends, a Master in its main loop goes round without end on a closed socket
  (`transformacionMaster.c:212`). Operations have room for 100 temporaries (`master.h:46`).
  Neither is in a model.
* The metric of parallel operations may miss a maximum, and its two parts may be of different
  moments (`mainMaster.c:68`).

Workers:

* A local reduction of a single temporary reduces a file whose name nobody wrote: the result is
  empty or the operation never ends (`reduccionWorker.c:32`).
* `apareo` compares with `strcmp` what `sort` ordered by the locale: where they differ, equal lines
  may not be together and the reducer sees them apart.
* The status of a transformation is that of `sort`: a script that fails in the middle has ended
  well (`transformacionWorker.c:114`).
* A Worker lost while it sends its file leaves its length unwritten, and the reduction goes on
  (`RGWorker.c:73`).
* Storages of one Worker share `socketFS` without a mutex (`serializacionWorker.c:47`): when two
  overlap, lengths may be read as names and answers go to either.
* Of an empty result nothing is sent after the name (`serializacionWorker.c:52`): the FileSystem waits with
  `semaforoConsola` taken. A storage that was refused, or lost, answers a variable nobody wrote
  (`serializacionWorker.c:54`).

FileSystem and DataNodes:

* The number of blocks asked for is the size over 1MB plus one; a text cut at its
  lines may need more, and then the placement looks for a free node for ever (`envioBloques.c:260`), with
  `semaforoConsola`: the console, YAMA and every Worker that stores wait for ever too. `CpfromTermina`,
  `PreguntaRespondida`, `YamaEntra` and `AlmacenResponde` except it.
* `cpblock` copies from a copy that `rm -b` took away, number -1: garbage is registered
  (`envioBloques.c:169`). It leaves an answer unread (`envioBloques.c:181`), and the next read of
  that node is shifted.
* A DataNode takes its first two blocks for the probe's (`serializacionDataNode.c:56`). If the
  probe could not be stored they are a user's, answered OK and written nowhere (`HayPrueba` false).
* `rm -b` with the first number past the last copy ends the process (`funcionesConsolaFS.c:458`).
* `rm` takes no mutex (`funcionesConsolaFS.c:83`): while the server stores a file, the counter of
  free blocks or a byte of a bitmap may lose a change.
* A read that is given up for one block (`recepcionBloques.c:42`) leaves its threads running and
  `semaforoConsola` free: the server may take a word of the block they wait for, the thread
  then waits for ever with the mutex of its node, and so does the next read of that node.
* The search for a copy looks at one copy per node (`recepcionBloques.c:129`): when `rm -b` has taken copy 0
  away and copy 1 is on the same node (`cpblock` may put it there), the read fails with the node connected.
* A thread whose node is lost never gives its mutex back (`recepcionBloques.c:94`): the next read
  that chooses that node, connected again, waits for ever with `semaforoConsola`, and so do the console and
  the server (`trabaSemaforo`, `fsCuelga`).
* A socket that `zrecv` closed stays in the set of the select loop (`servidor.c:106`): the next
  `select` fails and the FileSystem exits.
* A read that failed returns 0, and `remove` is given the `FILE` (`recepcionBloques.c:76`).
* A path that names existing directories which are not inside one another is taken
  (`utilidadesFileSystem.c:57`): the file is in the last one's list under a path that is not its own.
* `mkdir` and `mv` to a directory that is not there go on with -1 (`funcionesConsolaFS.c:577`, `:693`).
* When a directory inside another is renamed, its files get the path of a directory of the root
  (`funcionesConsolaFS.c:495`).
* The metadata of a file that was removed, moved or formatted stay on disk: after `exit` and a start
  the file is there again, or twice, on blocks that may be another's; if its directory was removed
  the start ends in a NULL list.
* After a start, blocks without further copies have `otrasCopias` as `malloc` left it
  (`inicializacionFileSystem.c:240`); `rm`, `cpblock`, `exit` and the answer to YAMA follow it, and so does
  the start itself for a block saved with further copies.
* A block of which `rm -b` took one of the first two copies away is offered to YAMA with the number -1
  there; `RespuestaUtil` leaves such blocks out.
* A file stored while `exit` saves may have its metadata on disk and not its bits. An `exit` that is
  cut may leave a table of nodes or of directories that ends every start but one with `--clean`.
* A node that is new when there was data on disk is turned away (`fileSystem.c:56`).
* The stable state is worked out when a node comes, not when one goes: YAMA may be let in when
  files are no longer available, and is then told so for each.
* An answer to a YAMA that has died may end the FileSystem by SIGPIPE.

## 9. Not modelled, and why

* Partial sends. Channels carry whole messages, in `Worker` the parts of one; a receive that is cut
  is modelled where what it leaves unwritten is used (`Worker`, `FSConexiones`), elsewhere a
  connection dies between messages.
* A Master that dies while a Worker serves it: the Worker's answer is lost and nothing else in it
  changes; what YAMA does is in `YamaTrabajos`.
* Delays (`RETARDO_PLANIFICACION`), logging, addresses and ports, sizes of blocks in bytes.
* Scripts other than a transformer of single lines and a reducer that drops repeated ones.
* Allocation failures and lifetime of memory.
* Helpers of Z-Commons over files and strings; the chats, demos and sample data in the repository.
* Paths without a leading `/`, and `/` itself as an argument (`rm -d /` of an empty file system takes
  the root away), in `FSDirectorios`.
* Blocks and directories together: placement, paths and persistence share the dictionary of files
  only, and each module has the part of a file it is about.
