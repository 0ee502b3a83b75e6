---------------------------- MODULE WorkerArchivos ----------------------------
(***************************************************************************)
(* What a Worker's operations make of files: the pipe of a transformation, *)
(* the merge of sorted files (apareo.c) and the chain of merges before a   *)
(* reduction.  A file is the sequence of its lines, a line a number.       *)
(***************************************************************************)
EXTENDS Integers, Sequences, FiniteSets, SequencesExt, TLC

CONSTANTS Lineas,       \* the lines there are
          Transformado, \* Transformado[l]: what the user's transformer makes of line l
          Cotejo        \* Cotejo[l]: where sort puts l, by the locale of the Worker

ASSUME SupuestoArchivos ==
  /\ Lineas \subseteq Nat \ {0}
  /\ Transformado \in [Lineas -> Lineas] /\ Cotejo \in [Lineas -> Nat]

Archivo == Seq(Nat)
Basura  == <<0>>   \* lines that no file had

\* Line l after those that do not follow it.
Inserta(s, l) == InsertAt(s, Cardinality({i \in DOMAIN s : Cotejo[s[i]] <= Cotejo[l]}) + 1, l)

\* cat archivo | transformador | sort
Transformar(s) == FoldLeft(Inserta, <<>>, [i \in DOMAIN s |-> Transformado[s[i]]])

\* The user's reducer, which reads sorted lines: here, each line once.
Reducir(s) == FoldLeft(LAMBDA r, l : IF r # <<>> /\ Last(r) = l THEN r ELSE Append(r, l), <<>>, s)

\* Mutant of apareo: the rest of the second file is not written.
apareoCorto[p \in Archivo \X Archivo] ==
  LET a == p[1]
      b == p[2]
  IN  IF a = <<>> THEN <<>>
      ELSE IF b = <<>> THEN a
           ELSE IF Head(a) <= Head(b) THEN <<Head(a)>> \o apareoCorto[<<Tail(a), b>>]
                                      ELSE <<Head(b)>> \o apareoCorto[<<a, Tail(b)>>]
ApareoCorto(a, b) == apareoCorto[<<a, b>>]

\* The three loops of apareo, which compares lines with strcmp.
apareo[p \in Archivo \X Archivo] ==
  LET a == p[1]
      b == p[2]
  IN  IF a = <<>> THEN b
      ELSE IF b = <<>> THEN a
           ELSE IF Head(a) <= Head(b) THEN <<Head(a)>> \o apareo[<<Tail(a), b>>]
                                      ELSE <<Head(b)>> \o apareo[<<a, Tail(b)>>]
Apareo(a, b) == apareo[<<a, b>>]

\* The loop before a reduction: each merge takes the result of the one before.
Aparear(archivos) == FoldLeft(Apareo, Head(archivos), Tail(archivos))

\* cat todo | transformador | sort | reductor, as in Master/README.md.
Resultado(bloques) == Reducir(Transformar(FoldLeft(LAMBDA a, b : a \o b, <<>>, bloques)))
=============================================================================
