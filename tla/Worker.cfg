\* Two jobs, from their blocks to the files stored, with every failure.
CONSTANTS
  w1 = w1
  w2 = w2
  j1 = j1
  j2 = j2
  Nulo = Nulo
  Workers = {w1, w2}
  Jobs = {j1, j2}
  Fallan = {j2}
  Mueren = {w2}
  FsMuere = TRUE
  Lineas = {1, 2, 3, 4}
CONSTANTS
  Transformado <- MCTransformado
  Cotejo <- MCCotejo
  Repartos <- MCRepartos
SPECIFICATION Spec
INVARIANTS
  SinMezcla
  ResultadoFiel
PROPERTIES
  AlmacenResponde
CHECK_DEADLOCK FALSE
