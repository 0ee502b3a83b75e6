\* Both algorithms, with the availability of src/YAMA/yama.conf, less, and none.
SPECIFICATION SpecJusta
CONSTANTS
  n1 = n1
  n2 = n2
  n3 = n3
  Nodos = {n1, n2, n3}
  Nulo = Nulo
  Basura = Basura
  Jobs = {"todos", "mixto", "uno"}
  Copias <- Archivos
  Previas <- Tablas
  Bases = {0, 1, 2}
  MaxRecargas = 1
  Algoritmos = {"CLOCK", "WEIGHTEDCLOCK"}
INVARIANTS
  PlanCumple
  CargaPareja
PROPERTIES
  PlanTermina
\* The plan ends, and with base 0 it may go round for ever.
CHECK_DEADLOCK FALSE
