\* Two jobs of one block on the same nodes, with failures and a Master that is killed.
SPECIFICATION Spec
CONSTANTS
  n1 = n1
  n2 = n2
  n3 = n3
  n4 = n4
  Nulo = Nulo
  Basura = Basura
  Jobs = {"j1", "j2"}
  Nodos = {n1, n2}
  Copias <- UnBloque
  PuedenFallar = {"TRANSFORMACION", "REDUCCIONLOCAL"}
  PuedenMorir = {"j1"}
INVARIANTS
  BienDirigido
PROPERTIES
  CumpleContrato
\* Every job ends, and then nothing happens.
CHECK_DEADLOCK FALSE
