\* Two blocks that never meet on a node: failures of one cannot strand the other.
SPECIFICATION SpecJusta
CONSTANTS
  n1 = n1
  n2 = n2
  n3 = n3
  n4 = n4
  Nulo = Nulo
  Basura = Basura
  Jobs = {"j1"}
  Nodos = {n1, n2, n3, n4}
  Copias <- BloquesAparte
  PuedenFallar = {"TRANSFORMACION", "REDUCGLOBAL", "ALMACENAMIENTOOP"}
  PuedenMorir = {}
INVARIANTS
  BloquesCompletos
PROPERTIES
  TodoTrabajoTermina
\* Every job ends, and then nothing happens.
CHECK_DEADLOCK FALSE
