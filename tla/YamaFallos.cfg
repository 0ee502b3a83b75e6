\* One job, three blocks on the same two nodes; every operation may fail and the
\* Master may be killed at any time.
SPECIFICATION Spec
CONSTANTS
  n1 = n1
  n2 = n2
  n3 = n3
  n4 = n4
  Nulo = Nulo
  Basura = Basura
  Jobs = {"j1"}
  Nodos = {n1, n2}
  Copias <- TresBloques
  PuedenFallar = {"TRANSFORMACION", "REDUCCIONLOCAL", "REDUCGLOBAL", "ALMACENAMIENTOOP"}
  PuedenMorir = {"j1"}
INVARIANTS
  TypeOK
  UnaVigentePorBloque
  EnProcesoConResponsable
  BarreraGlobal
  NingunBloqueDosVeces
  CopiaEnDiccionario
  SinPunteroBasura
PROPERTIES
  CanceladaNoRevive
\* Every job ends, and then nothing happens.
CHECK_DEADLOCK FALSE
