SPECIFICATION SpecC
CONSTANTS
  n1 = n1
  n2 = n2
  n3 = n3
  Nodos = {n1, n2, n3}
  Capacidad <- Capacidades
  Rutas = {"a", "b"}
  Sesiones <- Casos
  MaxBloques = 1
  MaxOtras = 1
  Nulo = Nulo
  Basura = Basura
  Cortado = Cortado
INVARIANTS
  TypeOKConexiones
  BloquesMarcados
PROPERTIES
  RespuestaUtil
  PreguntaRespondida
  YamaEntra
\* The last run of the FileSystem ends.
CHECK_DEADLOCK FALSE
