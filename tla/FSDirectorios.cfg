SPECIFICATION Spec
CONSTANTS
  MAX_DIRECTORIOS = 3
  Nombres = {"a", "b", "c"}
  NombresArch = {"f"}
  Hondo = 2
  MaxArchivos = 2
  Arranques = 1
  Cuidados = {"rutas", "nombres", "rename", "mv"}
  Nulo = Nulo
INVARIANTS
  ArbolCoherente
PROPERTIES
  VuelveIgual
\* After the last start the process may end.
CHECK_DEADLOCK FALSE
