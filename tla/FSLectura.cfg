SPECIFICATION SpecJusta
CONSTANTS
  n1 = n1
  n2 = n2
  Nodos = {n1, n2}
  Archivos <- Guardados
  HayPrueba = TRUE
  Lecturas = 3
  Muertes = 1
  Nulo = Nulo
INVARIANTS
  UnaRespuesta
  ArchivoFiel
  SoloSinCopias
PROPERTIES
  LecturaTermina
\* The commands are typed and done, or the process has ended.
CHECK_DEADLOCK FALSE
