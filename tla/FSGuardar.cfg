SPECIFICATION SpecJusta
CONSTANTS
  Nodos = {n1, n2}
  Capacidad <- CapTres
  Rutas = {a, b}
  HayPrueba = TRUE
  MB = 5
  Textos <- TextosTres
  Comandos = {"rm", "rm -b", "format"}
  Hilos = {"consola"}
  Muertes = 0
  MaxOtras = 0
  MaxSobra = 0
  MaxDeriva = 1
  Nulo = Nulo
INVARIANTS
  BitsExactos
PROPERTIES
  CopiasAparte
  CpfromTermina
CHECK_DEADLOCK FALSE
