SPECIFICATION SpecD
CONSTANTS
  Nodos = {n1, n2}
  Capacidad <- CapDos
  Rutas = {a, b}
  HayPrueba = TRUE
  MB = 5
  Textos <- TextosUno
  Comandos = {"rm", "rm -b", "format"}
  Hilos = {"servidor"}
  Muertes = 1
  MaxOtras = 0
  MaxSobra = 0
  MaxDeriva = 0
  Nulo = Nulo
INVARIANTS
  SitiosPropios
  ArchivoEntero
SYMMETRY Simetria
CHECK_DEADLOCK FALSE
