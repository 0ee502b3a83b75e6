SPECIFICATION SpecD
CONSTANTS
  Nodos = {n1, n2}
  Capacidad <- CapDos
  Rutas = {a}
  HayPrueba = TRUE
  MB = 5
  Textos <- TextosUno
  Comandos = {"rm", "rm -b", "cpblock", "format"}
  Hilos = {"consola"}
  Muertes = 1
  MaxOtras = 1
  MaxSobra = 1
  MaxDeriva = 0
  Nulo = Nulo
INVARIANTS
  TypeOKFS
  ContadorBitmap
  NingunBloqueCompartido
  DatosEnDisco
SYMMETRY Simetria
CHECK_DEADLOCK FALSE
