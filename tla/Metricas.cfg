\* Five threads of a Master and its metric of parallel operations.
CONSTANTS
  t1 = t1
  t2 = t2
  t3 = t3
  r1 = r1
  r2 = r2
  Nulo = Nulo
  Transf = {t1, t2, t3}
  Redu = {r1, r2}
SPECIFICATION Spec
INVARIANTS
  CotaReal
  MaximoExacto
SYMMETRY Simetria
CHECK_DEADLOCK FALSE
