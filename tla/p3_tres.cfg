SPECIFICATION Spec
CONSTANTS
  POW_LIMIT = 5
  BIG_X = 3
  BIG_Y = 1
  Monitores = {m1, m2, m3}
  Mineros = {n1}
  Nadie = Nadie
  BUFFER_SIZE = 2
  MAX_MSG = 1
  Ciclos = {0, 2}
  Fallos = TRUE
  MaxMuertes = 1
INVARIANTS
  MemoriaSegura
  Reparto
PROPERTY
  Acaba
CHECK_DEADLOCK FALSE
