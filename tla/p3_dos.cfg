SPECIFICATION Spec
CONSTANTS
  POW_LIMIT = 8
  BIG_X = 2
  BIG_Y = 4
  Monitores = {m1, m2}
  Mineros = {n1, n2}
  Nadie = Nadie
  BUFFER_SIZE = 2
  MAX_MSG = 2
  Ciclos = {2, 3}
  Fallos = FALSE
  MaxMuertes = 0
INVARIANT
  Conserva
PROPERTIES
  ImplementaCanal
CHECK_DEADLOCK FALSE
