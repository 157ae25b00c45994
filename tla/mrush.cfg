SPECIFICATION Spec
CONSTANTS
  POW_LIMIT = 7
  BIG_X = 3
  BIG_Y = 1
  n_cycles = 3
  n_threads = 2
  Objetivos <- Algunos
  HilosFallan = TRUE
  ForkFalla = TRUE
  Matables <- Cualquiera
  Basura <- MCBasura
INVARIANTS
  TypeOK
  Acuerdo
  BusquedaFiel
  ExitoFiel
PROPERTY Termina
CHECK_DEADLOCK FALSE
