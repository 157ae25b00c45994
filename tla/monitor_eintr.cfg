SPECIFICATION Spec
CONSTANTS
  POW_LIMIT = 5
  BIG_X = 3
  BIG_Y = 1
  BUFFER_SIZE = 1
  MAX_MSG = 2
  Pares <- MCPares
  NumBloques = 3
  MaxSigint = 1
  Destinos <- SoloPadre
  ColaCreada <- ConCola
  MineroCae = FALSE
  MmapFalla = FALSE
  Basura <- MCBasura
INVARIANTS
  RanuraLibre
CHECK_DEADLOCK FALSE
