SPECIFICATION Spec
CONSTANTS
  POW_LIMIT = 5
  BIG_X = 3
  BIG_Y = 1
  BUFFER_SIZE = 2
  MAX_MSG = 2
  Pares <- MCPares
  NumBloques = 5
  MaxSigint = 0
  Destinos <- Nadie
  ColaCreada <- ConCola
  MineroCae = FALSE
  MmapFalla = FALSE
  Basura <- MCBasura
PROPERTIES
  ImplementaCanal
  TodoSeImprime
CHECK_DEADLOCK FALSE
