SPECIFICATION Spec
CONSTANTS
  POW_LIMIT = 5
  BIG_X = 3
  BIG_Y = 1
  BUFFER_SIZE = 2
  MAX_MSG = 2
  Pares <- MCPares
  NumBloques = 3
  MaxSigint = 2
  Destinos <- Cualquiera
  ColaCreada <- ConOSin
  MineroCae = TRUE
  MmapFalla = TRUE
  Basura <- MCBasura
INVARIANTS
  TypeOK
  ExclusionMutua
  NoSobrescribe
  OrdenFifo
  VeredictoFiel
  FinEsUltimo
PROPERTY FinLlega
CHECK_DEADLOCK FALSE
