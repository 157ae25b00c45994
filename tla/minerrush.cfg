SPECIFICATION Spec
CONSTANTS
  POW_LIMIT = 5
  BIG_X = 3
  BIG_Y = 1
  BUFFER_SIZE = 2
  MAX_MSG = 1
  PipeCap = 1
  Buscados <- SinUltimo
  HilosFallan = FALSE
  OpenFalla = FALSE
  IpcFalla = FALSE
  MaxBloques = 2
  MaxSigint = 1
  DestinosMinero <- DelMinero
  DestinosMonitor <- DelMonitor
  MmapFalla = TRUE
  Basura <- MCBasura
INVARIANT
  ImpresoEsMinado
PROPERTIES
  ImplementaMinero
  Acaba
CHECK_DEADLOCK FALSE
