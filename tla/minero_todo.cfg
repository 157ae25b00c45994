SPECIFICATION Spec
CONSTANTS
  POW_LIMIT = 5
  BIG_X = 3
  BIG_Y = 1
  MAX_MSG = 2
  PipeCap = 1
  Buscados <- SinUltimo
  HilosFallan = TRUE
  OpenFalla = TRUE
  IpcFalla = TRUE
  MqInicial <- LibreONo
  ShmInicial <- LibreONo
  MaxBloques = 3
  MaxSigint = 1
  Destinos <- Cualquiera
INVARIANTS
  TypeOK
  RegistroFiel
  RegistroCompleto
  EnvioNoBloquea
  ColaEnOrden
  Cadena
PROPERTY Termina
CHECK_DEADLOCK FALSE
