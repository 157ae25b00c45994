SPECIFICATION Spec
CONSTANTS
  n_procs = 2
  Repartos <- UnPar
  NombresIniciales <- Resto
  FALLOS <- Todos
  MaxRondas = 1
  MaxSenales = 1
  Destinos <- CtrlC
INVARIANTS
  TypeOK
  ExclusionFichero
PROPERTY Termina
CHECK_DEADLOCK FALSE
