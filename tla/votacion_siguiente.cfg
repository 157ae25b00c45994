SPECIFICATION Spec
CONSTANTS
  n_procs = 2
  Repartos <- Dos
  NombresIniciales <- Limpio
  FALLOS <- Ninguno
  MaxRondas = 2
  MaxSenales = 0
  Destinos <- Nadie
PROPERTY SiguienteRonda
CHECK_DEADLOCK FALSE
