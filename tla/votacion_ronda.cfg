SPECIFICATION Spec
CONSTANTS
  n_procs = 3
  Repartos <- Tres
  NombresIniciales <- Limpio
  FALLOS <- Ninguno
  MaxRondas = 3
  MaxSenales = 0
  Destinos <- Nadie
INVARIANTS
  UnCandidato
  Reunidos
PROPERTIES
  ImplementaUrna
  PrimeraRonda
CHECK_DEADLOCK FALSE
