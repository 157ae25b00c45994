SPECIFICATION Spec
CONSTANTS
  NumMineros = 3
  NumMonitores = 2
  Fallan = {2, 4}
  Mortales = {4}
INVARIANTS
  Restos
  PrimerMinero
PROPERTIES
  SinVuelta
  Acaba
CHECK_DEADLOCK FALSE
