CONSTANTS
  Alto = {a}
  Bajo = {b}
  Procs <- MCProcs
  Prioridad <- MCPrioridad
  Cpus = {c1, c2}
  Externos = {e}
  Niveles = 2
  NivelesRR = {}
  Desalojo = FALSE
  Compacta = FALSE
  Caen = FALSE
  MaxCanal = 2
  MaxRelojes = 1
  MaxSem = 1
  MaxExtra = 0
  Nulo = Nulo
SPECIFICATION FairSpec
CHECK_DEADLOCK FALSE
INVARIANT UnSoloLugar
PROPERTIES ListoCorre
