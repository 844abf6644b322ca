CONSTANTS
  Alto = {a}
  Bajo = {b}
  Procs <- MCProcs
  Prioridad <- MCPrioridad
  Cpus = {c1}
  Externos = {e}
  Niveles = 2
  NivelesRR = {1}
  Desalojo = TRUE
  Compacta = TRUE
  Caen = TRUE
  MaxCanal = 1
  MaxRelojes = 1
  MaxSem = 1
  MaxExtra = 1
  Nulo = Nulo
SPECIFICATION Spec
CHECK_DEADLOCK FALSE
INVARIANTS TypeOK UnSoloLugar CpuSegunTabla SenalPorListo SinDespertarPerdido
