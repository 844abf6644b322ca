CONSTANTS
  Alto = {a}
  Medio = {b}
  Bajo = {d}
  Procs <- MCProcs
  Prioridad <- MCPrioridad
  Cpus = {c1}
  Interfaces = {w}
  Nombres = {m, n}
  Niveles = 3
  FallaIO = FALSE
  Nadie = Nadie
SPECIFICATION Spec
CHECK_DEADLOCK FALSE
INVARIANTS TypeOK HerenciaExacta
PROPERTIES EsperaTermina FinSinEspera
