CONSTANTS
  Alto = {}
  Medio = {}
  Bajo = {a, b, d}
  Procs <- MCProcs
  Prioridad <- MCPrioridad
  Cpus = {c1, c2}
  Interfaces = {w}
  Nombres = {m}
  Niveles = 1
  FallaIO = TRUE
  Nadie = Nadie
SPECIFICATION Spec
CHECK_DEADLOCK FALSE
SYMMETRY Simetria
INVARIANTS UnLugar
