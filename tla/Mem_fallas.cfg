CONSTANTS
  Procs = {p1, p2}
  Ids = {i1, i2}
  Cpus = {c1, c2}
  Tamanios = {1}
  Ram = 2
  Nuevo = 1
  MaxSeg = 1
  WorstFit = TRUE
  TamBloque = 1
  Bloques = 1
  SwapLleno = TRUE
  SwapFalla = TRUE
  Aislado = FALSE
  Nulo = Nulo
SPECIFICATION Spec
SYMMETRY SimetriaCpus
INVARIANTS SinSolape
