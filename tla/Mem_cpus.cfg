CONSTANTS
  Procs = {p1, p2, p3}
  Ids = {i1}
  Cpus = {c1, c2}
  Tamanios = {1, 2}
  Ram = 3
  Nuevo = 0
  MaxSeg = 2
  WorstFit = FALSE
  TamBloque = 1
  Bloques = 4
  SwapLleno = FALSE
  SwapFalla = FALSE
  Aislado = TRUE
  Nulo = Nulo
SPECIFICATION Spec
INVARIANTS DatosIntactos
