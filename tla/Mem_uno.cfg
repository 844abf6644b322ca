CONSTANTS
  Procs = {p1, p2}
  Ids = {i1, i2}
  Cpus = {c1}
  Tamanios = {1, 2, 3}
  Ram = 2
  Nuevo = 2
  MaxSeg = 2
  WorstFit = FALSE
  TamBloque = 2
  Bloques = 2
  SwapLleno = FALSE
  SwapFalla = FALSE
  Aislado = TRUE
  Nulo = Nulo
SPECIFICATION Spec
SYMMETRY Simetria
INVARIANTS TypeOK SinSolape SinFugas DatosIntactos
PROPERTIES NiegaSoloSinEspacio
