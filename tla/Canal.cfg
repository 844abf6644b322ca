SPECIFICATION Spec
CONSTANTS
  Procs = {p1, p2}
  Iniciales = {p1}
  Hilos = {t1, t2}
  Segs = {1, 2}
  MaxPedidos = 4
  MaxSegs = 2
  MaxNuevas = 1
  Cae = TRUE
  Tarde = FALSE
  Nulo = Nulo
INVARIANTS
  RespuestaPropia
  CompactacionSinCorte
  AdmitidoExiste
  SegmentosCoinciden
PROPERTY CanalLibre
CHECK_DEADLOCK FALSE
