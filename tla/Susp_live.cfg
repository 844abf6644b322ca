CONSTANTS
  p1 = p1  p2 = p2
  teclado = teclado  pantalla = pantalla  reloj = reloj
  Procs = {p1, p2}
  Ios = {teclado}
  Tipo <- TipoMC
  Prioridad <- PrioridadMC
  Caben <- CabeTodos
  Fragmenta = FALSE
  MaxEpoch = 1
  MaxSem = 1
  Desconectan = {}
  Tardias = {teclado}
  SwapFalla = TRUE
  Nulo = Nulo
SPECIFICATION FairSpec
INVARIANTS ResidenteParaEjecutar EntradaEscrita
PROPERTIES VuelveDeIO 
CHECK_DEADLOCK FALSE
