CONSTANTS
  p1 = p1  p2 = p2
  teclado = teclado  pantalla = pantalla  reloj = reloj
  Procs = {p1, p2}
  Ios = {teclado, pantalla}
  Tipo <- TipoMC
  Prioridad <- PrioridadIgual
  Caben <- CabeUno
  Fragmenta = TRUE
  MaxEpoch = 2
  MaxSem = 0
  Desconectan = {pantalla}
  Tardias = {}
  SwapFalla = FALSE
  Nulo = Nulo
SPECIFICATION Spec
INVARIANTS TypeOK VolcadoQuieto ListoTrasVolcado ResidenteParaEjecutar AccesoResidente EntradaEscrita LiberadoSinRastro UnPedido
 
SYMMETRY Simetria
CHECK_DEADLOCK FALSE
