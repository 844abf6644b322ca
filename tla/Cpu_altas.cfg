INIT Init
NEXT Next
CONSTANTS
  p1 = p1
  p2 = p2
  c1 = c1
  c2 = c2
  s1 = s1
  s2 = s2
  Nulo = Nulo
  Procs = {p1, p2}
  Cpus = {c1, c2}
  Sticks = {s1, s2}
  Programa <- MCProgramaAltas
  TamStick <- MCTam
  Primeros = {c1}
  StickBase <- MCInicio
  MaxSticks = 3
  MaxMueve = 1
  MaxIrq = 1
  Byte = 4
  BytesReg = 2
  Regs8 = {"AX"}
  Regs32 = {"EAX", "SI", "DI"}
  MaxSeg = 4
INVARIANTS
  TypeOK
  SticksConocidos
CHECK_DEADLOCK FALSE
