-------------------------------- MODULE Cpu --------------------------------
(***************************************************************************)
(* The CPU module with what it talks to: its instruction cycle and MMU     *)
(* (cpu_ciclo.c, cpu_mmu.c), its connections (cpu_memory.c,                *)
(* cpu_scheduler.c, main.c), the threads of kernel_memory that register    *)
(* CPUs and Memory Sticks and serve CPUs (memory_cpu.c,                    *)
(* memory_conexiones.c), and the sticks (utils_memory_stick.c).            *)
(*                                                                         *)
(* kernel_memory keeps the context of every process; a CPU works on a copy *)
(* of it and writes the whole copy back.  Bytes live in the sticks, which  *)
(* the CPU reaches by itself; it learns of a stick from kernel_memory, on  *)
(* the stream that also carries the answers to its requests.               *)
(*                                                                         *)
(* The scheduler is reduced to what a CPU sees of it (module Dispatch has  *)
(* the rest); allocation and relocation to their outcome (KernelMemory).   *)
(***************************************************************************)
EXTENDS Instrucciones, SequencesExt

CONSTANTS
  Procs, Cpus, Sticks,
  Programa,    \* the instructions of each process
  TamStick,    \* bytes of each stick
  Primeros,    \* CPUs connected at the start
  StickBase,   \* the sticks connected at the start, in order
  MaxSticks,   \* MAX_MEMORY_STICKS of the CPU
  MaxMueve,    \* bound: relocations
  MaxIrq,      \* bound: interrupts
  Nulo

ASSUME CpuAssumption ==
  /\ Nulo \notin Procs \union Cpus \union Sticks /\ Primeros \subseteq Cpus
  /\ TamStick \in [Sticks -> Nat \ {0}]
  /\ \A p \in Procs :
       Len(Programa[p]) \in Nat /\ \A k \in 1 .. Len(Programa[p]) : Programa[p][k].val \in Nat
  /\ IsFiniteSet(Cpus) /\ IsFiniteSet(Sticks)
  /\ StickBase \in Seq(Sticks) /\ IsInjective(StickBase)
  /\ MaxSticks \in Nat /\ MaxMueve \in Nat /\ MaxIrq \in Nat
  \* RAM ends before an address can wrap around.
  /\ FoldFunction(LAMBDA t, n : t + n, 0, TamStick) + MaxSeg < Palabra

VARIABLES
  \* each CPU
  fase,      \* where its main thread is
  pid,       \* pid_en_ejecucion
  proximo,   \* pid_a_ejecutar, while sem_proceso_listo is up
  ctx,       \* its t_contexto
  ins,       \* the instruction it executes
  res,       \* the t_resultado_execute it ended with
  porc,      \* portions of the access still to transfer
  buf,       \* bytes of the access
  irq,       \* interrupcion_pendiente
  conoce,    \* cpu_connections.memory_sticks
  resp,      \* the answer its listener left, while respuesta_lista is up
  \* streams between kernel_memory and each CPU
  rx, pedido,
  \* kernel_memory: thread that registers each CPU, thread of each stick
  hpc, hpend, spc, spend,
  registradas,  \* active.cpus
  sticks,       \* active.sticks
  tabla,        \* saved context of each process
  libre,        \* addresses of bloques_libres
  \* bytes of the sticks
  ram,
  \* scheduler
  donde,     \* "listo", the CPU that has the process, "sale" or "fin"
  llamada,   \* the memory syscall in service
  mueve,     \* relocations so far
  irqs       \* interrupts so far

cpuVars  == <<fase, pid, proximo, ctx, ins, res, porc, buf, irq>>
redVars  == <<conoce, resp, rx, pedido>>
altaVars == <<hpc, hpend, spc, spend, registradas, sticks>>
kerVars  == <<tabla, libre, ram, donde, llamada, mueve>>

vars == <<cpuVars, redVars, altaVars, kerVars, irqs>>

Contexto(p) == [pid |-> p, regs |-> [r \in Regs |-> 0], pc |-> 0, segs |-> <<>>]
SinContexto == Contexto(Nulo)

\* Requests of a CPU, and answers and notices it gets, by their op_code.
Pedido(t, x) == [t |-> t, ctx |-> x]
SinPedido    == Pedido("", SinContexto)
Msg(t)       == [t |-> t, stick |-> Nulo, ctx |-> SinContexto, ins |-> Vacia]
MsgStick(e)  == [Msg("STICK") EXCEPT !.stick = e]
MsgCtx(x)    == [Msg("CTX") EXCEPT !.ctx = x]
MsgIns(i)    == [Msg("INSTR") EXCEPT !.ins = i]

Rango(b, t) == b .. (b + t - 1)

\* conexiones_agregar_stick: the entry a stick gets after those of lista.
Entrada(lista, s) ==
  LET tam == [k \in 1 .. Len(lista) |-> lista[k].tam]
  IN  [id |-> s, tam |-> TamStick[s], base |-> Suma(tam, Len(lista))]

\* The entries after adding those of StickBase one by one.
SticksInicio ==
  LET tam == [k \in 1 .. Len(StickBase) |-> TamStick[StickBase[k]]]
  IN  [k \in 1 .. Len(StickBase) |->
        [id |-> StickBase[k], tam |-> tam[k], base |-> Suma(tam, k - 1)]]

Init ==
  /\ fase = [c \in Cpus |-> IF c \in Primeros THEN "libre" ELSE "config"]
  /\ pid = [c \in Cpus |-> Nulo] /\ proximo = pid
  /\ ctx = [c \in Cpus |-> SinContexto]
  /\ ins = [c \in Cpus |-> Vacia] /\ res = [c \in Cpus |-> ""]
  /\ porc = [c \in Cpus |-> <<>>] /\ buf = porc
  /\ irq = [c \in Cpus |-> FALSE]
  /\ conoce = [c \in Cpus |-> IF c \in Primeros THEN SticksInicio ELSE <<>>]
  /\ resp = [c \in Cpus |-> Msg("")]
  /\ rx = porc /\ pedido = [c \in Cpus |-> SinPedido]
  /\ hpc = [c \in Cpus |-> IF c \in Primeros THEN "sirve" ELSE "no"]
  /\ hpend = porc
  /\ spc = [s \in Sticks |-> IF s \in Range(StickBase) THEN "fin" ELSE "no"]
  /\ spend = [s \in Sticks |-> <<>>]
  /\ registradas = SetToSeq(Primeros)
  /\ sticks = SticksInicio
  /\ tabla = [p \in Procs |-> Contexto(p)]
  /\ libre = UNION {Rango(e.base, e.tam) : e \in Range(SticksInicio)}
  /\ ram = [s \in Sticks |-> [x \in Rango(0, TamStick[s]) |-> 0]]
  /\ donde = [p \in Procs |-> "listo"]
  /\ llamada = [p \in Procs |-> Vacia]
  /\ mueve = 0 /\ irqs = 0

-----------------------------------------------------------------------------
(* kernel_memory registers a CPU: registrar_cpu, a thread per connection.  *)

Enviar(c, m) == rx' = [rx EXCEPT ![c] = Append(@, m)]

\* HANDSHAKE_CPU arrives: conexiones_agregar_cpu.
RegistrarCpu(c) ==
  /\ hpc[c] = "no"
  /\ registradas' = Append(registradas, c)
  /\ hpc' = [hpc EXCEPT ![c] = "config"]
  /\ UNCHANGED <<cpuVars, redVars, hpend, spc, spend, sticks, kerVars>>

EnviarConfig(c) ==
  /\ hpc[c] = "config"
  /\ Enviar(c, Msg("CONFIG"))
  /\ hpc' = [hpc EXCEPT ![c] = "cuenta"]
  /\ UNCHANGED <<cpuVars, conoce, resp, pedido, hpend, spc, spend, registradas, sticks,
                 kerVars>>

\* notificar_sticks_a_cpu: the sticks are counted once, then sent one by one.
ContarSticks(c) ==
  /\ hpc[c] = "cuenta"
  /\ hpc' = [hpc EXCEPT ![c] = "avisa"]
  /\ hpend' = [hpend EXCEPT ![c] = sticks]
  /\ UNCHANGED <<cpuVars, redVars, spc, spend, registradas, sticks, kerVars>>

AvisarStick(c) ==
  /\ hpc[c] = "avisa" /\ hpend[c] # <<>>
  /\ Enviar(c, MsgStick(Head(hpend[c])))
  /\ hpend' = [hpend EXCEPT ![c] = Tail(@)]
  /\ UNCHANGED <<cpuVars, conoce, resp, pedido, hpc, spc, spend, registradas, sticks,
                 kerVars>>

\* memory_receptor_cpu_thread starts.
Servir(c) ==
  /\ hpc[c] = "avisa" /\ hpend[c] = <<>>
  /\ hpc' = [hpc EXCEPT ![c] = "sirve"]
  /\ UNCHANGED <<cpuVars, redVars, hpend, spc, spend, registradas, sticks, kerVars>>

-----------------------------------------------------------------------------
(* kernel_memory registers a stick: registrar_memory_stick.                *)

\* Mutant: the CPUs are counted before the stick is in the list.
StickAgregaContando(s) ==
  /\ spc[s] = "no"
  /\ IF spend[s] = <<>> /\ registradas # <<>>
     THEN spend' = [spend EXCEPT ![s] = registradas] /\ UNCHANGED <<sticks, spc>>
     ELSE /\ sticks' = Append(sticks, Entrada(sticks, s))
          /\ spc' = [spc EXCEPT ![s] = "avisa"] /\ UNCHANGED spend
  /\ UNCHANGED <<cpuVars, redVars, hpc, hpend, registradas, kerVars>>

StickAgrega(s) ==
  /\ spc[s] = "no"
  /\ sticks' = Append(sticks, Entrada(sticks, s))
  /\ spc' = [spc EXCEPT ![s] = "cuenta"]
  /\ UNCHANGED <<cpuVars, redVars, hpc, hpend, spend, registradas, kerVars>>

\* notificar_cpus_de_nuevo_stick counts the CPUs, then sends to one at a time.
\* A CPU counted before its CONFIG was sent gets the stick first, takes it for the
\* configuration, and its stream is out of step for ever ("desfasada").
StickCuenta(s) ==
  /\ spc[s] = "cuenta"
  /\ spc' = [spc EXCEPT ![s] = "avisa"]
  /\ spend' = [spend EXCEPT ![s] = registradas]
  /\ UNCHANGED <<cpuVars, redVars, hpc, hpend, registradas, sticks, kerVars>>

EntradaDe(s) == CHOOSE e \in Range(sticks) : e.id = s

StickAvisa(s) ==
  /\ spc[s] = "avisa" /\ spend[s] # <<>>
  /\ Enviar(Head(spend[s]), MsgStick(EntradaDe(s)))
  /\ spend' = [spend EXCEPT ![s] = Tail(@)]
  /\ UNCHANGED <<cpuVars, conoce, resp, pedido, hpc, hpend, spc, registradas, sticks,
                 kerVars>>

\* bloques_agregar: from here on the stick is given to processes.
StickLibre(s) ==
  /\ spc[s] = "avisa" /\ spend[s] = <<>>
  /\ spc' = [spc EXCEPT ![s] = "fin"]
  /\ libre' = libre \union Rango(EntradaDe(s).base, TamStick[s])
  /\ UNCHANGED <<cpuVars, redVars, hpc, hpend, spend, registradas, sticks, tabla, ram,
                 donde, llamada, mueve>>

-----------------------------------------------------------------------------
(* kernel_memory serves a CPU.                                             *)

Existe(p) == donde[p] # "fin"

Contesta(c) ==
  /\ hpc[c] = "sirve"
  /\ pedido' = [pedido EXCEPT ![c] = SinPedido]
  /\ UNCHANGED <<cpuVars, conoce, resp, altaVars, libre, ram, donde, llamada, mueve>>

\* An unknown PID gets no answer.
MemContexto(c) ==
  LET p == pedido[c].ctx.pid IN
  /\ pedido[c].t = "CTX"
  /\ IF Existe(p) THEN Enviar(c, MsgCtx(tabla[p])) ELSE UNCHANGED rx
  /\ Contesta(c)
  /\ UNCHANGED tabla

MemInstruccion(c) ==
  LET p == pedido[c].ctx.pid
      i == Linea(Programa[p], pedido[c].ctx.pc)
  IN
  /\ pedido[c].t = "INSTR"
  /\ Enviar(c, MsgIns(IF Existe(p) THEN i ELSE Vacia))
  /\ Contesta(c)
  /\ UNCHANGED tabla

\* actualizar_proceso_desde_contexto replaces registers and segment table.
MemActualizar(c) ==
  LET p == pedido[c].ctx.pid IN
  /\ pedido[c].t = "GUARDAR"
  /\ tabla' = IF Existe(p) THEN [tabla EXCEPT ![p] = pedido[c].ctx] ELSE tabla
  /\ Enviar(c, Msg("ACK"))
  /\ Contesta(c)

-----------------------------------------------------------------------------
(* Threads of the CPU that receive.                                        *)

\* conectar_a_memory reads CONFIG_MMU_CPU itself; then the listener starts.
CpuConfig(c) ==
  /\ fase[c] = "config" /\ rx[c] # <<>>
  /\ fase' = [fase EXCEPT ![c] = IF Head(rx[c]).t = "CONFIG" THEN "libre" ELSE "desfasada"]
  /\ rx' = [rx EXCEPT ![c] = Tail(@)]
  /\ UNCHANGED <<pid, proximo, ctx, ins, res, porc, buf, irq, conoce, resp, pedido,
                 altaVars, kerVars>>

\* conectar_a_memory_stick: beyond MAX_MEMORY_STICKS a stick is ignored.
AgregarStick(c, e) ==
  conoce' = IF Len(conoce[c]) < MaxSticks THEN [conoce EXCEPT ![c] = Append(@, e)] ELSE conoce

\* manejar_instruccion, manejar_contexto and manejar_ack: the one slot for answers.
Responder(c, m) == resp' = [resp EXCEPT ![c] = m]

\* cpu_memory_listener_thread: a new stick, or the answer the main thread waits for.
Escuchar(c) ==
  LET m == Head(rx[c]) IN
  /\ fase[c] \notin {"config", "desfasada"} /\ rx[c] # <<>>
  /\ rx' = [rx EXCEPT ![c] = Tail(@)]
  /\ IF m.t = "STICK"
     THEN AgregarStick(c, m.stick) /\ UNCHANGED resp
     ELSE Responder(c, m) /\ UNCHANGED conoce
  /\ UNCHANGED <<cpuVars, pedido, altaVars, kerVars>>

\* INTERRUPCION for the process the CPU has; any other one is discarded.
Interrumpir(c) ==
  /\ pid[c] # Nulo /\ ~ irq[c] /\ irqs < MaxIrq
  /\ irqs' = irqs + 1
  /\ irq' = [irq EXCEPT ![c] = TRUE]
  /\ UNCHANGED <<fase, pid, proximo, ctx, ins, res, porc, buf, redVars, altaVars, kerVars>>

-----------------------------------------------------------------------------
(* cpu_mmu.c.                                                              *)

\* Index of the first stick c knows with that address, 0 if none.
StickDe(c, dir) ==
  SelectInSeq(conoce[c], LAMBDA e : dir \in Rango(e.base, e.tam))

\* The portions of t bytes from the physical address dir: stick, offset in it,
\* bytes, and offset in the buffer.  stick = 0 if an address has no stick.
Porciones(c, dir, t) ==
  LET f[n \in 0 .. t] ==
        IF n = 0 THEN <<>>
        ELSE LET d == (dir + t - n) % Palabra
                 i == StickDe(c, d)
                 e == conoce[c][i]
                 chunk == IF n < e.base + e.tam - d THEN n ELSE e.base + e.tam - d
             IN  IF i = 0 THEN <<[stick |-> 0, dir |-> 0, n |-> 0, off |-> 0]>>
                 ELSE <<[stick |-> i, dir |-> d - e.base, n |-> chunk, off |-> t - n]>>
                        \o f[n - chunk]
  IN  f[t]

Invalida == <<[stick |-> 0, dir |-> 0, n |-> 0, off |-> 0]>>

\* mmu_traducir_dir_logica: the sum with the size is of 32 bits.
Traducir(c, dir, t) ==
  LET d == Descomponer(dir)
      k == BuscarSegmento(ctx[c].segs, d.seg)
  IN  IF k = 0 \/ (d.desp + t) % Palabra > ctx[c].segs[k].lim THEN Invalida
      ELSE Porciones(c, (ctx[c].segs[k].base + d.desp) % Palabra, t)

EsValida(ps) == \A k \in 1 .. Len(ps) : ps[k].stick # 0

-----------------------------------------------------------------------------
(* cpu_ciclo.c: the main thread.                                           *)

Avanza(x) == [x EXCEPT !.pc = SigPc(@)]

Quieto(c) == UNCHANGED <<proximo, conoce, rx, altaVars, tabla, libre, mueve>>

\* main, esperar_pid_del_scheduler, solicitar_contexto_a_memory.
Tomar(c) ==
  /\ fase[c] = "libre" /\ proximo[c] # Nulo
  /\ proximo' = [proximo EXCEPT ![c] = Nulo]
  /\ pedido' = [pedido EXCEPT ![c] = Pedido("CTX", Contexto(proximo[c]))]
  /\ fase' = [fase EXCEPT ![c] = "ctx"]
  /\ UNCHANGED <<pid, ctx, ins, res, porc, buf, irq, conoce, resp, rx, altaVars, kerVars>>

\* fetch_instruccion asks for the line at pc.
Fetch(c, x) ==
  /\ pedido' = [pedido EXCEPT ![c] = Pedido("INSTR", x)]
  /\ fase' = [fase EXCEPT ![c] = "fetch"]

Consume(c) == resp' = [resp EXCEPT ![c] = Msg("")]

\* Any other answer ends the cycle without a word to the scheduler.
TomarContexto(c) ==
  LET m == resp[c] IN
  /\ fase[c] = "ctx" /\ m.t # ""
  /\ Consume(c)
  /\ IF m.t = "CTX"
     THEN /\ ctx' = [ctx EXCEPT ![c] = m.ctx]
          /\ pid' = [pid EXCEPT ![c] = m.ctx.pid]
          /\ Fetch(c, m.ctx)
     ELSE fase' = [fase EXCEPT ![c] = "libre"] /\ UNCHANGED <<ctx, pid, pedido>>
  /\ UNCHANGED <<ins, res, porc, buf, irq, ram, donde, llamada>> /\ Quieto(c)

\* The line arrives (decode_instruccion) and execute_instruccion starts with it.
LlegaInstruccion(c) ==
  /\ fase[c] = "fetch" /\ resp[c].t # ""
  /\ Consume(c)
  /\ ins' = [ins EXCEPT ![c] = resp[c].ins]

\* actualizar_contexto_en_memory: the cycle ends with result r and context x.
Guardar(c, r, x) ==
  /\ res' = [res EXCEPT ![c] = r]
  /\ ctx' = [ctx EXCEPT ![c] = x]
  /\ pedido' = [pedido EXCEPT ![c] = Pedido("GUARDAR", x)]
  /\ fase' = [fase EXCEPT ![c] = "guarda"]

EjecutarRegistros(c) ==
  LET n == RegPaso(ctx[c].regs, ctx[c].pc, resp[c].ins) IN
  /\ LlegaInstruccion(c) /\ resp[c].ins.op \in RegOps
  /\ ctx' = [ctx EXCEPT ![c].regs = n.regs, ![c].pc = n.pc]
  /\ fase' = [fase EXCEPT ![c] = "irq"]
  /\ UNCHANGED <<pid, res, porc, buf, irq, pedido, ram, donde, llamada>>
  /\ Quieto(c)

\* EXIT, a syscall, a line with too few parameters (pc advances all the same)
\* and an unknown instruction (it does not).
EjecutarResto(c) ==
  LET op == resp[c].ins.op IN
  /\ LlegaInstruccion(c) /\ op \notin RegOps \union MmuOps
  /\ Guardar(c,
       IF op = "EXIT" THEN "EXIT" ELSE IF op \in Syscalls THEN "SYSCALL" ELSE "ERROR",
       IF op = "" THEN ctx[c] ELSE Avanza(ctx[c]))
  /\ UNCHANGED <<pid, porc, buf, irq, ram, donde, llamada>> /\ Quieto(c)

\* Either the transfer of a legal access starts, or the cycle ends in SEG_FAULT.
Acceso(c, dir, t, f, bs) ==
  LET ps == Traducir(c, dir, t) IN
  IF EsValida(ps)
  THEN /\ porc' = [porc EXCEPT ![c] = ps]
       /\ buf' = [buf EXCEPT ![c] = bs]
       /\ fase' = [fase EXCEPT ![c] = f]
       /\ UNCHANGED <<res, ctx, pedido>>
  ELSE Guardar(c, "SEG_FAULT", Avanza(ctx[c])) /\ UNCHANGED <<porc, buf>>

EjecutarMmu(c) ==
  LET i == resp[c].ins
      r == ctx[c].regs
      t == Tamanio(r, i)
  IN
  /\ LlegaInstruccion(c) /\ i.op \in MmuOps
  /\ IF Lee(i) THEN Acceso(c, r["SI"], t, "lee", <<>>)
     ELSE Acceso(c, r["DI"], t, "escribe", ABytes(Obtener(r, i.reg), t))
  /\ UNCHANGED <<pid, irq, ram, donde, llamada>> /\ Quieto(c)

\* manejar_lectura and manejar_escritura of a stick: the bytes it sends, and what
\* it holds once bs is written.  A portion never leaves the stick.
Lectura(s, dir, n) == [k \in 1 .. n |-> ram[s][dir + k - 1]]

Escritura(s, dir, bs) ==
  [a \in DOMAIN ram[s] |-> IF a \in Rango(dir, Len(bs)) THEN bs[a - dir + 1] ELSE ram[s][a]]

\* cpu_stick_leer, one portion.
LeerPorcion(c) ==
  LET x == Head(porc[c]) IN
  /\ fase[c] = "lee" /\ porc[c] # <<>>
  /\ buf' = [buf EXCEPT ![c] = @ \o Lectura(conoce[c][x.stick].id, x.dir, x.n)]
  /\ porc' = [porc EXCEPT ![c] = Tail(@)]
  /\ UNCHANGED <<fase, pid, ctx, ins, res, irq, resp, pedido, ram, donde, llamada>>
  /\ Quieto(c)

\* MOV_IN assigns the register; COPY_MEM goes on to write.
FinLectura(c) ==
  LET i == ins[c]
      r == ctx[c].regs
  IN
  /\ fase[c] = "lee" /\ porc[c] = <<>>
  /\ IF Escribe(i) THEN Acceso(c, r["DI"], Tamanio(r, i), "escribe", buf[c])
     ELSE /\ ctx' = [ctx EXCEPT ![c] =
                [Avanza(@) EXCEPT !.regs = Asignar(r, i.reg, DeBytes(buf[c]))]]
          /\ fase' = [fase EXCEPT ![c] = "irq"]
          /\ UNCHANGED <<res, pedido, porc, buf>>
  /\ UNCHANGED <<pid, ins, irq, resp, ram, donde, llamada>> /\ Quieto(c)

\* cpu_stick_escribir, one portion.
EscribirPorcion(c) ==
  LET x == Head(porc[c])
      s == conoce[c][x.stick].id
      bs == SubSeq(buf[c], x.off + 1, x.off + x.n)
  IN
  /\ fase[c] = "escribe" /\ porc[c] # <<>>
  /\ ram' = [ram EXCEPT ![s] = Escritura(s, x.dir, bs)]
  /\ porc' = [porc EXCEPT ![c] = Tail(@)]
  /\ UNCHANGED <<fase, pid, ctx, ins, res, buf, irq, resp, pedido, donde, llamada>>
  /\ Quieto(c)

FinEscritura(c) ==
  /\ fase[c] = "escribe" /\ porc[c] = <<>>
  /\ ctx' = [ctx EXCEPT ![c] = Avanza(@)]
  /\ fase' = [fase EXCEPT ![c] = "irq"]
  /\ UNCHANGED <<pid, ins, res, porc, buf, irq, resp, pedido, ram, donde, llamada>>
  /\ Quieto(c)

\* Mutant: the flag is looked at only after a syscall.
SigueSinMirar(c) ==
  /\ fase[c] = "irq"
  /\ Fetch(c, ctx[c])
  /\ UNCHANGED <<pid, ctx, ins, res, porc, buf, irq, resp, ram, donde, llamada>>
  /\ Quieto(c)

\* check_interrupt, then manejar_interrupcion or the next turn of the loop.
Chequear(c) ==
  /\ fase[c] = "irq"
  /\ irq' = [irq EXCEPT ![c] = FALSE]
  /\ IF irq[c] THEN Guardar(c, "IRQ", ctx[c]) ELSE Fetch(c, ctx[c]) /\ UNCHANGED <<ctx, res>>
  /\ UNCHANGED <<pid, ins, porc, buf, resp, ram, donde, llamada>> /\ Quieto(c)

\* What the scheduler does with a process returned with result r: a memory
\* syscall keeps the CPU; the others, and an interrupt, bring it back to READY.
Devolver(c) ==
  LET p == ctx[c].pid IN
  /\ donde' = [donde EXCEPT ![p] =
       CASE res[c] \in {"EXIT", "SEG_FAULT", "ERROR"} -> "sale"
         [] res[c] = "SYSCALL" /\ ins[c].op \in MemSyscalls -> c
         [] OTHER -> "listo"]
  /\ llamada' = [llamada EXCEPT ![p] =
       IF res[c] = "SYSCALL" /\ ins[c].op \in MemSyscalls THEN ins[c] ELSE Vacia]

\* Mutant: the process is returned without waiting for the ACK.
GuardadoSinAck(c) ==
  /\ fase[c] = "guarda"
  /\ \/ /\ llamada[ctx[c].pid] = Vacia /\ donde[ctx[c].pid] = c /\ res[c] # "" /\ pid[c] # Nulo
        /\ Devolver(c) /\ pid' = [pid EXCEPT ![c] = Nulo]
        /\ UNCHANGED <<fase, resp>>
     \/ /\ pid[c] = Nulo /\ resp[c].t # ""
        /\ Consume(c)
        /\ fase' = [fase EXCEPT ![c] = "limpia"]
        /\ UNCHANGED <<donde, llamada, pid>>
  /\ UNCHANGED <<ctx, ins, res, porc, buf, irq, pedido, ram>> /\ Quieto(c)

\* The ACK arrives and the process is returned to the scheduler.
Guardado(c) ==
  /\ fase[c] = "guarda" /\ resp[c].t # ""
  /\ Consume(c)
  /\ Devolver(c)
  /\ fase' = [fase EXCEPT ![c] = "limpia"]
  /\ UNCHANGED <<pid, ctx, ins, res, porc, buf, irq, pedido, ram>> /\ Quieto(c)

\* limpiar_estado_cpu: an interrupt that came too late is forgotten.
Limpiar(c) ==
  /\ fase[c] = "limpia"
  /\ pid' = [pid EXCEPT ![c] = Nulo]
  /\ irq' = [irq EXCEPT ![c] = FALSE]
  /\ ctx' = [ctx EXCEPT ![c] = SinContexto]
  /\ ins' = [ins EXCEPT ![c] = Vacia]
  /\ res' = [res EXCEPT ![c] = ""]
  /\ porc' = [porc EXCEPT ![c] = <<>>]
  /\ buf' = [buf EXCEPT ![c] = <<>>]
  /\ fase' = [fase EXCEPT ![c] = "libre"]
  /\ UNCHANGED <<resp, pedido, ram, donde, llamada>> /\ Quieto(c)

-----------------------------------------------------------------------------
(* The scheduler, and kernel_memory on its behalf.                         *)

\* EJECUTAR_PROCESO to a CPU nobody has.  The CPU may still be cleaning up.
Despachar(c, p) ==
  /\ donde[p] = "listo" /\ \A q \in Procs : donde[q] # c
  /\ fase[c] \notin {"config", "desfasada"} /\ proximo[c] = Nulo
  /\ donde' = [donde EXCEPT ![p] = c]
  /\ proximo' = [proximo EXCEPT ![c] = p]
  /\ UNCHANGED <<fase, pid, ctx, ins, res, porc, buf, irq, redVars, altaVars,
                 tabla, libre, ram, llamada, mueve>>

\* The memory syscall of p is over and p goes back to its CPU.
Vuelve(p) ==
  /\ llamada' = [llamada EXCEPT ![p] = Vacia]
  /\ proximo' = [proximo EXCEPT ![donde[p]] = p]
  /\ UNCHANGED <<fase, pid, ctx, ins, res, porc, buf, irq, redVars, altaVars, ram, mueve>>

Ubica(p, b) ==
  LET i == llamada[p] IN
  /\ tabla' = [tabla EXCEPT ![p].segs =
       Append(@, [id |-> i.id, base |-> b, lim |-> i.val])]
  /\ libre' = libre \ Rango(b, i.val)

\* manejar_solicitar_segmento, wherever there is room.
ServirAlloc(p) ==
  LET i == llamada[p] IN
  /\ i.op = "MEM_ALLOC" /\ i.val <= MaxSeg
  /\ \E b \in libre : Rango(b, i.val) \subseteq libre /\ Ubica(p, b)
  /\ Vuelve(p) /\ UNCHANGED donde

\* The segment is too large or does not fit: the process ends.
NegarAlloc(p) ==
  LET i == llamada[p] IN
  /\ i.op = "MEM_ALLOC"
  /\ i.val > MaxSeg \/ Cardinality(libre) < i.val
  /\ llamada' = [llamada EXCEPT ![p] = Vacia]
  /\ donde' = [donde EXCEPT ![p] = "sale"]
  /\ UNCHANGED <<cpuVars, redVars, altaVars, tabla, libre, ram, mueve>>

\* manejar_eliminar_segmento.
ServirFree(p) ==
  LET i == llamada[p]
      segs == tabla[p].segs
      k == BuscarSegmento(segs, i.id)
  IN
  /\ i.op = "MEM_FREE"
  /\ IF k = 0 THEN UNCHANGED <<tabla, libre>>
     ELSE /\ tabla' = [tabla EXCEPT ![p].segs = RemoveAt(@, k)]
          /\ libre' = libre \union Rango(segs[k].base, segs[k].lim)
  /\ Vuelve(p) /\ UNCHANGED donde

\* manejar_finalizar_proceso.
Finalizar(p) ==
  /\ donde[p] = "sale"
  /\ donde' = [donde EXCEPT ![p] = "fin"]
  /\ libre' = libre \union UNION {Rango(g.base, g.lim) : g \in Range(tabla[p].segs)}
  /\ tabla' = [tabla EXCEPT ![p].segs = <<>>]
  /\ UNCHANGED <<cpuVars, redVars, altaVars, ram, llamada, mueve>>

\* The byte of a stick at a physical address.
Celda(a) ==
  LET e == CHOOSE x \in Range(sticks) : a \in Rango(x.base, x.tam)
  IN  ram[e.id][a - e.base]

\* A segment of a process without a loaded context moves: compaction while the
\* process or another one waits for MEM_ALLOC, or suspension and return.
Mover(p) ==
  /\ mueve < MaxMueve
  /\ donde[p] = "listo" \/ llamada[p] # Vacia
  /\ \E k \in 1 .. Len(tabla[p].segs) :
       LET g == tabla[p].segs[k]
           hueco == libre \union Rango(g.base, g.lim)
       IN  \E b \in hueco \ {g.base} :
             /\ Rango(b, g.lim) \subseteq hueco
             /\ tabla' = [tabla EXCEPT ![p].segs[k].base = b]
             /\ libre' = hueco \ Rango(b, g.lim)
             /\ ram' = [s \in Sticks |-> [o \in DOMAIN ram[s] |->
                  IF spc[s] = "fin" /\ EntradaDe(s).base + o \in Rango(b, g.lim)
                  THEN Celda(g.base + EntradaDe(s).base + o - b) ELSE ram[s][o]]]
  /\ mueve' = mueve + 1
  /\ UNCHANGED <<cpuVars, redVars, altaVars, donde, llamada>>

-----------------------------------------------------------------------------

Alta(c) ==
  RegistrarCpu(c) \/ EnviarConfig(c) \/ ContarSticks(c) \/ AvisarStick(c) \/ Servir(c)

AltaStick(s) == StickAgrega(s) \/ StickCuenta(s) \/ StickAvisa(s) \/ StickLibre(s)

\* The receptor thread of kernel_memory, the listener and the main thread of c.
Memoria(c) == MemContexto(c) \/ MemInstruccion(c) \/ MemActualizar(c)

Oye(c) == CpuConfig(c) \/ Escuchar(c)

Ciclo(c) ==
  \/ Tomar(c) \/ TomarContexto(c)
  \/ EjecutarRegistros(c) \/ EjecutarResto(c) \/ EjecutarMmu(c)
  \/ LeerPorcion(c) \/ FinLectura(c) \/ EscribirPorcion(c) \/ FinEscritura(c)
  \/ Chequear(c) \/ Guardado(c) \/ Limpiar(c)

Kernel(p) ==
  ServirAlloc(p) \/ NegarAlloc(p) \/ ServirFree(p) \/ Finalizar(p) \/ Mover(p)

Next ==
  \/ \E c \in Cpus : Interrumpir(c)
  \/ /\ \/ \E c \in Cpus : Alta(c) \/ Memoria(c) \/ Oye(c) \/ Ciclo(c)
        \/ \E s \in Sticks : AltaStick(s)
        \/ \E p \in Procs : Kernel(p) \/ \E c \in Cpus : Despachar(c, p)
     /\ UNCHANGED irqs

\* The threads that serve a CPU run when they can: one step of any of them at a
\* time is enough.  Nothing is assumed of the scheduler, nor of registrations.
Atiende(c) == (Memoria(c) \/ Oye(c) \/ Ciclo(c)) /\ UNCHANGED irqs

Fairness == \A c \in Cpus : WF_vars(Atiende(c))

Spec == Init /\ [][Next]_vars /\ Fairness

-----------------------------------------------------------------------------
(* Properties.                                                             *)

Fases == {"config", "desfasada", "libre", "ctx", "fetch", "lee", "escribe",
          "irq", "guarda", "limpia"}

\* Every variable has its type; registers stay within the width of the C types
\* (uint8_t and uint32_t in t_registros) and addresses within the sticks.
TypeOK ==
  /\ fase \in [Cpus -> Fases]
  /\ pid \in [Cpus -> Procs \union {Nulo}] /\ proximo \in [Cpus -> Procs \union {Nulo}]
  /\ \A x \in Range(ctx) \union Range(tabla) :
       /\ x.pid \in Procs \union {Nulo} /\ x.pc \in 0 .. (Palabra - 1)
       /\ x.regs \in [Regs -> 0 .. (Palabra - 1)]
       /\ \A r \in Regs8 : x.regs[r] \in Bytes
  /\ \A b \in Range(buf) : \A k \in DOMAIN b : b[k] \in Bytes
  /\ \A s \in Sticks : ram[s] \in [Rango(0, TamStick[s]) -> Bytes]
  /\ irq \in [Cpus -> BOOLEAN]
  /\ donde \in [Procs -> {"listo", "sale", "fin"} \union Cpus]

\* Phases in which the context of c is the one that counts.
Cargado == {"fetch", "lee", "escribe", "irq", "guarda"}

\* A CPU that has a context knows a stick for each address of its segments: the
\* order of conexiones_agregar_*, the notices and bloques_agregar, and the one
\* stream for notices and contexts, never let a process run ahead of the news.
SticksConocidos ==
  \A c \in Cpus : fase[c] \in Cargado =>
    \A g \in Range(ctx[c].segs) : \A a \in Rango(g.base, g.lim) : StickDe(c, a) # 0

\* CONFIG_MMU_CPU goes first in the stream of a CPU, as the comments of
\* registrar_cpu and conectar_a_memory say.  This is not what the code does: the
\* CPU is in the table before CONFIG is sent to it, and a stick that registers in
\* between is announced to it first (TLC finds it with
\* the constants of run cpu_altas).
ConfigPrimero ==
  \A c \in Cpus : fase[c] = "config" /\ rx[c] # <<>> => Head(rx[c]).t = "CONFIG"

\* An interrupt the listener accepted makes the CPU let go of the process, also
\* of one that never leaves by itself: check_interrupt runs after every
\* instruction and the write-back is always acknowledged.
InterrupcionAtendida ==
  \A c \in Cpus : irq[c] ~> (pid[c] = Nulo)

\* The abstract machine of each process.
Corre(p) == {c \in Cpus : ctx[c].pid = p /\ fase[c] \in Cargado}
EnCpu(p) == Corre(p) # {}
LaCpu(p) == CHOOSE c \in Corre(p) : TRUE
Vigente(p) == IF EnCpu(p) THEN ctx[LaCpu(p)] ELSE tabla[p]

estAbs(p) ==
  CASE donde[p] \in {"sale", "fin"} -> "fin"
    [] EnCpu(p) /\ res[LaCpu(p)] \in {"EXIT", "SEG_FAULT", "ERROR"} -> "fin"
    [] EnCpu(p) /\ res[LaCpu(p)] = "SYSCALL" -> "pide"
    [] llamada[p] # Vacia -> "pide"
    [] OTHER -> "vivo"

\* A write takes effect when its transfer starts.
pcAbs(p) ==
  IF EnCpu(p) /\ fase[LaCpu(p)] = "escribe" THEN SigPc(Vigente(p).pc) ELSE Vigente(p).pc

\* The byte p sees at a physical address: one still to be written counts.
Visto(p, a) ==
  LET c == LaCpu(p)
      cubre == {x \in Range(porc[c]) :
                  a \in Rango(conoce[c][x.stick].base + x.dir, x.n)}
      x == CHOOSE y \in cubre : TRUE
  IN  IF EnCpu(p) /\ fase[c] = "escribe" /\ cubre # {}
      THEN buf[c][x.off + a - conoce[c][x.stick].base - x.dir + 1]
      ELSE Celda(a)

memAbs(p) ==
  IF estAbs(p) = "fin" THEN <<>>
  ELSE [k \in 1 .. Len(tabla[p].segs) |->
         LET g == tabla[p].segs[k]
         IN  [id |-> g.id, datos |-> [j \in 1 .. g.lim |-> Visto(p, g.base + j - 1)]]]

M == INSTANCE Maquina WITH
       est  <- [p \in Procs |-> estAbs(p)],
       regs <- [p \in Procs |-> Vigente(p).regs],
       pc   <- [p \in Procs |-> pcAbs(p)],
       mem  <- [p \in Procs |-> memAbs(p)]

\* CPUs, kernel_memory and sticks give each process the machine of Maquina:
\* context switches between CPUs, accesses split over sticks, relocations, and
\* the whole-context write-back neither lose nor repeat nor leak anything, and an
\* access is refused exactly when it leaves its segment, 32-bit sums or not.
EjecutaPrograma == M!Spec
=============================================================================
