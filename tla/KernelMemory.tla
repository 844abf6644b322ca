---------------------------- MODULE KernelMemory ----------------------------
(***************************************************************************)
(* kernel_memory: the free list (memory_bloques.c), the segment tables,    *)
(* allocation with compaction, suspension to and return from swap, end of  *)
(* a process (memory_scheduler.c, memory_compactacion.c, memory_swap.c),   *)
(* Memory Sticks that connect (memory_cpu.c), and the CPUs, which reach    *)
(* the sticks by themselves with the segment table they loaded.            *)
(*                                                                         *)
(* One thread serves the scheduler, a request at a time: rpc is its        *)
(* program counter.  A handler whose whole body is one critical section of *)
(* mutex_memoria is one step; a loop over the segments takes one step per  *)
(* segment.                                                                *)
(***************************************************************************)
EXTENDS Integers, FiniteSets, FiniteSetsExt

CONSTANTS
  Procs,      \* the PIDs
  Ids,        \* segment numbers
  Cpus,       \* connected CPUs
  Tamanios,   \* sizes a program asks for, in cells
  Ram,        \* cells of the sticks connected at the start
  Nuevo,      \* cells of a stick that connects later, 0 if none
  MaxSeg,     \* SEGMENT_MAX_SIZE
  WorstFit,   \* ALLOCATION_STRATEGY is WORST
  TamBloque,  \* cells in a block of swap
  Bloques,    \* blocks of swap
  SwapLleno,  \* TRUE if a process that does not fit in swap may be suspended
  SwapFalla,  \* TRUE if an operation on swap may fail
  Aislado,    \* TRUE if no request is served while a stick registers
  Nulo        \* "no process", "no segment", "no data"

ASSUME MemoryAssumption ==
  /\ Tamanios \subseteq Nat \ {0}
  /\ Ram \in Nat \ {0} /\ Nuevo \in Nat /\ MaxSeg \in Nat /\ Bloques \in Nat
  /\ TamBloque \in Nat \ {0}
  /\ {WorstFit, SwapLleno, SwapFalla, Aislado} \subseteq BOOLEAN
  /\ Nulo \notin Procs /\ Nulo \notin Procs \X Ids

Segs == Procs \X Ids

EnSwap == -1   \* (uint32_t)-1 in t_segmento.base
Nada   == -2   \* the process has no such segment

VARIABLES
  \* tables of kernel_memory
  existe,     \* the processes created and not finished
  base,       \* t_segmento.base of each segment
  limite,     \* t_segmento.limite
  bloque,     \* t_segmento.swap_bloque_inicio
  libres,     \* bloques_libres
  siguiente,  \* next_block of swap
  \* thread that serves the scheduler
  rpc, rp,    \* its program counter, and the process of the request
  rs, rt,     \* the segment and the size of the request, or of the iteration
  pend,       \* segments the current loop has not reached
  reservas,   \* reserva_t: <<segment, base_anterior>>
  cursor,     \* of compactar_memoria
  respuesta,  \* last answer to the scheduler
  \* thread that registers the new stick
  spc,
  \* the processes as the scheduler and the CPUs see them
  modo,       \* each CPU: "libre", "corre", "pide" (in a syscall) or "cae"
  cpid,       \* the process each CPU has, or keeps its place for
  ctx,        \* bases in the context each CPU loaded
  susp,       \* the processes the scheduler holds as suspended
  \* data: the cells and blocks that hold the last contents of a segment
  ram, disco,
  escrito     \* history: the segments that have been written

tablaVars == <<existe, base, limite, bloque>>
rxVars    == <<rpc, rp, rs, rt, pend, reservas, cursor, respuesta>>
cpuVars   == <<modo, cpid, ctx>>
datosVars == <<ram, disco, escrito>>

vars == <<tablaVars, libres, siguiente, rxVars, spc, cpuVars, susp, datosVars>>

Celdas == 0 .. (Ram + Nuevo - 1)
NumBloques == 0 .. (Bloques - 1)
Rango(b, t) == b .. (b + t - 1)

\* mutex_memoria is held between two steps.
Tomado == rpc \in {"suspende", "compacta", "reserva", "deshace", "finaliza"}

\* compactacion_en_progreso of the scheduler.
Pausa == rpc \in {"pausado", "compacta"}

\* conexiones_tamanio_total_ram.
TotalRam == IF spc = "espera" THEN Ram ELSE Ram + Nuevo

\* The cells kernel_memory reaches itself: conexiones_buscar_stick_por_dir only
\* finds a stick once its outbound connection is there.
Alcanzable == {x \in Celdas : x < Ram \/ spc = "fin"}

Init ==
  /\ existe = {} /\ susp = {} /\ escrito = {}
  /\ base   = [s \in Segs |-> Nada]
  /\ limite = [s \in Segs |-> 0]
  /\ bloque = [s \in Segs |-> 0]
  /\ libres = {[base |-> 0, tam |-> Ram]}
  /\ siguiente = 0
  /\ rpc = "libre" /\ rp = Nulo /\ rs = Nulo /\ rt = 0
  /\ pend = {} /\ reservas = {} /\ cursor = 0 /\ respuesta = "OK"
  /\ spc = IF Nuevo > 0 THEN "espera" ELSE "fin"
  /\ modo = [c \in Cpus |-> "libre"]
  /\ cpid = [c \in Cpus |-> Nulo]
  /\ ctx  = [c \in Cpus |-> [i \in Ids |-> Nada]]
  /\ ram   = [x \in Celdas |-> Nulo]
  /\ disco = [b \in NumBloques |-> Nulo]

-----------------------------------------------------------------------------
(* memory_bloques.c.  The list is kept as a set: its order only decides    *)
(* between blocks of the same size.                                        *)

Alcanza(t) == {b \in libres : b.tam >= t}

\* The block bloques_asignar takes for t cells.
Elegible(b, t) ==
  /\ b \in Alcanza(t)
  /\ \A c \in Alcanza(t) : IF WorstFit THEN c.tam <= b.tam ELSE b.tam <= c.tam

\* Mutants: the block keeps its base; an empty block stays in the list.
AsignarSinAvanzar(b, t) ==
  (libres \ {b}) \union
    (IF b.tam = t THEN {} ELSE {[base |-> b.base, tam |-> b.tam - t]})

AsignarDejaVacio(b, t) ==
  (libres \ {b}) \union {[base |-> b.base + t, tam |-> b.tam - t]}

\* What bloques_asignar leaves of the list when it takes t cells of b.
Asignar(b, t) ==
  (libres \ {b}) \union
    (IF b.tam = t THEN {} ELSE {[base |-> b.base + t, tam |-> b.tam - t]})

\* bloques_liberar: insert and merge with the neighbours.
Liberar(b, t) ==
  LET izq == {a \in libres : a.base + a.tam = b}
      der == {a \in libres : a.base = b + t}
      ini == IF izq = {} THEN b ELSE (CHOOSE a \in izq : TRUE).base
      fin == IF der = {} THEN b + t
             ELSE LET d == CHOOSE a \in der : TRUE IN d.base + d.tam
  IN (libres \ (izq \union der)) \union {[base |-> ini, tam |-> fin - ini]}

\* bloques_reset_a_unico.
Unico(b, t) == IF t > 0 THEN {[base |-> b, tam |-> t]} ELSE {}

\* bloques_calcular_espacio_libre.
EspacioLibre == MapThenSumSet(LAMBDA b : b.tam, libres)

-----------------------------------------------------------------------------
(* Data.  A cell or a block holds s when it holds the last contents of s.  *)

\* s is written at the cells C: any other copy of it is out of date.
Escribe(s, C) ==
  /\ ram' = [x \in Celdas |-> IF x \in C THEN s
                              ELSE IF ram[x] = s THEN Nulo ELSE ram[x]]
  /\ disco' = [b \in NumBloques |-> IF disco[b] = s THEN Nulo ELSE disco[b]]
  /\ escrito' = escrito \union {s}

\* The segments of S are gone, and their contents mean nothing.
Olvida(S) ==
  /\ ram'   = [x \in Celdas |-> IF ram[x] \in S THEN Nulo ELSE ram[x]]
  /\ disco' = [b \in NumBloques |-> IF disco[b] \in S THEN Nulo ELSE disco[b]]
  /\ escrito' = escrito \ S

-----------------------------------------------------------------------------
(* The processes, as far as their requests depend on it.                   *)

EnCpu(p)  == \E c \in Cpus : cpid[c] = p
SegsDe(p) == {s \in {p} \X Ids : base[s] # Nada}

\* A request of the scheduler arrives.  Its channel carries one at a time.
Pedido ==
  /\ rpc = "libre"
  /\ Aislado => spc \in {"espera", "fin"}

\* The handler of a request for p, and for t cells in the segment s, goes on in
\* another step; S is left to do.
Sigue(pc, p, s, t, S) ==
  /\ rpc' = pc /\ rp' = p /\ rs' = s /\ rt' = t /\ pend' = S
  /\ UNCHANGED <<reservas, cursor, respuesta>>

\* The last step of a handler, which answers r; rt keeps the size of a request
\* that was refused until the next answer.
Termina(r, t) ==
  /\ rpc' = "libre" /\ respuesta' = r
  /\ rp' = Nulo /\ rs' = Nulo /\ rt' = t
  /\ pend' = {} /\ reservas' = {} /\ cursor' = 0

Contesta(r) == Termina(r, 0)

\* manejar_crear_proceso.
CrearProceso(p) ==
  /\ Pedido
  /\ p \notin existe
  /\ existe' = existe \union {p}
  /\ Contesta("OK")
  /\ UNCHANGED <<base, limite, bloque, libres, siguiente, spc, cpuVars, susp,
                 datosVars>>

\* A CPU receives a process and loads its context (OBTENER_CONTEXTO).  The
\* dispatcher stops while a compaction is announced.
Despachar(c, p) ==
  /\ modo[c] = "libre"
  /\ ~Tomado /\ ~Pausa
  /\ p \in existe /\ ~EnCpu(p) /\ p \notin susp /\ rp # p
  /\ modo' = [modo EXCEPT ![c] = "corre"]
  /\ cpid' = [cpid EXCEPT ![c] = p]
  /\ ctx'  = [ctx EXCEPT ![c] = [i \in Ids |-> base[<<p, i>>]]]
  /\ UNCHANGED <<tablaVars, libres, siguiente, rxVars, spc, susp, datosVars>>

\* An instruction writes a segment, through the base the CPU loaded.
CpuEscribe(c, i) ==
  LET s == <<cpid[c], i>> IN
  /\ modo[c] = "corre"
  /\ ctx[c][i] >= 0
  /\ Escribe(s, Rango(ctx[c][i], limite[s]))
  /\ UNCHANGED <<tablaVars, libres, siguiente, rxVars, spc, cpuVars, susp>>

\* The CPU gives the process back: ACTUALIZAR_CONTEXTO stores the whole segment
\* table it had loaded.  In a syscall that needs memory it stays reserved, and
\* after a segmentation fault only the end of the process is left.
CpuDevuelve(c, m) ==
  LET p == cpid[c] IN
  /\ modo[c] = "corre"
  /\ m \in {"libre", "pide", "cae"}
  /\ ~Tomado
  /\ base' = [s \in Segs |-> IF s[1] = p THEN ctx[c][s[2]] ELSE base[s]]
  /\ modo' = [modo EXCEPT ![c] = m]
  /\ cpid' = IF m = "libre" THEN [cpid EXCEPT ![c] = Nulo] ELSE cpid
  /\ ctx'  = [ctx EXCEPT ![c] = [i \in Ids |-> Nada]]
  /\ UNCHANGED <<existe, limite, bloque, libres, siguiente, rxVars, spc, susp,
                 datosVars>>

\* The syscall of the process succeeded: the same CPU loads its context again.
Reanudar(c) ==
  /\ modo' = [modo EXCEPT ![c] = "corre"]
  /\ ctx'  = [ctx EXCEPT ![c] = [i \in Ids |-> base'[<<cpid[c], i>>]]]
  /\ UNCHANGED cpid

\* It failed: the scheduler will finish the process.
Condenar(c) ==
  /\ modo' = [modo EXCEPT ![c] = "cae"]
  /\ UNCHANGED <<cpid, ctx>>

-----------------------------------------------------------------------------
(* SOLICITAR_SEGMENTO, with compaction.                                    *)

\* The segment s of t cells is created in the block b.
CrearSegmento(s, t, b) ==
  /\ base'   = [base EXCEPT ![s] = b.base]
  /\ limite' = [limite EXCEPT ![s] = t]
  /\ bloque' = [bloque EXCEPT ![s] = 0]
  /\ libres' = Asignar(b, t)
  /\ Contesta("OK")
  /\ \E c \in Cpus : cpid[c] = s[1] /\ Reanudar(c)
  /\ UNCHANGED existe

\* The request for t cells is refused.
NegarSegmento(s, t) ==
  /\ Termina("SEGFAULT", t)
  /\ \E c \in Cpus : cpid[c] = s[1] /\ Condenar(c)
  /\ UNCHANGED <<tablaVars, libres>>

\* manejar_solicitar_segmento.
SolicitarSegmento(c, i, t) ==
  LET s == <<cpid[c], i>> IN
  /\ Pedido
  /\ modo[c] = "pide"
  /\ base[s] = Nada
  /\ \/ /\ t > MaxSeg
        /\ NegarSegmento(s, t)
     \/ \E b \in libres : /\ t <= MaxSeg
                          /\ Elegible(b, t)
                          /\ CrearSegmento(s, t, b)
     \/ /\ t <= MaxSeg /\ Alcanza(t) = {}
        /\ EspacioLibre < t
        /\ NegarSegmento(s, t)
     \/ /\ t <= MaxSeg /\ Alcanza(t) = {}
        /\ EspacioLibre >= t
        /\ Sigue("anuncia", cpid[c], s, t, {})
        /\ UNCHANGED <<tablaVars, libres, cpuVars>>
  /\ UNCHANGED <<siguiente, spc, susp, datosVars>>

\* INICIAR_COMPACTACION reaches the scheduler, which interrupts the CPUs and
\* answers without waiting for them.
IniciarCompactacion ==
  /\ rpc = "anuncia"
  /\ rpc' = "pausado"
  /\ UNCHANGED <<tablaVars, libres, siguiente, rp, rs, rt, pend, reservas,
                 cursor, respuesta, spc, cpuVars, susp, datosVars>>

\* compactar_memoria up to the loop, mutex_memoria held.
CompactaEmpieza ==
  /\ rpc = "pausado"
  /\ pend' = {s \in Segs : base[s] >= 0}
  /\ rpc'  = IF \A s \in Segs : base[s] = Nada THEN "reasigna" ELSE "compacta"
  /\ UNCHANGED <<tablaVars, libres, siguiente, rp, rs, rt, reservas, cursor,
                 respuesta, spc, cpuVars, susp, datosVars>>

\* Mutant: the segments are not sorted.
CompactaSinOrdenar(s) ==
  LET viejo == Rango(base[s], limite[s])
      copia(x) == ram[base[s] + (x - cursor)]
  IN
  /\ rpc = "compacta"
  /\ s \in pend
  /\ ram' = IF base[s] # cursor /\ viejo \subseteq Alcanzable
            THEN [x \in Celdas |-> IF x \in Rango(cursor, limite[s]) \cap Alcanzable
                                   THEN copia(x) ELSE ram[x]]
            ELSE ram
  /\ base'   = [base EXCEPT ![s] = cursor]
  /\ cursor' = cursor + limite[s]
  /\ pend'   = pend \ {s}
  /\ UNCHANGED <<existe, limite, bloque, libres, siguiente, rpc, rp, rs, rt,
                 reservas, respuesta, spc, cpuVars, susp, disco, escrito>>

\* One turn of the loop: the segments go down in the order of their bases.  The
\* copy is skipped when the old place cannot be read.
CompactaSegmento(s) ==
  LET viejo == Rango(base[s], limite[s])
      copia(x) == ram[base[s] + (x - cursor)]
  IN
  /\ rpc = "compacta"
  /\ s \in pend /\ \A u \in pend : base[s] <= base[u]
  /\ ram' = IF base[s] # cursor /\ viejo \subseteq Alcanzable
            THEN [x \in Celdas |-> IF x \in Rango(cursor, limite[s]) \cap Alcanzable
                                   THEN copia(x) ELSE ram[x]]
            ELSE ram
  /\ base'   = [base EXCEPT ![s] = cursor]
  /\ cursor' = cursor + limite[s]
  /\ pend'   = pend \ {s}
  /\ UNCHANGED <<existe, limite, bloque, libres, siguiente, rpc, rp, rs, rt,
                 reservas, respuesta, spc, cpuVars, susp, disco, escrito>>

\* Mutant: the free list is left as it was.
CompactaSinReset ==
  /\ rpc = "compacta" /\ pend = {}
  /\ rpc' = "reasigna"
  /\ UNCHANGED <<tablaVars, libres, siguiente, rp, rs, rt, pend, reservas, cursor,
                 respuesta, spc, cpuVars, susp, datosVars>>

\* The free list becomes what is above the cursor; FINALIZAR_COMPACTACION.
CompactaTermina ==
  /\ rpc = "compacta" /\ pend = {}
  /\ libres' = Unico(cursor, TotalRam - cursor)
  /\ rpc' = "reasigna"
  /\ UNCHANGED <<tablaVars, siguiente, rp, rs, rt, pend, reservas, cursor,
                 respuesta, spc, cpuVars, susp, datosVars>>

\* The second half of compactar_y_reasignar.
Reasigna ==
  /\ rpc = "reasigna"
  /\ IF Alcanza(rt) = {} THEN NegarSegmento(rs, rt)
     ELSE \E b \in libres : Elegible(b, rt) /\ CrearSegmento(rs, rt, b)
  /\ UNCHANGED <<siguiente, spc, susp, datosVars>>

-----------------------------------------------------------------------------
(* ELIMINAR_SEGMENTO, FINALIZAR_PROCESO and the reads and writes that the  *)
(* scheduler makes for a process (memory_scheduler.c).                     *)

\* manejar_eliminar_segmento: an identifier the process has not is no error.
EliminarSegmento(c, i) ==
  LET s == <<cpid[c], i>> IN
  /\ Pedido
  /\ modo[c] = "pide"
  /\ base'   = [base EXCEPT ![s] = Nada]
  /\ limite' = [limite EXCEPT ![s] = 0]
  /\ bloque' = [bloque EXCEPT ![s] = 0]
  /\ libres' = IF base[s] = Nada THEN libres ELSE Liberar(base[s], limite[s])
  /\ Contesta("OK")
  /\ Reanudar(c)
  /\ Olvida({s})
  /\ UNCHANGED <<existe, siguiente, spc, susp>>

\* manejar_finalizar_proceso, for a process its CPU has given back.
FinalizarProceso(p) ==
  /\ Pedido
  /\ p \in existe
  /\ \A c \in Cpus : cpid[c] = p => modo[c] \in {"pide", "cae"}
  /\ Sigue("finaliza", p, Nulo, 0, SegsDe(p))
  /\ UNCHANGED <<tablaVars, libres, siguiente, spc, cpuVars, susp,
                 datosVars>>

\* A segment in RAM goes back to the list; one in swap leaves nothing to free.
FinalizaSegmento(s) ==
  /\ rpc = "finaliza" /\ s \in pend
  /\ libres' = IF base[s] # EnSwap THEN Liberar(base[s], limite[s]) ELSE libres
  /\ base'   = [base EXCEPT ![s] = Nada]
  /\ limite' = [limite EXCEPT ![s] = 0]
  /\ bloque' = [bloque EXCEPT ![s] = 0]
  /\ pend'   = pend \ {s}
  /\ Olvida({s})
  /\ UNCHANGED <<existe, siguiente, rpc, rp, rs, rt, reservas, cursor,
                 respuesta, spc, cpuVars, susp>>

FinalizaTermina ==
  /\ rpc = "finaliza" /\ pend = {}
  /\ existe' = existe \ {rp}
  /\ susp'   = susp \ {rp}
  /\ modo' = [c \in Cpus |-> IF cpid[c] = rp THEN "libre" ELSE modo[c]]
  /\ cpid' = [c \in Cpus |-> IF cpid[c] = rp THEN Nulo ELSE cpid[c]]
  /\ Contesta("OK")
  /\ UNCHANGED <<base, limite, bloque, libres, siguiente, spc, ctx, datosVars>>

\* manejar_escritura_memoria, for a process in I/O: memory_io_escribir reaches
\* the sticks it is connected to, and its result is not looked at.
EscrituraMemoria(s) ==
  /\ Pedido
  /\ s[1] \in existe /\ ~EnCpu(s[1])
  /\ \/ /\ base[s] >= 0
        /\ Contesta("OK")
        /\ Escribe(s, Rango(base[s], limite[s]) \cap Alcanzable)
     \/ /\ base[s] < 0
        /\ Contesta("SEGFAULT")
        /\ UNCHANGED datosVars
  /\ UNCHANGED <<tablaVars, libres, siguiente, spc, cpuVars, susp>>

-----------------------------------------------------------------------------
(* SUSPENDER_PROCESO: RAM to swap.                                         *)

BloquesDe(t) == (t + TamBloque - 1) \div TamBloque

\* The cells of the k-th block of a segment at b of t cells.
Trozo(b, t, k) == {x \in Rango(b, t) : (x - b) \div TamBloque = k}

Suspender(p) ==
  /\ Pedido
  /\ p \in existe /\ ~EnCpu(p) /\ p \notin susp
  /\ SwapLleno \/ siguiente + MapThenSumSet(LAMBDA s : BloquesDe(limite[s]),
                                            SegsDe(p)) <= Bloques
  /\ Sigue("suspende", p, Nulo, 0, SegsDe(p))
  /\ UNCHANGED <<tablaVars, libres, siguiente, spc, cpuVars, susp,
                 datosVars>>

\* swap_reservar_bloques, and mutex_memoria is released for the transfer.
SuspenderReserva(s) ==
  LET n == BloquesDe(limite[s]) IN
  /\ rpc = "suspende" /\ s \in pend
  /\ siguiente + n <= Bloques
  /\ siguiente' = siguiente + n
  /\ bloque' = [bloque EXCEPT ![s] = siguiente]
  /\ rpc' = "vuelca" /\ rs' = s
  /\ UNCHANGED <<existe, base, limite, libres, rp, rt, pend, reservas, cursor,
                 respuesta, spc, cpuVars, susp, datosVars>>

\* No room in swap: the loop ends here, and the answer is OK all the same.
SuspenderSinSwap(s) ==
  /\ SwapLleno
  /\ rpc = "suspende" /\ s \in pend
  /\ siguiente + BloquesDe(limite[s]) > Bloques
  /\ susp' = susp \union {rp}
  /\ Contesta("OK")
  /\ UNCHANGED <<tablaVars, libres, siguiente, spc, cpuVars, datosVars>>

\* volcar_segmento_a_swap, without mutex_memoria.
Volcar ==
  LET trozo(b) == Trozo(base[rs], limite[rs], b - bloque[rs]) IN
  /\ rpc = "vuelca"
  /\ Rango(base[rs], limite[rs]) \subseteq Alcanzable
  /\ disco' = [b \in NumBloques |->
       IF b \in Rango(bloque[rs], BloquesDe(limite[rs]))
       THEN IF \A x \in trozo(b) : ram[x] = rs THEN rs ELSE Nulo
       ELSE disco[b]]
  /\ rpc' = "vuelto"
  /\ UNCHANGED <<tablaVars, libres, siguiente, rp, rs, rt, pend, reservas,
                 cursor, respuesta, spc, cpuVars, susp, ram, escrito>>

\* A stick or swap fails: the handler returns, and never answers.
VolcarFalla ==
  /\ rpc = "vuelca"
  /\ SwapFalla \/ ~(Rango(base[rs], limite[rs]) \subseteq Alcanzable)
  /\ rpc' = "mudo"
  /\ UNCHANGED <<tablaVars, libres, siguiente, rp, rs, rt, pend, reservas,
                 cursor, respuesta, spc, cpuVars, susp, datosVars>>

\* The scheduler gives up after MEMORY_OP_TIMEOUT_S, and takes the process for
\* suspended.
VenceEspera ==
  /\ rpc = "mudo"
  /\ susp' = susp \union {rp}
  /\ Contesta("NADA")
  /\ UNCHANGED <<tablaVars, libres, siguiente, spc, cpuVars, datosVars>>

\* mutex_memoria again: the RAM of the segment is free.
SuspenderLibera ==
  /\ rpc = "vuelto"
  /\ libres' = Liberar(base[rs], limite[rs])
  /\ base' = [base EXCEPT ![rs] = EnSwap]
  /\ pend' = pend \ {rs}
  /\ rpc' = "suspende" /\ rs' = Nulo
  /\ UNCHANGED <<existe, limite, bloque, siguiente, rp, rt, reservas, cursor,
                 respuesta, spc, cpuVars, susp, datosVars>>

SuspenderTermina ==
  /\ rpc = "suspende" /\ pend = {}
  /\ susp' = susp \union {rp}
  /\ Contesta("OK")
  /\ UNCHANGED <<tablaVars, libres, siguiente, spc, cpuVars, datosVars>>

-----------------------------------------------------------------------------
(* DES_SUSPENDER_PROCESO: swap to RAM, without compaction.                 *)

DesSuspender(p) ==
  /\ Pedido
  /\ p \in susp
  /\ Sigue("reserva", p, Nulo, 0, SegsDe(p))
  /\ UNCHANGED <<tablaVars, libres, siguiente, spc, cpuVars, susp,
                 datosVars>>

\* One turn of reservar_segmentos_con_rollback, for every segment of the
\* process, wherever it is.
ReservaSegmento(s) ==
  /\ rpc = "reserva" /\ s \in pend
  /\ \E b \in libres : /\ Elegible(b, limite[s])
                       /\ base' = [base EXCEPT ![s] = b.base]
                       /\ libres' = Asignar(b, limite[s])
  /\ reservas' = reservas \union {<<s, base[s]>>}
  /\ pend' = pend \ {s}
  /\ UNCHANGED <<existe, limite, bloque, siguiente, rpc, rp, rs, rt, cursor,
                 respuesta, spc, cpuVars, susp, datosVars>>

\* It does not fit: what was reserved is given back.
ReservaNoAlcanza(s) ==
  /\ rpc = "reserva" /\ s \in pend
  /\ Alcanza(limite[s]) = {}
  /\ rpc' = "deshace" /\ pend' = {}
  /\ UNCHANGED <<tablaVars, libres, siguiente, rp, rs, rt, reservas, cursor,
                 respuesta, spc, cpuVars, susp, datosVars>>

\* Mutant: the RAM is given back and the base is not restored.
DeshaceSinRestaurar(r) ==
  /\ rpc = "deshace" /\ r \in reservas
  /\ libres' = Liberar(base[r[1]], limite[r[1]])
  /\ reservas' = reservas \ {r}
  /\ UNCHANGED <<tablaVars, siguiente, rpc, rp, rs, rt, pend, cursor, respuesta,
                 spc, cpuVars, susp, datosVars>>

\* Mutant: the base is restored and the RAM is not given back.
DeshaceSinLiberar(r) ==
  /\ rpc = "deshace" /\ r \in reservas
  /\ base' = [base EXCEPT ![r[1]] = r[2]]
  /\ reservas' = reservas \ {r}
  /\ UNCHANGED <<existe, limite, bloque, libres, siguiente, rpc, rp, rs, rt,
                 pend, cursor, respuesta, spc, cpuVars, susp, datosVars>>

DeshaceReserva(r) ==
  /\ rpc = "deshace" /\ r \in reservas
  /\ libres' = Liberar(base[r[1]], limite[r[1]])
  /\ base' = [base EXCEPT ![r[1]] = r[2]]
  /\ reservas' = reservas \ {r}
  /\ UNCHANGED <<existe, limite, bloque, siguiente, rpc, rp, rs, rt, pend,
                 cursor, respuesta, spc, cpuVars, susp, datosVars>>

DeshaceTermina ==
  /\ rpc = "deshace" /\ reservas = {}
  /\ Contesta("SEGFAULT")
  /\ UNCHANGED <<tablaVars, libres, siguiente, spc, cpuVars, susp, datosVars>>

\* Everything is reserved; mutex_memoria is released for the transfer.
ReservaTermina ==
  /\ rpc = "reserva" /\ pend = {}
  /\ rpc' = "transfiere"
  /\ UNCHANGED <<tablaVars, libres, siguiente, rp, rs, rt, pend, reservas,
                 cursor, respuesta, spc, cpuVars, susp, datosVars>>

\* transferir_swap_a_ram and the answer.
Transferir ==
  LET deQuien(x) == {s \in SegsDe(rp) : x \in Rango(base[s], limite[s])}
      bloqueDe(s, x) == bloque[s] + (x - base[s]) \div TamBloque
  IN
  /\ rpc = "transfiere"
  /\ ram' = [x \in Celdas |->
       IF x \in Alcanzable /\ deQuien(x) # {}
       THEN LET s == CHOOSE s \in deQuien(x) : TRUE
            IN IF bloqueDe(s, x) \in NumBloques THEN disco[bloqueDe(s, x)]
                                                ELSE Nulo
       ELSE ram[x]]
  /\ susp' = susp \ {rp}
  /\ Contesta("OK")
  /\ UNCHANGED <<tablaVars, libres, siguiente, spc, cpuVars, disco, escrito>>

\* A block cannot be read: SEGFAULT, and the reservations stay.
TransferirFalla ==
  /\ rpc = "transfiere"
  /\ SwapFalla /\ SegsDe(rp) # {}
  /\ Contesta("SEGFAULT")
  /\ UNCHANGED <<tablaVars, libres, siguiente, spc, cpuVars, susp, datosVars>>

-----------------------------------------------------------------------------
(* registrar_memory_stick.                                                 *)

\* conexiones_agregar_stick: the stick counts from here on.
RegistraStick ==
  /\ spc = "espera"
  /\ Aislado => rpc = "libre"
  /\ spc' = "agrega"
  /\ UNCHANGED <<tablaVars, libres, siguiente, rxVars, cpuVars, susp, datosVars>>

\* bloques_agregar, under mutex_memoria.
AgregaBloque ==
  /\ spc = "agrega"
  /\ ~Tomado
  /\ libres' = Liberar(Ram, Nuevo)
  /\ spc' = "conecta"
  /\ UNCHANGED <<tablaVars, siguiente, rxVars, cpuVars, susp, datosVars>>

\* The connection by which kernel_memory reads and writes the stick.
ConectaStick ==
  /\ spc = "conecta"
  /\ spc' = "fin"
  /\ UNCHANGED <<tablaVars, libres, siguiente, rxVars, cpuVars, susp, datosVars>>

-----------------------------------------------------------------------------

\* The steps by which the thread goes on with a request.
Atiende ==
  \/ IniciarCompactacion \/ CompactaEmpieza \/ CompactaTermina \/ Reasigna
  \/ \E s \in Segs : \/ CompactaSegmento(s) \/ FinalizaSegmento(s)
                     \/ SuspenderReserva(s) \/ SuspenderSinSwap(s)
                     \/ ReservaSegmento(s) \/ ReservaNoAlcanza(s)
  \/ FinalizaTermina
  \/ Volcar \/ VolcarFalla \/ VenceEspera \/ SuspenderLibera \/ SuspenderTermina
  \/ \E r \in reservas : DeshaceReserva(r)
  \/ DeshaceTermina \/ ReservaTermina \/ Transferir \/ TransferirFalla

\* The requests of the scheduler.
Recibe ==
  \/ \E p \in Procs : \/ CrearProceso(p) \/ FinalizarProceso(p)
                      \/ Suspender(p) \/ DesSuspender(p)
  \/ \E c \in Cpus, i \in Ids : \/ EliminarSegmento(c, i)
                                \/ \E t \in Tamanios : SolicitarSegmento(c, i, t)
  \/ \E s \in Segs : EscrituraMemoria(s)

Cpu ==
  \/ \E c \in Cpus, p \in Procs : Despachar(c, p)
  \/ \E c \in Cpus, i \in Ids : CpuEscribe(c, i)
  \/ \E c \in Cpus, m \in {"libre", "pide", "cae"} : CpuDevuelve(c, m)

Stick == RegistraStick \/ AgregaBloque \/ ConectaStick

Next == Atiende \/ Recibe \/ Cpu \/ Stick

\* The two threads of kernel_memory go on once they have started.
Spec == Init /\ [][Next]_vars /\ WF_vars(Atiende) /\ WF_vars(Stick)

-----------------------------------------------------------------------------
(* Properties.                                                             *)

Bloque == [base : Celdas, tam : 1 .. (Ram + Nuevo)]
Base == Celdas \union {EnSwap, Nada}

TypeTabla ==
  /\ existe \subseteq Procs /\ susp \subseteq existe
  /\ base \in [Segs -> Base]
  /\ limite \in [Segs -> {0} \union Tamanios]
  /\ bloque \in [Segs -> 0 .. Bloques]
  /\ libres \subseteq Bloque
  /\ siguiente \in 0 .. Bloques

TypeHilo ==
  /\ rpc \in {"libre", "anuncia", "pausado", "compacta", "reasigna", "finaliza",
              "suspende", "vuelca", "vuelto", "mudo", "reserva", "deshace",
              "transfiere"}
  /\ rp \in Procs \union {Nulo}
  /\ rs \in Segs \union {Nulo}
  /\ rt \in {0} \union Tamanios
  /\ pend \subseteq Segs
  /\ reservas \subseteq Segs \X Base
  /\ cursor \in 0 .. (Ram + Nuevo)
  /\ respuesta \in {"OK", "SEGFAULT", "NADA"}

TypeCpus ==
  /\ spc \in {"espera", "agrega", "conecta", "fin"}
  /\ modo \in [Cpus -> {"libre", "corre", "pide", "cae"}]
  /\ cpid \in [Cpus -> Procs \union {Nulo}]
  /\ ctx \in [Cpus -> [Ids -> Base]]

TypeDatos ==
  /\ ram \in [Celdas -> Segs \union {Nulo}]
  /\ disco \in [NumBloques -> Segs \union {Nulo}]
  /\ escrito \subseteq Segs

\* The type invariant: the state of every table, thread, CPU and stick.
TypeOK == TypeTabla /\ TypeHilo /\ TypeCpus /\ TypeDatos

\* The cells of the segment s, if it is in RAM.
Ocupa(s) == IF base[s] >= 0 THEN Rango(base[s], limite[s]) ELSE {}
CeldasLibres == UNION {Rango(b.base, b.tam) : b \in libres}

\* No cell is given out twice: two segments in RAM never share a cell, a free
\* block never covers one of a segment, and free blocks neither overlap nor
\* touch (bloques_asignar, bloques_liberar, bloques_reset_a_unico and the base
\* updates of every handler).  While compactar_memoria runs, the list is stale
\* and only the segments are compared.
SinSolape ==
  /\ \A s, u \in Segs : s # u => Ocupa(s) \cap Ocupa(u) = {}
  /\ rpc # "compacta" =>
       /\ \A s \in Segs : Ocupa(s) \cap CeldasLibres = {}
       /\ \A a, b \in libres : a # b =>
            a.base + a.tam < b.base \/ b.base + b.tam < a.base

\* No cell of RAM is lost: outside a compaction every cell of the sticks whose
\* block was added is free or in a segment, after any sequence of allocations,
\* suspensions, failed returns (reservar_segmentos_con_rollback) and ends.
SinFugas ==
  (rpc # "compacta" /\ spc # "agrega") =>
     0 .. (TotalRam - 1) = CeldasLibres \union UNION {Ocupa(s) : s \in Segs}

\* What a process wrote is still there: in the cells of the segment while it is
\* in RAM, in its blocks of swap while it is suspended or on its way back
\* (compactar_memoria, volcar_segmento_a_swap, transferir_swap_a_ram).
DatosIntactos ==
  \A s \in escrito :
    IF base[s] = EnSwap \/ \E r \in reservas : r[1] = s
    THEN \A b \in Rango(bloque[s], BloquesDe(limite[s])) : disco[b] = s
    ELSE \A x \in Ocupa(s) : ram[x] = s

\* A request for a segment is refused only when it is too big or when the free
\* cells do not add up to it: fragmentation alone never kills a process
\* (manejar_solicitar_segmento and compactar_y_reasignar).
NiegaSoloSinEspacio ==
  [][\A c \in Cpus : (modo[c] = "pide" /\ modo'[c] = "cae") =>
       rt' > MaxSeg \/ EspacioLibre < rt']_vars

\* An answer to SUSPENDER_PROCESO means what kernel_memory/README.md says of it:
\* for each segment of the process, RAM to swap and base = -1.  What the
\* scheduler holds as suspended keeps no RAM.  This is not what the code does:
\* with swap full (SwapLleno) the handler stops at the first segment that does
\* not fit and answers OK (memory_scheduler.c:341-346).
SuspendidoSinRam ==
  rpc = "libre" => \A p \in susp : \A s \in SegsDe(p) : base[s] = EnSwap

=============================================================================
