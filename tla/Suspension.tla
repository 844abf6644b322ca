----------------------------- MODULE Suspension -----------------------------
(***************************************************************************)
(* Medium-term scheduling in kernel_scheduler: the suspension timers       *)
(* (planificadorMedianoPlazo.c), the I/O queues and their worker threads   *)
(* (colaIO.c), the medium-term loop, and the request/response channel to   *)
(* kernel_memory that all of them share (memory_protocol.c).               *)
(*                                                                         *)
(* Threads are modelled by program counters.  One action is one critical   *)
(* section, or one stretch of code whose only effect other threads can see *)
(* is the state change it makes.  The CPUs are abstracted to the fact that *)
(* a process is in EXEC; the dispatcher has its own module.                *)
(***************************************************************************)
EXTENDS Naturals, Sequences, FiniteSets

CONSTANTS
  Procs,       \* the PIDs
  Ios,         \* entries of tabla_ios, each with one worker thread
  Tipo,        \* kind of each interface: "SLEEP", "STDIN" or "STDOUT"
  Prioridad,   \* prioridad_dinamica of each process
  Caben,       \* the sets of processes whose segments fit together in RAM
  Fragmenta,   \* TRUE if a set that fits may be refused for fragmentation
  MaxEpoch,    \* bound on the BLOCK episodes of a process
  MaxSem,      \* bound on wake-ups that MEM_FREE may leave pending
  Desconectan, \* the interfaces that may disconnect
  Tardias,     \* the interfaces that connect while the system runs
  SwapFalla,   \* TRUE if swap may be missing, fill up or fail
  Nulo         \* "no process"

ASSUME SuspensionAssumption ==
  /\ Tipo \in [Ios -> {"SLEEP", "STDIN", "STDOUT"}]
  /\ Prioridad \in [Procs -> Nat]
  /\ Caben \subseteq SUBSET Procs
  /\ Fragmenta \in BOOLEAN /\ SwapFalla \in BOOLEAN
  /\ MaxEpoch \in Nat
  /\ MaxSem \in Nat
  /\ Desconectan \subseteq Ios /\ Tardias \subseteq Ios
  /\ Nulo \notin Procs

VARIABLES
  \* the PCBs
  estado,     \* t_estado of each process; "LIBERADO" once its PCB is freed
  epoch,      \* block_epoch
  atrasado,   \* receptors that queued the process in a mutex and have not
              \* counted the episode yet
  entrada,    \* history: block_epoch of the I/O episode it is in, 0 outside one
  enSwap,     \* suspendido_en_swap
  stdinPend,  \* stdin_pendiente # NULL
  fase,       \* progress of the syscall the process is in, "-" if none
  destino,    \* interface named by the process's I/O syscall
  \* shared structures
  block,      \* the members of cola_procesos_block
  lista,      \* the members of lista_suspendidos
  sem,        \* value of sem_reevaluar_suspendidos
  cola,       \* request queue of each interface
  activa,     \* io->activa
  \* threads
  timer,      \* pc of the timer of each BLOCK episode of each process
  wpc, wpid,  \* pc of each I/O worker, and the process it is serving
  ppc, pp,    \* pc of the medium-term loop, and the candidate in hand
  cand,       \* the rest of the snapshot of candidates
  \* channel to kernel_memory
  dueno,      \* owner of mutex_memory_socket
  pedido,     \* request in flight
  atendido,   \* memory has served the request in flight
  socket,     \* unread messages from memory
  \* kernel_memory
  mem,        \* where the segments of each process are
  debe        \* history: an input was typed for the process and not written

epochVars   == <<epoch, atrasado, entrada>>
pcbVars     == <<estado, epochVars, enSwap, stdinPend>>
faseVars    == <<fase, destino>>
listVars    == <<block, lista>>
ioVars      == <<cola, activa>>
workerVars  == <<wpc, wpid>>
pmpVars     == <<ppc, pp, cand>>
channelVars == <<dueno, pedido, atendido, socket>>
memVars     == <<mem, debe>>

vars == <<pcbVars, faseVars, listVars, sem, ioVars, timer, workerVars, pmpVars,
          channelVars, memVars>>

-----------------------------------------------------------------------------
Estados == {"NEW", "READY", "EXEC", "BLOCK", "SUSP_BLOCK", "SUSP_READY",
            "EXIT", "LIBERADO"}

Epocas == 1..MaxEpoch

\* Threads that may own the channel.  The third field tells the timers of
\* one process apart.
Nadie        == <<"nadie", 0, 0>>
Timer(p, e)  == <<"timer", p, e>>
Receptor(p)  == <<"rx", p, 0>>
Worker(i)    == <<"io", i, 0>>
Pmp          == <<"pmp", 0, 0>>

Hilos == {Timer(p, e) : p \in Procs, e \in Epocas}
           \union {Receptor(p) : p \in Procs}
           \union {Worker(i) : i \in Ios} \union {Pmp}

Operaciones == {"SUSPENDER", "DES_SUSPENDER", "ESCRITURA", "LECTURA",
                "SOLICITAR", "ELIMINAR", "FINALIZAR"}
Respuestas  == {"OK", "SEGFAULT"}

SinPedido   == [op |-> "-", pid |-> Nulo]

Fases == {"-", "mutex", "encolar", "encolado", "perdido", "LECTURA",
          "SOLICITAR", "ELIMINAR", "FINALIZAR"}

Init ==
  /\ estado    = [p \in Procs |-> "NEW"]
  /\ epoch     = [p \in Procs |-> 0]
  /\ atrasado  = [p \in Procs |-> 0]
  /\ entrada   = [p \in Procs |-> 0]
  /\ enSwap    = [p \in Procs |-> FALSE]
  /\ stdinPend = [p \in Procs |-> FALSE]
  /\ fase      = [p \in Procs |-> "-"]
  /\ destino   = [p \in Procs |-> Nulo]
  /\ block     = {}
  /\ lista     = {}
  /\ sem       = 0
  /\ cola      = [i \in Ios |-> <<>>]
  /\ activa    = [i \in Ios |-> i \notin Tardias]
  /\ timer     = [p \in Procs |-> [e \in Epocas |-> "none"]]
  /\ wpc       = [i \in Ios |-> "espera"]
  /\ wpid      = [i \in Ios |-> Nulo]
  /\ ppc       = "espera"
  /\ pp        = Nulo
  /\ cand      = {}
  /\ dueno     = Nadie
  /\ pedido    = SinPedido
  /\ atendido  = FALSE
  /\ socket    = <<>>
  /\ mem       = [p \in Procs |-> "nada"]
  /\ debe      = [p \in Procs |-> FALSE]

-----------------------------------------------------------------------------
(* The channel: lock mutex_memory_socket, send, read until the response.   *)

Enviar(h, op, p) ==
  /\ dueno = Nadie
  /\ dueno' = h
  /\ pedido' = [op |-> op, pid |-> p]
  /\ UNCHANGED <<atendido, socket>>

Recibir(h, respuesta) ==
  /\ dueno = h
  /\ socket # <<>>
  /\ Head(socket) = respuesta
  /\ socket' = Tail(socket)
  /\ dueno' = Nadie
  /\ pedido' = SinPedido
  /\ atendido' = FALSE

\* recibir_respuesta_de_memoria meets a notification before the response:
\* MEMORIA_LIBERADA wakes the medium-term loop and the read goes on.
DrenarNotificacion ==
  /\ dueno # Nadie
  /\ socket # <<>>
  /\ Head(socket) = "LIBERADA"
  /\ socket' = Tail(socket)
  /\ sem' = sem + 1
  /\ UNCHANGED <<pcbVars, faseVars, listVars, ioVars, timer, workerVars,
                 pmpVars, dueno, pedido, atendido, memVars>>

-----------------------------------------------------------------------------
(* kernel_memory, reduced to where the segments of each process are.  Its  *)
(* receptor thread serves one request at a time.                           *)

Residentes == {p \in Procs : mem[p] = "ram"}

Responder(mensajes) ==
  /\ atendido' = TRUE
  /\ socket' = socket \o mensajes
  /\ UNCHANGED <<dueno, pedido>>

Atiende(op, p) ==
  /\ dueno # Nadie
  /\ ~atendido
  /\ pedido = [op |-> op, pid |-> p]
  /\ UNCHANGED <<pcbVars, faseVars, listVars, sem, ioVars, timer, workerVars,
                 pmpVars>>

Volcado(p)    == IF mem[p] = "ram" THEN [mem EXCEPT ![p] = "swap"] ELSE mem
Restaurado(p) == IF mem[p] = "swap" THEN [mem EXCEPT ![p] = "ram"] ELSE mem

\* Without swap, or with swap full, the answer is OK as well and some or all
\* segments stay in RAM ("swap" says that some segment has lost its base); a
\* write to swap that fails is not answered.
MemSuspender(p) ==
  /\ Atiende("SUSPENDER", p)
  /\ \/ /\ mem' = Volcado(p)
        /\ Responder(<<"OK">>)
     \/ /\ SwapFalla /\ mem[p] = "ram"
        /\ mem' \in {mem, Volcado(p)}
        /\ Responder(<<"OK">>) \/ Responder(<<>>)
  /\ UNCHANGED debe

\* Every segment is given RAM again, one that never left it too.  A read from
\* swap that fails leaves the segments in RAM behind a refusal.
MemDesSuspender(p) ==
  /\ Atiende("DES_SUSPENDER", p)
  /\ \/ /\ mem[p] = "swap" => Residentes \union {p} \in Caben
        /\ mem' = Restaurado(p)
        /\ Responder(<<"OK">>)
     \/ /\ mem[p] = "swap"
        /\ Fragmenta \/ Residentes \union {p} \notin Caben
        /\ Responder(<<"SEGFAULT">>)
        /\ UNCHANGED mem
     \/ /\ SwapFalla
        /\ mem' \in {mem, Restaurado(p)}
        /\ Responder(<<"SEGFAULT">>)
  /\ UNCHANGED debe

MemSolicitar(p) ==
  /\ Atiende("SOLICITAR", p)
  /\ IF Residentes \union {p} \in Caben
     THEN /\ mem' = [mem EXCEPT ![p] = "ram"]
          /\ Responder(<<"OK">>)
     ELSE /\ Responder(<<"SEGFAULT">>)
          /\ UNCHANGED mem
  /\ UNCHANGED debe

\* The answer goes out first and MEMORIA_LIBERADA behind it.
Avisos(p) == IF mem[p] = "ram" THEN <<"OK", "LIBERADA">> ELSE <<"OK">>

MemLiberar(op, p) ==
  /\ op \in {"ELIMINAR", "FINALIZAR"}
  /\ Atiende(op, p)
  /\ mem' = [mem EXCEPT ![p] = "nada"]
  /\ debe' = IF op = "FINALIZAR" THEN [debe EXCEPT ![p] = FALSE] ELSE debe
  /\ Responder(Avisos(p))

\* LECTURA_MEMORIA and ESCRITURA_MEMORIA: a segment in swap has base -1 and
\* faults; with the segments in RAM the program's address may still be bad.
MemAcceder(op, p) ==
  /\ op \in {"LECTURA", "ESCRITURA"}
  /\ Atiende(op, p)
  /\ \/ /\ mem[p] = "ram"
        /\ debe' = IF op = "ESCRITURA" THEN [debe EXCEPT ![p] = FALSE]
                                       ELSE debe
        /\ Responder(<<"OK">>)
     \/ /\ Responder(<<"SEGFAULT">>)
        /\ UNCHANGED debe
  /\ UNCHANGED mem

-----------------------------------------------------------------------------
(* The process on the CPU side, as the receptor threads see it.            *)

Rest == <<ioVars, workerVars, pmpVars>>  \* untouched by the receptor threads

Admitir(p) ==
  /\ estado[p] = "NEW"
  /\ estado' = [estado EXCEPT ![p] = "READY"]
  /\ UNCHANGED <<epochVars, enSwap, stdinPend, faseVars, listVars, sem, timer,
                 Rest, channelVars, memVars>>

Despachar(p) ==
  /\ estado[p] = "READY"
  /\ estado' = [estado EXCEPT ![p] = "EXEC"]
  /\ UNCHANGED <<epochVars, enSwap, stdinPend, faseVars, listVars, sem, timer,
                 Rest, channelVars, memVars>>

EnCpu(p) == estado[p] = "EXEC" /\ fase[p] = "-"

Desalojar(p) ==
  /\ EnCpu(p)
  /\ estado' = [estado EXCEPT ![p] = "READY"]
  /\ UNCHANGED <<epochVars, enSwap, stdinPend, faseVars, listVars, sem, timer,
                 Rest, channelVars, memVars>>

\* EXIT, ERROR or SEGMENTATION_FAULT returned by the CPU.
Salir(p) ==
  /\ EnCpu(p)
  /\ estado' = [estado EXCEPT ![p] = "EXIT"]
  /\ fase' = [fase EXCEPT ![p] = "FINALIZAR"]
  /\ UNCHANGED <<epochVars, enSwap, stdinPend, destino, listVars, sem, timer,
                 Rest, channelVars, memVars>>

\* MEM_ALLOC and MEM_FREE: the process stays in EXEC while memory answers.
\* Programs ask for what they do not have and free what they have.
SyscallMemoria(p, op) ==
  /\ EnCpu(p)
  /\ \/ op = "SOLICITAR" /\ mem[p] = "nada"
     \/ op = "ELIMINAR" /\ mem[p] = "ram" /\ sem + Len(socket) < MaxSem
  /\ fase' = [fase EXCEPT ![p] = op]
  /\ UNCHANGED <<pcbVars, destino, listVars, sem, timer, Rest, channelVars,
                 memVars>>

\* An I/O syscall that found an active interface.  STDOUT reads its bytes
\* from memory before the process blocks.
SyscallIO(p, i) ==
  /\ EnCpu(p)
  /\ epoch[p] + atrasado[p] < MaxEpoch
  /\ activa[i]
  /\ destino' = [destino EXCEPT ![p] = i]
  /\ fase' = [fase EXCEPT ![p] =
                IF Tipo[i] = "STDOUT" THEN "LECTURA" ELSE "encolar"]
  /\ UNCHANGED <<pcbVars, listVars, sem, timer, Rest, channelVars, memVars>>

\* An I/O syscall that found no active interface goes back to READY.
SyscallSinInterfaz(p, i) ==
  /\ EnCpu(p)
  /\ ~activa[i]
  /\ estado' = [estado EXCEPT ![p] = "READY"]
  /\ UNCHANGED <<epochVars, enSwap, stdinPend, faseVars, listVars, sem, timer,
                 Rest, channelVars, memVars>>

\* A receptor thread sends the request its syscall needs.
ReceptorPide(p) ==
  /\ fase[p] \in Operaciones
  /\ Enviar(Receptor(p), fase[p], p)
  /\ UNCHANGED <<pcbVars, faseVars, listVars, sem, timer, Rest, memVars>>

\* The response of memory to that request.
ReceptorSigue(p) ==
  /\ Recibir(Receptor(p), "OK")
  /\ fase' = [fase EXCEPT ![p] = IF fase[p] = "LECTURA" THEN "encolar" ELSE "-"]
  /\ estado' = IF fase[p] = "FINALIZAR"
               THEN [estado EXCEPT ![p] = "LIBERADO"] ELSE estado
  /\ UNCHANGED <<epochVars, enSwap, stdinPend, destino, listVars, sem, timer, Rest,
                 memVars>>

ReceptorFalla(p) ==
  /\ Recibir(Receptor(p), "SEGFAULT")
  /\ estado' = [estado EXCEPT ![p] = "EXIT"]
  /\ fase' = [fase EXCEPT ![p] = "FINALIZAR"]
  /\ destino' = [destino EXCEPT ![p] = Nulo]
  /\ lista' = IF fase[p] = "LECTURA" THEN lista \ {p} ELSE lista
  /\ UNCHANGED <<epochVars, enSwap, stdinPend, block, sem, timer, Rest, memVars>>

\* encolar_io_request: BLOCK, a new episode under mutex_block, its timer...
EncolarBloquea(p) ==
  /\ fase[p] = "encolar"
  /\ activa[destino[p]]
  /\ estado' = [estado EXCEPT ![p] = "BLOCK"]
  /\ epoch' = [epoch EXCEPT ![p] = @ + 1]
  /\ entrada' = [entrada EXCEPT ![p] = epoch[p] + 1]
  /\ block' = block \union {p}
  /\ timer' = [timer EXCEPT ![p][epoch[p] + 1] = "duerme"]
  /\ fase' = [fase EXCEPT ![p] = "encolado"]
  /\ UNCHANGED <<atrasado, enSwap, stdinPend, destino, lista, sem, Rest,
                 channelVars, memVars>>

\* ... and, after the timer may already be running, the interface's queue.
EncolarPedido(p) ==
  /\ fase[p] = "encolado"
  /\ cola' = [cola EXCEPT ![destino[p]] = Append(@, p)]
  /\ fase' = [fase EXCEPT ![p] = "-"]
  /\ destino' = [destino EXCEPT ![p] = Nulo]
  /\ UNCHANGED <<pcbVars, listVars, sem, activa, timer, workerVars, pmpVars,
                 channelVars, memVars>>

\* The interface died between the lookup and encolar_io_request, which
\* returns false; no caller looks at the result.
EncolarRechaza(p) ==
  /\ fase[p] = "encolar"
  /\ ~activa[destino[p]]
  /\ fase' = [fase EXCEPT ![p] = "perdido"]
  /\ UNCHANGED <<pcbVars, destino, listVars, sem, timer, Rest, channelVars,
                 memVars>>

\* MUTEX_LOCK on a taken mutex: BLOCK, in the queue of the mutex and outside
\* cola_procesos_block.  From here on whoever unlocks may wake the process...
BloquearEnMutex(p) ==
  /\ EnCpu(p)
  /\ epoch[p] + atrasado[p] < MaxEpoch
  /\ estado' = [estado EXCEPT ![p] = "BLOCK"]
  /\ atrasado' = [atrasado EXCEPT ![p] = @ + 1]
  /\ fase' = [fase EXCEPT ![p] = "mutex"]
  /\ UNCHANGED <<epoch, entrada, enSwap, stdinPend, destino, listVars, sem,
                 timer, Rest, channelVars, memVars>>

\* ... and the receptor still counts an episode, without mutex_block, and starts
\* its timer, whatever the process is doing by then.
CuentaEpisodio(p) ==
  /\ atrasado[p] > 0
  /\ atrasado' = [atrasado EXCEPT ![p] = @ - 1]
  /\ epoch' = [epoch EXCEPT ![p] = @ + 1]
  /\ timer' = [timer EXCEPT ![p][epoch[p] + 1] = "duerme"]
  /\ UNCHANGED <<entrada, estado, enSwap, stdinPend, faseVars, listVars, sem,
                 Rest, channelVars, memVars>>

DesbloquearDeMutex(p) ==
  /\ fase[p] = "mutex"
  /\ estado' = [estado EXCEPT ![p] = "READY"]
  /\ fase' = [fase EXCEPT ![p] = "-"]
  /\ UNCHANGED <<epochVars, enSwap, stdinPend, destino, listVars, sem, timer, Rest,
                 channelVars, memVars>>

-----------------------------------------------------------------------------
(* suspension_timer_thread.                                                *)

AvanzaTimer(p, e, desde, hasta) ==
  /\ timer[p][e] = desde
  /\ timer' = [timer EXCEPT ![p][e] = hasta]
  /\ UNCHANGED <<epochVars, stdinPend, faseVars, ioVars, workerVars, pmpVars,
                 memVars>>

\* Mutant: suspendido_en_swap keeps the value of an earlier suspension.
TimerSuspendeSinReset(p, e) ==
  /\ p \in block /\ estado[p] = "BLOCK" /\ epoch[p] = e
  /\ AvanzaTimer(p, e, "duerme", "suspendido")
  /\ estado' = [estado EXCEPT ![p] = "SUSP_BLOCK"]
  /\ UNCHANGED <<enSwap, listVars, sem, channelVars>>

\* Mutant: the timer does not compare block_epoch.
TimerSuspendeSinEpoch(p, e) ==
  /\ p \in block /\ estado[p] = "BLOCK"
  /\ AvanzaTimer(p, e, "duerme", "suspendido")
  /\ estado' = [estado EXCEPT ![p] = "SUSP_BLOCK"]
  /\ enSwap' = [enSwap EXCEPT ![p] = FALSE]
  /\ UNCHANGED <<listVars, sem, channelVars>>

TimerSuspende(p, e) ==
  /\ p \in block /\ estado[p] = "BLOCK" /\ epoch[p] = e
  /\ AvanzaTimer(p, e, "duerme", "suspendido")
  /\ estado' = [estado EXCEPT ![p] = "SUSP_BLOCK"]
  /\ enSwap' = [enSwap EXCEPT ![p] = FALSE]
  /\ UNCHANGED <<listVars, sem, channelVars>>

\* The episode is over: the timer does nothing.
TimerCaduca(p, e) ==
  /\ ~(p \in block /\ estado[p] = "BLOCK" /\ epoch[p] = e)
  /\ AvanzaTimer(p, e, "duerme", "fin")
  /\ UNCHANGED <<estado, enSwap, listVars, sem, channelVars>>

\* Mutant: the process is not added to lista_suspendidos.
TimerSinAgregar(p, e) ==
  /\ AvanzaTimer(p, e, "suspendido", "listado")
  /\ UNCHANGED <<estado, enSwap, listVars, sem, channelVars>>

TimerAgrega(p, e) ==
  /\ AvanzaTimer(p, e, "suspendido", "listado")
  /\ lista' = lista \union {p}
  /\ UNCHANGED <<estado, enSwap, block, sem, channelVars>>

TimerPide(p, e) ==
  /\ timer[p][e] = "listado"
  /\ Enviar(Timer(p, e), "SUSPENDER", p)
  /\ UNCHANGED <<pcbVars, faseVars, listVars, sem, timer, Rest, memVars>>

TimerVolcado(p, e) ==
  /\ Recibir(Timer(p, e), "OK")
  /\ AvanzaTimer(p, e, "listado", "volcado")
  /\ UNCHANGED <<estado, enSwap, listVars, sem>>

\* Memory did not answer: the read times out and the timer goes on the same.
TimerVence(p, e) ==
  /\ dueno = Timer(p, e)
  /\ atendido /\ socket = <<>>
  /\ AvanzaTimer(p, e, "listado", "volcado")
  /\ dueno' = Nadie
  /\ pedido' = SinPedido
  /\ atendido' = FALSE
  /\ UNCHANGED <<estado, enSwap, listVars, sem, socket>>

\* Mutant: suspendido_en_swap is never set.
TimerSinMarcar(p, e) ==
  /\ AvanzaTimer(p, e, "volcado", "marcado")
  /\ UNCHANGED <<estado, enSwap, listVars, sem, channelVars>>

TimerMarca(p, e) ==
  /\ AvanzaTimer(p, e, "volcado", "marcado")
  /\ enSwap' = IF p \in block THEN [enSwap EXCEPT ![p] = TRUE] ELSE enSwap
  /\ UNCHANGED <<estado, listVars, sem, channelVars>>

TimerNotifica(p, e) ==
  /\ AvanzaTimer(p, e, "marcado", "fin")
  /\ sem' = sem + 1
  /\ UNCHANGED <<estado, enSwap, listVars, channelVars>>

-----------------------------------------------------------------------------
(* io_worker_thread.                                                       *)

\* Mutant: the worker reads the head of the queue without popping it.
TomarPedidoSinSacar(i) ==
  /\ wpc[i] = "espera"
  /\ activa[i]
  /\ cola[i] # <<>>
  /\ wpc' = [wpc EXCEPT ![i] = "enIO"]
  /\ wpid' = [wpid EXCEPT ![i] = Head(cola[i])]
  /\ UNCHANGED <<pcbVars, faseVars, listVars, sem, ioVars, timer, pmpVars,
                 channelVars, memVars>>

\* HANDSHAKE_IO: registrar_interfaz_io.  One that connects again is a new entry.
RegistrarInterfaz(i) ==
  /\ i \in Tardias
  /\ ~activa[i] /\ wpc[i] = "espera"
  /\ activa' = [activa EXCEPT ![i] = TRUE]
  /\ UNCHANGED <<pcbVars, faseVars, listVars, sem, cola, timer, workerVars,
                 pmpVars, channelVars, memVars>>

TomarPedido(i) ==
  /\ wpc[i] = "espera"
  /\ activa[i]
  /\ cola[i] # <<>>
  /\ wpc' = [wpc EXCEPT ![i] = "enIO"]
  /\ wpid' = [wpid EXCEPT ![i] = Head(cola[i])]
  /\ cola' = [cola EXCEPT ![i] = Tail(@)]
  /\ UNCHANGED <<pcbVars, faseVars, listVars, sem, activa, timer, pmpVars,
                 channelVars, memVars>>

\* IO_FINALIZADA; a STDIN interface also delivers the bytes typed.
TerminaIO(i) ==
  /\ wpc[i] = "enIO"
  /\ wpc' = [wpc EXCEPT ![i] = "extrae"]
  /\ debe' = IF Tipo[i] = "STDIN" THEN [debe EXCEPT ![wpid[i]] = TRUE] ELSE debe
  /\ UNCHANGED <<pcbVars, faseVars, listVars, sem, ioVars, timer, wpid, pmpVars,
                 channelVars, mem>>

\* The interface disconnects while it serves a request: the worker ends and
\* leaves the process and the rest of the queue where they are.
DesconectaIO(i) ==
  /\ i \in Desconectan
  /\ wpc[i] = "enIO"
  /\ wpc' = [wpc EXCEPT ![i] = "fin"]
  /\ activa' = [activa EXCEPT ![i] = FALSE]
  /\ UNCHANGED <<pcbVars, faseVars, listVars, sem, cola, timer, wpid, pmpVars,
                 channelVars, memVars>>

\* extraer_de_block: it retries while the dump of the process is in flight.
Extraer(i) ==
  LET p == wpid[i] IN
  /\ wpc[i] = "extrae"
  /\ p \in block
  /\ ~(estado[p] = "SUSP_BLOCK" /\ ~enSwap[p])
  /\ block' = block \ {p}
  /\ entrada' = [entrada EXCEPT ![p] = 0]
  /\ UNCHANGED <<epoch, atrasado, enSwap, faseVars, lista, ioVars, timer, pmpVars,
                 channelVars, memVars>>

WorkerLibre(i) ==
  /\ wpc' = [wpc EXCEPT ![i] = "espera"]
  /\ wpid' = [wpid EXCEPT ![i] = Nulo]

\* Mutant: a STDIN of a suspended process is written at once.
TerminaSuspendidoEscribe(i) ==
  LET p == wpid[i] IN
  /\ Extraer(i)
  /\ estado[p] = "SUSP_BLOCK"
  /\ IF Tipo[i] = "STDIN"
     THEN /\ wpc' = [wpc EXCEPT ![i] = "escribe"]
          /\ UNCHANGED <<estado, wpid, sem>>
     ELSE /\ estado' = [estado EXCEPT ![p] = "SUSP_READY"]
          /\ sem' = sem + 1
          /\ WorkerLibre(i)
  /\ UNCHANGED stdinPend

\* The I/O of a suspended process ended: SUSP_READY, with the write of a
\* STDIN left to the medium-term loop.
TerminaSuspendido(i) ==
  LET p == wpid[i] IN
  /\ Extraer(i)
  /\ estado[p] = "SUSP_BLOCK"
  /\ estado' = [estado EXCEPT ![p] = "SUSP_READY"]
  /\ stdinPend' = IF Tipo[i] = "STDIN" THEN [stdinPend EXCEPT ![p] = TRUE]
                                       ELSE stdinPend
  /\ sem' = sem + 1
  /\ WorkerLibre(i)

TerminaEnRam(i) ==
  LET p == wpid[i] IN
  /\ Extraer(i)
  /\ estado[p] # "SUSP_BLOCK"
  /\ IF Tipo[i] = "STDIN"
     THEN /\ wpc' = [wpc EXCEPT ![i] = "escribe"]
          /\ UNCHANGED <<estado, wpid>>
     ELSE /\ estado' = [estado EXCEPT ![p] = "READY"]
          /\ WorkerLibre(i)
  /\ UNCHANGED <<stdinPend, sem>>

WorkerPide(i) ==
  /\ \/ wpc[i] = "escribe" /\ Enviar(Worker(i), "ESCRITURA", wpid[i])
     \/ wpc[i] = "finaliza" /\ Enviar(Worker(i), "FINALIZAR", wpid[i])
  /\ UNCHANGED <<pcbVars, faseVars, listVars, sem, timer, Rest, memVars>>

WorkerSigue(i) ==
  LET p == wpid[i] IN
  /\ Recibir(Worker(i), "OK")
  /\ estado' = [estado EXCEPT ![p] =
                  IF wpc[i] = "escribe" THEN "READY" ELSE "LIBERADO"]
  /\ WorkerLibre(i)
  /\ UNCHANGED <<epochVars, enSwap, stdinPend, faseVars, listVars, sem, ioVars,
                 timer, pmpVars, memVars>>

WorkerFalla(i) ==
  LET p == wpid[i] IN
  /\ Recibir(Worker(i), "SEGFAULT")
  /\ estado' = [estado EXCEPT ![p] = "EXIT"]
  /\ lista' = lista \ {p}
  /\ wpc' = [wpc EXCEPT ![i] = "finaliza"]
  /\ UNCHANGED <<epochVars, enSwap, stdinPend, faseVars, block, sem, ioVars, timer,
                 wpid, pmpVars, memVars>>

-----------------------------------------------------------------------------
(* planificadorMedianoPlazo and intentar_des_suspender_susp_ready.         *)

\* Mutant: the loop does not wait for the semaphore.
PmpDespiertaSinEsperar ==
  /\ ppc = "espera"
  /\ sem' = sem - 1
  /\ cand' = {p \in lista : estado[p] = "SUSP_READY"}
  /\ ppc' = "itera"
  /\ UNCHANGED <<pcbVars, faseVars, listVars, ioVars, timer, workerVars, pp,
                 channelVars, memVars>>

PmpDespierta ==
  /\ ppc = "espera"
  /\ sem > 0
  /\ sem' = sem - 1
  /\ cand' = {p \in lista : estado[p] = "SUSP_READY"}
  /\ ppc' = "itera"
  /\ UNCHANGED <<pcbVars, faseVars, listVars, ioVars, timer, workerVars, pp,
                 channelVars, memVars>>

PmpElige(p) ==
  /\ ppc = "itera"
  /\ p \in cand
  /\ \A q \in cand : Prioridad[p] <= Prioridad[q]
  /\ ppc' = "pide"
  /\ pp' = p
  /\ cand' = cand \ {p}
  /\ UNCHANGED <<pcbVars, faseVars, listVars, sem, ioVars, timer, workerVars,
                 channelVars, memVars>>

PmpTermina ==
  /\ ppc = "itera"
  /\ cand = {}
  /\ ppc' = "espera"
  /\ UNCHANGED <<pcbVars, faseVars, listVars, sem, ioVars, timer, workerVars,
                 pp, cand, channelVars, memVars>>

PmpPide ==
  /\ \/ ppc = "pide" /\ Enviar(Pmp, "DES_SUSPENDER", pp)
     \/ ppc = "escribe" /\ Enviar(Pmp, "ESCRITURA", pp)
     \/ ppc = "finaliza" /\ Enviar(Pmp, "FINALIZAR", pp)
  /\ UNCHANGED <<pcbVars, faseVars, listVars, sem, timer, Rest, memVars>>

\* What the loop leaves alone when it handles a response.
PmpRecibe(respuesta) ==
  /\ Recibir(Pmp, respuesta)
  /\ UNCHANGED <<epochVars, enSwap, faseVars, block, sem, ioVars, timer, workerVars,
                 cand, memVars>>

\* Mutant: the response of DES_SUSPENDER is not looked at.
PmpSinEspacioListo ==
  /\ ppc = "pide"
  /\ PmpRecibe("SEGFAULT")
  /\ lista' = lista \ {pp}
  /\ estado' = [estado EXCEPT ![pp] = "READY"]
  /\ ppc' = "itera"
  /\ pp' = Nulo
  /\ UNCHANGED stdinPend

\* DES_SUSPENDER refused: the process stays in SUSP_READY.
PmpSinEspacio ==
  /\ ppc = "pide"
  /\ PmpRecibe("SEGFAULT")
  /\ ppc' = "itera"
  /\ pp' = Nulo
  /\ UNCHANGED <<estado, stdinPend, lista>>

\* Mutant: the deferred STDIN write is forgotten.
PmpDesSuspendeSinEscribir ==
  /\ ppc = "pide"
  /\ PmpRecibe("OK")
  /\ lista' = lista \ {pp}
  /\ estado' = [estado EXCEPT ![pp] = "READY"]
  /\ ppc' = "itera"
  /\ pp' = Nulo
  /\ UNCHANGED stdinPend

\* Mutant: the process is left in lista_suspendidos.
PmpDesSuspendeSinRemover ==
  /\ ppc = "pide"
  /\ PmpRecibe("OK")
  /\ IF stdinPend[pp]
     THEN ppc' = "escribe" /\ UNCHANGED <<estado, pp>>
     ELSE /\ estado' = [estado EXCEPT ![pp] = "READY"]
          /\ ppc' = "itera"
          /\ pp' = Nulo
  /\ UNCHANGED <<stdinPend, lista>>

\* Swapped in: write a deferred STDIN before the process may run.
PmpDesSuspende ==
  /\ ppc = "pide"
  /\ PmpRecibe("OK")
  /\ lista' = lista \ {pp}
  /\ IF stdinPend[pp]
     THEN ppc' = "escribe" /\ UNCHANGED <<estado, pp>>
     ELSE /\ estado' = [estado EXCEPT ![pp] = "READY"]
          /\ ppc' = "itera"
          /\ pp' = Nulo
  /\ UNCHANGED stdinPend

PmpEscribio ==
  /\ ppc = "escribe"
  /\ PmpRecibe("OK")
  /\ stdinPend' = [stdinPend EXCEPT ![pp] = FALSE]
  /\ estado' = [estado EXCEPT ![pp] = "READY"]
  /\ ppc' = "itera"
  /\ pp' = Nulo
  /\ UNCHANGED lista

PmpFalla ==
  /\ ppc = "escribe"
  /\ PmpRecibe("SEGFAULT")
  /\ stdinPend' = [stdinPend EXCEPT ![pp] = FALSE]
  /\ estado' = [estado EXCEPT ![pp] = "EXIT"]
  /\ lista' = lista \ {pp}
  /\ ppc' = "finaliza"
  /\ UNCHANGED pp

PmpFinaliza ==
  /\ ppc = "finaliza"
  /\ PmpRecibe("OK")
  /\ estado' = [estado EXCEPT ![pp] = "LIBERADO"]
  /\ ppc' = "itera"
  /\ pp' = Nulo
  /\ UNCHANGED <<stdinPend, lista>>

-----------------------------------------------------------------------------
Memoria ==
  \E p \in Procs :
    \/ MemSuspender(p) \/ MemDesSuspender(p) \/ MemSolicitar(p)
    \/ \E op \in Operaciones : MemLiberar(op, p) \/ MemAcceder(op, p)

Programa ==
  \E p \in Procs :
    \/ Admitir(p) \/ Despachar(p) \/ Desalojar(p) \/ Salir(p)
    \/ SyscallMemoria(p, "SOLICITAR") \/ SyscallMemoria(p, "ELIMINAR")
    \/ \E i \in Ios : SyscallIO(p, i) \/ SyscallSinInterfaz(p, i)
    \/ BloquearEnMutex(p) \/ DesbloquearDeMutex(p)

ReceptorCpu(p) ==
  \/ ReceptorPide(p) \/ ReceptorSigue(p) \/ ReceptorFalla(p)
  \/ EncolarBloquea(p) \/ EncolarPedido(p) \/ EncolarRechaza(p)
  \/ CuentaEpisodio(p)

TimerSuspension(p, e) ==
  \/ TimerSuspende(p, e) \/ TimerCaduca(p, e) \/ TimerAgrega(p, e)
  \/ TimerPide(p, e) \/ TimerVolcado(p, e) \/ TimerMarca(p, e)
  \/ TimerVence(p, e) \/ TimerNotifica(p, e)

WorkerIO(i) ==
  \/ TomarPedido(i) \/ TerminaIO(i) \/ TerminaSuspendido(i) \/ TerminaEnRam(i)
  \/ WorkerPide(i) \/ WorkerSigue(i) \/ WorkerFalla(i)

MedianoPlazo ==
  \/ PmpDespierta \/ (\E p \in Procs : PmpElige(p)) \/ PmpTermina
  \/ PmpPide \/ PmpSinEspacio \/ PmpDesSuspende \/ PmpEscribio \/ PmpFalla
  \/ PmpFinaliza

\* Every process has ended and the threads wait for work that will not come.
Terminado ==
  /\ \A p \in Procs : estado[p] = "LIBERADO"
  /\ UNCHANGED vars

Next ==
  \/ DrenarNotificacion
  \/ Memoria
  \/ Programa
  \/ \E p \in Procs : ReceptorCpu(p)
  \/ \E p \in Procs, e \in Epocas : TimerSuspension(p, e)
  \/ \E i \in Ios : WorkerIO(i) \/ DesconectaIO(i) \/ RegistrarInterfaz(i)
  \/ MedianoPlazo
  \/ Terminado

Spec == Init /\ [][Next]_vars

\* The threads of the scheduler and memory keep running and the devices answer;
\* a thread that waits for a free mutex_memory_socket gets it, unless others
\* take it for ever.  Nothing is assumed of the programs.
Fairness ==
  /\ WF_vars(DrenarNotificacion)
  /\ WF_vars(Memoria)
  /\ WF_vars(MedianoPlazo)
  /\ \A p \in Procs : WF_vars(ReceptorCpu(p))
  /\ \A p \in Procs : \A e \in Epocas : WF_vars(TimerSuspension(p, e))
  /\ \A i \in Ios : WF_vars(WorkerIO(i))

FairSpec == Spec /\ Fairness

-----------------------------------------------------------------------------
TypePcb ==
  /\ estado    \in [Procs -> Estados]
  /\ epoch     \in [Procs -> 0..MaxEpoch]
  /\ atrasado  \in [Procs -> Nat]
  /\ entrada   \in [Procs -> 0..MaxEpoch]
  /\ enSwap    \in [Procs -> BOOLEAN]
  /\ stdinPend \in [Procs -> BOOLEAN]

TypeFase ==
  /\ fase    \in [Procs -> Fases]
  /\ destino \in [Procs -> Ios \union {Nulo}]

TypeListas ==
  /\ block \subseteq Procs
  /\ lista \subseteq Procs
  /\ sem   \in Nat

TypeIO ==
  /\ cola   \in [Ios -> Seq(Procs)]
  /\ activa \in [Ios -> BOOLEAN]

TypeTimer ==
  timer \in [Procs -> [Epocas -> {"none", "duerme", "suspendido", "listado",
                                 "volcado", "marcado", "fin"}]]

TypeWorker ==
  /\ wpc  \in [Ios -> {"espera", "enIO", "extrae", "escribe", "finaliza", "fin"}]
  /\ wpid \in [Ios -> Procs \union {Nulo}]

TypePmp ==
  /\ ppc  \in {"espera", "itera", "pide", "escribe", "finaliza"}
  /\ pp   \in Procs \union {Nulo}
  /\ cand \subseteq Procs

TypeCanal ==
  /\ dueno    \in Hilos \union {Nadie}
  /\ pedido   \in [op : Operaciones, pid : Procs] \union {SinPedido}
  /\ atendido \in BOOLEAN
  /\ socket   \in Seq(Respuestas \union {"LIBERADA"})

TypeMem ==
  /\ mem  \in [Procs -> {"nada", "ram", "swap"}]
  /\ debe \in [Procs -> BOOLEAN]

TypeOK ==
  /\ TypePcb /\ TypeFase /\ TypeListas /\ TypeIO /\ TypeTimer /\ TypeWorker
  /\ TypePmp /\ TypeCanal /\ TypeMem

Volcando == {"suspendido", "listado", "volcado"}

\* While a timer has a dump in flight its process stays where it was, in
\* SUSP_BLOCK and in cola_procesos_block, and no second dump of it starts.  No
\* I/O completion moves or frees the PCB under the copy to swap, and no timer
\* of an episode older than the I/O in course suspends it (extraer_de_block,
\* suspendido_en_swap, block_epoch).
VolcadoQuieto ==
  \A p \in Procs : \A e \in Epocas :
    timer[p][e] \in Volcando =>
      /\ estado[p] = "SUSP_BLOCK" /\ p \in block /\ ~enSwap[p]
      /\ entrada[p] <= e /\ e <= epoch[p]
      /\ \A f \in Epocas : timer[p][f] \in Volcando => f = e

\* The timer that suspends a process is the one of the I/O episode it is in:
\* it "solo suspende si el proceso sigue en el mismo episodio" (colaIO.c).
\* This is NOT what the code does: MUTEX_LOCK counts its episode after the
\* process can be woken, so its timer may carry the epoch of a later I/O.
EpisodioPropio ==
  \A p \in Procs : \A e \in Epocas :
    timer[p][e] \in Volcando => e = entrada[p]

\* A process in SUSP_READY is known to the medium-term loop and, while swap
\* works, its segments are not in RAM until the loop itself brought them back,
\* so DES_SUSPENDER never overtakes SUSPENDER.
ListoTrasVolcado ==
  \A p \in Procs : estado[p] = "SUSP_READY" =>
    pp = p \/ (p \in lista /\ (SwapFalla \/ mem[p] # "ram"))

\* A process that may run has no segment in swap.
ResidenteParaEjecutar ==
  \A p \in Procs : estado[p] \in {"READY", "EXEC"} => mem[p] # "swap"

\* Memory is never asked to read or write a process that is in swap: STDIN
\* writes of suspended processes are deferred, STDOUT reads are anticipated.
AccesoResidente ==
  pedido.op \in {"LECTURA", "ESCRITURA"} => mem[pedido.pid] # "swap"

\* What was typed for a process is in its memory before it runs again,
\* whichever thread had to write it.
EntradaEscrita ==
  \A p \in Procs : estado[p] \in {"READY", "EXEC"} => ~debe[p]

EnCola(p) == \E i \in Ios : \E k \in DOMAIN cola[i] : cola[i][k] = p

\* When a PCB is freed, nothing that will still reach for it through its own
\* list or thread holds it: not cola_procesos_block, lista_suspendidos or the
\* snapshot of candidates, not a request queue or a worker, not a timer in the
\* middle of a dump ("sacarlo ANTES de liberar el PCB o el PMP quedaria con un
\* puntero colgante", colaIO.c).  Receptors that handed the process over and
\* still hold the pointer are not covered: MUTEX_LOCK is CuentaEpisodio here,
\* the ready queues are SinUsoTrasLiberar of Dispatch.
LiberadoSinRastro ==
  \A p \in Procs : estado[p] = "LIBERADO" =>
    /\ p \notin block /\ p \notin lista /\ p \notin cand
    /\ pp # p /\ pedido.pid # p /\ fase[p] = "-"
    /\ ~EnCola(p) /\ \A i \in Ios : wpid[i] # p
    /\ \A e \in Epocas : timer[p][e] \notin Volcando

\* The places that hold a live request of p: a position in the queue of a
\* worker that runs, a worker that is serving it, or the receptor thread that
\* is about to queue it.
Pendientes(p) ==
  {x \in UNION {{i} \X DOMAIN cola[i] : i \in {j \in Ios : wpc[j] # "fin"}} :
     cola[x[1]][x[2]] = p}
    \union {x \in Ios \X {0} : wpid[x[1]] = p /\ wpc[x[1]] \in {"enIO", "extrae"}}
    \union (IF fase[p] = "encolado" THEN {<<destino[p], 0>>} ELSE {})

\* An interface disconnected while it served p, or with p in its queue: its
\* worker has ended and nobody is left to wake p.
Abandonado(p) ==
  \E i \in Ios : /\ wpc[i] = "fin"
                 /\ wpid[i] = p \/ \E k \in DOMAIN cola[i] : cola[i][k] = p

\* A process blocked on I/O has exactly one pending request: it is about to be
\* queued, or queued once, or in the hands of one worker, so it is woken once
\* and by one thread.  A request is lost in one way only, with an interface
\* that disconnects in the middle of one: the processes it served and queued
\* stay in BLOCK with none (encolar_io_request, io_worker_thread).
UnPedido ==
  \A p \in Procs :
    Cardinality(Pendientes(p)) = IF p \in block /\ ~Abandonado(p) THEN 1 ELSE 0

Ciclo == INSTANCE CicloProceso WITH vida <- estado, lugar <- mem

\* The threads, queues and messages of this module implement the life cycle of
\* CicloProceso: no interleaving takes a process through a transition, or lets
\* memory move its segments in a state, that the life cycle does not have.
CicloDeVida == Ciclo!Spec

\* The medium-term loop asked memory for the return of p and is told no.
Rechazado(p) ==
  /\ dueno = Pmp /\ pedido = [op |-> "DES_SUSPENDER", pid |-> p]
  /\ atendido /\ \E k \in DOMAIN socket : socket[k] = "SEGFAULT"

\* While interfaces stay connected, whoever blocks on I/O is back in READY, or
\* ended by a fault, in the end, suspended or not on the way, unless memory
\* refuses to take it back: no flag, wake-up or turn on the channel is lost,
\* swap failing or not.  (Supposing that no program frees memory for ever:
\* mutex_memory_socket is not fair, and such a program may keep it.)
VuelveDeIO ==
  (\A q \in Procs : <>[](fase[q] # "ELIMINAR")) =>
    \A p \in Procs : p \in block ~> (estado[p] \in {"READY", "EXIT"} \/ Rechazado(p))

\* A process in SUSP_READY whose segments fit in RAM is brought back: memory
\* freed meanwhile makes the medium-term loop retry it (handle_memoria_liberada).
\* This is NOT what the code does: with RAM for one process MEMORIA_LIBERADA may
\* stay unread behind the answer it follows, threads being fair.
ReintentaAlLiberar ==
  \A p \in Procs :
    (estado[p] = "SUSP_READY" /\ Residentes \union {p} \in Caben)
      ~> (estado[p] # "SUSP_READY" \/ Residentes \union {p} \notin Caben)

-----------------------------------------------------------------------------
(* The inductive invariant behind the safety properties.                   *)

Pedido(op, p) == [op |-> op, pid |-> p]

\* Who owns the channel is waiting for the request its own pc explains.
CanalInv ==
  /\ dueno = Nadie => pedido = SinPedido /\ ~atendido
  /\ \A p \in Procs : \A e \in Epocas : dueno = Timer(p, e) =>
       timer[p][e] = "listado" /\ pedido = Pedido("SUSPENDER", p)
  /\ \A p \in Procs : dueno = Receptor(p) =>
       /\ fase[p] \in {"LECTURA", "SOLICITAR", "ELIMINAR", "FINALIZAR"}
       /\ pedido = Pedido(fase[p], p)
  /\ \A i \in Ios : dueno = Worker(i) =>
       \/ wpc[i] = "escribe" /\ pedido = Pedido("ESCRITURA", wpid[i])
       \/ wpc[i] = "finaliza" /\ pedido = Pedido("FINALIZAR", wpid[i])
  /\ dueno = Pmp =>
       \/ ppc = "pide" /\ pedido = Pedido("DES_SUSPENDER", pp)
       \/ ppc = "escribe" /\ pedido = Pedido("ESCRITURA", pp)
       \/ ppc = "finaliza" /\ pedido = Pedido("FINALIZAR", pp)

\* At most one response is in the socket, and only for a served request.
SocketInv ==
  \A k \in 1..Len(socket) : socket[k] \in Respuestas =>
    /\ atendido
    /\ \A j \in 1..Len(socket) : socket[j] \in Respuestas => j = k

\* What a served request says of memory until the response is read.
RespuestaInv ==
  atendido =>
    /\ pedido.op = "SUSPENDER" => SwapFalla \/ mem[pedido.pid] # "ram"
    /\ pedido.op = "FINALIZAR" => mem[pedido.pid] = "nada"
    /\ \A k \in 1..Len(socket) : socket[k] = "OK" =>
         /\ pedido.op = "DES_SUSPENDER" => mem[pedido.pid] # "swap"
         /\ pedido.op = "ESCRITURA" => ~debe[pedido.pid]
    /\ \A k \in 1..Len(socket) :
         socket[k] = "SEGFAULT" /\ pedido.op = "DES_SUSPENDER" =>
           SwapFalla \/ mem[pedido.pid] = "swap"

\* The state of a process agrees with the syscall it is in, and there is an
\* epoch for every episode, the ones still to count included.
FaseInv ==
  \A p \in Procs :
    /\ epoch[p] + atrasado[p] <= MaxEpoch /\ entrada[p] <= epoch[p]
    /\ fase[p] \in {"LECTURA", "SOLICITAR", "ELIMINAR", "encolar", "perdido"}
         => estado[p] = "EXEC"
    /\ fase[p] \in {"LECTURA", "encolar"} => epoch[p] + atrasado[p] < MaxEpoch
    /\ fase[p] = "encolado" => p \in block
    /\ fase[p] = "mutex" => estado[p] = "BLOCK" /\ p \notin block
    /\ fase[p] = "FINALIZAR" => estado[p] = "EXIT"
    /\ p \in block => /\ estado[p] \in {"BLOCK", "SUSP_BLOCK"}
                       /\ fase[p] \in {"-", "encolado"}
    /\ estado[p] = "SUSP_BLOCK" => p \in block

\* A queued request names a blocked process, once.
ColaInv ==
  \A i \in Ios : \A k \in 1..Len(cola[i]) :
    /\ cola[i][k] \in block
    /\ fase[cola[i][k]] = "-"
    /\ \A j \in Ios : \A l \in 1..Len(cola[j]) :
         cola[j][l] = cola[i][k] => i = j /\ k = l

WorkerInv ==
  \A i \in Ios :
    /\ wpc[i] = "espera" => wpid[i] = Nulo
    /\ wpc[i] # "espera" => wpid[i] \in Procs /\ fase[wpid[i]] = "-"
    /\ wpc[i] \in {"enIO", "extrae", "fin"} => wpid[i] \in block
    /\ wpc[i] = "escribe" => wpid[i] \notin block /\ estado[wpid[i]] = "BLOCK"
    /\ wpc[i] = "finaliza" => estado[wpid[i]] = "EXIT"
    /\ \A j \in Ios : wpid[i] = wpid[j] /\ wpid[i] # Nulo => i = j
    /\ \A j \in Ios : \A k \in 1..Len(cola[j]) : cola[j][k] # wpid[i]

PmpInv ==
  /\ ppc \in {"espera", "itera"} => pp = Nulo
  /\ ppc \notin {"espera", "itera"} => pp \in Procs /\ pp \notin cand
  /\ ppc \in {"pide", "escribe"} => estado[pp] = "SUSP_READY"
  /\ ppc = "pide" => pp \in lista
  /\ ppc = "escribe" => mem[pp] # "swap" /\ pp \notin lista
  /\ ppc = "finaliza" => /\ estado[pp] = "EXIT" /\ fase[pp] = "-"
                         /\ \A i \in Ios : wpid[i] # pp
  /\ \A p \in cand : p \in lista /\ estado[p] = "SUSP_READY"

\* The list holds suspended processes only; a dump that memory has answered,
\* and one that is marked as done, left no segment in RAM while swap works.
ListaInv ==
  \A p \in Procs :
    /\ p \in lista => estado[p] \in {"SUSP_BLOCK", "SUSP_READY"}
    /\ \A e \in Epocas : timer[p][e] \in {"listado", "volcado"} => p \in lista
    /\ \A e \in Epocas : timer[p][e] = "volcado" => SwapFalla \/ mem[p] # "ram"
    /\ estado[p] = "SUSP_BLOCK" /\ enSwap[p] =>
         p \in lista /\ (SwapFalla \/ mem[p] # "ram")

\* Who still owes the input of a process to memory.
DebeInv ==
  \A p \in Procs : debe[p] =>
    /\ estado[p] \notin {"NEW", "READY", "EXEC"}
    /\ estado[p] \in {"BLOCK", "SUSP_BLOCK"} =>
         \E i \in Ios : /\ wpid[i] = p /\ Tipo[i] = "STDIN"
                        /\ wpc[i] \in {"extrae", "escribe"}
    /\ estado[p] = "SUSP_READY" => stdinPend[p]

ResidenciaInv ==
  \A p \in Procs :
    estado[p] \in {"NEW", "READY", "EXEC", "BLOCK", "EXIT"} => mem[p] # "swap"

\* A process on its way to a queue knows which one it goes to.
DestinoInv ==
  \A p \in Procs :
    fase[p] \in {"LECTURA", "encolar", "encolado"} => destino[p] \in Ios

\* Whoever is blocked on I/O is in the hands of somebody who will wake it, or
\* was abandoned by an interface that disconnected.
PedidoInv ==
  \A p \in block :
    \/ fase[p] = "encolado"
    \/ \E i \in Ios : \E k \in 1..Len(cola[i]) : cola[i][k] = p
    \/ \E i \in Ios : wpid[i] = p /\ wpc[i] \in {"enIO", "extrae", "fin"}

IInv ==
  /\ TypeOK /\ CanalInv /\ SocketInv /\ RespuestaInv /\ FaseInv /\ ColaInv
  /\ WorkerInv /\ PmpInv /\ ListaInv /\ DebeInv /\ ResidenciaInv
  /\ VolcadoQuieto /\ ListoTrasVolcado

\* With IInv, every blocked process has one pending request and only one.
EncoladoInv == DestinoInv /\ PedidoInv
=============================================================================
