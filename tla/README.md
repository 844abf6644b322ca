# A TLA+ development of PlugAndPlay

PlugAndPlay is a distributed simulation of an operating system in C. It runs as
six programs that talk over TCP: a scheduler (`kernel_scheduler`), a memory
manager (`kernel_memory`), any number of CPUs (`cpu`), Memory Sticks
(`memory_stick`, the RAM), I/O interfaces (`io`) and one `swap`. All paths below
are under `src/PlugAndPlay.main/`; `KS` is `kernel_scheduler/src`, `KM` is
`kernel_memory/src`.

## 1. Inventory

| Component | State | Operations | Hard behaviour |
|---|---|---|---|
| Medium-term scheduler, `KS/planificadorMedianoPlazo.c` | `lista_suspendidos`, `sem_reevaluar_suspendidos`, one timer thread per BLOCK episode, `block_epoch` and `suspendido_en_swap` in the PCB | `notificar_proceso_en_block`, `suspension_timer_thread`, `intentar_des_suspender_susp_ready` | timers race I/O completion; the dump to swap runs outside every lock; wake-ups may be lost |
| I/O queues, `KS/colaIO.c` | interfaces with a queue and a worker, `cola_procesos_block`, `stdin_pendiente` | `encolar_io_request`, `io_worker_thread`, `extraer_de_block`, `desbloquear_proceso_por_io`, `finalizar_pcb_por_seg_fault` | disconnection in mid-request, completion while suspended |
| Memory channel, `KS/memory_protocol.c` | `mutex_memory_socket`, one socket carrying responses and notifications | `recibir_respuesta_de_memoria` and the notification handlers | notifications are read only while somebody waits; timeouts; the compaction handshake |
| Short-term scheduler, `KS/planificadorCortoPlazo.c`, `KS/utils_kernel_scheduler.c` | READY queues per priority, CPU table, quantum timers, semaphores | dispatch, preemption, return of a process, CPU reservation for memory syscalls | stale timers and interrupts, a CPU that answers before the dispatcher finished |
| System mutexes, `KS/utils_kernel_scheduler.c`, `KS/globalesKernelScheduler.c` | owner and wait queue of each mutex, dynamic priority | create, lock, unlock, release at exit, priority inheritance | test-and-set without a lock, lock taken twice |
| Long-term scheduler, `KS/planificadorLargoPlazo.c`, `KS/crearProceso.c` | NEW queue, PID counter, `sistema_corrupto` | create, admit, BSOD | a process queued although memory did not answer, BSOD in the middle of anything |
| `kernel_memory` | free list, process and segment tables, swap counter, sticks, compaction flag | allocate, free, suspend, de-suspend, finish, compact, read, write, register sticks and CPUs | compaction against CPUs that hold old bases, partial failures, sticks that come and go |
| `cpu` | registers, context, interrupt flags, segment table cache | instruction cycle, MMU, syscalls | interrupts against the cycle, sticks announced on the stream that carries answers, accesses split over sticks, 32-bit sums |
| `memory_stick`, `swap` | byte array, block file | read, write | |
| `io` | | sleep, read, print | |
| `utils` | | sockets, messages, packing | wire formats |

How they interact. A CPU returns a process to its receptor thread in the
scheduler (one thread per CPU), which runs the syscall: memory requests go over
the single socket to `kernel_memory` under `mutex_memory_socket`; I/O requests
go to the queue of an interface, whose worker thread talks to the `io` program
and unblocks the process. A process in BLOCK for more than `SUSPENSION_TIMEOUT`
is suspended by a timer thread, which asks memory to move its segments to swap;
the medium-term loop brings it back when its I/O is over and memory has room.
`kernel_memory` serves the scheduler, the CPUs and the sticks with one thread
each.

What makes the parts correct: a process is in one place at a time and follows
the life cycle of `t_estado`; it never runs without its segments and never
loses its input; a freed PCB is not reachable; the free list and the segments
partition the RAM; a mutex has one owner and a queue served in order; nobody
waits for something that will not come.

`PROJECT.json` lists the hazards with their lines, and for each the properties
that cover it, or a note on why there is none.

## 2. Modules

| Module | Contents |
|---|---|
| `Suspension` | medium-term scheduler, I/O queues and workers, memory channel, the syscalls that reach them, memory reduced to the place of each process's segments; properties; inductive invariant |
| `CicloProceso` | abstract specification: the life cycle of a process and where its segments may be in each state |
| `SuspensionProofs` | the inductive invariant of `Suspension` and its safety properties, proved |
| `CicloProofs` | `Suspension` implements `CicloProceso`, proved |
| `KernelMemory` | `kernel_memory`: free list, segment tables, allocation and compaction, swap, sticks; the accesses of the CPUs; properties |
| `MemoryProofs` | the two inductive invariants of `KernelMemory` and its safety properties, proved |
| `Dispatch` | short-term scheduler, CPU table, receptor threads, quantum timers, preemption, the listener and the cycle of each CPU; properties |
| `SystemMutex` | the mutexes of programs and the inheritance of priorities; properties |
| `Canal` | the socket between scheduler and `kernel_memory` at message level: requests, answers, notifications, compaction handshake, timeouts; creation, admission and BSOD; properties |
| `CanalProofs`, `DispatchProofs`, `MutexProofs` | the inductive invariants of `Canal`, `Dispatch` and `SystemMutex` and their safety properties, proved |
| `HerenciaProofs` | exclusion, waiting and exact inheritance of `SystemMutex` with one CPU, proved |
| `Instrucciones` | registers with their widths, bytes, the register instructions, addresses |
| `Cpu` | CPUs with cycle and MMU, Memory Sticks, the threads of `kernel_memory` that register and serve them; properties |
| `CpuProofs` | the inductive invariants of the registration of CPUs and sticks, and of widths and accesses, in `Cpu`, proved |
| `Maquina` | abstract specification: the machine each program sees |
| `MCSuspension`, `MCMemory`, `MCDispatch`, `MCMutex`, `MCCanal`, `MCCpu` | instances for TLC |

The components are separate state machines: `Suspension` is the core, and each
of the others opens up what it takes as one step: memory's answer
(`KernelMemory`), the messages of the channel (`Canal`), EXEC (`Dispatch` for
the scheduler's side, `Cpu` for the program's), a mutex (`SystemMutex`). `Cpu`
composes CPU, `kernel_memory` and sticks, `Canal` scheduler and `kernel_memory`. A definition whose comment starts with "Mutant" is a wrong version of
the next one, kept to show that the properties notice it.

### Suspension

Every thread is a program counter: `timer[p][e]` is the timer of BLOCK episode
`e` of process `p`, `wpc[i]` the worker of interface `i`, `ppc` the medium-term
loop, `fase[p]` the progress of the syscall that a receptor thread runs for
`p`. An action is one critical section or one stretch of code with a single
effect that other threads can see. So a request to memory takes three steps
(lock and send, service, receive and unlock), and the flag
`suspendido_en_swap`, the list, the queue and the semaphore change in the order
the code changes them, with every other thread free to run in between.

`block` is `cola_procesos_block`, `lista` is `lista_suspendidos`, `sem` is
`sem_reevaluar_suspendidos`, `dueno` is the owner of `mutex_memory_socket`,
`socket` holds what memory sent and nobody read yet, notifications included.
`mem` says where the segments of a process are ("swap": some segment has lost its
base) and `debe` is a history variable: input was typed for the process and has
not reached its memory. `entrada`, also history, is the epoch of the I/O episode
the process is in.

MUTEX_LOCK takes two steps. In the first the process is in the queue of the mutex
(`BloquearEnMutex`), from where another thread may wake it; in the second the
receptor increments `block_epoch`, without `mutex_block`, and starts the timer
(`CuentaEpisodio`), whatever the process is doing by then. `atrasado` counts the
receptors between the two. The increment itself is atomic here; in the code it
races the one of `encolar_io_request`, and reads a PCB that may be gone (section 3
has the like for the READY queues). A timer that finds its epoch on a
later I/O suspends the process in it.

Abstractions, and why they are sound:

* The segments of a process move as one unit, and `Caben` says which sets of
  processes fit in RAM together. `Fragmenta` lets memory refuse a set that
  fits (DES_SUSPENDER does not compact).
* `SwapFalla` lets swap be missing, full or failing: SUSPENDER is answered OK
  with segments left in RAM, or is not answered and the timer gives up
  (`TimerVence`); DES_SUSPENDER may be refused after the segments got their RAM.
  It is TRUE in `susp_progreso`. Bytes of RAM that such a failure leaks are covered
  by the refusals, which are nondeterministic; the cells are in `KernelMemory`.
* CPUs are reduced to EXEC (see `Dispatch`); preemption may happen at any time. The mutex
  syscalls keep their effect on the PCB and on the timers. `prioridad_dinamica`
  is a constant.
* `SUSPENSION_TIMEOUT` is positive. Of the timeouts of the socket only that of
  SUSPENDER is here; the others and BSOD are in `Canal`.
* An interface is an entry of `tabla_ios`; those in `Tardias` register while the
  system runs, and one that connects again is a new entry.
* Stores that the reader of `estado` cannot tell apart are one step. In
  particular the fields of a deferred STDIN, `SUSP_READY` and `sem_post` are
  one action: the loop looks at the fields only after it has seen
  `SUSP_READY`, which is stored after them.
* `extraer_de_block` returns NULL only for a process that is not queued. The
  conjunct `WorkerInv` of the invariant shows that this does not happen, so
  that branch has no action.
* `comparar_suspendidos` breaks ties by a timestamp in seconds; ties are
  nondeterministic.

Bounds: `MaxEpoch` BLOCK episodes per process, `MaxSem` wake-ups that MEM_FREE
may leave pending (with 0 programs make no MEM_FREE; FINALIZAR_PROCESO wakes the
loop all the same). Both only limit the inputs (syscalls), never an internal step.

### CicloProceso

Fourteen transitions with the place of the segments in each: the dump happens
in SUSP_BLOCK and, if swap works, is over before SUSP_READY; the segments are back
before READY; a PCB is freed after memory let go of the process. The refinement
mapping is `vida <- estado, lugar <- mem`.

### KernelMemory

`base`, `limite` and `bloque` are the fields of `t_segmento`, `libres` is
`bloques_libres`, `siguiente` the next block of swap. `rpc` is the program
counter of the thread that serves the scheduler (one request at a time), `spc`
that of the thread that registers a stick, `modo`, `cpid` and `ctx` are the CPUs
with the process and the bases they loaded. A handler that is one critical
section of `mutex_memoria` is one step; a loop over segments is a step per
segment, so a failure, a CPU or a stick can come between two of them.

`ram` and `disco` do not hold bytes: a cell or a block holds the name of the
segment whose last contents it has, whole and in place. Writing a segment
through wrong bases, copying over it or losing part of it removes the tag, and
`DatosIntactos` asks for it. Abstractions:

* The free list is a set; its order only chooses between blocks of equal size,
  and the model takes any of those. Loops take the segments in any order, except
  the compaction, which sorts them.
* Sizes are positive and a process has one segment per number.
* A read, OBTENER_ESPACIO_LIBRE and the loading of a script change no table.
* A swap that is not connected behaves as a full one (`SwapLleno`); an operation
  on swap may fail (`SwapFalla`). The 30 s of MEMORY_OP_TIMEOUT, after which the
  scheduler takes the process for suspended, is `VenceEspera`.
* `Aislado` keeps a stick from registering in the middle of a request. It is
  FALSE in `mem_fallas`, where nothing compacts.
* Sticks do not disconnect (the code then stops the system, BSOD, see `Canal`).

### Dispatch

Threads: the dispatcher `Pcp`, a receptor per CPU, the threads that bring
processes to READY from elsewhere (`Externos`: I/O workers, medium-term loop,
long-term scheduler), the quantum timers, and on each CPU the listener and the
instruction cycle. Every critical section of `scheduler_connections.lock` or of
the queues, every semaphore operation and every send or receive is one step, so
an answer may arrive before the dispatcher has noted what it sent.

`cola` are the READY queues, `semReady` and `semCpu` the semaphores, `actual`,
`disponible`, `conectada`, `timerActivo` and `timerPid` the CPU table. On the
CPU, `slot` is the PID handed from listener to cycle, `enEjec` is
`pid_en_ejecucion` and `pend` the interrupt flag. Abstractions:

* Multilevel queues only; with no level configured the code uses a single queue.
* `prioridad` is constant: what inheritance does is in `SystemMutex`. `estado`
  is not kept, as nothing here reads it.
* Any free CPU may be chosen (the code takes the first of the table), and ties
  between victims are nondeterministic (the code compares seconds).
* `semCpu` saturates at `MaxSem`, and then a wait may leave it there.
* EXIT stands for EXIT, ERROR and SEG_FAULT; DESALOJO for both evictions.
* A receptor in step "compacta" is the thread that holds `mutex_memory_socket`
  and handles the compaction messages; the flag is derived from it.
* A CPU connects once; what is sent to a dead CPU is lost.
* `devolver_proceso_a_misma_cpu` returns TRUE always: the thread that would mark
  its CPU as gone is the one that asks. Its callers' other branch has no action.

Bounds: `MaxCanal` messages in a channel to a CPU, `MaxRelojes` armed timers,
`MaxExtra` compactions' extra wake-ups, `MaxSem`.

### SystemMutex

`lista` is `lista_mutexes` with the fields of `t_mutex_sistema`, a position of
it standing for the pointer; `dinamica`, `esperando` and `colas` are
`prioridad_dinamica`, `mutex_esperando` and the READY queues. `r[h]` is what
thread `h` (a receptor, or the worker of an interface that ends a process) is
doing. The list is protected by `mutex_lista_mutexes`, the fields of a mutex by
nothing: the search, the registration, the test of the owner, the write of the
owner, the hand-over and each call of `propagar_herencia_prioridad` are steps of
their own. `candado` is the thread that holds the lock between steps, inside
`liberar_mutexes_de_proceso`. `posee` is history: what each program was told it
has. Abstractions:

* The dispatcher is one step, and a process is READY exactly while it is queued;
  the code writes `estado` a little before or after. `reubicar_proceso_en_ready`
  moves only what it finds in a queue, so this is all it sees, except that the
  late EXEC of the dispatcher (`planificadorCortoPlazo.c:219`) may make it skip
  a queued process.
* `queue_push` and `queue_pop` of two threads on one mutex are atomic. In the
  code they are a data race, so the runs with two threads are optimistic, and
  what they refute is refuted for the code. `UnLugar` holds of the code only
  under this assumption.
* A process blocked for I/O stays in `io` whether or not it is suspended.
* `FallaIO` lets an interface end a process (the segmentation fault of a STDIN);
  it is TRUE in `mut_dos`.

### Canal

`dueno` is the holder of `mutex_memory_socket`, `pc[t]` and `req[t]` a thread of
the scheduler and its request, `ida` and `vuelta` the two directions of the
stream, `mpc` the receptor of `kernel_memory`. `est`, `segsS` (`segmentos_info`),
`nuevos`, `semNew` and `plp` are the processes, the NEW queue and the long-term
scheduler; `existe` and `segsM` the tables of `kernel_memory`.

A packet has its op_code and the format of its payload. Whoever drains another
format than was sent leaves a rest in the stream, so a wrong payload shows up
where it does in the code: at the next reader. The field `de` (for whom an
answer is) is history, nothing on the wire tells. Abstractions:

* Whether memory finds room, must compact or finds an address legal is
  nondeterministic; `KernelMemory` has the tables.
* The states of a process are those the guards of requests need.
* `Vencer` is the 30 s receive timeout. It happens when `kernel_memory` dropped
  the request (a dump that fails, a read cut by a lost stick) and while it
  compacts, if the timeout is on then. `Tarde = TRUE` allows it for any answer.
* `Cae` lets a stick go away. `manejar_bsod` marks, destroys the queues and
  exits in three steps, with the other threads running in between.
* A send does not fail, and the scheduler connects once.

Bounds: `MaxPedidos` requests, `MaxSegs` segments, `MaxNuevas` new sticks.

### Instrucciones, Cpu and Maquina

On a CPU, `fase` is the place of the main thread in `ejecutar_ciclo_instruccion`,
`ctx` its `t_contexto`, `irq` the interrupt flag, `porc` and `buf` the portions
and the bytes of the access in progress, `conoce` its table of sticks, `resp`
the slot in which the listener leaves an answer. `rx` and `pedido` are the
stream to and from `kernel_memory`, whose threads are `hpc` (one per CPU) and
`spc` (one per stick) with what each still has to announce. `tabla` holds the
saved contexts, `ram` the bytes of each stick. Each portion of an access, each
message and each step of a registration is an action.

The widths are constants: a byte has `Byte` values and a word `BytesReg` bytes.
The runs use 4 and 2, so a word has 16 values and every wrap-around happens
within reach; the code has 256 and 4. Every truncation of the code is kept.

`Maquina` gives each process registers, a pc and a list of segments with bytes;
an access is legal iff it stays within its segment, in unbounded arithmetic.
The refinement mapping takes the context of the CPU that runs the process, or
the saved one; a write counts from the start of its transfer (the bytes still to
be sent are taken from `buf`), a process has ended when its cycle did, and a
syscall is pending from there until the kernel answers. Abstractions:

* Scheduling is free: a READY process goes to any CPU, an interrupt may come at
  any time (`MaxIrq`), syscalls other than MEM_ALLOC and MEM_FREE only give the
  process back. A syscall's parameters are values, not text.
* Allocation takes any place that fits, and segments of a process that is not
  loaded move (`Mover`, at most `MaxMueve` times): compaction, or suspension and
  return. That they move only then is what `mem_cpus` finds violated.
* Sticks do not disconnect, so a stick always answers OK.
* A line with too few parameters is an instruction that ends in ERROR.
* A CPU that finds a stick where it expects CONFIG_MMU_CPU reads the rest of the
  stream out of step; it is "desfasada" from there on and takes no further step.

## 3. Runs

| Run | Instance | Shows |
|---|---|---|
| `susp_seguridad` | 2 processes, 2 episodes each (a mutex, or I/O), a STDIN interface and a STDOUT interface that may disconnect, RAM for one process, refusals, swap that works, no MEM_FREE | all safety invariants and the refinement of `CicloProceso` |
| `susp_progreso` | RAM for both processes, 1 episode each, MEM_FREE, a STDIN interface that connects late, a swap that is missing, full or fails, fairness | every process blocked on I/O returns or is refused; nobody runs with a segment in swap, typed input comes first, the life cycle is kept |
| `mem_uno` | 1 CPU, 2 processes with 2 segments, best fit, 2 cells and a stick of 2 more that connects between requests, swap blocks of 2 cells | RAM is partitioned, data are intact, a refusal means no space |
| `mem_fallas` | 2 CPUs, worst fit, full or failing swap, a stick in the middle of a request | no cell belongs to two segments (nothing is compacted: all sizes are one) |
| `mem_cpus` | 2 CPUs | expected violation: a compaction under the feet of the other CPU |
| `disp_uno` | 1 CPU that may disconnect, 2 levels with preemption, the lower one RR with a timer that may outlive its dispatch, compactions | each process in one place; the CPU runs what the table says; the semaphores cover queues and CPU |
| `disp_dos` | 2 CPUs, two FIFO levels, fairness | no process on both CPUs; a READY process runs once the levels above stay empty |
| `mut_uno` | 1 CPU, 3 processes of 3 levels, 2 mutexes, I/O, fairness | exact inheritance, waiters are served, processes end |
| `mut_dos` | 2 CPUs, 3 processes, an interface that ends processes | no process lost or queued twice |
| `cpu_turnos` | 2 CPUs, 2 processes, 2 sticks, 1 interrupt, 1 relocation, fairness | the machine of `Maquina`; an accepted interrupt takes the process off the CPU |
| `cpu_altas` | a second CPU and a second stick connect while processes run | widths of registers; no CPU runs ahead of the news of a stick |
| `canal` | 2 threads, 2 processes (one created in the run), 4 requests, a new stick, a lost one, fairness | answers reach who asked; compactions are not cut; both sides agree; the channel is given back |

Two processes are enough for what the properties tell apart: one that is being
moved and one that competes for RAM, the channel or the interface. Two
episodes are the smallest number with a timer of an older one, and RAM for one
process makes both refusals and retries happen. The processes are symmetric in
`susp_seguridad`, which states no liveness. In the safety runs processes may
stop for good (the bound on episodes, a disconnected interface, a mutex nobody
releases), and in `susp_progreso` one that memory refused to take back waits for
memory nobody frees, so deadlock is not checked.

Memory: four cells and sizes up to three (one above `MaxSeg`) are the smallest
instance with a hole that only a compaction can use, partial suspensions and
returns that fail at the second segment. Dispatch: two processes give a victim
and a rival, or a process and itself on an earlier visit; one timer that is still
alive after its dispatch is an old one (a second one is beyond the time of a run,
the theorems cover any number); a channel of one message (`disp_uno`) is enough for
an interrupt of an earlier dispatch to reach the CPU after the next one, because the timer or
the preempting thread sends it late; `disp_dos` has room for two.
Mutexes: three processes and two mutexes give chains of three and cycles; the lock that the end of a process takes twice stops a thread, so
deadlock is not checked there, nor in `Dispatch`, where all processes may end.
CPU: sticks of two and three bytes make a word cross the border, with a segment
that fills the rest; the program that spins shows that the interrupt does not
depend on the program; one relocation and one interrupt give a turn before and
one after. Registration needs one CPU and one stick that meet. Channel: four
requests are enough for one that is dropped, one that compacts and two that
follow them. Requests are bounded and programs end, so neither checks deadlock.

Fairness: weak fairness of each thread of the scheduler, of memory's receptor
and of the devices, i.e. a thread that can run does run. Nothing is assumed of
programs: they may never make a syscall or never end. Mutex acquisition gets
weak fairness only, as `pthread_mutex_t` gives, and none in `Canal`, where
`CanalLibre` speaks of the thread that already has it. In `Cpu` the threads that
serve a CPU (its two, and memory's receptor) are fair together: one of them runs
when one can. Where progress depends on
programs the property says so: `ListoCorre` asks that every CPU be handed back
again and again (a program that makes memory syscalls for ever keeps its CPU,
since its quantum restarts with each) and that the levels above be empty from
some point on (a level is chosen by strict priority, so the ones below may
starve), `VuelveDeIO` that no program
free memory for ever (`mutex_memory_socket` is not fair, and a thread that takes it
again and again may keep the worker out) and counts a refusal by memory as an outcome,
`EsperaTermina` that every program be
without mutexes again and again, `FinSinEspera` that nobody waits for a mutex of
the process that ends.

Where the code does not do what its documentation says, the module has the
documented property and its comment says that the code breaks it. One such case is
a run, with its finding in `PROJECT.json`:

* `mem_cpus` (`DatosIntactos`): a compaction waits for the scheduler to pause the
  CPUs (`kernel_memory/README.md`), but the scheduler acknowledges as soon as it has
  sent the interrupts.

The others are not runs; each is reproduced in seconds by checking the property
alone, with the constants given. None of them is claimed by any run or theorem.

| Property | Constants | What TLC finds |
|---|---|---|
| `Exclusion`, `EsperaConDueno` (`MCMutex`) | `mut_dos` with `FallaIO = FALSE` | the owner of a mutex is tested and written without a lock: two CPUs both get it, or a process queues for a mutex that was just released |
| `SuspendidoSinRam` (`MCMemory`) | `mem_uno` with `SwapLleno = TRUE` | SUSPENDER_PROCESO is answered OK with segments left in RAM |
| `SinSolape` (`MCMemory`) | 3 processes of one segment, 1 CPU, `Tamanios = {1, 2}`, `Ram = 3`, `Nuevo = 1`, `MaxSeg = 2`, `Aislado = FALSE` | a stick counts in the total before its block is in the list, so a compaction in between gives its cells out twice |
| `SinUsoTrasLiberar` (`MCDispatch`) | `disp_uno` | the thread that queued a process reads its PCB afterwards, when it may have been freed |
| `EpisodioPropio` (`MCSuspension`) | `susp_seguridad` | the timer of a MUTEX_LOCK counts its episode late and suspends the process in the I/O it does next |
| `ReintentaAlLiberar` (`MCSuspension`) | `susp_progreso` with `CabeUno`, `Tardias = {}`, `SwapFalla = FALSE` | MEMORIA_LIBERADA travels behind the answer to the request that freed memory, when nobody reads the socket any more, and the process that waits for RAM is not retried |
| `ConfigPrimero` (`MCCpu`) | `cpu_altas` | a stick that registers right after a CPU is announced before CONFIG_MMU_CPU |
| `RespuestaPropia` (`MCCanal`) | `canal` with `Tarde = TRUE` | an answer that comes after the timeout is taken for that of the next request |

The modules contain other behaviour that a reader of the code may not expect,
and that no run states as a property:

* A process that waits for a mutex is not suspended; the comment in
  `utils_kernel_scheduler.c` calls it a design decision.
* A worker whose interface disconnects frees the request and ends; the processes
  it served and queued stay in BLOCK for ever (`Abandonado`; `UnPedido` says that
  requests are lost in no other way).
* A late interrupt is accepted if the same process is back on the CPU, one that
  comes before the context is loaded is discarded, and the timer of the previous
  dispatch survives a memory syscall.
* The dispatcher looks at the compaction flag once, before it waits for a CPU.
* READY queues are chosen by the static priority, so inheritance moves only
  processes that are READY when they inherit.
* The end of a process locks `mutex_lista_mutexes` twice when one of its mutexes
  has a waiter.
* `kernel_memory` does not answer OBTENER_CONTEXTO for an unknown PID, and
  `crear_proceso` queues the process even if memory did not answer. `AdmitidoExiste`
  holds because memory always creates it.
* `manejar_bsod` destroys the NEW queue; a long-term scheduler that has already
  passed `sem_new` then pops from it (`PlpRompe`).
* The limit check of the MMU wraps around in 32 bits; such an access is refused
  all the same, since it runs past the last stick.

## 4. Proofs

All theorems hold for every value of the constants that the named assumptions of
the modules allow (the types of the constants, a `Nadie` or `Nulo` that is no
process or thread, disjoint kinds of threads), and beyond the bounds of the runs.
One assumption is arithmetic: `PotenciaAssumption` of `Instrucciones` says that the
powers of `Byte` are positive, and follows from the types of the constants, but the
provers know nothing of powers.
Where the code is right only under a condition, the theorem states it as a
hypothesis, and TLC shows that it is needed:

* `SinCorte` (`~ Tarde`) for `Canal`: with `Tarde = TRUE` `RespuestaPropia` fails
  (section 3).
* `UnaCpu` (one CPU, and interfaces that end nobody) for the second half of
  `SystemMutex`: with two CPUs a waiter may have no owner to inherit to
  (`EsperaConDueno` fails), and with one CPU and an interface that ends a process
  `HerenciaExacta` fails too. So nothing is claimed of exclusion, which is only at
  stake with two CPUs, and there it fails.
* `Sosegado` (at most one CPU, and no stick that registers during a request) for
  `KernelMemory`: with two CPUs, as in `mem_cpus`, one goes on writing where a
  compaction moves segments, and `SinSolape` and `DatosIntactos` fail; with
  `Aislado = FALSE` `SinSolape` fails for sizes that leave holes (section 3).
* `SwapSano` (swap has room and answers) for what `KernelMemory` keeps in swap:
  a dump that stops half way leaves a process that is suspended and in RAM
  (`SuspendidoSinRam` fails), and its return leaks cells. `SinSolape` and `TypeOK` do not need it.
* `Sobran` (the table of a CPU has 2n - 1 entries for n sticks) for
  `SticksConocidos`: with two sticks and `MaxSticks = 2` it fails, since a stick
  announced twice takes two entries. MAX_MEMORY_STICKS is 1000, so the code is
  good for 500 sticks, and not for 1000.

| Module | Proved | Hypothesis |
|---|---|---|
| `SuspensionProofs` | `TypeOK`, `VolcadoQuieto`, `ListoTrasVolcado`, `ResidenteParaEjecutar`, `AccesoResidente`, `EntradaEscrita`, `LiberadoSinRastro`, `UnPedido` (with any swap; `ListoTrasVolcado` and `CicloDeVida` say less if `SwapFalla`) | |
| `CicloProofs` | the refinement `CicloDeVida` | |
| `CanalProofs` | `RespuestaPropia`, `CompactacionSinCorte`, `AdmitidoExiste`, `SegmentosCoinciden` | `SinCorte` |
| `DispatchProofs` | `TypeOK`, `UnSoloLugar`, `CpuSegunTabla`, `SenalPorListo`, `SinDespertarPerdido` | |
| `MutexProofs` | `TypeOK`, `UnLugar` | |
| `HerenciaProofs` | `HerenciaExacta` | `UnaCpu` |
| `MemoryProofs` | `TypeOK`, `SinSolape` | `Sosegado` |
| `MemoryProofs` | `SinFugas`, `DatosIntactos`, `NiegaSoloSinEspacio` | `Sosegado`, `SwapSano` |
| `CpuProofs` | `TypeOK`, accesses that stay within their sticks (`AccesosEnteros`) | |
| `CpuProofs` | `SticksConocidos` | `Sobran` |

None of the properties is inductive by itself; what each proof adds:

**Suspension.** Who owns the channel is waiting for the request its program
counter explains (`CanalInv`); at most one response is in the socket
(`SocketInv`); what a served request says about memory until its response is read
(`RespuestaInv`); how the state of a process agrees with the syscall, the queue,
the worker, the list and the loop that hold it (`FaseInv`, `ColaInv`,
`WorkerInv`, `PmpInv`, `ListaInv`); who still has to write a typed input
(`DebeInv`); and that only suspended processes have segments in swap
(`ResidenciaInv`). One lemma per action, one step per conjunct that the action
can disturb. The refinement needs only `IInv` and, per action, the abstract
transition it takes. For `UnPedido` the same `IInv` says that a blocked process
has at most one pending request; that it has one is a second invariant on top of
it (`EncoladoInv`), which also has to say that a process on its way to a queue
knows which queue: were it to forget, the request would be appended nowhere. A
worker that ended holds no request, so both speak of the processes it left behind
(`Abandonado`).

**Canal.** `IInv` is a description of the conversation: for the holder of the
socket, the place of its request (to be sent, on the wire, with memory, answered)
decides what each direction of the stream may hold, with notifications in front
of the answer (`Flujo`), and which of the two tables of processes and segments is
already up to date (`Datos`). Every step moves the conversation from one place to
the next. A timeout is harmless because memory has dropped the request by then;
this is where `SinCorte` enters.

**Dispatch.** A process is in a queue, in the hands of a thread, named by the CPU
table or finished, and in one of these only (`Colas`, `Manos`, `Tabla`,
`Lugares`); what a CPU has, from EJECUTAR on its way to the return on its way
back, is one token that the table names (`CpuSegunTabla`, which is part of the
invariant). Interrupts and timers carry PIDs, never a PCB, which is why stale
ones are harmless here. The semaphores then follow from counting the queued
processes and the threads that are about to post.

**SystemMutex.** `MutexProofs` is about places: eight kinds of place, a process in
exactly one (`Uno`), each queue and each hand holding it once (`Unicos`), and what
a thread knows at each stage (`Etapa`). It needs nothing about owners, so it holds
with all the races. `HerenciaProofs` adds the invariant `JInv` of one receptor:
what the thread read still holds when it acts (`Turno`); names are unique and
whoever was granted one owns that mutex (`NombresUnicos`, `Tenencia`);
`EsperaConDueno`; and `Herencia`. For the last one inheritance is a graph: an edge
from a waiter to the owner of the mutex it waits for (`Duenos`). A process is
"just" when its dynamic priority is the best of its own and of its waiters'. All
live processes are just, except the next one on the chain while LOCK propagates,
for which the value being propagated is the right one (`Hereditario`), and the
two that UNLOCK has still to recalculate. That LOCK may stop at the first owner
that does not improve, and that UNLOCK need not follow chains (both processes
wait for nobody), come out as the cases of `HeredaPropaga`, `HeredaFin` and
`HeredaAplica`; cycles, a process that waits for itself included, need no case of
their own but one.

**KernelMemory.** The first invariant, `IInv`, says where everything is. A segment
may have more than one claim on RAM: the base in the table, and the base a
reservation of DES_SUSPENDER_PROCESO remembers while it may still be rolled back.
All claims and all free blocks are disjoint and below the end of RAM
(`Disjuntos`, `Libres`); while a compaction runs there is no list of free blocks
and the cursor separates the segments that moved from those that have not
(`Cursor`), which is why moving one downwards touches nothing else. `Hilo` is what
the receptor's loop knows at each program counter, and with one CPU whoever holds
loaded bases is stopped while they change (`EnCpus`). The second invariant,
`JInv`, says that nothing is missing: every cell is claimed or free (`Cubre`, so
after a compaction the free list is one block with all the free cells, which gives
`NiegaSoloSinEspacio`), a suspended process has no claim but its reservations
(`Suspendidos`), and each byte is in RAM, in the block being sent or in swap,
where blocks are given out upwards and so are never shared (`Datos`).

**Cpu.** The first invariant, `IInv`, follows a stick from the table of `kernel_memory` to every
CPU. Two threads may announce it, the one that registers the stick and the one
that registers the CPU; `AvisaStick` and `AvisaCpu` say which still has to. If
neither has, the CPU knows the stick or the notice is in its stream (`Avisado`);
each does it once (`DosVeces`), which bounds the entries a CPU needs. The thread
of the stick gives its bytes to processes after its last notice, so an address in
a context or in the free list belongs to a stick that is announced (`Publicos`);
and since contexts come down the same stream, the notice is in front of the first
context that needs it (`Sabidos`). A CPU may be lost ("desfasada", section 3); it
never loads a context, so the theorem covers that case too.
`IInv` itself needs no hypothesis: with a table too small it claims nothing about
what the CPU knows.

The second invariant, `TInv`, follows an access. `PorcionesCubren` is about the loop
of mmu_traducir_dir_logica: if every address of the access has a stick, the portions
cover it from its first byte to its last, without gaps or repetitions, and none
leaves its stick. While a CPU reads, what is left begins where its buffer ends; while
it writes, it ends where the buffer does (`CpuBien`). A new stick is appended to the
table of the CPU, so the indices in portions stay good (`CubrenCrece`); that is all
that may happen to the table during an access. Hence a buffer that is complete has
the size of its register, a write has a byte for each cell it names, and the cells of
every stick are those it started with (`Celdas`), also after a relocation, which
reads only cells of published addresses (`CeldaBien`). Widths are kept because every
value that reaches a register goes through `Asignar`, also on its way back from
`kernel_memory` (`BienMensaje`). The recursive functions here (`Suma`, `Porciones`)
are reasoned about by least counterexample: the set of lengths for which the claim
fails would have a minimum (`HayMinimo`), and it has none.

The inductive invariants were model-checked on the instances of the runs before
they were proved.

Model-checked only:

* the liveness properties `VuelveDeIO`, `ListoCorre`, `EsperaTermina`,
  `FinSinEspera`, `InterrupcionAtendida` and `CanalLibre`: fairness is out of the
  prover's reach;
* the refinement of `Maquina`: it says what the bytes of a process are through
  accesses, relocations and write-backs, so it needs that segments never overlap
  across `tabla`, contexts and free list (as in `KernelMemory`, with one byte per
  address) on top of the two invariants of `Cpu`.

## 5. Plan

1. `Suspension`, `CicloProceso` and their proofs: done.
2. `Canal`, `Dispatch`, `SystemMutex`: modelled, checked, safety proved.
3. `KernelMemory`, `Instrucciones`, `Cpu`, `Maquina`: modelled and checked, with
   the refinement of `Maquina`.
4. `KernelMemory` and `Cpu`: safety proved. Proofs still to do: the refinement of
   `Maquina`, and `KernelMemory` with several CPUs, for the properties that survive
   a compaction against stale bases.
5. Abstract specifications still to state: an allocator over sets of cells for
   `KernelMemory`, a single-place scheduler for `Dispatch`, a fair lock for
   `SystemMutex` with one receptor.
6. CPUs and schedulers that connect again under the same number.

## 6. Not modelled

Socket calls and the byte layout of messages (`utils`): messages are ordered and
reliable, `Canal` keeps op_codes and payload formats. Configuration and logging.
The parsing of scripts and of instructions. Delays and servers of the `io`,
`swap` and `memory_stick` programs, which appear through their answers. The
single READY queue used when no level is configured. A CPU or scheduler that
connects again: the tables then hold two entries with one number, and the code
does not say what it expects.
