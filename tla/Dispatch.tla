------------------------------ MODULE Dispatch ------------------------------
(***************************************************************************)
(* The short-term scheduler (planificadorCortoPlazo.c), the CPU table, the *)
(* receptor threads, the quantum timers and the preemption between queues  *)
(* (utils_kernel_scheduler.c), and the part of a CPU that takes processes  *)
(* and interrupts (cpu_scheduler.c, cpu_ciclo.c).                          *)
(*                                                                         *)
(* Threads: the dispatcher (pcp), one receptor per CPU and the threads     *)
(* that bring a process to READY from outside (Externos: long-term and     *)
(* medium-term scheduler, I/O workers), the timers, and in each CPU the    *)
(* listener and the instruction cycle.  Every critical section and every   *)
(* send is a step.                                                         *)
(***************************************************************************)
EXTENDS Integers, Sequences, FiniteSets, FiniteSetsExt, SequencesExt

CONSTANTS
  Procs,      \* the PIDs
  Cpus,       \* the CPUs
  Externos,   \* threads that make a process READY and are not receptors
  Prioridad,  \* prioridad of each process, 0 the highest
  Niveles,    \* cantidad_niveles_prioridad
  NivelesRR,  \* the levels whose algorithm is RR
  Desalojo,   \* QUEUE_PREEMPTION
  Compacta,   \* TRUE if a MEM_ALLOC may need a compaction
  Caen,       \* TRUE if CPUs may disconnect
  MaxCanal,   \* bound: messages on their way to a CPU
  MaxRelojes, \* bound: quantum timers that sleep or are about to send
  MaxSem,     \* bound: wake-ups that sem_cpu_disponible remembers
  MaxExtra,   \* bound: wake-ups of sem_ready without a process
  Nulo        \* "no process", "no CPU"

Nivel == 0 .. (Niveles - 1)
Hilos == Cpus \union Externos

ASSUME DispatchAssumption ==
  /\ Niveles \in Nat \ {0} /\ Prioridad \in [Procs -> Nivel]
  /\ NivelesRR \subseteq Nivel
  /\ {Desalojo, Compacta, Caen} \subseteq BOOLEAN
  /\ {MaxCanal, MaxRelojes, MaxSem} \subseteq Nat \ {0} /\ MaxExtra \in Nat
  /\ IsFiniteSet(Procs)
  /\ Cpus \intersect Externos = {} /\ Nulo \notin Procs \union Hilos

VARIABLES
  \* READY queues and semaphores
  cola,        \* colas_ready_por_prioridad
  semReady,    \* sem_ready
  semCpu,      \* sem_cpu_disponible
  \* scheduler_connections.cpus
  disponible, actual, conectada, timerActivo, timerPid,
  \* PCB
  quantum,     \* quantum_restante > 0
  liberado,    \* the processes whose PCB was freed
  fuera,       \* processes in NEW, BLOCK or suspended
  \* dispatcher: program counter, process, CPU
  pcp, pp, pcpu,
  \* receptors and external threads: program counter, process, motive of the
  \* return, and the interrupt about to be sent
  hpc, hp, hm, hv,
  \* quantum_timer_thread: the threads alive
  relojes,
  \* sockets: scheduler to CPU, CPU to scheduler
  canal, vuelta,
  \* CPU: cycle, its process, pid_a_ejecutar, sem_proceso_listo,
  \* pid_en_ejecucion, interrupcion_pendiente and motivo_interrupcion
  cpc, cpid, slot, listo, enEjec, pend, motivo

colaVars  == <<cola, semReady>>
tablaVars == <<disponible, actual, conectada, timerActivo, timerPid>>
pcbVars   == <<quantum, liberado, fuera>>
pcpVars   == <<pcp, pp, pcpu>>
hiloVars  == <<hpc, hp, hm, hv>>
cpuVars   == <<cpc, cpid, slot, listo, enEjec, pend, motivo>>

vars == <<colaVars, semCpu, tablaVars, pcbVars, pcpVars, hiloVars, relojes,
          canal, vuelta, cpuVars>>

\* The two messages to a CPU; an interrupt names the process it is for.
Ejecutar(p)        == [op |-> "EJECUTAR", pid |-> p, motivo |-> Nulo]
Interrupcion(p, m) == [op |-> "INTERRUPCION", pid |-> p, motivo |-> m]

NoVictima == [cpu |-> Nulo, pid |-> Nulo]

Init ==
  /\ cola = [n \in Nivel |-> <<>>] /\ semReady = 0 /\ semCpu = 0
  /\ disponible  = [c \in Cpus |-> FALSE]
  /\ actual      = [c \in Cpus |-> Nulo]
  /\ conectada   = [c \in Cpus |-> FALSE]
  /\ timerActivo = [c \in Cpus |-> FALSE]
  /\ timerPid    = [c \in Cpus |-> Nulo]
  /\ quantum = [p \in Procs |-> FALSE] /\ liberado = {} /\ fuera = Procs
  /\ pcp = "espera" /\ pp = Nulo /\ pcpu = Nulo
  /\ hpc = [h \in Hilos |-> "recibe"]
  /\ hp  = [h \in Hilos |-> Nulo]
  /\ hm  = [h \in Hilos |-> Nulo]
  /\ hv  = [h \in Hilos |-> NoVictima]
  /\ relojes = [k \in 1 .. MaxRelojes |-> Nulo]
  /\ canal  = [c \in Cpus |-> <<>>]
  /\ vuelta = [c \in Cpus |-> <<>>]
  /\ cpc    = [c \in Cpus |-> "apagada"]
  /\ cpid   = [c \in Cpus |-> Nulo]
  /\ slot   = [c \in Cpus |-> Nulo]
  /\ listo  = [c \in Cpus |-> 0]
  /\ enEjec = [c \in Cpus |-> Nulo]
  /\ pend   = [c \in Cpus |-> FALSE]
  /\ motivo = [c \in Cpus |-> "QUANTUM"]

-----------------------------------------------------------------------------
(* READY queues, semaphores, sockets and timers.                           *)

\* reencolar_proceso_ready_final and _inicio push and post in one critical
\* section of mutex_colas_prioridad.
AlFinal(p)  == cola' = [cola EXCEPT ![Prioridad[p]] = Append(@, p)]
AlInicio(p) == cola' = [cola EXCEPT ![Prioridad[p]] = <<p>> \o @]

\* sem_cpu_disponible gets a post per return and loses one per wait.  Past
\* MaxSem the count is not kept: a wait may then leave it as it was.
PostCpu == semCpu' = IF semCpu < MaxSem THEN semCpu + 1 ELSE semCpu
\* Mutant: a wait whose failure is ignored.
WaitCpuSinControl == semCpu' = semCpu - 1

WaitCpu == /\ semCpu > 0
           /\ \/ semCpu' = semCpu - 1
              \/ semCpu = MaxSem /\ semCpu' = semCpu

\* A socket is an ordered channel; what is sent to a CPU that is gone is lost.
Enviar(c, m) ==
  /\ Len(canal[c]) < MaxCanal
  /\ canal' = [canal EXCEPT ![c] = IF cpc[c] = "caida" THEN @ ELSE Append(@, m)]

\* hay_cpu_libre, and the entry enviar_proceso_a_cpu looks for.
Libre(c) == disponible[c] /\ conectada[c]

HayCpuLibre == \E c \in Cpus : Libre(c)

\* compactacion_en_progreso: set and cleared by the receptor whose MEM_ALLOC
\* waits for the compaction.
EnCompactacion == \E c \in Cpus : hpc[c] = "compacta"

\* iniciar_quantum_timer.
IniciarTimer(c, p) ==
  /\ timerActivo' = [timerActivo EXCEPT ![c] = TRUE]
  /\ timerPid' = [timerPid EXCEPT ![c] = p]
  /\ \E k \in DOMAIN relojes :
       /\ relojes[k] = Nulo
       /\ \A j \in DOMAIN relojes : relojes[j] = Nulo => k <= j
       /\ relojes' = [relojes EXCEPT
            ![k] = [cpu |-> c, pid |-> p, pc |-> "duerme"]]

-----------------------------------------------------------------------------
(* planificadorCortoPlazo.                                                 *)

\* sem_wait(sem_ready).  During a compaction the loop posts it back, sleeps
\* and tries again.
PcpEspera ==
  /\ pcp = "espera" /\ semReady > 0 /\ ~EnCompactacion
  /\ semReady' = semReady - 1 /\ pcp' = "mira"
  /\ UNCHANGED <<cola, semCpu, tablaVars, pcbVars, pp, pcpu, hiloVars, relojes,
                 canal, vuelta, cpuVars>>

\* Mutant: the post of sem_ready before the wait for a CPU is missing.
PcpMiraSinPost ==
  /\ pcp = "mira"
  /\ \/ HayCpuLibre /\ pcp' = "elige"
     \/ ~HayCpuLibre /\ pcp' = "sinCpu"
  /\ UNCHANGED <<colaVars, semCpu, tablaVars, pcbVars, pp, pcpu, hiloVars, relojes,
                 canal, vuelta, cpuVars>>

\* hay_cpu_libre.
PcpMira ==
  /\ pcp = "mira"
  /\ \/ HayCpuLibre /\ pcp' = "elige" /\ UNCHANGED semReady
     \/ ~HayCpuLibre /\ pcp' = "sinCpu" /\ semReady' = semReady + 1
  /\ UNCHANGED <<cola, semCpu, tablaVars, pcbVars, pp, pcpu, hiloVars, relojes,
                 canal, vuelta, cpuVars>>

\* sem_wait(sem_cpu_disponible).
PcpSinCpu ==
  /\ pcp = "sinCpu" /\ WaitCpu /\ pcp' = "espera"
  /\ UNCHANGED <<colaVars, tablaVars, pcbVars, pp, pcpu, hiloVars, relojes,
                 canal, vuelta, cpuVars>>

\* Mutant: queue_peek for queue_pop.
PcpEligeSinQuitar ==
  /\ pcp = "elige"
  /\ \/ /\ \A n \in Nivel : cola[n] = <<>>
        /\ pcp' = "espera" /\ UNCHANGED pp
     \/ \E n \in Nivel :
          /\ cola[n] # <<>> /\ \A m \in 0 .. (n - 1) : cola[m] = <<>>
          /\ pp' = Head(cola[n]) /\ pcp' = "envia"
  /\ UNCHANGED <<colaVars, semCpu, tablaVars, pcbVars, pcpu, hiloVars, relojes,
                 canal, vuelta, cpuVars>>

\* desencolar_proceso_ready: the first process of the first queue in use.
PcpElige ==
  /\ pcp = "elige"
  /\ \/ /\ \A n \in Nivel : cola[n] = <<>>
        /\ pcp' = "espera" /\ UNCHANGED <<cola, pp>>
     \/ \E n \in Nivel :
          /\ cola[n] # <<>> /\ \A m \in 0 .. (n - 1) : cola[m] = <<>>
          /\ pp' = Head(cola[n]) /\ cola' = [cola EXCEPT ![n] = Tail(@)]
          /\ pcp' = "envia"
  /\ UNCHANGED <<semReady, semCpu, tablaVars, pcbVars, pcpu, hiloVars, relojes,
                 canal, vuelta, cpuVars>>

\* enviar_proceso_a_cpu up to the unlock.
PcpEnvia ==
  /\ pcp = "envia"
  /\ \E c \in Cpus :
       /\ Libre(c)
       /\ disponible' = [disponible EXCEPT ![c] = FALSE]
       /\ actual' = [actual EXCEPT ![c] = pp]
       /\ pcpu' = c
  /\ pcp' = "manda"
  /\ UNCHANGED <<colaVars, semCpu, conectada, timerActivo, timerPid, pcbVars, pp,
                 hiloVars, relojes, canal, vuelta, cpuVars>>

\* Mutant: a failed send does not queue the process again.
PcpFallaSinReencolar ==
  /\ pcp = "envia" /\ ~HayCpuLibre
  /\ semReady' = semReady + 1 /\ pcp' = "falla" /\ pp' = Nulo
  /\ UNCHANGED <<cola, semCpu, tablaVars, pcbVars, pcpu, hiloVars, relojes, canal,
                 vuelta, cpuVars>>

\* No CPU is left: reencolar_por_fallo_de_envio and a post of its own.
PcpFalla ==
  /\ pcp = "envia" /\ ~HayCpuLibre
  /\ AlInicio(pp) /\ semReady' = semReady + 2
  /\ pcp' = "falla" /\ pp' = Nulo
  /\ UNCHANGED <<semCpu, tablaVars, pcbVars, pcpu, hiloVars, relojes, canal,
                 vuelta, cpuVars>>

\* The loop after a failed send.
PcpReintenta ==
  /\ pcp = "falla"
  /\ \/ HayCpuLibre /\ pcp' = "espera" /\ UNCHANGED semCpu
     \/ ~HayCpuLibre /\ WaitCpu /\ UNCHANGED pcp
  /\ UNCHANGED <<colaVars, tablaVars, pcbVars, pp, pcpu, hiloVars, relojes, canal,
                 vuelta, cpuVars>>

\* enviar_pid.
PcpManda ==
  /\ pcp = "manda" /\ Enviar(pcpu, Ejecutar(pp)) /\ pcp' = "marca"
  /\ UNCHANGED <<colaVars, semCpu, tablaVars, pcbVars, pp, pcpu, hiloVars, relojes,
                 vuelta, cpuVars>>

\* The PCB is written after the process went out.
PcpMarca ==
  /\ pcp = "marca"
  /\ quantum' = [quantum EXCEPT ![pp] = Prioridad[pp] \in NivelesRR]
  /\ IF Prioridad[pp] \in NivelesRR
       THEN pcp' = "cronometra" /\ UNCHANGED <<pp, pcpu>>
       ELSE pcp' = "espera" /\ pp' = Nulo /\ pcpu' = Nulo
  /\ UNCHANGED <<colaVars, semCpu, tablaVars, liberado, fuera, hiloVars, relojes,
                 canal, vuelta, cpuVars>>

PcpCronometra ==
  /\ pcp = "cronometra" /\ IniciarTimer(pcpu, pp)
  /\ pcp' = "espera" /\ pp' = Nulo /\ pcpu' = Nulo
  /\ UNCHANGED <<colaVars, semCpu, disponible, actual, conectada, pcbVars,
                 hiloVars, canal, vuelta, cpuVars>>

Pcp == \/ PcpEspera \/ PcpMira \/ PcpSinCpu \/ PcpElige \/ PcpEnvia \/ PcpFalla
       \/ PcpReintenta \/ PcpManda \/ PcpMarca \/ PcpCronometra

-----------------------------------------------------------------------------
(* quantum_timer_thread.                                                   *)

Vence(k) ==
  /\ relojes[k] # Nulo /\ relojes[k].pc = "duerme"
  /\ LET r == relojes[k] IN
     IF timerActivo[r.cpu] /\ timerPid[r.cpu] = r.pid
       THEN /\ timerActivo' = [timerActivo EXCEPT ![r.cpu] = FALSE]
            /\ relojes' = [relojes EXCEPT ![k].pc = "envia"]
       ELSE relojes' = [relojes EXCEPT ![k] = Nulo] /\ UNCHANGED timerActivo
  /\ UNCHANGED <<colaVars, semCpu, disponible, actual, conectada, timerPid,
                 pcbVars, pcpVars, hiloVars, canal, vuelta, cpuVars>>

EnviaQuantum(k) ==
  /\ relojes[k] # Nulo /\ relojes[k].pc = "envia"
  /\ LET r == relojes[k] IN
     Enviar(r.cpu, Interrupcion(r.pid, "QUANTUM"))
  /\ relojes' = [relojes EXCEPT ![k] = Nulo]
  /\ UNCHANGED <<colaVars, semCpu, tablaVars, pcbVars, pcpVars, hiloVars, vuelta,
                 cpuVars>>

Reloj(k) == Vence(k) \/ EnviaQuantum(k)

-----------------------------------------------------------------------------
(* Receptor threads: scheduler_cpu_receptor_thread.                        *)

\* What a receptor does with the process it took, by the motive of the
\* return: "EXIT" stands for EXIT, ERROR and SEGFAULT, "DESALOJO" for both
\* kinds of eviction, "BLOCK" for a syscall that blocks, "SYSCALL" for one
\* that goes on, "MEM" for MEM_ALLOC and MEM_FREE.
Sigue(m) == CASE m = "EXIT"                  -> "fin"
              [] m = "BLOCK"                 -> "bloquea"
              [] m \in {"QUANTUM", "SYSCALL"} -> "encola"
              [] m = "DESALOJO"              -> "frente"
              [] m = "MEM"                   -> "memoria"

Motivos == {"EXIT", "BLOCK", "QUANTUM", "SYSCALL", "DESALOJO", "MEM"}

\* scheduler_handshake_handler: the entry, then the post.
Conecta(c) ==
  /\ cpc[c] = "apagada" /\ cpc' = [cpc EXCEPT ![c] = "ocioso"]
  /\ conectada' = [conectada EXCEPT ![c] = TRUE]
  /\ disponible' = [disponible EXCEPT ![c] = TRUE]
  /\ hpc' = [hpc EXCEPT ![c] = "avisa"]
  /\ UNCHANGED <<colaVars, semCpu, actual, timerActivo, timerPid, pcbVars, pcpVars,
                 hp, hm, hv, relojes, canal, vuelta, cpid, slot, listo, enEjec,
                 pend, motivo>>

\* retirar_proceso_de_cpu.
Retira(c) ==
  /\ hpc[c] = "recibe" /\ vuelta[c] # <<>> /\ Head(vuelta[c]).motivo # "MEM"
  /\ hp' = [hp EXCEPT ![c] = actual[c]]
  /\ hm' = [hm EXCEPT ![c] = Head(vuelta[c]).motivo]
  /\ hpc' = [hpc EXCEPT ![c] = "avisa"]
  /\ vuelta' = [vuelta EXCEPT ![c] = Tail(@)]
  /\ actual' = [actual EXCEPT ![c] = Nulo]
  /\ timerActivo' = [timerActivo EXCEPT ![c] = FALSE]
  /\ disponible' = [disponible EXCEPT ![c] = TRUE]
  /\ UNCHANGED <<colaVars, semCpu, conectada, timerPid, pcbVars, pcpVars, hv, relojes,
                 canal, cpuVars>>

\* Mutant: the CPU is not kept for the process of a memory syscall.
ReservaLiberando(c) ==
  /\ hpc[c] = "recibe" /\ vuelta[c] # <<>> /\ Head(vuelta[c]).motivo = "MEM"
  /\ hp' = [hp EXCEPT ![c] = actual[c]]
  /\ hm' = [hm EXCEPT ![c] = "MEM"]
  /\ hpc' = [hpc EXCEPT ![c] = "avisa"]
  /\ vuelta' = [vuelta EXCEPT ![c] = Tail(@)]
  /\ actual' = [actual EXCEPT ![c] = Nulo]
  /\ timerActivo' = [timerActivo EXCEPT ![c] = FALSE]
  /\ disponible' = [disponible EXCEPT ![c] = TRUE]
  /\ UNCHANGED <<colaVars, semCpu, conectada, timerPid, pcbVars, pcpVars, hv, relojes,
                 canal, cpuVars>>

\* retirar_proceso_de_cpu_reservando: the CPU stays taken.
Reserva(c) ==
  /\ hpc[c] = "recibe" /\ vuelta[c] # <<>> /\ Head(vuelta[c]).motivo = "MEM"
  /\ hp' = [hp EXCEPT ![c] = actual[c]]
  /\ hm' = [hm EXCEPT ![c] = "MEM"]
  /\ hpc' = [hpc EXCEPT ![c] = IF actual[c] = Nulo THEN "suelta" ELSE "memoria"]
  /\ vuelta' = [vuelta EXCEPT ![c] = Tail(@)]
  /\ actual' = [actual EXCEPT ![c] = Nulo]
  /\ timerActivo' = [timerActivo EXCEPT ![c] = FALSE]
  /\ UNCHANGED <<colaVars, semCpu, disponible, conectada, timerPid, pcbVars, pcpVars,
                 hv, relojes, canal, cpuVars>>

\* sem_post(sem_cpu_disponible).
Avisa(c) ==
  /\ hpc[c] = "avisa" /\ PostCpu
  /\ hpc' = [hpc EXCEPT ![c] = IF hp[c] = Nulo THEN "recibe" ELSE Sigue(hm[c])]
  /\ UNCHANGED <<colaVars, tablaVars, pcbVars, pcpVars, hp, hm, hv, relojes, canal,
                 vuelta, cpuVars>>

Termina(h) == /\ hpc' = [hpc EXCEPT ![h] = "recibe"]
              /\ hp' = [hp EXCEPT ![h] = Nulo]
              /\ hm' = [hm EXCEPT ![h] = Nulo]

\* End of a process.  notificar_fin_a_memoria takes mutex_memory_socket, which
\* the receptor that waits for a compaction holds.
Fin(c) ==
  /\ hpc[c] = "fin" /\ ~EnCompactacion
  /\ liberado' = liberado \union {hp[c]} /\ Termina(c)
  /\ UNCHANGED <<colaVars, semCpu, tablaVars, quantum, fuera, pcpVars, hv, relojes,
                 canal, vuelta, cpuVars>>

\* The syscall leaves the process in BLOCK, in the hands of another thread.
Bloquea(c) ==
  /\ hpc[c] = "bloquea" /\ fuera' = fuera \union {hp[c]} /\ Termina(c)
  /\ UNCHANGED <<colaVars, semCpu, tablaVars, quantum, liberado, pcpVars, hv, relojes,
                 canal, vuelta, cpuVars>>

\* Mutant: the post of reencolar_proceso_ready_inicio is missing.
FrenteSinPost(c) ==
  /\ hpc[c] = "frente" /\ AlInicio(hp[c]) /\ Termina(c)
  /\ UNCHANGED <<semReady, semCpu, tablaVars, pcbVars, pcpVars, hv, relojes, canal,
                 vuelta, cpuVars>>

\* Evicted processes go to the front, without a look at the CPUs.
Frente(c) ==
  /\ hpc[c] = "frente" /\ AlInicio(hp[c]) /\ semReady' = semReady + 1
  /\ Termina(c)
  /\ UNCHANGED <<semCpu, tablaVars, pcbVars, pcpVars, hv, relojes, canal, vuelta,
                 cpuVars>>

\* encolar_en_ready_y_notificar, encolar_en_ready_por_prioridad.
Encola(h) ==
  /\ hpc[h] = "encola" /\ AlFinal(hp[h]) /\ semReady' = semReady + 1
  /\ IF Desalojo THEN hpc' = [hpc EXCEPT ![h] = "verifica"] /\ UNCHANGED <<hp, hm>>
                 ELSE Termina(h)
  /\ UNCHANGED <<semCpu, tablaVars, pcbVars, pcpVars, hv, relojes, canal, vuelta,
                 cpuVars>>

\* verificar_y_desalojar_por_prioridad: a CPU whose process has the worst
\* priority (ties by start time, in seconds, are left open).
Ocupada(c) == ~disponible[c] /\ actual[c] # Nulo /\ conectada[c]
Peor(c) == /\ Ocupada(c)
           /\ \A d \in Cpus : Ocupada(d) =>
                Prioridad[actual[d]] <= Prioridad[actual[c]]

Verifica(h) ==
  /\ hpc[h] = "verifica"
  /\ \/ /\ EnCompactacion \/ ~\E c \in Cpus :
             Peor(c) /\ Prioridad[hp[h]] < Prioridad[actual[c]]
        /\ Termina(h) /\ UNCHANGED hv
     \/ \E c \in Cpus :
          /\ ~EnCompactacion /\ Peor(c)
          /\ Prioridad[hp[h]] < Prioridad[actual[c]]
          /\ hv' = [hv EXCEPT ![h] =
                      [cpu |-> c, pid |-> actual[c]]]
          /\ hpc' = [hpc EXCEPT ![h] = "interrumpe"]
          /\ UNCHANGED <<hp, hm>>
  /\ UNCHANGED <<colaVars, semCpu, tablaVars, pcbVars, pcpVars, relojes, canal,
                 vuelta, cpuVars>>

\* The interrupt goes out after the unlock.
Interrumpe(h) ==
  /\ hpc[h] = "interrumpe"
  /\ Enviar(hv[h].cpu, Interrupcion(hv[h].pid, "DESALOJO"))
  /\ hv' = [hv EXCEPT ![h] = NoVictima] /\ Termina(h)
  /\ UNCHANGED <<colaVars, semCpu, tablaVars, pcbVars, pcpVars, relojes, vuelta,
                 cpuVars>>

\* A thread that is not a receptor brings p to READY: admission, end of I/O,
\* return from suspension, a mutex handed over.
Llega(e, p) ==
  /\ hpc[e] = "recibe" /\ p \in fuera
  /\ fuera' = fuera \ {p}
  /\ hp' = [hp EXCEPT ![e] = p] /\ hpc' = [hpc EXCEPT ![e] = "encola"]
  /\ UNCHANGED <<colaVars, semCpu, tablaVars, quantum, liberado, pcpVars, hm, hv,
                 relojes, canal, vuelta, cpuVars>>

-----------------------------------------------------------------------------
(* MEM_ALLOC and MEM_FREE, with the CPU reserved.                          *)

\* manejar_compactacion_inicio with desalojar_todos_procesos.
CompactaInicio(c) ==
  /\ Compacta /\ semReady <= MaxExtra
  /\ hpc[c] = "memoria" /\ ~EnCompactacion
  /\ \A d \in Cpus : Ocupada(d) => Len(canal[d]) < MaxCanal
  /\ hpc' = [hpc EXCEPT ![c] = "compacta"]
  /\ canal' = [d \in Cpus |->
       IF Ocupada(d) /\ cpc[d] # "caida"
         THEN Append(canal[d], Interrupcion(actual[d], "DESALOJO"))
         ELSE canal[d]]
  /\ UNCHANGED <<colaVars, semCpu, tablaVars, pcbVars, pcpVars, hp, hm, hv, relojes,
                 vuelta, cpuVars>>

\* manejar_compactacion_fin; the answer to the request follows it.
CompactaFin(c) ==
  /\ hpc[c] = "compacta" /\ hpc' = [hpc EXCEPT ![c] = "responde"]
  /\ semReady' = semReady + 1
  /\ UNCHANGED <<cola, semCpu, tablaVars, pcbVars, pcpVars, hp, hm, hv, relojes,
                 canal, vuelta, cpuVars>>

EnPedido(c) == hpc[c] \in {"memoria", "responde"} /\ ~EnCompactacion

MemBien(c) ==
  /\ EnPedido(c) /\ hpc' = [hpc EXCEPT ![c] = "vuelve"]
  /\ UNCHANGED <<colaVars, semCpu, tablaVars, pcbVars, pcpVars, hp, hm, hv, relojes,
                 canal, vuelta, cpuVars>>

\* MEM_ALLOC without room, without an answer or with bad parameters ends the
\* process.
MemMal(c) ==
  /\ EnPedido(c)
  /\ liberado' = liberado \union {hp[c]}
  /\ hpc' = [hpc EXCEPT ![c] = "suelta"] /\ hp' = [hp EXCEPT ![c] = Nulo]
  /\ UNCHANGED <<colaVars, semCpu, tablaVars, quantum, fuera, pcpVars, hm, hv, relojes,
                 canal, vuelta, cpuVars>>

\* Mutant: liberar_cpu_reservada without its post.
SueltaSinPost(c) ==
  /\ hpc[c] = "suelta"
  /\ disponible' = [disponible EXCEPT ![c] = TRUE]
  /\ hpc' = [hpc EXCEPT ![c] = "recibe"]
  /\ UNCHANGED <<colaVars, semCpu, actual, conectada, timerActivo, timerPid, pcbVars,
                 pcpVars, hp, hm, hv, relojes, canal, vuelta, cpuVars>>

\* liberar_cpu_reservada; its post is Avisa.
Suelta(c) ==
  /\ hpc[c] = "suelta"
  /\ disponible' = [disponible EXCEPT ![c] = TRUE]
  /\ hpc' = [hpc EXCEPT ![c] = "avisa"]
  /\ UNCHANGED <<colaVars, semCpu, actual, conectada, timerActivo, timerPid, pcbVars,
                 pcpVars, hp, hm, hv, relojes, canal, vuelta, cpuVars>>

\* devolver_proceso_a_misma_cpu up to the unlock, or READY if the CPU is gone.
Vuelve(c) ==
  /\ hpc[c] = "vuelve"
  /\ IF conectada[c]
       THEN /\ actual' = [actual EXCEPT ![c] = hp[c]]
            /\ hpc' = [hpc EXCEPT ![c] = "devuelve"]
       ELSE hpc' = [hpc EXCEPT ![c] = "encola"] /\ UNCHANGED actual
  /\ UNCHANGED <<colaVars, semCpu, disponible, conectada, timerActivo, timerPid, pcbVars,
                 pcpVars, hp, hm, hv, relojes, canal, vuelta, cpuVars>>

Devuelve(c) ==
  /\ hpc[c] = "devuelve" /\ Enviar(c, Ejecutar(hp[c]))
  /\ hpc' = [hpc EXCEPT ![c] = "mide"]
  /\ UNCHANGED <<colaVars, semCpu, tablaVars, pcbVars, pcpVars, hp, hm, hv, relojes,
                 vuelta, cpuVars>>

\* quantum_restante > 0: a new timer.
Mide(c) ==
  /\ hpc[c] = "mide" /\ Termina(c)
  /\ IF quantum[hp[c]] THEN IniciarTimer(c, hp[c])
                       ELSE UNCHANGED <<timerActivo, timerPid, relojes>>
  /\ UNCHANGED <<colaVars, semCpu, disponible, actual, conectada, pcbVars, pcpVars, hv,
                 canal, vuelta, cpuVars>>

-----------------------------------------------------------------------------
(* CPU.                                                                    *)

\* cpu_scheduler_listener_thread.  An interrupt counts only for the process
\* in pid_en_ejecucion.
Escucha(c) ==
  /\ canal[c] # <<>>
  /\ canal' = [canal EXCEPT ![c] = Tail(@)]
  /\ LET m == Head(canal[c]) IN
     \/ /\ m.op = "EJECUTAR"
        /\ slot' = [slot EXCEPT ![c] = m.pid]
        /\ listo' = [listo EXCEPT ![c] = @ + 1]
        /\ UNCHANGED <<pend, motivo>>
     \/ /\ m.op = "INTERRUPCION" /\ m.pid = enEjec[c]
        /\ pend' = [pend EXCEPT ![c] = TRUE]
        /\ motivo' = [motivo EXCEPT ![c] = m.motivo]
        /\ UNCHANGED <<slot, listo>>
     \/ /\ m.op = "INTERRUPCION" /\ m.pid # enEjec[c]
        /\ UNCHANGED <<slot, listo, pend, motivo>>
  /\ UNCHANGED <<colaVars, semCpu, tablaVars, pcbVars, pcpVars, hiloVars, relojes,
                 vuelta, cpc, cpid, enEjec>>

\* esperar_pid_del_scheduler.  (Toma and Limpia reset slot, cpid and motivo,
\* which the code leaves and never reads again before it sets them.)
Toma(c) ==
  /\ cpc[c] = "ocioso" /\ listo[c] > 0
  /\ listo' = [listo EXCEPT ![c] = @ - 1]
  /\ cpid' = [cpid EXCEPT ![c] = slot[c]] /\ slot' = [slot EXCEPT ![c] = Nulo]
  /\ cpc' = [cpc EXCEPT ![c] = "contexto"]
  /\ UNCHANGED <<colaVars, semCpu, tablaVars, pcbVars, pcpVars, hiloVars, relojes,
                 canal, vuelta, enEjec, pend, motivo>>

\* The context came: pid_en_ejecucion is set only now.
Contexto(c) ==
  /\ cpc[c] = "contexto"
  /\ enEjec' = [enEjec EXCEPT ![c] = cpid[c]]
  /\ cpc' = [cpc EXCEPT ![c] = "corre"]
  /\ UNCHANGED <<colaVars, semCpu, tablaVars, pcbVars, pcpVars, hiloVars, relojes,
                 canal, vuelta, cpid, slot, listo, pend, motivo>>

\* check_interrupt.
Atiende(c) ==
  /\ cpc[c] = "corre" /\ pend[c]
  /\ pend' = [pend EXCEPT ![c] = FALSE]
  /\ cpc' = [cpc EXCEPT ![c] = "interrumpida"]
  /\ UNCHANGED <<colaVars, semCpu, tablaVars, pcbVars, pcpVars, hiloVars, relojes,
                 canal, vuelta, cpid, slot, listo, enEjec, motivo>>

\* enviar_devolver_proceso: by the instruction, or by the interrupt with the
\* motive it finds then.
Regresa(c, m) ==
  /\ vuelta' = [vuelta EXCEPT ![c] = Append(@, [pid |-> cpid[c], motivo |-> m])]
  /\ cpc' = [cpc EXCEPT ![c] = "limpia"]
  /\ UNCHANGED <<colaVars, semCpu, tablaVars, pcbVars, pcpVars, hiloVars, relojes,
                 canal, cpid, slot, listo, enEjec, pend, motivo>>

Instruccion(c) ==
  /\ cpc[c] = "corre"
  /\ \E m \in {"EXIT", "BLOCK", "SYSCALL", "MEM"} : Regresa(c, m)

Interrumpida(c) == cpc[c] = "interrumpida" /\ Regresa(c, motivo[c])

\* limpiar_estado_cpu.
Limpia(c) ==
  /\ cpc[c] = "limpia"
  /\ enEjec' = [enEjec EXCEPT ![c] = Nulo]
  /\ pend' = [pend EXCEPT ![c] = FALSE]
  /\ cpid' = [cpid EXCEPT ![c] = Nulo]
  /\ motivo' = [motivo EXCEPT ![c] = "QUANTUM"]
  /\ cpc' = [cpc EXCEPT ![c] = "ocioso"]
  /\ UNCHANGED <<colaVars, semCpu, tablaVars, pcbVars, pcpVars, hiloVars, relojes,
                 canal, vuelta, slot, listo>>

\* The CPU ends, with whatever it was doing and had not read.
Cae(c) ==
  /\ Caen /\ cpc[c] \notin {"apagada", "caida"}
  /\ cpc' = [cpc EXCEPT ![c] = "caida"]
  /\ canal' = [canal EXCEPT ![c] = <<>>]
  /\ cpid' = [cpid EXCEPT ![c] = Nulo] /\ slot' = [slot EXCEPT ![c] = Nulo]
  /\ listo' = [listo EXCEPT ![c] = 0] /\ enEjec' = [enEjec EXCEPT ![c] = Nulo]
  /\ pend' = [pend EXCEPT ![c] = FALSE]
  /\ UNCHANGED <<colaVars, semCpu, tablaVars, pcbVars, pcpVars, hiloVars, relojes,
                 vuelta, motivo>>

\* marcar_cpu_desconectada, once the receptor has read what the CPU sent.
Desconecta(c) ==
  /\ cpc[c] = "caida" /\ conectada[c] /\ hpc[c] = "recibe" /\ vuelta[c] = <<>>
  /\ conectada' = [conectada EXCEPT ![c] = FALSE]
  /\ UNCHANGED <<colaVars, semCpu, disponible, actual, timerActivo, timerPid, pcbVars,
                 pcpVars, hiloVars, relojes, canal, vuelta, cpuVars>>

Ciclo(c) == Toma(c) \/ Contexto(c) \/ Atiende(c) \/ Interrumpida(c) \/ Limpia(c)

Receptor(c) ==
  \/ Retira(c) \/ Reserva(c) \/ Avisa(c) \/ Fin(c) \/ Bloquea(c) \/ Frente(c)
  \/ CompactaFin(c) \/ MemBien(c) \/ MemMal(c) \/ Suelta(c) \/ Vuelve(c)
  \/ Devuelve(c) \/ Mide(c) \/ Desconecta(c)

Arriba(h) == Encola(h) \/ Verifica(h) \/ Interrumpe(h)

Next ==
  \/ Pcp
  \/ \E k \in DOMAIN relojes : Reloj(k)
  \/ \E h \in Hilos : Arriba(h)
  \/ \E e \in Externos, p \in Procs : Llega(e, p)
  \/ \E c \in Cpus : \/ Conecta(c) \/ Receptor(c) \/ CompactaInicio(c)
                     \/ Escucha(c) \/ Ciclo(c) \/ Instruccion(c) \/ Cae(c)

Spec == Init /\ [][Next]_vars

\* Threads that can run do run; programs need not do anything.
Fairness ==
  /\ WF_vars(Pcp)
  /\ \A k \in 1 .. MaxRelojes : WF_vars(Reloj(k))
  /\ \A h \in Hilos : WF_vars(Arriba(h))
  /\ \A c \in Cpus : /\ WF_vars(Receptor(c)) /\ WF_vars(Escucha(c))
                     /\ WF_vars(Ciclo(c))

FairSpec == Spec /\ Fairness

-----------------------------------------------------------------------------
(* Properties.                                                             *)

Mensajes == [op : {"EJECUTAR"}, pid : Procs, motivo : {Nulo}]
            \union [op : {"INTERRUPCION"}, pid : Procs, motivo : {"QUANTUM", "DESALOJO"}]

PidONulo == Procs \union {Nulo}

TipoColas == cola \in [Nivel -> Seq(Procs)] /\ semReady \in Nat /\ semCpu \in 0 .. MaxSem

TipoTabla ==
  /\ disponible \in [Cpus -> BOOLEAN] /\ conectada \in [Cpus -> BOOLEAN]
  /\ timerActivo \in [Cpus -> BOOLEAN]
  /\ actual \in [Cpus -> PidONulo] /\ timerPid \in [Cpus -> PidONulo]

TipoPcb ==
  quantum \in [Procs -> BOOLEAN] /\ liberado \subseteq Procs /\ fuera \subseteq Procs

TipoPcp ==
  /\ pcp \in {"espera", "mira", "sinCpu", "elige", "envia", "falla", "manda",
              "marca", "cronometra"}
  /\ pp \in PidONulo /\ pcpu \in Cpus \union {Nulo}

TipoHilos ==
  /\ hpc \in [Hilos -> {"recibe", "avisa", "fin", "bloquea", "encola", "frente",
                        "verifica", "interrumpe", "memoria", "compacta",
                        "responde", "vuelve", "devuelve", "mide", "suelta"}]
  /\ hp \in [Hilos -> PidONulo] /\ hm \in [Hilos -> Motivos \union {Nulo}]
  /\ hv \in [Hilos -> [cpu : Cpus \union {Nulo}, pid : PidONulo]]

TipoRelojes ==
  relojes \in [1 .. MaxRelojes ->
    [cpu : Cpus, pid : Procs, pc : {"duerme", "envia"}] \union {Nulo}]

TipoCanales ==
  /\ canal \in [Cpus -> Seq(Mensajes)]
  /\ vuelta \in [Cpus -> Seq([pid : Procs, motivo : Motivos])]

TipoCpu ==
  /\ cpc \in [Cpus -> {"apagada", "ocioso", "contexto", "corre", "interrumpida",
                       "limpia", "caida"}]
  /\ cpid \in [Cpus -> PidONulo] /\ slot \in [Cpus -> PidONulo]
  /\ enEjec \in [Cpus -> PidONulo] /\ pend \in [Cpus -> BOOLEAN]
  /\ listo \in [Cpus -> 0 .. 1] /\ motivo \in [Cpus -> {"QUANTUM", "DESALOJO"}]

\* The types of the state; in particular no semaphore goes below zero and
\* pid_a_ejecutar is posted at most once before the CPU takes it.
TypeOK ==
  /\ TipoColas /\ TipoTabla /\ TipoPcb /\ TipoPcp /\ TipoHilos /\ TipoRelojes
  /\ TipoCanales /\ TipoCpu

\* The places where the scheduler keeps the pointer by which a process goes on.
Tiene(h) == hpc[h] \in {"avisa", "fin", "bloquea", "encola", "frente", "memoria",
                        "compacta", "responde", "vuelve"}

Veces(p) ==
  Cardinality({n \in Nivel : p \in Range(cola[n])})
  + Cardinality({c \in Cpus : actual[c] = p})
  + Cardinality({h \in Hilos : Tiene(h) /\ hp[h] = p})
  + (IF pcp = "envia" /\ pp = p THEN 1 ELSE 0)
  + (IF p \in fuera THEN 1 ELSE 0) + (IF p \in liberado THEN 1 ELSE 0)

\* A process is in exactly one place: one READY queue (once), one entry of the
\* CPU table, the hands of one thread, outside, or freed.  Dispatch, return,
\* eviction, memory syscalls and a failed send neither lose a PCB nor put it in
\* two places, and the table never points to a freed one
\* (retirar_proceso_de_cpu, enviar_proceso_a_cpu, devolver_proceso_a_misma_cpu).
UnSoloLugar ==
  \A p \in Procs :
    /\ Veces(p) = 1
    /\ \A n \in Nivel : Cardinality({i \in DOMAIN cola[n] : cola[n][i] = p}) <= 1

EnCiclo(c)  == cpc[c] \in {"contexto", "corre", "interrumpida"}
Enviados(c) == {i \in DOMAIN canal[c] : canal[c][i].op = "EJECUTAR"}

SegunTabla(c) ==
  /\ \A i \in Enviados(c) :
       /\ canal[c][i].pid = actual[c] /\ \A j \in Enviados(c) : j = i
       /\ listo[c] = 0 /\ ~EnCiclo(c) /\ vuelta[c] = <<>>
  /\ listo[c] > 0 => slot[c] = actual[c] /\ ~EnCiclo(c) /\ vuelta[c] = <<>>
  /\ EnCiclo(c) => cpid[c] = actual[c] /\ vuelta[c] = <<>>
  /\ vuelta[c] # <<>> => Len(vuelta[c]) = 1 /\ vuelta[c][1].pid = actual[c]

\* What a CPU has (EJECUTAR on its way, pid_a_ejecutar, the cycle, or the return
\* on its way back) is the process its entry of the table names, in one of those
\* places: with UnSoloLugar, no process is on two CPUs, a dispatch never
\* overwrites pid_a_ejecutar, and a return is for the process the receptor
\* retires (the warning of retirar_proceso_de_cpu is never logged).
CpuSegunTabla == \A c \in Cpus : SegunTabla(c)

EnReady == Cardinality({p \in Procs : \E n \in Nivel : p \in Range(cola[n])})

\* sem_ready covers every process in the READY queues: the dispatcher never
\* sleeps on it with a process queued, whatever posts it gave back or consumed.
SenalPorListo ==
  EnReady <= semReady + (IF pcp \in {"mira", "elige"} THEN 1 ELSE 0)

\* The dispatcher does not sleep on sem_cpu_disponible while a CPU is free,
\* unless the thread that freed it is about to post.
SinDespertarPerdido ==
  pcp \in {"sinCpu", "falla"} /\ semCpu = 0 =>
    \A c \in Cpus : Libre(c) => hpc[c] = "avisa"

\* A READY process is dispatched, provided every CPU is handed back again and
\* again and the levels above its own do not keep the dispatcher busy for ever:
\* the dispatcher, its two semaphores and the free CPUs never wait for each
\* other.  (A program may keep its CPU for ever: it never ends under FIFO, or it
\* makes one memory syscall after another, which restarts its quantum.  And the
\* choice of a level is by strict priority, utils_kernel_scheduler.c:1260: a
\* level starves while those above it have processes.)
ListoCorre ==
  (\A c \in Cpus : []<>disponible[c]) =>
    \A p \in Procs, n \in Nivel :
      <>[](\A m \in Nivel : m < n => cola[m] = <<>>) =>
        ((p \in Range(cola[n])) ~> (\E c \in Cpus : actual[c] = p))

\* Comment of verificar_y_desalojar_por_prioridad: no t_pcb is dereferenced
\* outside the lock, which avoids a use after free.  This is NOT what the code
\* does: with Desalojo = TRUE the thread that queued a process still reads its
\* PCB when the process may have run and ended.
SinUsoTrasLiberar ==
  \A h \in Hilos : hpc[h] \in {"verifica", "interrumpe"} => hp[h] \notin liberado
=============================================================================
