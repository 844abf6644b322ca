----------------------------- MODULE CicloProofs -----------------------------
(* Suspension implements CicloProceso, for every value of the constants.   *)
EXTENDS SuspensionProofs

USE SuspensionAssumption DEF epochVars, pcbVars, faseVars, listVars, ioVars,
    workerVars,
    pmpVars, channelVars, memVars, Rest, Nadie, Timer, Receptor, Worker, Pmp,
    SinPedido, Pedido, Respuestas, Operaciones, Volcando, Epocas, Estados,
    Fases, Hilos, TypeOK, Ciclo!Pasa, Ciclo!Mueve

\* The processes that DES_SUSPENDER, SUSPENDER, SOLICITAR and the requests
\* that free memory are about, in the states where the life cycle lets memory
\* move their segments.
LEMMA CicloMemoria ==
  ASSUME IInv, Memoria
  PROVE  Ciclo!Next \/ UNCHANGED <<estado, mem>>
<1> PICK p \in Procs :
      \/ MemSuspender(p) \/ MemDesSuspender(p) \/ MemSolicitar(p)
      \/ \E op \in Operaciones : MemLiberar(op, p) \/ MemAcceder(op, p)
  BY DEF Memoria
<1>1. CASE MemSuspender(p)
  <2>1. PICK e \in Epocas : timer[p][e] = "listado"
    BY <1>1, Solicitante DEF MemSuspender, Atiende
  <2>2. estado[p] = "SUSP_BLOCK"
    BY <2>1 DEF IInv, VolcadoQuieto
  <2>3. Ciclo!Vuelca(p) \/ UNCHANGED <<estado, mem>>
    BY <1>1, <2>2 DEF MemSuspender, Atiende, Volcado, Ciclo!Vuelca
  <2> QED BY <2>3 DEF Ciclo!Next
<1>2. CASE MemDesSuspender(p)
  <2>1. pp = p /\ ppc = "pide"
    BY <1>2, Solicitante DEF MemDesSuspender, Atiende
  <2>2. estado[p] = "SUSP_READY"
    BY <2>1 DEF IInv, PmpInv
  <2>3. Ciclo!Restaura(p) \/ UNCHANGED <<estado, mem>>
    BY <1>2, <2>2 DEF MemDesSuspender, Atiende, Restaurado, Ciclo!Restaura
  <2> QED BY <2>3 DEF Ciclo!Next
<1>3. CASE MemSolicitar(p)
  <2>1. fase[p] = "SOLICITAR"
    BY <1>3, Solicitante DEF MemSolicitar, Atiende
  <2>2. estado[p] = "EXEC" /\ mem[p] \in {"nada", "ram"}
    BY <2>1 DEF IInv, FaseInv, ResidenciaInv, TypeMem
  <2>3. Ciclo!Asigna(p) \/ UNCHANGED <<estado, mem>>
    BY <1>3, <2>2 DEF MemSolicitar, Atiende, Ciclo!Asigna
  <2> QED BY <2>3 DEF Ciclo!Next
<1>4. ASSUME NEW op \in Operaciones, MemLiberar(op, p)
      PROVE  Ciclo!Next
  <2>1. op \in {"ELIMINAR", "FINALIZAR"} /\ dueno # Nadie
        /\ pedido = [op |-> op, pid |-> p]
    BY <1>4 DEF MemLiberar, Atiende
  <2>2. fase[p] = "ELIMINAR" \/ estado[p] = "EXIT"
    BY <2>1, Solicitante
  <2>3. estado[p] \in {"EXEC", "EXIT"} /\ mem[p] \in {"nada", "ram"}
    BY <2>2 DEF IInv, FaseInv, ResidenciaInv, TypeMem
  <2>4. Ciclo!Devuelve(p)
    BY <1>4, <2>3 DEF MemLiberar, Atiende, Ciclo!Devuelve
  <2> QED BY <2>4 DEF Ciclo!Next
<1>5. ASSUME NEW op \in Operaciones, MemAcceder(op, p)
      PROVE  UNCHANGED <<estado, mem>>
  BY <1>5 DEF MemAcceder, Atiende
<1> QED BY <1>1, <1>2, <1>3, <1>4, <1>5

\* Admission, dispatch, preemption, syscalls and the end of a program.
LEMMA CicloPrograma ==
  ASSUME IInv, Programa
  PROVE  Ciclo!Next \/ UNCHANGED <<estado, mem>>
<1> PICK p \in Procs :
      \/ Admitir(p) \/ Despachar(p) \/ Desalojar(p) \/ Salir(p)
      \/ SyscallMemoria(p, "SOLICITAR") \/ SyscallMemoria(p, "ELIMINAR")
      \/ \E i \in Ios : SyscallIO(p, i) \/ SyscallSinInterfaz(p, i)
      \/ BloquearEnMutex(p) \/ DesbloquearDeMutex(p)
  BY DEF Programa
<1>1. CASE Admitir(p)
  BY <1>1 DEF Admitir, Ciclo!Next, Ciclo!Admite
<1>2. CASE Despachar(p)
  BY <1>2 DEF Despachar, Ciclo!Next, Ciclo!Despacha
<1>3. CASE Desalojar(p) \/ \E i \in Ios : SyscallSinInterfaz(p, i)
  BY <1>3 DEF Desalojar, SyscallSinInterfaz, EnCpu, Ciclo!Next, Ciclo!Desaloja
<1>4. CASE Salir(p)
  <2>1. mem[p] # "swap"
    BY <1>4 DEF IInv, ResidenciaInv, Salir, EnCpu
  <2> QED BY <1>4, <2>1 DEF Salir, EnCpu, Ciclo!Next, Ciclo!Termina
<1>5. CASE SyscallMemoria(p, "SOLICITAR") \/ SyscallMemoria(p, "ELIMINAR")
  BY <1>5 DEF SyscallMemoria
<1>6. CASE \E i \in Ios : SyscallIO(p, i)
  BY <1>6 DEF SyscallIO
<1>7. CASE BloquearEnMutex(p)
  BY <1>7 DEF BloquearEnMutex, EnCpu, Ciclo!Next, Ciclo!Bloquea
<1>8. CASE DesbloquearDeMutex(p)
  <2>1. estado[p] = "BLOCK"
    BY <1>8 DEF IInv, FaseInv, DesbloquearDeMutex
  <2> QED BY <1>8, <2>1 DEF DesbloquearDeMutex, Ciclo!Next, Ciclo!Desbloquea
<1> QED BY <1>1, <1>2, <1>3, <1>4, <1>5, <1>6, <1>7, <1>8

\* The rest of a syscall: a PCB is freed only after memory answered
\* FINALIZAR_PROCESO, and a process blocks from EXEC.
LEMMA CicloReceptor ==
  ASSUME IInv, NEW p \in Procs, ReceptorCpu(p)
  PROVE  Ciclo!Next \/ UNCHANGED <<estado, mem>>
<1>1. CASE ReceptorSigue(p)
  <2>1. Recibir(Receptor(p), "OK")
    BY <1>1 DEF ReceptorSigue
  <2>2. CASE fase[p] = "FINALIZAR"
    <3>1. pedido = Pedido("FINALIZAR", p) /\ estado[p] = "EXIT"
      BY <2>1, <2>2, Recibida DEF IInv, CanalInv, FaseInv
    <3>2. mem[p] = "nada"
      BY <2>1, <3>1, Contenido
    <3> QED BY <1>1, <2>2, <3>1, <3>2 DEF ReceptorSigue, Ciclo!Next,
            Ciclo!Libera
  <2>3. CASE fase[p] # "FINALIZAR"
    BY <1>1, <2>3 DEF ReceptorSigue
  <2> QED BY <2>2, <2>3
<1>2. CASE ReceptorFalla(p)
  <2>1. fase[p] \in {"LECTURA", "SOLICITAR", "ELIMINAR", "FINALIZAR"}
    BY <1>2, Recibida DEF IInv, CanalInv, ReceptorFalla
  <2>2. CASE fase[p] = "FINALIZAR"
    BY <1>2, <2>2 DEF IInv, FaseInv, TypePcb, ReceptorFalla
  <2>3. CASE fase[p] # "FINALIZAR"
    <3>1. estado[p] = "EXEC" /\ mem[p] # "swap"
      BY <2>1, <2>3 DEF IInv, FaseInv, ResidenciaInv
    <3> QED BY <1>2, <3>1 DEF ReceptorFalla, Ciclo!Next, Ciclo!Termina
  <2> QED BY <2>2, <2>3
<1>3. CASE EncolarBloquea(p)
  <2>1. estado[p] = "EXEC"
    BY <1>3 DEF IInv, FaseInv, EncolarBloquea
  <2> QED BY <1>3, <2>1 DEF EncolarBloquea, Ciclo!Next, Ciclo!Bloquea
<1>4. CASE ReceptorPide(p) \/ EncolarPedido(p) \/ EncolarRechaza(p)
           \/ CuentaEpisodio(p)
  BY <1>4 DEF ReceptorPide, EncolarPedido, EncolarRechaza, CuentaEpisodio
<1> QED BY <1>1, <1>2, <1>3, <1>4 DEF ReceptorCpu

\* A timer changes the state of its process once, from BLOCK to SUSP_BLOCK.
LEMMA CicloTimer ==
  ASSUME IInv, NEW p \in Procs, NEW e \in Epocas, TimerSuspension(p, e)
  PROVE  Ciclo!Next \/ UNCHANGED <<estado, mem>>
<1>1. CASE TimerSuspende(p, e)
  BY <1>1 DEF TimerSuspende, AvanzaTimer, Ciclo!Next, Ciclo!Suspende
<1>2. CASE \/ TimerCaduca(p, e) \/ TimerAgrega(p, e) \/ TimerVolcado(p, e)
           \/ TimerVence(p, e) \/ TimerMarca(p, e) \/ TimerNotifica(p, e)
  BY <1>2 DEF TimerCaduca, TimerAgrega, TimerVolcado, TimerVence, TimerMarca,
     TimerNotifica, AvanzaTimer
<1>3. CASE TimerPide(p, e)
  BY <1>3 DEF TimerPide
<1> QED BY <1>1, <1>2, <1>3 DEF TimerSuspension

\* An I/O worker completes the I/O of a suspended process only when its dump
\* is over, and frees a PCB only after FINALIZAR_PROCESO.
LEMMA CicloWorker ==
  ASSUME IInv, NEW i \in Ios, WorkerIO(i) \/ DesconectaIO(i) \/ RegistrarInterfaz(i)
  PROVE  Ciclo!Next \/ UNCHANGED <<estado, mem>>
<1>1. CASE TerminaSuspendido(i)
  <2>1. PICK p \in Procs : p = wpid[i] /\ p \in block
    BY <1>1 DEF IInv, WorkerInv, TerminaSuspendido, Extraer
  <2>2. estado[p] = "SUSP_BLOCK" /\ enSwap[p]
    BY <1>1, <2>1 DEF TerminaSuspendido, Extraer
  <2>3. SwapFalla \/ mem[p] # "ram"
    BY <2>2 DEF IInv, ListaInv
  <2> QED BY <1>1, <2>1, <2>2, <2>3 DEF TerminaSuspendido, Extraer, Ciclo!Next,
          Ciclo!Completa
<1>2. CASE TerminaEnRam(i)
  <2>1. PICK p \in Procs : p = wpid[i] /\ p \in block
    BY <1>2 DEF IInv, WorkerInv, TerminaEnRam, Extraer
  <2>2. estado[p] = "BLOCK"
    BY <1>2, <2>1 DEF IInv, FaseInv, TerminaEnRam
  <2> QED BY <1>2, <2>1, <2>2 DEF TerminaEnRam, Extraer, Ciclo!Next,
          Ciclo!Desbloquea
<1>3. CASE WorkerSigue(i)
  <2>1. Recibir(Worker(i), "OK")
    BY <1>3 DEF WorkerSigue
  <2>2. PICK p \in Procs :
          /\ p = wpid[i]
          /\ \/ wpc[i] = "escribe" /\ estado[p] = "BLOCK"
             \/ /\ wpc[i] = "finaliza" /\ estado[p] = "EXIT"
                /\ pedido = Pedido("FINALIZAR", p)
    BY <2>1, Recibida DEF IInv, CanalInv, WorkerInv
  <2>3. CASE wpc[i] = "escribe"
    BY <1>3, <2>2, <2>3 DEF WorkerSigue, Ciclo!Next, Ciclo!Desbloquea
  <2>4. CASE wpc[i] # "escribe"
    <3>1. mem[p] = "nada"
      BY <2>1, <2>2, <2>4, Contenido
    <3> QED BY <1>3, <2>2, <2>4, <3>1 DEF WorkerSigue, Ciclo!Next,
            Ciclo!Libera
  <2> QED BY <2>3, <2>4
<1>4. CASE WorkerFalla(i)
  <2>1. Recibir(Worker(i), "SEGFAULT")
    BY <1>4 DEF WorkerFalla
  <2>2. PICK p \in Procs : p = wpid[i] /\ estado[p] \in {"BLOCK", "EXIT"}
    BY <2>1, Recibida DEF IInv, CanalInv, WorkerInv
  <2>3. mem[p] # "swap"
    BY <2>2 DEF IInv, ResidenciaInv
  <2>4. CASE estado[p] = "BLOCK"
    BY <1>4, <2>2, <2>3, <2>4 DEF WorkerFalla, Ciclo!Next, Ciclo!Termina
  <2>5. CASE estado[p] = "EXIT"
    BY <1>4, <2>2, <2>5 DEF IInv, TypePcb, WorkerFalla
  <2> QED BY <2>2, <2>4, <2>5
<1>5. CASE \/ TomarPedido(i) \/ TerminaIO(i) \/ DesconectaIO(i) \/ WorkerPide(i)
           \/ RegistrarInterfaz(i)
  BY <1>5 DEF TomarPedido, TerminaIO, DesconectaIO, WorkerPide, RegistrarInterfaz
<1> QED BY <1>1, <1>2, <1>3, <1>4, <1>5 DEF WorkerIO

\* The medium-term loop makes a process READY only with its segments in RAM.
LEMMA CicloMedianoPlazo ==
  ASSUME IInv, MedianoPlazo
  PROVE  Ciclo!Next \/ UNCHANGED <<estado, mem>>
<1>1. CASE PmpDesSuspende
  <2>1. Recibir(Pmp, "OK")
    BY <1>1 DEF PmpDesSuspende, PmpRecibe
  <2>2. PICK p \in Procs : p = pp /\ estado[p] = "SUSP_READY"
    BY <1>1 DEF IInv, PmpInv, PmpDesSuspende
  <2>3. pedido = Pedido("DES_SUSPENDER", p)
    BY <1>1, <2>1, <2>2, Recibida DEF IInv, CanalInv, PmpDesSuspende
  <2>4. mem[p] # "swap"
    BY <2>1, <2>3, Contenido
  <2> QED BY <1>1, <2>2, <2>4 DEF PmpDesSuspende, PmpRecibe, Ciclo!Next,
          Ciclo!Reanuda
<1>2. CASE PmpEscribio
  <2>1. PICK p \in Procs : p = pp /\ estado[p] = "SUSP_READY" /\ mem[p] # "swap"
    BY <1>2 DEF IInv, PmpInv, PmpEscribio
  <2> QED BY <1>2, <2>1 DEF PmpEscribio, PmpRecibe, Ciclo!Next, Ciclo!Reanuda
<1>3. CASE PmpFalla
  <2>1. PICK p \in Procs : p = pp /\ estado[p] = "SUSP_READY" /\ mem[p] # "swap"
    BY <1>3 DEF IInv, PmpInv, PmpFalla
  <2> QED BY <1>3, <2>1 DEF PmpFalla, PmpRecibe, Ciclo!Next, Ciclo!Termina
<1>4. CASE PmpFinaliza
  <2>1. Recibir(Pmp, "OK")
    BY <1>4 DEF PmpFinaliza, PmpRecibe
  <2>2. PICK p \in Procs : p = pp /\ estado[p] = "EXIT"
    BY <1>4 DEF IInv, PmpInv, PmpFinaliza
  <2>3. pedido = Pedido("FINALIZAR", p)
    BY <1>4, <2>1, <2>2, Recibida DEF IInv, CanalInv, PmpFinaliza
  <2>4. mem[p] = "nada"
    BY <2>1, <2>3, Contenido
  <2> QED BY <1>4, <2>2, <2>4 DEF PmpFinaliza, PmpRecibe, Ciclo!Next,
          Ciclo!Libera
<1>5. CASE \/ PmpDespierta \/ (\E p \in Procs : PmpElige(p)) \/ PmpTermina
           \/ PmpPide
  BY <1>5 DEF PmpDespierta, PmpElige, PmpTermina, PmpPide
<1>6. CASE PmpSinEspacio
  BY <1>6 DEF PmpSinEspacio, PmpRecibe
<1> QED BY <1>1, <1>2, <1>3, <1>4, <1>5, <1>6 DEF MedianoPlazo

\* Whatever the interleaving of receptor threads, timers, I/O workers and the
\* medium-term loop, each process goes through the life cycle of CicloProceso:
\* the detailed specification implements the abstract one.
THEOREM Refinamiento == Spec => CicloDeVida
<1>1. Init => Ciclo!Init
  BY DEF Init, Ciclo!Init
<1>2. IInv /\ [Next]_vars => [Ciclo!Next]_<<estado, mem>>
  <2> SUFFICES ASSUME IInv, [Next]_vars
               PROVE  Ciclo!Next \/ UNCHANGED <<estado, mem>>
    OBVIOUS
  <2>1. CASE UNCHANGED vars
    BY <2>1 DEF vars
  <2>2. CASE DrenarNotificacion
    BY <2>2 DEF DrenarNotificacion
  <2>3. CASE Terminado
    BY <2>3 DEF Terminado, vars
  <2> QED BY <2>1, <2>2, <2>3, CicloMemoria, CicloPrograma, CicloReceptor,
          CicloTimer, CicloWorker, CicloMedianoPlazo DEF Next
<1> QED BY <1>1, <1>2, Invariante, PTL DEF Spec, CicloDeVida, Ciclo!Spec
=============================================================================
