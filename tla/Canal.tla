------------------------------- MODULE Canal -------------------------------
(***************************************************************************)
(* The one socket between the scheduler and kernel_memory, and the         *)
(* admission of processes that rests on it.  Every thread of the scheduler *)
(* that needs memory locks mutex_memory_socket, sends a request, reads     *)
(* until an op_code that is not a notification comes, drains its payload   *)
(* and unlocks.  kernel_memory answers from one receptor thread; threads   *)
(* of its sticks push notifications into the same stream.                  *)
(*                                                                         *)
(* Packets keep their op_code and the format of their payload: a reader    *)
(* that drains another format leaves the stream out of step.  `de' names   *)
(* the thread an answer is for and is not on the wire.                     *)
(*                                                                         *)
(* The states of a process are those a request needs; the modules          *)
(* Suspension, Dispatch and KernelMemory have the rest.                    *)
(***************************************************************************)
EXTENDS Integers, Sequences, SequencesExt

CONSTANTS
  Procs,
  Iniciales,   \* processes that run already
  Hilos,       \* threads of the scheduler that use the channel
  Segs,        \* segment numbers
  MaxPedidos,  \* bound: requests
  MaxSegs,     \* bound: segments of a process
  MaxNuevas,   \* bound: sticks that connect
  Cae,         \* TRUE if a stick may disconnect
  Tarde,       \* TRUE if any answer may take longer than MEMORY_OP_TIMEOUT_S
  Nulo

ASSUME CanalAssumption ==
  /\ Iniciales \subseteq Procs /\ Nulo \notin Hilos
  /\ MaxPedidos \in Nat /\ MaxSegs \in Nat /\ MaxNuevas \in Nat
  /\ Cae \in BOOLEAN /\ Tarde \in BOOLEAN

VARIABLES
  \* scheduler
  pc,          \* "libre", "espera" (the mutex), "recv", "encola", or a step of manejar_bsod
  req,         \* the request of each thread
  dueno,       \* holder of mutex_memory_socket
  sinTimeout,  \* the socket has no receive timeout
  compactando, \* compactacion_en_progreso
  est,         \* where each process is
  segsS,       \* segmentos_info of its PCB
  nuevos,      \* cola_procesos_new
  hayCola,     \* FALSE once manejar_bsod destroyed it
  semNew,      \* sem_new
  plp,         \* the long-term scheduler: "espera" or "saca"
  corrupto,    \* sistema_corrupto
  vivo,        \* FALSE once the scheduler exited
  \* streams
  ida, vuelta,
  \* kernel_memory
  mpc,         \* receptor: "lee", "avisa", "pide", "compacta", "reasigna"
  mreq,        \* the request it serves
  existe,      \* lista of processes
  segsM,       \* their segments
  nuevas,      \* sticks connected so far
  caido,       \* a stick disconnected
  pedidos      \* requests so far

hiloVars == <<pc, req, dueno, sinTimeout, compactando>>
procVars == <<est, segsS, nuevos, hayCola, semNew, plp, corrupto, vivo>>
memVars  == <<mpc, mreq, existe, segsM>>
envVars  == <<nuevas, caido, pedidos>>

vars == <<hiloVars, procVars, ida, vuelta, memVars, envVars>>

Req(op, p, s, t) == [op |-> op, pid |-> p, seg |-> s, de |-> t]
SinReq == Req("", Nulo, Nulo, Nulo)

\* A packet to the scheduler: op_code, payload format, and for whom.
Paquete(op, fmt, t) == [op |-> op, fmt |-> fmt, de |-> t]

\* What is left of a packet whose payload was read in another format.
Resto == Paquete("RESTO", "resto", Nulo)

AvisosOk == {"BSOD", "LIBERADA", "INICIAR", "FINALIZAR_COMPACTACION"}
Avisos == AvisosOk \union {"NUEVA_MEMORIA"}
Aviso(op) == Paquete(op, IF op = "NUEVA_MEMORIA" THEN "nueva" ELSE "ok", Nulo)

Init ==
  /\ pc = [t \in Hilos |-> "libre"] /\ req = [t \in Hilos |-> SinReq]
  /\ dueno = Nulo /\ sinTimeout = FALSE /\ compactando = FALSE
  /\ est = [p \in Procs |-> IF p \in Iniciales THEN "exec" ELSE "no"]
  /\ segsS = [p \in Procs |-> <<>>] /\ segsM = segsS
  /\ nuevos = <<>> /\ hayCola = TRUE /\ semNew = 0 /\ plp = "espera"
  /\ corrupto = FALSE /\ vivo = TRUE
  /\ ida = <<>> /\ vuelta = <<>>
  /\ mpc = "lee" /\ mreq = SinReq /\ existe = Iniciales
  /\ nuevas = 0 /\ caido = FALSE /\ pedidos = 0

-----------------------------------------------------------------------------
(* Threads of the scheduler: requests.                                     *)

\* State a process must be in for a request, and the one it waits in.
Previo(op) ==
  CASE op = "CREAR" -> "no"
    [] op \in {"SOLICITAR", "ELIMINAR", "LECTURA", "FINALIZAR"} -> "exec"
    [] op \in {"ESCRITURA", "SUSPENDER"} -> "bloq"
    [] op = "DES_SUSPENDER" -> "swap"

Durante(op) ==
  CASE op = "CREAR" -> "creando"
    [] op = "FINALIZAR" -> "sale"
    [] OTHER -> "pide"

Ops == {"CREAR", "SOLICITAR", "ELIMINAR", "LECTURA", "FINALIZAR", "ESCRITURA",
        "SUSPENDER", "DES_SUSPENDER"}

\* Mutant: a new process is queued before kernel_memory knows it.
PedirEncolando(t, op, p, s) ==
  /\ vivo /\ pc[t] = "libre" /\ pedidos < MaxPedidos
  /\ est[p] = Previo(op)
  /\ (op = "SOLICITAR") => Len(segsS[p]) < MaxSegs
  /\ pedidos' = pedidos + 1
  /\ pc' = [pc EXCEPT ![t] = "espera"]
  /\ req' = [req EXCEPT ![t] = Req(op, p, s, t)]
  /\ est' = [est EXCEPT ![p] = IF op = "CREAR" THEN "new" ELSE Durante(op)]
  /\ nuevos' = IF op = "CREAR" THEN Append(nuevos, p) ELSE nuevos
  /\ semNew' = IF op = "CREAR" THEN semNew + 1 ELSE semNew
  /\ UNCHANGED <<dueno, sinTimeout, compactando, segsS, hayCola, plp, corrupto, vivo,
                 ida, vuelta, memVars, nuevas, caido>>

\* A syscall, the end of a process, an I/O worker, a suspension timer or the
\* medium-term loop starts a request; crear_proceso registers the PCB first.
Pedir(t, op, p, s) ==
  /\ vivo /\ pc[t] = "libre" /\ pedidos < MaxPedidos
  /\ est[p] = Previo(op)
  /\ (op = "SOLICITAR") => Len(segsS[p]) < MaxSegs
  /\ pedidos' = pedidos + 1
  /\ pc' = [pc EXCEPT ![t] = "espera"]
  /\ req' = [req EXCEPT ![t] = Req(op, p, s, t)]
  /\ est' = [est EXCEPT ![p] = Durante(op)]
  /\ UNCHANGED <<dueno, sinTimeout, compactando, segsS, nuevos, hayCola, semNew, plp,
                 corrupto, vivo, ida, vuelta, memVars, nuevas, caido>>

\* pthread_mutex_lock and the send that follows it.
Enviar(t) ==
  /\ vivo /\ pc[t] = "espera" /\ dueno = Nulo
  /\ dueno' = t
  /\ pc' = [pc EXCEPT ![t] = "recv"]
  /\ ida' = Append(ida, req[t])
  /\ UNCHANGED <<req, sinTimeout, compactando, procVars, vuelta, memVars, envVars>>

-----------------------------------------------------------------------------
(* recibir_respuesta_de_memoria.                                           *)

\* Mutant: MEMORIA_LIBERADA is missing from the dispatch table.
EsAvisoSinLiberada(op) == op \in Avisos \ {"LIBERADA"}

\* despachar_si_es_notificacion.
EsAviso(op) == op \in Avisos

Lee(t, m) == vivo /\ pc[t] = "recv" /\ dueno = t /\ vuelta # <<>> /\ Head(vuelta) = m

\* MEMORIA_LIBERADA and NUEVA_MEMORIA wake the medium-term loop (Suspension).
AvisoMemoria(t) ==
  /\ \E m \in {Aviso("LIBERADA"), Aviso("NUEVA_MEMORIA")} : EsAviso(m.op) /\ Lee(t, m)
  /\ vuelta' = Tail(vuelta)
  /\ UNCHANGED <<hiloVars, procVars, ida, memVars, envVars>>

\* Mutant: the timeout stays on during the compaction.
AvisoIniciarConTimeout(t) ==
  /\ Lee(t, Aviso("INICIAR"))
  /\ vuelta' = Tail(vuelta)
  /\ compactando' = TRUE
  /\ ida' = Append(ida, Req("INICIAR", Nulo, Nulo, t))
  /\ UNCHANGED <<pc, req, dueno, sinTimeout, procVars, memVars, envVars>>

AvisoIniciar(t) ==
  /\ Lee(t, Aviso("INICIAR"))
  /\ vuelta' = Tail(vuelta)
  /\ sinTimeout' = TRUE /\ compactando' = TRUE
  /\ ida' = Append(ida, Req("INICIAR", Nulo, Nulo, t))
  /\ UNCHANGED <<pc, req, dueno, procVars, memVars, envVars>>

AvisoFinalizar(t) ==
  /\ Lee(t, Aviso("FINALIZAR_COMPACTACION"))
  /\ vuelta' = Tail(vuelta)
  /\ sinTimeout' = FALSE /\ compactando' = FALSE
  /\ UNCHANGED <<pc, req, dueno, procVars, ida, memVars, envVars>>

AvisoBsod(t) ==
  /\ Lee(t, Aviso("BSOD"))
  /\ vuelta' = Tail(vuelta)
  /\ corrupto' = TRUE
  /\ pc' = [pc EXCEPT ![t] = "marca"]
  /\ UNCHANGED <<req, dueno, sinTimeout, compactando, est, segsS, nuevos, hayCola, semNew,
                 plp, vivo, ida, memVars, envVars>>

\* The payload the caller drains after op_code ack, "" if it drains none.
Drena(op, ack) ==
  CASE op = "CREAR" /\ ack # "CREAR" -> ""
    [] op = "SOLICITAR" /\ ack # "SEGFAULT" -> "seg"
    [] op = "LECTURA" /\ ack # "SEGFAULT" -> "datos"
    [] OTHER -> "ok"

\* The first entry of a list with a number is taken out, if there is one.
Sin(segs, s) ==
  LET k == SelectInSeq(segs, LAMBDA x : x = s)
  IN  IF k = 0 THEN segs ELSE RemoveAt(segs, k)

\* Mutant: MEM_FREE leaves segmentos_info as it is.
TrasSinQuitar(segs, r, ack) ==
  IF r.op = "SOLICITAR" /\ ack = r.op THEN Append(segs, r.seg) ELSE segs

\* segmentos_info after the answer; MEM_FREE does not look at it.
Tras(segs, r, ack) ==
  CASE r.op = "SOLICITAR" /\ ack = r.op -> Append(segs, r.seg)
    [] r.op = "ELIMINAR" -> Sin(segs, r.seg)
    [] OTHER -> segs

\* Answers that end the process: notificar_fin_a_memoria is the next request.
Mata(op, ack) ==
  \/ op \in {"SOLICITAR", "ESCRITURA"} /\ ack # op
  \/ op = "LECTURA" /\ ack = "SEGFAULT"

\* State of the process after any other answer ("" is no answer).
Despues(op, ack) ==
  CASE op \in {"SOLICITAR", "ELIMINAR"} -> "exec"
    [] op = "LECTURA" -> IF ack = "" THEN "ready" ELSE "bloq"
    [] op = "ESCRITURA" -> "ready"
    [] op = "FINALIZAR" -> "fin"
    [] op = "SUSPENDER" -> "swap"
    [] op = "DES_SUSPENDER" -> IF ack = op THEN "ready" ELSE "swap"
    [] op = "CREAR" -> "creando"

\* The thread goes on: with the end of the process, with the STDIN bytes that
\* waited for its return, with the NEW queue, or with nothing.
Continua(t, ack) ==
  LET r == req[t] IN
  /\ segsS' = [segsS EXCEPT ![r.pid] = Tras(@, r, ack)]
  /\ \/ /\ Mata(r.op, ack)
        /\ req' = [req EXCEPT ![t] = Req("FINALIZAR", r.pid, Nulo, t)]
        /\ pc' = [pc EXCEPT ![t] = "espera"]
        /\ est' = [est EXCEPT ![r.pid] = "sale"]
     \/ /\ r.op = "DES_SUSPENDER" /\ ack = r.op
        /\ req' = [req EXCEPT ![t] = Req("ESCRITURA", r.pid, Nulo, t)]
        /\ pc' = [pc EXCEPT ![t] = "espera"]
        /\ UNCHANGED est
     \/ /\ ~ Mata(r.op, ack)
        /\ req' = [req EXCEPT ![t] = IF r.op = "CREAR" THEN r ELSE SinReq]
        /\ pc' = [pc EXCEPT ![t] = IF r.op = "CREAR" THEN "encola" ELSE "libre"]
        /\ est' = [est EXCEPT ![r.pid] = Despues(r.op, ack)]
  /\ UNCHANGED <<compactando, nuevos, hayCola, semNew, plp, corrupto, vivo, ida, memVars,
                 envVars>>

\* The answer: op_code, payload, unlock.
Recibir(t) ==
  LET m == Head(vuelta)
      f == Drena(req[t].op, m.op)
  IN
  /\ vivo /\ pc[t] = "recv" /\ dueno = t /\ vuelta # <<>> /\ ~ EsAviso(m.op)
  /\ vuelta' = IF f = m.fmt THEN Tail(vuelta) ELSE <<Resto>> \o Tail(vuelta)
  /\ dueno' = Nulo
  /\ UNCHANGED sinTimeout
  /\ Continua(t, m.op)

\* When recv may wait MEMORY_OP_TIMEOUT_S for nothing: kernel_memory dropped the
\* request, or it compacts (COMPACTION_DELAY and one move per segment).
Lenta == mpc = "compacta" \/ (mpc = "lee" /\ ida = <<>>) \/ Tarde

\* Mutant: a timeout returns without unlocking.
VencerSinSoltar(t) ==
  /\ vivo /\ pc[t] = "recv" /\ dueno = t /\ vuelta = <<>> /\ ~ sinTimeout /\ Lenta
  /\ UNCHANGED <<dueno, sinTimeout, vuelta>>
  /\ Continua(t, "")

\* recv returns -1 and every caller unlocks.
Vencer(t) ==
  /\ vivo /\ pc[t] = "recv" /\ dueno = t /\ vuelta = <<>> /\ ~ sinTimeout /\ Lenta
  /\ dueno' = Nulo
  /\ UNCHANGED <<sinTimeout, vuelta>>
  /\ Continua(t, "")

-----------------------------------------------------------------------------
(* Admission and BSOD.                                                     *)

\* End of crear_proceso: the NEW queue and sem_new, whatever memory answered.
Encolar(t) ==
  LET p == req[t].pid IN
  /\ vivo /\ pc[t] = "encola"
  /\ IF hayCola
     THEN /\ nuevos' = Append(nuevos, p) /\ semNew' = semNew + 1
          /\ est' = [est EXCEPT ![p] = "new"]
     ELSE est' = [est EXCEPT ![p] = "fin"] /\ UNCHANGED <<nuevos, semNew>>
  /\ pc' = [pc EXCEPT ![t] = "libre"]
  /\ req' = [req EXCEPT ![t] = SinReq]
  /\ UNCHANGED <<dueno, sinTimeout, compactando, segsS, hayCola, plp, corrupto, vivo, ida,
                 vuelta, memVars, envVars>>

\* planificadorLargoPlazo: sem_wait, then the queue.
PlpEspera ==
  /\ vivo /\ plp = "espera" /\ ~ corrupto /\ semNew > 0
  /\ semNew' = semNew - 1 /\ plp' = "saca"
  /\ UNCHANGED <<hiloVars, est, segsS, nuevos, hayCola, corrupto, vivo, ida, vuelta,
                 memVars, envVars>>

PlpSaca ==
  /\ vivo /\ plp = "saca" /\ hayCola
  /\ plp' = "espera"
  /\ nuevos' = Tail(nuevos)
  /\ est' = [est EXCEPT ![Head(nuevos)] = "ready"]
  /\ UNCHANGED <<hiloVars, segsS, hayCola, semNew, corrupto, vivo, ida, vuelta, memVars,
                 envVars>>

\* queue_pop of the destroyed queue.
PlpRompe ==
  /\ vivo /\ plp = "saca" /\ ~ hayCola
  /\ vivo' = FALSE
  /\ UNCHANGED <<hiloVars, est, segsS, nuevos, hayCola, semNew, plp, corrupto, ida, vuelta,
                 memVars, envVars>>

\* manejar_bsod: every PCB to EXIT, the queues, exit.
BsodMarca(t) ==
  /\ vivo /\ pc[t] = "marca"
  /\ est' = [p \in Procs |-> IF est[p] = "no" THEN "no" ELSE "fin"]
  /\ pc' = [pc EXCEPT ![t] = "colas"]
  /\ UNCHANGED <<req, dueno, sinTimeout, compactando, segsS, nuevos, hayCola, semNew, plp,
                 corrupto, vivo, ida, vuelta, memVars, envVars>>

BsodColas(t) ==
  /\ vivo /\ pc[t] = "colas"
  /\ nuevos' = <<>> /\ hayCola' = FALSE
  /\ pc' = [pc EXCEPT ![t] = "exit"]
  /\ UNCHANGED <<req, dueno, sinTimeout, compactando, est, segsS, semNew, plp, corrupto,
                 vivo, ida, vuelta, memVars, envVars>>

BsodExit(t) ==
  /\ vivo /\ pc[t] = "exit"
  /\ vivo' = FALSE
  /\ UNCHANGED <<hiloVars, est, segsS, nuevos, hayCola, semNew, plp, corrupto, ida, vuelta,
                 memVars, envVars>>

\* Dispatch to a CPU (module Dispatch), and a SLEEP or STDIN of the process.
Mover(p, de, a) ==
  /\ vivo /\ est[p] = de
  /\ est' = [est EXCEPT ![p] = a]
  /\ UNCHANGED <<hiloVars, segsS, nuevos, hayCola, semNew, plp, corrupto, vivo, ida, vuelta,
                 memVars, envVars>>

Despachar(p) == ~ compactando /\ Mover(p, "ready", "exec")
Bloquear(p) == Mover(p, "exec", "bloq")

-----------------------------------------------------------------------------
(* kernel_memory: memory_receptor_scheduler_thread.                        *)

Toma(op) == mpc = "lee" /\ ida # <<>> /\ Head(ida).op = op /\ ida' = Tail(ida)

Fijo == UNCHANGED <<hiloVars, procVars, envVars>>

Contesta(op, fmt, t) == vuelta' = Append(vuelta, Paquete(op, fmt, t))

MemCrear ==
  LET r == Head(ida) IN
  /\ Toma("CREAR")
  /\ existe' = existe \union {r.pid}
  /\ segsM' = [segsM EXCEPT ![r.pid] = <<>>]
  /\ Contesta("CREAR", "ok", r.de)
  /\ UNCHANGED <<mpc, mreq>> /\ Fijo

\* The answer goes first, MEMORIA_LIBERADA behind it.
Libera(r, libero) ==
  /\ Contesta(r.op, "ok", r.de)
  /\ mpc' = IF libero THEN "avisa" ELSE "lee"
  /\ UNCHANGED mreq /\ Fijo

MemEliminar ==
  LET r == Head(ida)
      hay == r.pid \in existe /\ r.seg \in ToSet(segsM[r.pid])
  IN
  /\ Toma("ELIMINAR")
  /\ segsM' = IF hay THEN [segsM EXCEPT ![r.pid] = Sin(@, r.seg)] ELSE segsM
  /\ UNCHANGED existe
  /\ Libera(r, hay)

\* Segments in swap free no RAM.
MemFinalizar ==
  LET r == Head(ida) IN
  /\ Toma("FINALIZAR")
  /\ existe' = existe \ {r.pid}
  /\ segsM' = [segsM EXCEPT ![r.pid] = <<>>]
  /\ \E libero \in {FALSE, segsM[r.pid] # <<>>} : Libera(r, libero)

MemAvisa ==
  /\ mpc = "avisa"
  /\ vuelta' = Append(vuelta, Aviso("LIBERADA"))
  /\ mpc' = "lee"
  /\ UNCHANGED <<ida, mreq, existe, segsM>> /\ Fijo

\* LECTURA and ESCRITURA: translated and done, refused, or cut by a stick that is
\* gone, after which a read has no answer and a write has the usual one.
MemAcceso(op) ==
  LET r == Head(ida)
      hecho == Paquete(op, IF op = "LECTURA" THEN "datos" ELSE "ok", r.de)
  IN
  /\ Toma(op)
  /\ \/ Contesta("SEGFAULT", "ok", r.de)
     \/ r.pid \in existe /\ vuelta' = Append(vuelta, hecho)
     \/ /\ r.pid \in existe /\ caido
        /\ vuelta' = vuelta \o <<Aviso("BSOD")>> \o IF op = "LECTURA" THEN <<>> ELSE <<hecho>>
  /\ UNCHANGED memVars /\ Fijo

\* SUSPENDER: done, or the dump fails and nothing is answered.
MemSuspender ==
  LET r == Head(ida) IN
  /\ Toma("SUSPENDER")
  /\ \/ Contesta("SUSPENDER", "ok", r.de)
     \/ vuelta' = vuelta \o IF caido THEN <<Aviso("BSOD")>> ELSE <<>>
  /\ UNCHANGED memVars /\ Fijo

MemDesSuspender ==
  LET r == Head(ida) IN
  /\ Toma("DES_SUSPENDER")
  /\ \E op \in {"DES_SUSPENDER", "SEGFAULT"} : Contesta(op, "ok", r.de)
  /\ UNCHANGED memVars /\ Fijo

\* The end of SOLICITAR_SEGMENTO: no room, or the segment.
Asigna(r) ==
  /\ mpc' = "lee"
  /\ \/ Contesta("SEGFAULT", "ok", r.de) /\ UNCHANGED segsM
     \/ /\ r.pid \in existe
        /\ segsM' = [segsM EXCEPT ![r.pid] = Append(@, r.seg)]
        /\ Contesta("SOLICITAR", "seg", r.de)
  /\ UNCHANGED existe

MemSolicitar ==
  /\ Toma("SOLICITAR")
  /\ Asigna(Head(ida))
  /\ UNCHANGED mreq /\ Fijo

\* There is room but not in one block: compactar_y_reasignar.
MemCompactar ==
  /\ Toma("SOLICITAR") /\ Head(ida).pid \in existe
  /\ vuelta' = Append(vuelta, Aviso("INICIAR"))
  /\ mpc' = "pide" /\ mreq' = Head(ida)
  /\ UNCHANGED <<existe, segsM>> /\ Fijo

\* The next op_code of the stream is taken for the scheduler's OK.
MemConforme ==
  /\ mpc = "pide" /\ ida # <<>>
  /\ ida' = Tail(ida) /\ mpc' = "compacta"
  /\ UNCHANGED <<vuelta, mreq, existe, segsM>> /\ Fijo

MemTermina ==
  /\ mpc = "compacta"
  /\ vuelta' = Append(vuelta, Aviso("FINALIZAR_COMPACTACION"))
  /\ mpc' = "reasigna"
  /\ UNCHANGED <<ida, mreq, existe, segsM>> /\ Fijo

MemReasigna ==
  /\ mpc = "reasigna"
  /\ Asigna(mreq)
  /\ mreq' = SinReq
  /\ UNCHANGED ida /\ Fijo

\* registrar_memory_stick and memory_stick_monitor_thread.
NuevoStick ==
  /\ nuevas < MaxNuevas
  /\ nuevas' = nuevas + 1
  /\ vuelta' = Append(vuelta, Aviso("NUEVA_MEMORIA"))
  /\ UNCHANGED <<hiloVars, procVars, ida, memVars, caido, pedidos>>

CaeStick ==
  /\ Cae /\ ~ caido
  /\ caido' = TRUE
  /\ vuelta' = Append(vuelta, Aviso("BSOD"))
  /\ UNCHANGED <<hiloVars, procVars, ida, memVars, nuevas, pedidos>>

-----------------------------------------------------------------------------

Recepcion(t) ==
  \/ AvisoMemoria(t) \/ AvisoIniciar(t) \/ AvisoFinalizar(t) \/ AvisoBsod(t)
  \/ Recibir(t) \/ Vencer(t)

Hilo(t) ==
  Enviar(t) \/ Recepcion(t) \/ Encolar(t) \/ BsodMarca(t) \/ BsodColas(t) \/ BsodExit(t)

Memoria ==
  \/ MemCrear \/ MemEliminar \/ MemFinalizar \/ MemAvisa
  \/ MemAcceso("LECTURA") \/ MemAcceso("ESCRITURA") \/ MemSuspender \/ MemDesSuspender
  \/ MemSolicitar \/ MemCompactar \/ MemConforme \/ MemTermina \/ MemReasigna

Plp == PlpEspera \/ PlpSaca \/ PlpRompe

Next ==
  \/ \E t \in Hilos, p \in Procs :
       \/ \E s \in Segs, op \in {"SOLICITAR", "ELIMINAR"} : Pedir(t, op, p, s)
       \/ \E op \in Ops \ {"SOLICITAR", "ELIMINAR"} : Pedir(t, op, p, Nulo)
  \/ \E t \in Hilos : Hilo(t)
  \/ \E p \in Procs : Despachar(p) \/ Bloquear(p)
  \/ Memoria \/ Plp \/ NuevoStick \/ CaeStick

\* Threads that can run do run; the mutex owes nobody a turn.
Fairness ==
  /\ WF_vars(Memoria)
  /\ \A t \in Hilos :
       WF_vars(Recepcion(t)) /\ WF_vars(BsodMarca(t) \/ BsodColas(t) \/ BsodExit(t))

Spec == Init /\ [][Next]_vars /\ Fairness

-----------------------------------------------------------------------------
(* Properties.                                                             *)

\* Every answer in the stream is for the request of the thread that holds the
\* channel and waits for it, comes once, and has the payload that thread drains:
\* notifications pushed by other threads of kernel_memory, read or unread, never
\* shift the answers ("REGLA DE ORO" of memory_protocol.h).
RespuestaPropia ==
  LET respuestas == {k \in DOMAIN vuelta : vuelta[k].op \notin Avisos} IN
  \A k \in respuestas :
    LET m == vuelta[k] IN
    /\ m.de = dueno /\ dueno \in Hilos /\ (vivo /\ ~ corrupto => pc[dueno] = "recv")
    /\ m.fmt = Drena(req[dueno].op, m.op)
    /\ \A j \in respuestas : j = k

\* The thread that has the channel gives it back or the scheduler ends, though
\* kernel_memory may drop a request (a dump that fails), compact for as long as it
\* likes, or lose a stick.
CanalLibre == \A t \in Hilos : dueno = t ~> (dueno # t \/ ~ vivo)

\* While kernel_memory moves segments, the thread whose MEM_ALLOC caused it still
\* has the channel and waits for its answer, and dispatch is held back: however
\* long the compaction takes, it does not kill the process that asked for it.
CompactacionSinCorte ==
  mpc = "compacta" /\ ~ corrupto =>
    /\ dueno = mreq.de /\ pc[dueno] = "recv" /\ req[dueno] = mreq
    /\ compactando

\* A process that may get a CPU is known to kernel_memory, which would otherwise
\* leave the OBTENER_CONTEXTO of that CPU without an answer.
AdmitidoExiste ==
  \A p \in Procs : est[p] \in {"new", "ready", "exec", "bloq", "swap"} => p \in existe

\* segmentos_info and kernel_memory agree on the segments of a process, in order,
\* whenever no request about it is under way.
SegmentosCoinciden ==
  \A p \in Procs :
    est[p] \in {"new", "ready", "exec", "bloq", "swap"} => segsS[p] = segsM[p]
=============================================================================
