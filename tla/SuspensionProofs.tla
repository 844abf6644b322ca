-------------------------- MODULE SuspensionProofs --------------------------
EXTENDS Suspension, FiniteSetTheorems, TLAPS

USE SuspensionAssumption DEF epochVars, pcbVars, faseVars, listVars, ioVars, workerVars,
    pmpVars, channelVars, memVars, Rest, Nadie, Timer, Receptor, Worker, Pmp,
    SinPedido, Pedido, Respuestas, Operaciones, Volcando, Epocas, Estados,
    Fases, Hilos, TypeOK

SinCola(p) == \A j \in Ios : \A k \in 1..Len(cola[j]) : cola[j][k] # p
SinTimer(p) == \A e \in Epocas : timer[p][e] \notin Volcando

\* No structure of the medium-term scheduler or of the I/O queues names p.
Ajeno(p) ==
  /\ p \notin block /\ p \notin lista /\ p \notin cand /\ pp # p
  /\ SinCola(p) /\ SinTimer(p)
  /\ \A i \in Ios : wpid[i] # p

\* A process out of cola_procesos_block is in no request queue and no timer
\* has a dump of it in flight.
LEMMA FueraDeBlock ==
  ASSUME IInv, NEW p \in Procs, p \notin block
  PROVE  SinCola(p) /\ SinTimer(p)
  BY DEF IInv, ColaInv, VolcadoQuieto, SinCola, SinTimer

\* A process that may run, that has ended, or whose receptor thread is in the
\* middle of a syscall is named by no other thread or list.
LEMMA EjecutableAjeno ==
  ASSUME IInv, NEW p \in Procs,
         \/ estado[p] \in {"NEW", "READY", "EXEC", "LIBERADO"}
         \/ fase[p] \notin {"-", "encolado"}
  PROVE  Ajeno(p)
<1>0. fase[p] \in Fases /\ \A i \in Ios : wpc[i] \in {"espera", "enIO",
          "extrae", "escribe", "finaliza", "fin"}
  BY DEF IInv, TypeFase, TypeWorker
<1>1. p \notin block
  BY DEF IInv, FaseInv
<1>2. SinCola(p) /\ SinTimer(p)
  BY <1>1, FueraDeBlock
<1>3. estado[p] \notin {"SUSP_BLOCK", "SUSP_READY"}
  BY <1>0, <1>1 DEF IInv, FaseInv
<1>4. p \notin lista /\ p \notin cand
  BY <1>3 DEF IInv, ListaInv, PmpInv
<1>5. pp # p
  BY <1>0, <1>3 DEF IInv, TypePmp, PmpInv
<1>6. \A i \in Ios : wpid[i] # p
  BY <1>0, <1>1 DEF IInv, WorkerInv
<1> QED BY <1>1, <1>2, <1>4, <1>5, <1>6 DEF Ajeno

\* Who may have sent the request in flight, by the kind of the request.
LEMMA Solicitante ==
  ASSUME IInv, dueno # Nadie, NEW p \in Procs, NEW op \in Operaciones,
         pedido = [op |-> op, pid |-> p]
  PROVE  /\ op = "SUSPENDER" => \E e \in Epocas : timer[p][e] = "listado"
         /\ op = "DES_SUSPENDER" => ppc = "pide" /\ pp = p
         /\ op = "ESCRITURA" => \/ ppc = "escribe" /\ pp = p
                                \/ \E i \in Ios : wpc[i] = "escribe" /\ wpid[i] = p
         /\ op \in {"LECTURA", "SOLICITAR", "ELIMINAR"} => fase[p] = op
         /\ op = "FINALIZAR" => estado[p] = "EXIT"
<1>1. CASE \E q \in Procs, e \in Epocas : dueno = Timer(q, e)
  BY <1>1 DEF IInv, CanalInv
<1>2. CASE \E q \in Procs : dueno = Receptor(q)
  BY <1>2 DEF IInv, CanalInv, FaseInv
<1>3. CASE \E i \in Ios : dueno = Worker(i)
  BY ZenonT(60), <1>3 DEF IInv, CanalInv, WorkerInv
<1>4. CASE dueno = Pmp
  BY <1>4 DEF IInv, CanalInv, PmpInv
<1> QED BY <1>1, <1>2, <1>3, <1>4 DEF IInv, TypeCanal

\* No request in flight is about a process whose PCB has been freed.
LEMMA Vivo ==
  ASSUME IInv, dueno # Nadie, NEW p \in Procs, NEW op \in Operaciones,
         pedido = [op |-> op, pid |-> p]
  PROVE  estado[p] # "LIBERADO"
<1>1. CASE \E q \in Procs, e \in Epocas : dueno = Timer(q, e)
  BY <1>1 DEF IInv, CanalInv, VolcadoQuieto
<1>2. CASE \E q \in Procs : dueno = Receptor(q)
  BY <1>2 DEF IInv, CanalInv, FaseInv
<1>3. CASE \E i \in Ios : dueno = Worker(i)
  BY <1>3 DEF IInv, CanalInv, WorkerInv
<1>4. CASE dueno = Pmp
  BY <1>4 DEF IInv, CanalInv, PmpInv
<1> QED BY <1>1, <1>2, <1>3, <1>4 DEF IInv, TypeCanal

\* Memory answers into a socket that holds no response.
LEMMA Contesta ==
  ASSUME TypeCanal, SocketInv, ~atendido, NEW m,
         m \in {<<"OK">>, <<"SEGFAULT">>, <<"OK", "LIBERADA">>, << >>},
         Responder(m)
  PROVE  /\ socket' \in Seq(Respuestas \union {"LIBERADA"}) /\ SocketInv'
         /\ \A k \in 1..Len(socket') : socket'[k] \in Respuestas =>
              socket'[k] = m[1]
<1>1. \A k \in 1..Len(socket) : socket[k] \notin Respuestas
  BY DEF SocketInv
<1>2. CASE m = <<"OK">>
  BY <1>1, <1>2 DEF Responder, TypeCanal, SocketInv
<1>3. CASE m = <<"SEGFAULT">>
  BY <1>1, <1>3 DEF Responder, TypeCanal, SocketInv
<1>4. CASE m = <<"OK", "LIBERADA">>
  <2>1. /\ socket' \in Seq(Respuestas \union {"LIBERADA"}) /\ atendido'
        /\ Len(socket) \in Nat /\ Len(socket') = Len(socket) + 2
        /\ socket'[Len(socket) + 1] = "OK"
        /\ socket'[Len(socket) + 2] = "LIBERADA"
        /\ \A k \in 1..Len(socket) : socket'[k] = socket[k]
    BY <1>4 DEF Responder, TypeCanal
  <2>2. \A k \in 1..Len(socket') : socket'[k] \in Respuestas =>
          k = Len(socket) + 1
    BY <1>1, <2>1
  <2> QED BY <1>4, <2>1, <2>2 DEF SocketInv
<1>5. CASE m = << >>
  <2>1. socket' = socket
    BY <1>5 DEF Responder, TypeCanal
  <2> QED BY <1>1, <2>1 DEF TypeCanal, SocketInv
<1> QED BY <1>2, <1>3, <1>4, <1>5

\* Taking the channel for a request of a known process.
LEMMA Enviado ==
  ASSUME IInv, NEW h \in Hilos, NEW op \in Operaciones, NEW p \in Procs,
         Enviar(h, op, p)
  PROVE  /\ TypeCanal' /\ SocketInv' /\ RespuestaInv'
         /\ dueno' = h /\ pedido' = Pedido(op, p)
<1>1. /\ dueno' = h /\ pedido' = Pedido(op, p) /\ dueno = Nadie
      /\ UNCHANGED <<atendido, socket>>
  BY DEF Enviar
<1>2. ~atendido
  BY <1>1 DEF IInv, CanalInv
<1>3. TypeCanal'
  <2>1. pedido' \in [op : Operaciones, pid : Procs]
    BY <1>1
  <2> QED BY <1>1, <2>1 DEF IInv, TypeCanal
<1>4. SocketInv' /\ RespuestaInv'
  BY <1>1, <1>2 DEF IInv, SocketInv, RespuestaInv
<1> QED BY <1>1, <1>3, <1>4

\* Reading the response leaves the channel free and no response in it.
LEMMA Recibida ==
  ASSUME IInv, NEW h, NEW r \in Respuestas, Recibir(h, r)
  PROVE  /\ TypeCanal' /\ CanalInv' /\ SocketInv' /\ RespuestaInv'
         /\ dueno = h /\ dueno' = Nadie
<1>1. /\ dueno' = Nadie /\ pedido' = SinPedido /\ atendido' = FALSE
      /\ socket' = Tail(socket) /\ socket # <<>> /\ Head(socket) = r
      /\ dueno = h
  BY DEF Recibir
<1>2. 1 \in 1..Len(socket) /\ socket[1] = r
  BY <1>1 DEF IInv, TypeCanal
<1>3. socket' \in Seq(Respuestas \union {"LIBERADA"})
  BY <1>1 DEF IInv, TypeCanal
<1>4. \A k \in 1..Len(socket') : socket'[k] \notin Respuestas
  BY <1>1, <1>2 DEF IInv, TypeCanal, SocketInv
<1>5. CanalInv'
  BY <1>1 DEF CanalInv
<1>6. TypeCanal'
  <2>1. dueno' \in Hilos \union {Nadie}
    BY <1>1
  <2>2. pedido' \in [op : Operaciones, pid : Procs] \union {SinPedido}
    BY <1>1
  <2>3. atendido' \in BOOLEAN
    BY <1>1
  <2> QED BY <1>3, <2>1, <2>2, <2>3 DEF TypeCanal
<1> QED BY <1>1, <1>4, <1>5, <1>6 DEF SocketInv, RespuestaInv

\* What the response read says of the process the request was about.
LEMMA Contenido ==
  ASSUME IInv, NEW h, NEW r \in Respuestas, Recibir(h, r),
         NEW op \in Operaciones, NEW p \in Procs, pedido = Pedido(op, p)
  PROVE  /\ op = "SUSPENDER" => SwapFalla \/ mem[p] # "ram"
         /\ op = "DES_SUSPENDER" /\ r = "OK" => mem[p] # "swap"
         /\ op = "DES_SUSPENDER" /\ r = "SEGFAULT" => SwapFalla \/ mem[p] = "swap"
         /\ op = "ESCRITURA" /\ r = "OK" => ~debe[p]
         /\ op = "FINALIZAR" => mem[p] = "nada"
<1>1. socket # <<>> /\ Head(socket) = r
  BY DEF Recibir
<1>2. 1 \in 1..Len(socket) /\ socket[1] = r
  BY <1>1 DEF IInv, TypeCanal
<1>3. atendido
  BY <1>2 DEF IInv, SocketInv
<1>4. pedido.op = op /\ pedido.pid = p
  OBVIOUS
<1> QED BY <1>2, <1>3, <1>4 DEF IInv, RespuestaInv

\* The candidate in the hands of the medium-term loop is in nobody else's.
LEMMA CandidatoLibre ==
  ASSUME IInv, NEW p \in Procs, pp = p
  PROVE  /\ p \notin block /\ p \notin cand /\ fase[p] = "-"
         /\ estado[p] = IF ppc = "finaliza" THEN "EXIT" ELSE "SUSP_READY"
         /\ SinCola(p) /\ SinTimer(p) /\ \A i \in Ios : wpid[i] # p
<1>1. ppc \in {"pide", "escribe", "finaliza"}
  BY DEF IInv, TypePmp, PmpInv
<1>2. /\ p \notin cand
      /\ estado[p] = IF ppc = "finaliza" THEN "EXIT" ELSE "SUSP_READY"
  BY <1>1 DEF IInv, PmpInv
<1>3. p \notin block
  BY <1>2 DEF IInv, FaseInv
<1>4. fase[p] = "-"
  <2>1. fase[p] \in Fases
    BY DEF IInv, TypeFase
  <2>2. CASE ppc = "finaliza"
    BY <2>2 DEF IInv, PmpInv
  <2>3. CASE ppc # "finaliza"
    BY <1>2, <1>3, <2>1, <2>3 DEF IInv, FaseInv
  <2> QED BY <2>2, <2>3
<1>5. SinCola(p) /\ SinTimer(p)
  BY <1>3, FueraDeBlock
<1>6. \A i \in Ios : wpid[i] # p
  <2>1. CASE ppc = "finaliza"
    BY <2>1 DEF IInv, PmpInv
  <2>2. CASE ppc # "finaliza"
    <3>1. \A i \in Ios : wpc[i] \in {"espera", "enIO", "extrae", "escribe",
                                     "finaliza", "fin"}
      BY DEF IInv, TypeWorker
    <3> QED BY <1>2, <1>3, <2>2, <3>1 DEF IInv, WorkerInv
  <2> QED BY <2>1, <2>2
<1> QED BY <1>2, <1>3, <1>4, <1>5, <1>6

\* A part of the invariant holds after a step that leaves its variables alone.
LEMMA Marco ==
  ASSUME IInv
  PROVE  /\ UNCHANGED pcbVars => TypePcb'
         /\ UNCHANGED faseVars => TypeFase'
         /\ UNCHANGED <<block, lista, sem>> => TypeListas'
         /\ UNCHANGED ioVars => TypeIO'
         /\ UNCHANGED timer => TypeTimer'
         /\ UNCHANGED workerVars => TypeWorker'
         /\ UNCHANGED pmpVars => TypePmp'
         /\ UNCHANGED channelVars => TypeCanal'
         /\ UNCHANGED memVars => TypeMem'
         /\ UNCHANGED <<dueno, pedido, atendido, timer, fase, wpc, wpid, ppc, pp>>
              => CanalInv'
         /\ UNCHANGED <<socket, atendido>> => SocketInv'
         /\ UNCHANGED <<atendido, pedido, mem, socket, debe>> => RespuestaInv'
         /\ UNCHANGED <<fase, estado, epochVars, block>> => FaseInv'
         /\ UNCHANGED <<cola, block, fase>> => ColaInv'
         /\ UNCHANGED <<wpc, wpid, fase, block, estado, cola>> => WorkerInv'
         /\ UNCHANGED <<ppc, pp, cand, estado, lista, mem, fase, wpid>>
              => PmpInv'
         /\ UNCHANGED <<lista, estado, timer, mem, enSwap>> => ListaInv'
         /\ UNCHANGED <<debe, estado, wpid, wpc, stdinPend>> => DebeInv'
         /\ UNCHANGED <<estado, mem>> => ResidenciaInv'
         /\ UNCHANGED <<timer, estado, block, epochVars, enSwap>>
              => VolcadoQuieto'
         /\ UNCHANGED <<estado, lista, mem, pp>> => ListoTrasVolcado'
<1>1. /\ UNCHANGED pcbVars => TypePcb'
      /\ UNCHANGED faseVars => TypeFase'
      /\ UNCHANGED <<block, lista, sem>> => TypeListas'
      /\ UNCHANGED ioVars => TypeIO'
  BY DEF IInv, TypePcb, TypeFase, TypeListas, TypeIO
<1>14. /\ UNCHANGED timer => TypeTimer'
       /\ UNCHANGED workerVars => TypeWorker'
       /\ UNCHANGED pmpVars => TypePmp'
  BY DEF IInv, TypeTimer, TypeWorker, TypePmp
<1>15. /\ UNCHANGED channelVars => TypeCanal'
       /\ UNCHANGED memVars => TypeMem'
  BY DEF IInv, TypeCanal, TypeMem
<1>2. UNCHANGED <<dueno, pedido, atendido, timer, fase, wpc, wpid, ppc, pp>>
        => CanalInv'
  BY DEF IInv, CanalInv
<1>3. UNCHANGED <<socket, atendido>> => SocketInv'
  BY DEF IInv, SocketInv
<1>4. UNCHANGED <<atendido, pedido, mem, socket, debe>> => RespuestaInv'
  BY DEF IInv, RespuestaInv
<1>5. UNCHANGED <<fase, estado, epochVars, block>> => FaseInv'
  BY DEF IInv, FaseInv
<1>6. UNCHANGED <<cola, block, fase>> => ColaInv'
  BY DEF IInv, ColaInv
<1>7. UNCHANGED <<wpc, wpid, fase, block, estado, cola>> => WorkerInv'
  BY DEF IInv, WorkerInv
<1>8. UNCHANGED <<ppc, pp, cand, estado, lista, mem, fase, wpid>>
        => PmpInv'
  BY DEF IInv, PmpInv
<1>9. UNCHANGED <<lista, estado, timer, mem, enSwap>> => ListaInv'
  BY DEF IInv, ListaInv
<1>10. UNCHANGED <<debe, estado, wpid, wpc, stdinPend>> => DebeInv'
  BY DEF IInv, DebeInv
<1>11. UNCHANGED <<estado, mem>> => ResidenciaInv'
  BY DEF IInv, ResidenciaInv
<1>12. UNCHANGED <<timer, estado, block, epochVars, enSwap>>
        => VolcadoQuieto'
  BY DEF IInv, VolcadoQuieto
<1>13. UNCHANGED <<estado, lista, mem, pp>> => ListoTrasVolcado'
  BY DEF IInv, ListoTrasVolcado
<1> QED BY <1>1, <1>2, <1>3, <1>4, <1>5, <1>6, <1>7, <1>8, <1>9, <1>10, <1>11, <1>12, <1>13,
        <1>14, <1>15

\* WorkerInv after a step that changes the state of a process no worker is
\* writing for or ending.
LEMMA EstadoSinWorker ==
  ASSUME IInv, NEW p \in Procs, UNCHANGED <<wpc, wpid, fase, block, cola>>,
         \A i \in Ios : wpid[i] = p => wpc[i] \in {"enIO", "extrae", "fin"},
         \A q \in Procs \ {p} : estado'[q] = estado[q]
  PROVE  WorkerInv'
  BY DEF IInv, WorkerInv

\* WorkerInv after a step of worker i that serves p, or stops serving it.
LEMMA MueveWorker ==
  ASSUME IInv, NEW i \in Ios, NEW p \in Procs, fase' = fase,
         \A j \in Ios \ {i} : /\ wpc'[j] = wpc[j] /\ wpid'[j] = wpid[j]
                              /\ wpid[j] # p,
         \A q \in Procs \ {p} : /\ estado'[q] = estado[q]
                                /\ q \in block' <=> q \in block,
         \A j \in Ios : \A k \in 1..Len(cola'[j]) :
           /\ cola'[j][k] # p
           /\ \E l \in 1..Len(cola[j]) : cola'[j][k] = cola[j][l],
         \/ wpc'[i] = "espera" /\ wpid'[i] = Nulo
         \/ /\ wpc'[i] \in {"enIO", "extrae"} /\ wpid'[i] = p
            /\ p \in block' /\ fase[p] = "-"
         \/ /\ wpc'[i] = "escribe" /\ wpid'[i] = p /\ p \notin block'
            /\ estado'[p] = "BLOCK" /\ fase[p] = "-"
         \/ /\ wpc'[i] = "finaliza" /\ wpid'[i] = p
            /\ estado'[p] = "EXIT" /\ fase[p] = "-"
  PROVE  WorkerInv'
<1>0. \A j \in Ios : wpid[j] \in Procs \union {Nulo}
  BY DEF IInv, TypeWorker
<1>1. ASSUME NEW j \in Ios
      PROVE  /\ wpc'[j] = "espera" => wpid'[j] = Nulo
             /\ wpc'[j] # "espera" => wpid'[j] \in Procs /\ fase[wpid'[j]] = "-"
             /\ wpc'[j] \in {"enIO", "extrae", "fin"} => wpid'[j] \in block'
             /\ wpc'[j] = "escribe" =>
                  wpid'[j] \notin block' /\ estado'[wpid'[j]] = "BLOCK"
             /\ wpc'[j] = "finaliza" => estado'[wpid'[j]] = "EXIT"
  <2>1. CASE j = i
    BY <2>1
  <2>2. CASE j # i
    BY <1>0, <2>2 DEF IInv, WorkerInv
  <2> QED BY <2>1, <2>2
<1>2. ASSUME NEW j \in Ios, NEW l \in Ios, wpid'[j] = wpid'[l], wpid'[j] # Nulo
      PROVE  j = l
  BY <1>2 DEF IInv, WorkerInv
<1>3. ASSUME NEW j \in Ios, NEW l \in Ios, NEW k \in 1..Len(cola'[l])
      PROVE  cola'[l][k] # wpid'[j]
  <2>1. PICK m \in 1..Len(cola[l]) : cola'[l][k] = cola[l][m]
    OBVIOUS
  <2>2. cola[l][m] \in Procs
    BY DEF IInv, ColaInv, TypeListas
  <2>3. CASE j = i
    BY <2>1, <2>2, <2>3
  <2>4. CASE j # i
    BY <2>1, <2>4 DEF IInv, WorkerInv
  <2> QED BY <2>3, <2>4
<1> QED BY <1>1, <1>2, <1>3 DEF WorkerInv

\* The initial state, before any process is admitted, satisfies the invariant.
LEMMA Inicio == Init => IInv
<1> SUFFICES ASSUME Init PROVE IInv
  OBVIOUS
<1>1. TypeOK
  <2>1. TypePcb /\ TypeFase /\ TypeListas
    BY DEF Init, TypePcb, TypeFase, TypeListas
  <2>2. TypeIO /\ TypeTimer /\ TypeWorker
    BY DEF Init, TypeIO, TypeTimer, TypeWorker
  <2>3. TypePmp /\ TypeMem
    BY DEF Init, TypePmp, TypeMem
  <2>4. dueno \in Hilos \union {Nadie}
    BY DEF Init
  <2>7. atendido \in BOOLEAN
    BY DEF Init
  <2>5. pedido \in [op : Operaciones, pid : Procs] \union {SinPedido}
    BY DEF Init
  <2>6. socket \in Seq(Respuestas \union {"LIBERADA"})
    BY DEF Init
  <2> QED BY <2>1, <2>2, <2>3, <2>4, <2>5, <2>6, <2>7 DEF TypeCanal
<1>2. CanalInv /\ SocketInv /\ RespuestaInv
  BY DEF Init, CanalInv, SocketInv, RespuestaInv
<1>3. FaseInv /\ ColaInv /\ WorkerInv
  BY DEF Init, FaseInv, ColaInv, WorkerInv
<1>4. PmpInv /\ ListaInv /\ DebeInv
  BY DEF Init, PmpInv, ListaInv, DebeInv
<1>5. ResidenciaInv /\ VolcadoQuieto /\ ListoTrasVolcado
  BY DEF Init, ResidenciaInv, VolcadoQuieto, ListoTrasVolcado
<1> QED BY <1>1, <1>2, <1>3, <1>4, <1>5 DEF IInv

\* A step that changes no variable preserves the invariant.
LEMMA PasoQuieto ==
  ASSUME IInv, UNCHANGED vars
  PROVE  IInv'
  BY Marco DEF vars, IInv

\* The invariant survives reading a MEMORIA_LIBERADA in
\* recibir_respuesta_de_memoria.
LEMMA PasoDrenarNotificacion ==
  ASSUME IInv, DrenarNotificacion
  PROVE  IInv'
<1>1. TypePcb' /\ TypeFase' /\ TypeIO' /\ TypeTimer' /\ TypeWorker' /\
      TypePmp' /\ TypeMem' /\ CanalInv' /\ FaseInv' /\ ColaInv' /\
      WorkerInv' /\ PmpInv' /\ ListaInv' /\ DebeInv' /\ ResidenciaInv' /\
      VolcadoQuieto' /\ ListoTrasVolcado'
  BY Marco DEF DrenarNotificacion
<1>2. TypeListas'
  BY DEF IInv, DrenarNotificacion, TypeListas
<1>3. TypeCanal'
  BY DEF IInv, DrenarNotificacion, TypeCanal
<1>6. /\ Len(socket') = Len(socket) - 1
      /\ \A k \in 1..Len(socket') : socket'[k] = socket[k + 1]
  BY DEF IInv, DrenarNotificacion, TypeCanal
<1>7. Len(socket) \in Nat /\ atendido' = atendido /\ pedido' = pedido
      /\ mem' = mem /\ debe' = debe
  BY DEF IInv, DrenarNotificacion, TypeCanal
<1>4. SocketInv'
  <2>1. SocketInv
    BY DEF IInv
  <2>2. SUFFICES ASSUME NEW k \in 1..Len(socket'), socket'[k] \in Respuestas
                 PROVE  /\ atendido'
                        /\ \A j \in 1..Len(socket') :
                             socket'[j] \in Respuestas => j = k
    BY DEF SocketInv
  <2>3. k + 1 \in 1..Len(socket) /\ socket[k + 1] \in Respuestas
    BY <1>6, <1>7, <2>2
  <2>4. ASSUME NEW j \in 1..Len(socket'), socket'[j] \in Respuestas
        PROVE  j = k
    <3>1. j + 1 \in 1..Len(socket) /\ socket[j + 1] \in Respuestas
      BY <1>6, <1>7, <2>4
    <3>2. j + 1 = k + 1
      BY <2>1, <2>3, <3>1 DEF SocketInv
    <3> QED BY <1>6, <1>7, <3>2
  <2> QED BY <1>7, <2>1, <2>3, <2>4 DEF SocketInv
<1>5. RespuestaInv'
  BY <1>6, <1>7 DEF IInv, RespuestaInv
<1> QED BY <1>1, <1>2, <1>3, <1>4, <1>5 DEF IInv

\* The invariant survives memory's SUSPENDER_PROCESO handler.
LEMMA PasoMemSuspender ==
  ASSUME IInv, NEW p \in Procs, MemSuspender(p)
  PROVE  IInv'
<1>1. /\ dueno # Nadie /\ ~atendido
      /\ pedido = [op |-> "SUSPENDER", pid |-> p]
      /\ debe' = debe
      /\ UNCHANGED <<pcbVars, faseVars, listVars, sem, ioVars, timer,
                     workerVars, pmpVars>>
  BY DEF MemSuspender, Atiende
<1>2. PICK m \in {<<"OK">>, << >>} :
        /\ Responder(m)
        /\ SwapFalla \/ mem'[p] # "ram"
        /\ mem' = mem \/ mem' = [mem EXCEPT ![p] = "swap"]
  BY <1>1 DEF IInv, TypeMem, MemSuspender, Volcado
<1>3. /\ socket' \in Seq(Respuestas \union {"LIBERADA"}) /\ SocketInv'
      /\ \A k \in 1..Len(socket') : socket'[k] \in Respuestas =>
           socket'[k] = m[1]
  BY <1>1, <1>2, Contesta DEF IInv
<1>4. atendido' = TRUE /\ UNCHANGED <<dueno, pedido>>
  BY <1>2 DEF Responder
<1>5. PICK e \in Epocas : timer[p][e] = "listado"
  BY <1>1, Solicitante
<1>6. estado[p] = "SUSP_BLOCK" /\ p \in lista
  BY <1>5 DEF IInv, ListaInv, VolcadoQuieto
<1>7. TypePcb' /\ TypeFase' /\ TypeListas' /\ TypeIO' /\ TypeTimer' /\
      TypeWorker' /\ TypePmp' /\ FaseInv' /\ ColaInv' /\ WorkerInv' /\
      DebeInv' /\ VolcadoQuieto'
  BY <1>1, Marco
<1>8. TypeCanal'
  BY <1>1, <1>2, <1>3, <1>4, <1>6 DEF IInv, TypeCanal
<1>9. TypeMem'
  BY <1>1, <1>2, <1>3, <1>4, <1>6 DEF IInv, TypeMem
<1>10. CanalInv'
  BY <1>1, <1>2, <1>3, <1>4, <1>6 DEF IInv, CanalInv, TypeFase, TypeTimer,
     TypeWorker, TypePmp, TypeCanal
<1>11. RespuestaInv'
  BY <1>1, <1>2, <1>3, <1>4, <1>6 DEF IInv, RespuestaInv, TypeCanal, TypeMem
<1>12. PmpInv'
  BY <1>1, <1>2, <1>3, <1>4, <1>6 DEF IInv, PmpInv, TypePcb, TypeFase,
     TypeListas, TypeWorker, TypePmp, TypeMem
<1>13. ListaInv'
  BY <1>1, <1>2, <1>3, <1>4, <1>6 DEF IInv, ListaInv, TypePcb, TypeListas,
     TypeTimer, TypeMem
<1>14. ResidenciaInv'
  BY <1>1, <1>2, <1>3, <1>4, <1>6 DEF IInv, ResidenciaInv, TypePcb, TypeMem
<1>15. ListoTrasVolcado'
  BY <1>1, <1>2, <1>3, <1>4, <1>6 DEF IInv, ListoTrasVolcado, TypePcb,
     TypeListas, TypePmp, TypeMem
<1> QED BY <1>3, <1>7, <1>8, <1>9, <1>10, <1>11, <1>12, <1>13, <1>14, <1>15
      DEF IInv

\* The invariant survives memory's DES_SUSPENDER_PROCESO handler, with or
\* without room.
LEMMA PasoMemDesSuspender ==
  ASSUME IInv, NEW p \in Procs, MemDesSuspender(p)
  PROVE  IInv'
<1>1. /\ dueno # Nadie /\ ~atendido
      /\ pedido = [op |-> "DES_SUSPENDER", pid |-> p]
      /\ debe' = debe
      /\ UNCHANGED <<pcbVars, faseVars, listVars, sem, ioVars, timer,
                     workerVars, pmpVars>>
  BY DEF MemDesSuspender, Atiende
<1>2. PICK m \in {<<"OK">>, <<"SEGFAULT">>} :
        /\ Responder(m)
        /\ mem' = mem \/ mem' = [mem EXCEPT ![p] = "ram"]
        /\ IF m[1] = "OK" THEN mem'[p] # "swap"
                          ELSE SwapFalla \/ mem'[p] = "swap"
  BY <1>1 DEF IInv, TypeMem, MemDesSuspender, Restaurado
<1>3. /\ socket' \in Seq(Respuestas \union {"LIBERADA"}) /\ SocketInv'
      /\ \A k \in 1..Len(socket') : socket'[k] \in Respuestas =>
           socket'[k] = m[1]
  BY <1>1, <1>2, Contesta DEF IInv
<1>4. atendido' = TRUE /\ UNCHANGED <<dueno, pedido>>
  BY <1>2 DEF Responder
<1>5. ppc = "pide" /\ pp = p /\ estado[p] = "SUSP_READY" /\ SinTimer(p)
  BY <1>1, Solicitante, FueraDeBlock DEF IInv, PmpInv, FaseInv
<1>6. TypePcb' /\ TypeFase' /\ TypeListas' /\ TypeIO' /\ TypeTimer' /\
      TypeWorker' /\ TypePmp' /\ FaseInv' /\ ColaInv' /\ WorkerInv' /\
      DebeInv' /\ VolcadoQuieto'
  BY <1>1, Marco
<1>7. TypeCanal'
  BY <1>1, <1>2, <1>3, <1>4, <1>5 DEF IInv, TypeCanal
<1>8. TypeMem'
  BY <1>1, <1>2, <1>3, <1>4, <1>5 DEF IInv, TypeMem
<1>9. CanalInv'
  BY <1>1, <1>2, <1>3, <1>4, <1>5 DEF IInv, CanalInv, TypeFase, TypeTimer,
     TypeWorker, TypePmp, TypeCanal, SinTimer
<1>10. RespuestaInv'
  BY <1>1, <1>2, <1>3, <1>4, <1>5 DEF IInv, RespuestaInv, TypeCanal, TypeMem,
     SinTimer
<1>11. PmpInv'
  BY <1>1, <1>2, <1>3, <1>4, <1>5 DEF IInv, PmpInv, TypePcb, TypeFase,
     TypeListas, TypeWorker, TypePmp, TypeMem, SinTimer
<1>12. ListaInv'
  BY <1>1, <1>2, <1>3, <1>4, <1>5 DEF IInv, ListaInv, TypePcb, TypeListas,
     TypeTimer, TypeMem, SinTimer
<1>13. ResidenciaInv'
  BY <1>1, <1>2, <1>3, <1>4, <1>5 DEF IInv, ResidenciaInv, TypePcb, TypeMem,
     SinTimer
<1>14. ListoTrasVolcado'
  BY <1>1, <1>2, <1>3, <1>4, <1>5 DEF IInv, ListoTrasVolcado, TypePcb,
     TypeListas, TypePmp, TypeMem, SinTimer
<1> QED BY <1>3, <1>6, <1>7, <1>8, <1>9, <1>10, <1>11, <1>12, <1>13, <1>14
      DEF IInv

\* The invariant survives memory's SOLICITAR_MEMORIA handler.
LEMMA PasoMemSolicitar ==
  ASSUME IInv, NEW p \in Procs, MemSolicitar(p)
  PROVE  IInv'
<1>1. /\ dueno # Nadie /\ ~atendido
      /\ pedido = [op |-> "SOLICITAR", pid |-> p]
      /\ debe' = debe
      /\ UNCHANGED <<pcbVars, faseVars, listVars, sem, ioVars, timer,
                     workerVars, pmpVars>>
  BY DEF MemSolicitar, Atiende
<1>2. PICK m \in {<<"OK">>, <<"SEGFAULT">>} :
        /\ Responder(m)
        /\ mem' = mem \/ mem' = [mem EXCEPT ![p] = "ram"]
  BY <1>1 DEF IInv, TypeMem, MemSolicitar
<1>3. /\ socket' \in Seq(Respuestas \union {"LIBERADA"}) /\ SocketInv'
      /\ \A k \in 1..Len(socket') : socket'[k] \in Respuestas =>
           socket'[k] = m[1]
  BY <1>1, <1>2, Contesta DEF IInv
<1>4. atendido' = TRUE /\ UNCHANGED <<dueno, pedido>>
  BY <1>2 DEF Responder
<1>5. Ajeno(p) /\ fase[p] = "SOLICITAR" /\ estado[p] = "EXEC"
  BY ZenonT(60), <1>1, Solicitante, EjecutableAjeno DEF IInv, FaseInv
<1>6. TypePcb' /\ TypeFase' /\ TypeListas' /\ TypeIO' /\ TypeTimer' /\
      TypeWorker' /\ TypePmp' /\ FaseInv' /\ ColaInv' /\ WorkerInv' /\
      DebeInv' /\ VolcadoQuieto'
  BY <1>1, Marco
<1>7. TypeCanal'
  BY <1>1, <1>2, <1>3, <1>4, <1>5 DEF IInv, TypeCanal
<1>8. TypeMem'
  BY <1>1, <1>2, <1>3, <1>4, <1>5 DEF IInv, TypeMem
<1>9. CanalInv'
  BY <1>1, <1>2, <1>3, <1>4, <1>5 DEF IInv, CanalInv, TypeFase, TypeTimer,
     TypeWorker, TypePmp, TypeCanal, Ajeno, SinCola, SinTimer
<1>10. RespuestaInv'
  BY <1>1, <1>2, <1>3, <1>4, <1>5 DEF IInv, RespuestaInv, TypeCanal, TypeMem,
     Ajeno, SinCola, SinTimer
<1>11. PmpInv'
  BY <1>1, <1>2, <1>3, <1>4, <1>5 DEF IInv, PmpInv, TypePcb, TypeFase,
     TypeListas, TypeWorker, TypePmp, TypeMem, Ajeno, SinCola, SinTimer
<1>12. ListaInv'
  BY <1>1, <1>2, <1>3, <1>4, <1>5 DEF IInv, ListaInv, TypePcb, TypeListas,
     TypeTimer, TypeMem, Ajeno, SinCola, SinTimer
<1>13. ResidenciaInv'
  BY <1>1, <1>2, <1>3, <1>4, <1>5 DEF IInv, ResidenciaInv, TypePcb, TypeMem,
     Ajeno, SinCola, SinTimer
<1>14. ListoTrasVolcado'
  BY <1>1, <1>2, <1>3, <1>4, <1>5 DEF IInv, ListoTrasVolcado, TypePcb,
     TypeListas, TypePmp, TypeMem, Ajeno, SinCola, SinTimer
<1> QED BY <1>3, <1>6, <1>7, <1>8, <1>9, <1>10, <1>11, <1>12, <1>13, <1>14
      DEF IInv

\* The invariant survives memory's handlers that free segments:
\* ELIMINAR_SEGMENTO and FINALIZAR_PROCESO.
LEMMA PasoMemLiberar ==
  ASSUME IInv, NEW op \in Operaciones, NEW p \in Procs, MemLiberar(op, p)
  PROVE  IInv'
<1>1. /\ dueno # Nadie /\ ~atendido
      /\ pedido = [op |-> op, pid |-> p]
      /\ op \in {"ELIMINAR", "FINALIZAR"}
      /\ debe' = debe \/ debe' = [debe EXCEPT ![p] = FALSE]
      /\ UNCHANGED <<pcbVars, faseVars, listVars, sem, ioVars, timer,
                     workerVars, pmpVars>>
  BY DEF MemLiberar, Atiende
<1>2. PICK m \in {<<"OK">>, <<"OK", "LIBERADA">>} :
        /\ Responder(m)
        /\ mem' = [mem EXCEPT ![p] = "nada"]
  BY <1>1 DEF Avisos, MemLiberar
<1>3. /\ socket' \in Seq(Respuestas \union {"LIBERADA"}) /\ SocketInv'
      /\ \A k \in 1..Len(socket') : socket'[k] \in Respuestas =>
           socket'[k] = m[1]
  BY <1>1, <1>2, Contesta DEF IInv
<1>4. atendido' = TRUE /\ UNCHANGED <<dueno, pedido>>
  BY <1>2 DEF Responder
<1>5. estado[p] \in {"EXEC", "EXIT"}
  BY ZenonT(60), <1>1, Solicitante DEF IInv, FaseInv
<1>6. \A q \in Procs : debe'[q] => debe[q]
  BY <1>1 DEF IInv, TypeMem
<1>7. TypePcb' /\ TypeFase' /\ TypeListas' /\ TypeIO' /\ TypeTimer' /\
      TypeWorker' /\ TypePmp' /\ FaseInv' /\ ColaInv' /\ WorkerInv' /\
      VolcadoQuieto'
  BY <1>1, Marco
<1>8. TypeCanal'
  BY <1>1, <1>2, <1>3, <1>4, <1>5, <1>6 DEF IInv, TypeCanal
<1>9. TypeMem'
  BY <1>1, <1>2, <1>3, <1>4, <1>5, <1>6 DEF IInv, TypeMem
<1>10. CanalInv'
  BY <1>1, <1>2, <1>3, <1>4, <1>5, <1>6 DEF IInv, CanalInv, TypeFase,
     TypeTimer, TypeWorker, TypePmp, TypeCanal
<1>11. RespuestaInv'
  BY <1>1, <1>2, <1>3, <1>4, <1>5, <1>6 DEF IInv, RespuestaInv, TypeCanal,
     TypeMem
<1>12. PmpInv'
  BY <1>1, <1>2, <1>3, <1>4, <1>5, <1>6 DEF IInv, PmpInv, TypePcb, TypeFase,
     TypeListas, TypeWorker, TypePmp, TypeMem
<1>13. ListaInv'
  BY <1>1, <1>2, <1>3, <1>4, <1>5, <1>6 DEF IInv, ListaInv, TypePcb,
     TypeListas, TypeTimer, TypeMem
<1>14. DebeInv'
  BY <1>1, <1>2, <1>3, <1>4, <1>5, <1>6 DEF IInv, DebeInv, TypePcb,
     TypeWorker, TypeMem
<1>15. ResidenciaInv'
  BY <1>1, <1>2, <1>3, <1>4, <1>5, <1>6 DEF IInv, ResidenciaInv, TypePcb,
     TypeMem
<1>16. ListoTrasVolcado'
  BY <1>1, <1>2, <1>3, <1>4, <1>5, <1>6 DEF IInv, ListoTrasVolcado, TypePcb,
     TypeListas, TypePmp, TypeMem
<1> QED BY <1>3, <1>7, <1>8, <1>9, <1>10, <1>11, <1>12, <1>13, <1>14, <1>15,
      <1>16 DEF IInv

\* The invariant survives memory's LECTURA_MEMORIA and ESCRITURA_MEMORIA
\* handlers.
LEMMA PasoMemAcceder ==
  ASSUME IInv, NEW op \in Operaciones, NEW p \in Procs, MemAcceder(op, p)
  PROVE  IInv'
<1>1. /\ dueno # Nadie /\ ~atendido
      /\ pedido = [op |-> op, pid |-> p]
      /\ op \in {"LECTURA", "ESCRITURA"} /\ mem' = mem
      /\ debe' = debe \/ debe' = [debe EXCEPT ![p] = FALSE]
      /\ UNCHANGED <<pcbVars, faseVars, listVars, sem, ioVars, timer,
                     workerVars, pmpVars>>
  BY DEF MemAcceder, Atiende
<1>2. PICK m \in {<<"OK">>, <<"SEGFAULT">>} :
        /\ Responder(m)
        /\ m[1] = "OK" /\ op = "ESCRITURA" => debe' = [debe EXCEPT ![p] = FALSE]
  BY <1>1 DEF IInv, TypeMem, MemAcceder
<1>3. /\ socket' \in Seq(Respuestas \union {"LIBERADA"}) /\ SocketInv'
      /\ \A k \in 1..Len(socket') : socket'[k] \in Respuestas =>
           socket'[k] = m[1]
  BY <1>1, <1>2, Contesta DEF IInv
<1>4. atendido' = TRUE /\ UNCHANGED <<dueno, pedido>>
  BY <1>2 DEF Responder
<1>5. \A q \in Procs : debe'[q] => debe[q]
  BY <1>1 DEF IInv, TypeMem
<1>6. TypePcb' /\ TypeFase' /\ TypeListas' /\ TypeIO' /\ TypeTimer' /\
      TypeWorker' /\ TypePmp' /\ FaseInv' /\ ColaInv' /\ WorkerInv' /\
      PmpInv' /\ ListaInv' /\ ResidenciaInv' /\ VolcadoQuieto' /\
      ListoTrasVolcado'
  BY <1>1, Marco
<1>7. TypeCanal'
  BY <1>1, <1>2, <1>3, <1>4, <1>5 DEF IInv, TypeCanal
<1>8. TypeMem'
  BY <1>1, <1>2, <1>3, <1>4, <1>5 DEF IInv, TypeMem
<1>9. CanalInv'
  BY <1>1, <1>2, <1>3, <1>4, <1>5 DEF IInv, CanalInv, TypeFase, TypeTimer,
     TypeWorker, TypePmp, TypeCanal
<1>10. RespuestaInv'
  BY <1>1, <1>2, <1>3, <1>4, <1>5 DEF IInv, RespuestaInv, TypeCanal, TypeMem
<1>11. DebeInv'
  BY <1>1, <1>2, <1>3, <1>4, <1>5 DEF IInv, DebeInv, TypePcb, TypeWorker,
     TypeMem
<1> QED BY <1>3, <1>6, <1>7, <1>8, <1>9, <1>10, <1>11 DEF IInv

\* The invariant survives the long-term scheduler's admission of a
\* process.
LEMMA PasoAdmitir ==
  ASSUME IInv, NEW p \in Procs, Admitir(p)
  PROVE  IInv'
<1>1. Ajeno(p)
  BY EjecutableAjeno DEF Admitir
<1>2. mem[p] # "swap" /\ ~debe[p]
  BY DEF IInv, ResidenciaInv, DebeInv, Admitir
<1>3. TypeFase' /\ TypeListas' /\ TypeIO' /\ TypeTimer' /\ TypeWorker' /\
      TypePmp' /\ TypeCanal' /\ TypeMem' /\ CanalInv' /\ SocketInv' /\
      RespuestaInv' /\ ColaInv'
  BY Marco DEF Admitir
<1>4. TypePcb'
  BY <1>1, <1>2 DEF IInv, Admitir, TypePcb
<1>5. FaseInv'
  BY <1>1, <1>2 DEF IInv, Admitir, FaseInv, TypePcb, TypeFase, TypeListas,
     Ajeno, SinCola, SinTimer
<1>6. WorkerInv'
  BY <1>1, <1>2 DEF IInv, Admitir, WorkerInv, TypePcb, TypeFase, TypeListas,
     TypeIO, TypeWorker, Ajeno, SinCola, SinTimer
<1>7. PmpInv'
  BY <1>1, <1>2 DEF IInv, Admitir, PmpInv, TypePcb, TypeFase, TypeListas,
     TypeWorker, TypePmp, TypeMem, Ajeno, SinCola, SinTimer
<1>8. ListaInv'
  BY <1>1, <1>2 DEF IInv, Admitir, ListaInv, TypePcb, TypeListas, TypeTimer,
     TypeMem, Ajeno, SinCola, SinTimer
<1>9. DebeInv'
  BY <1>1, <1>2 DEF IInv, Admitir, DebeInv, TypePcb, TypeWorker, TypeMem,
     Ajeno, SinCola, SinTimer
<1>10. ResidenciaInv'
  BY <1>1, <1>2 DEF IInv, Admitir, ResidenciaInv, TypePcb, TypeMem, Ajeno,
     SinCola, SinTimer
<1>11. VolcadoQuieto'
  BY <1>1, <1>2 DEF IInv, Admitir, VolcadoQuieto, TypePcb, TypeListas,
     TypeTimer, Ajeno, SinCola, SinTimer
<1>12. ListoTrasVolcado'
  BY <1>1, <1>2 DEF IInv, Admitir, ListoTrasVolcado, TypePcb, TypeListas,
     TypePmp, TypeMem, Ajeno, SinCola, SinTimer
<1> QED BY <1>3, <1>4, <1>5, <1>6, <1>7, <1>8, <1>9, <1>10, <1>11, <1>12 DEF
      IInv

\* The invariant survives a dispatch.
LEMMA PasoDespachar ==
  ASSUME IInv, NEW p \in Procs, Despachar(p)
  PROVE  IInv'
<1>1. Ajeno(p)
  BY EjecutableAjeno DEF Despachar
<1>2. mem[p] # "swap" /\ ~debe[p]
  BY DEF IInv, ResidenciaInv, DebeInv, Despachar
<1>3. TypeFase' /\ TypeListas' /\ TypeIO' /\ TypeTimer' /\ TypeWorker' /\
      TypePmp' /\ TypeCanal' /\ TypeMem' /\ CanalInv' /\ SocketInv' /\
      RespuestaInv' /\ ColaInv'
  BY Marco DEF Despachar
<1>4. TypePcb'
  BY <1>1, <1>2 DEF IInv, Despachar, TypePcb
<1>5. FaseInv'
  BY <1>1, <1>2 DEF IInv, Despachar, FaseInv, TypePcb, TypeFase, TypeListas,
     Ajeno, SinCola, SinTimer
<1>6. WorkerInv'
  BY <1>1, <1>2 DEF IInv, Despachar, WorkerInv, TypePcb, TypeFase, TypeListas,
     TypeIO, TypeWorker, Ajeno, SinCola, SinTimer
<1>7. PmpInv'
  BY <1>1, <1>2 DEF IInv, Despachar, PmpInv, TypePcb, TypeFase, TypeListas,
     TypeWorker, TypePmp, TypeMem, Ajeno, SinCola, SinTimer
<1>8. ListaInv'
  BY <1>1, <1>2 DEF IInv, Despachar, ListaInv, TypePcb, TypeListas, TypeTimer,
     TypeMem, Ajeno, SinCola, SinTimer
<1>9. DebeInv'
  BY <1>1, <1>2 DEF IInv, Despachar, DebeInv, TypePcb, TypeWorker, TypeMem,
     Ajeno, SinCola, SinTimer
<1>10. ResidenciaInv'
  BY <1>1, <1>2 DEF IInv, Despachar, ResidenciaInv, TypePcb, TypeMem, Ajeno,
     SinCola, SinTimer
<1>11. VolcadoQuieto'
  BY <1>1, <1>2 DEF IInv, Despachar, VolcadoQuieto, TypePcb, TypeListas,
     TypeTimer, Ajeno, SinCola, SinTimer
<1>12. ListoTrasVolcado'
  BY <1>1, <1>2 DEF IInv, Despachar, ListoTrasVolcado, TypePcb, TypeListas,
     TypePmp, TypeMem, Ajeno, SinCola, SinTimer
<1> QED BY <1>3, <1>4, <1>5, <1>6, <1>7, <1>8, <1>9, <1>10, <1>11, <1>12 DEF
      IInv

\* The invariant survives a return to READY from a CPU.
LEMMA PasoDesalojar ==
  ASSUME IInv, NEW p \in Procs, Desalojar(p)
  PROVE  IInv'
<1>1. Ajeno(p)
  BY EjecutableAjeno DEF Desalojar, EnCpu
<1>2. mem[p] # "swap" /\ ~debe[p]
  BY DEF IInv, ResidenciaInv, DebeInv, Desalojar, EnCpu
<1>3. TypeFase' /\ TypeListas' /\ TypeIO' /\ TypeTimer' /\ TypeWorker' /\
      TypePmp' /\ TypeCanal' /\ TypeMem' /\ CanalInv' /\ SocketInv' /\
      RespuestaInv' /\ ColaInv'
  BY Marco DEF Desalojar, EnCpu
<1>4. TypePcb'
  BY <1>1, <1>2 DEF IInv, Desalojar, EnCpu, TypePcb
<1>5. FaseInv'
  BY <1>1, <1>2 DEF IInv, Desalojar, EnCpu, FaseInv, TypePcb, TypeFase,
     TypeListas, Ajeno, SinCola, SinTimer
<1>6. WorkerInv'
  BY <1>1, <1>2 DEF IInv, Desalojar, EnCpu, WorkerInv, TypePcb, TypeFase,
     TypeListas, TypeIO, TypeWorker, Ajeno, SinCola, SinTimer
<1>7. PmpInv'
  BY <1>1, <1>2 DEF IInv, Desalojar, EnCpu, PmpInv, TypePcb, TypeFase,
     TypeListas, TypeWorker, TypePmp, TypeMem, Ajeno, SinCola, SinTimer
<1>8. ListaInv'
  BY <1>1, <1>2 DEF IInv, Desalojar, EnCpu, ListaInv, TypePcb, TypeListas,
     TypeTimer, TypeMem, Ajeno, SinCola, SinTimer
<1>9. DebeInv'
  BY <1>1, <1>2 DEF IInv, Desalojar, EnCpu, DebeInv, TypePcb, TypeWorker,
     TypeMem, Ajeno, SinCola, SinTimer
<1>10. ResidenciaInv'
  BY <1>1, <1>2 DEF IInv, Desalojar, EnCpu, ResidenciaInv, TypePcb, TypeMem,
     Ajeno, SinCola, SinTimer
<1>11. VolcadoQuieto'
  BY <1>1, <1>2 DEF IInv, Desalojar, EnCpu, VolcadoQuieto, TypePcb,
     TypeListas, TypeTimer, Ajeno, SinCola, SinTimer
<1>12. ListoTrasVolcado'
  BY <1>1, <1>2 DEF IInv, Desalojar, EnCpu, ListoTrasVolcado, TypePcb,
     TypeListas, TypePmp, TypeMem, Ajeno, SinCola, SinTimer
<1> QED BY <1>3, <1>4, <1>5, <1>6, <1>7, <1>8, <1>9, <1>10, <1>11, <1>12 DEF
      IInv

\* The invariant survives the end of a program.
LEMMA PasoSalir ==
  ASSUME IInv, NEW p \in Procs, Salir(p)
  PROVE  IInv'
<1>1. Ajeno(p)
  BY EjecutableAjeno DEF Salir, EnCpu
<1>2. mem[p] # "swap" /\ ~debe[p]
  BY DEF IInv, ResidenciaInv, DebeInv, Salir, EnCpu
<1>3. TypeListas' /\ TypeIO' /\ TypeTimer' /\ TypeWorker' /\ TypePmp' /\
      TypeCanal' /\ TypeMem' /\ SocketInv' /\ RespuestaInv'
  BY Marco DEF Salir, EnCpu
<1>4. TypePcb'
  BY <1>1, <1>2 DEF IInv, Salir, EnCpu, TypePcb
<1>5. TypeFase'
  BY <1>1, <1>2 DEF IInv, Salir, EnCpu, TypeFase
<1>6. CanalInv'
  BY <1>1, <1>2 DEF IInv, Salir, EnCpu, CanalInv, TypeFase, TypeTimer,
     TypeWorker, TypePmp, TypeCanal, Ajeno, SinCola, SinTimer
<1>7. FaseInv'
  BY <1>1, <1>2 DEF IInv, Salir, EnCpu, FaseInv, TypePcb, TypeFase,
     TypeListas, Ajeno, SinCola, SinTimer
<1>8. ColaInv'
  BY <1>1, <1>2 DEF IInv, Salir, EnCpu, ColaInv, TypeFase, TypeListas, Ajeno,
     SinCola, SinTimer
<1>9. WorkerInv'
  BY <1>1, <1>2 DEF IInv, Salir, EnCpu, WorkerInv, TypePcb, TypeFase,
     TypeListas, TypeIO, TypeWorker, Ajeno, SinCola, SinTimer
<1>10. PmpInv'
  BY <1>1, <1>2 DEF IInv, Salir, EnCpu, PmpInv, TypePcb, TypeFase, TypeListas,
     TypeWorker, TypePmp, TypeMem, Ajeno, SinCola, SinTimer
<1>11. ListaInv'
  BY <1>1, <1>2 DEF IInv, Salir, EnCpu, ListaInv, TypePcb, TypeListas,
     TypeTimer, TypeMem, Ajeno, SinCola, SinTimer
<1>12. DebeInv'
  BY <1>1, <1>2 DEF IInv, Salir, EnCpu, DebeInv, TypePcb, TypeWorker, TypeMem,
     Ajeno, SinCola, SinTimer
<1>13. ResidenciaInv'
  BY <1>1, <1>2 DEF IInv, Salir, EnCpu, ResidenciaInv, TypePcb, TypeMem,
     Ajeno, SinCola, SinTimer
<1>14. VolcadoQuieto'
  BY <1>1, <1>2 DEF IInv, Salir, EnCpu, VolcadoQuieto, TypePcb, TypeListas,
     TypeTimer, Ajeno, SinCola, SinTimer
<1>15. ListoTrasVolcado'
  BY <1>1, <1>2 DEF IInv, Salir, EnCpu, ListoTrasVolcado, TypePcb, TypeListas,
     TypePmp, TypeMem, Ajeno, SinCola, SinTimer
<1> QED BY <1>3, <1>4, <1>5, <1>6, <1>7, <1>8, <1>9, <1>10, <1>11, <1>12,
      <1>13, <1>14, <1>15 DEF IInv

\* The invariant survives the start of MEM_ALLOC or MEM_FREE.
LEMMA PasoSyscallMemoria ==
  ASSUME IInv, NEW p \in Procs, NEW op \in Operaciones, SyscallMemoria(p, op)
  PROVE  IInv'
<1>1. Ajeno(p)
  BY EjecutableAjeno DEF SyscallMemoria, EnCpu
<1>2. mem[p] # "swap" /\ ~debe[p]
  BY DEF IInv, ResidenciaInv, DebeInv, SyscallMemoria, EnCpu
<1>3. TypePcb' /\ TypeListas' /\ TypeIO' /\ TypeTimer' /\ TypeWorker' /\
      TypePmp' /\ TypeCanal' /\ TypeMem' /\ SocketInv' /\
      RespuestaInv' /\ ListaInv' /\ DebeInv' /\ ResidenciaInv' /\
      VolcadoQuieto' /\ ListoTrasVolcado'
  BY Marco DEF SyscallMemoria, EnCpu
<1>4. TypeFase'
  BY <1>1, <1>2 DEF IInv, SyscallMemoria, EnCpu, TypeFase
<1>5. CanalInv'
  BY <1>1, <1>2 DEF IInv, SyscallMemoria, EnCpu, CanalInv, TypeFase,
     TypeTimer, TypeWorker, TypePmp, TypeCanal, Ajeno, SinCola, SinTimer
<1>6. FaseInv'
  BY <1>1, <1>2 DEF IInv, SyscallMemoria, EnCpu, FaseInv, TypePcb, TypeFase,
     TypeListas, Ajeno, SinCola, SinTimer
<1>7. ColaInv'
  BY <1>1, <1>2 DEF IInv, SyscallMemoria, EnCpu, ColaInv, TypeFase,
     TypeListas, Ajeno, SinCola, SinTimer
<1>8. WorkerInv'
  BY <1>1, <1>2 DEF IInv, SyscallMemoria, EnCpu, WorkerInv, TypePcb, TypeFase,
     TypeListas, TypeIO, TypeWorker, Ajeno, SinCola, SinTimer
<1>9. PmpInv'
  BY <1>1, <1>2 DEF IInv, SyscallMemoria, EnCpu, PmpInv, TypePcb, TypeFase,
     TypeListas, TypeWorker, TypePmp, TypeMem, Ajeno, SinCola, SinTimer
<1> QED BY <1>3, <1>4, <1>5, <1>6, <1>7, <1>8, <1>9 DEF IInv

\* The invariant survives the start of an I/O syscall with an active
\* interface.
LEMMA PasoSyscallIO ==
  ASSUME IInv, NEW p \in Procs, NEW i \in Ios, SyscallIO(p, i)
  PROVE  IInv'
<1>1. Ajeno(p)
  BY EjecutableAjeno DEF SyscallIO, EnCpu
<1>2. mem[p] # "swap" /\ ~debe[p]
  BY DEF IInv, ResidenciaInv, DebeInv, SyscallIO, EnCpu
<1>3. TypePcb' /\ TypeListas' /\ TypeIO' /\ TypeTimer' /\ TypeWorker' /\
      TypePmp' /\ TypeCanal' /\ TypeMem' /\ SocketInv' /\
      RespuestaInv' /\ ListaInv' /\ DebeInv' /\ ResidenciaInv' /\
      VolcadoQuieto' /\ ListoTrasVolcado'
  BY Marco DEF SyscallIO, EnCpu
<1>4. TypeFase'
  BY <1>1, <1>2 DEF IInv, SyscallIO, EnCpu, TypeFase
<1>5. CanalInv'
  BY <1>1, <1>2 DEF IInv, SyscallIO, EnCpu, CanalInv, TypeFase, TypeTimer,
     TypeWorker, TypePmp, TypeCanal, Ajeno, SinCola, SinTimer
<1>6. FaseInv'
  BY <1>1, <1>2 DEF IInv, SyscallIO, EnCpu, FaseInv, TypePcb, TypeFase,
     TypeListas, Ajeno, SinCola, SinTimer
<1>7. ColaInv'
  BY <1>1, <1>2 DEF IInv, SyscallIO, EnCpu, ColaInv, TypeFase, TypeListas,
     Ajeno, SinCola, SinTimer
<1>8. WorkerInv'
  BY <1>1, <1>2 DEF IInv, SyscallIO, EnCpu, WorkerInv, TypePcb, TypeFase,
     TypeListas, TypeIO, TypeWorker, Ajeno, SinCola, SinTimer
<1>9. PmpInv'
  BY <1>1, <1>2 DEF IInv, SyscallIO, EnCpu, PmpInv, TypePcb, TypeFase,
     TypeListas, TypeWorker, TypePmp, TypeMem, Ajeno, SinCola, SinTimer
<1> QED BY <1>3, <1>4, <1>5, <1>6, <1>7, <1>8, <1>9 DEF IInv

\* The invariant survives an I/O syscall that found no interface.
LEMMA PasoSyscallSinInterfaz ==
  ASSUME IInv, NEW p \in Procs, NEW i \in Ios, SyscallSinInterfaz(p, i)
  PROVE  IInv'
<1>1. Ajeno(p)
  BY EjecutableAjeno DEF SyscallSinInterfaz, EnCpu
<1>2. mem[p] # "swap" /\ ~debe[p]
  BY DEF IInv, ResidenciaInv, DebeInv, SyscallSinInterfaz, EnCpu
<1>3. TypeFase' /\ TypeListas' /\ TypeIO' /\ TypeTimer' /\ TypeWorker' /\
      TypePmp' /\ TypeCanal' /\ TypeMem' /\ CanalInv' /\ SocketInv' /\
      RespuestaInv' /\ ColaInv'
  BY Marco DEF SyscallSinInterfaz, EnCpu
<1>4. TypePcb'
  BY <1>1, <1>2 DEF IInv, SyscallSinInterfaz, EnCpu, TypePcb
<1>5. FaseInv'
  BY <1>1, <1>2 DEF IInv, SyscallSinInterfaz, EnCpu, FaseInv, TypePcb,
     TypeFase, TypeListas, Ajeno, SinCola, SinTimer
<1>6. WorkerInv'
  BY <1>1, <1>2 DEF IInv, SyscallSinInterfaz, EnCpu, WorkerInv, TypePcb,
     TypeFase, TypeListas, TypeIO, TypeWorker, Ajeno, SinCola, SinTimer
<1>7. PmpInv'
  BY <1>1, <1>2 DEF IInv, SyscallSinInterfaz, EnCpu, PmpInv, TypePcb,
     TypeFase, TypeListas, TypeWorker, TypePmp, TypeMem, Ajeno, SinCola,
     SinTimer
<1>8. ListaInv'
  BY <1>1, <1>2 DEF IInv, SyscallSinInterfaz, EnCpu, ListaInv, TypePcb,
     TypeListas, TypeTimer, TypeMem, Ajeno, SinCola, SinTimer
<1>9. DebeInv'
  BY <1>1, <1>2 DEF IInv, SyscallSinInterfaz, EnCpu, DebeInv, TypePcb,
     TypeWorker, TypeMem, Ajeno, SinCola, SinTimer
<1>10. ResidenciaInv'
  BY <1>1, <1>2 DEF IInv, SyscallSinInterfaz, EnCpu, ResidenciaInv, TypePcb,
     TypeMem, Ajeno, SinCola, SinTimer
<1>11. VolcadoQuieto'
  BY <1>1, <1>2 DEF IInv, SyscallSinInterfaz, EnCpu, VolcadoQuieto, TypePcb,
     TypeListas, TypeTimer, Ajeno, SinCola, SinTimer
<1>12. ListoTrasVolcado'
  BY <1>1, <1>2 DEF IInv, SyscallSinInterfaz, EnCpu, ListoTrasVolcado,
     TypePcb, TypeListas, TypePmp, TypeMem, Ajeno, SinCola, SinTimer
<1> QED BY <1>3, <1>4, <1>5, <1>6, <1>7, <1>8, <1>9, <1>10, <1>11, <1>12 DEF
      IInv

\* The invariant survives a MUTEX_LOCK that blocks.
LEMMA PasoBloquearEnMutex ==
  ASSUME IInv, NEW p \in Procs, BloquearEnMutex(p)
  PROVE  IInv'
<1>1. Ajeno(p)
  BY EjecutableAjeno DEF BloquearEnMutex, EnCpu
<1>2. mem[p] # "swap" /\ ~debe[p]
  BY DEF IInv, ResidenciaInv, DebeInv, BloquearEnMutex, EnCpu
<1>3. TypeListas' /\ TypeIO' /\ TypeTimer' /\ TypeWorker' /\ TypePmp' /\
      TypeCanal' /\ TypeMem' /\ SocketInv' /\ RespuestaInv'
  BY Marco DEF BloquearEnMutex, EnCpu
<1>4. TypePcb'
  BY <1>1, <1>2 DEF IInv, BloquearEnMutex, EnCpu, TypePcb
<1>5. TypeFase'
  BY <1>1, <1>2 DEF IInv, BloquearEnMutex, EnCpu, TypeFase
<1>7. CanalInv'
  BY <1>1, <1>2 DEF IInv, BloquearEnMutex, EnCpu, CanalInv, TypeFase,
     TypeTimer, TypeWorker, TypePmp, TypeCanal, Ajeno, SinCola, SinTimer
<1>8. FaseInv'
  BY <1>1, <1>2 DEF IInv, BloquearEnMutex, EnCpu, FaseInv, TypePcb, TypeFase,
     TypeListas, Ajeno, SinCola, SinTimer
<1>9. ColaInv'
  BY <1>1, <1>2 DEF IInv, BloquearEnMutex, EnCpu, ColaInv, TypeFase,
     TypeListas, Ajeno, SinCola, SinTimer
<1>10. WorkerInv'
  BY <1>1, <1>2 DEF IInv, BloquearEnMutex, EnCpu, WorkerInv, TypePcb,
     TypeFase, TypeListas, TypeIO, TypeWorker, Ajeno, SinCola, SinTimer
<1>11. PmpInv'
  BY <1>1, <1>2 DEF IInv, BloquearEnMutex, EnCpu, PmpInv, TypePcb, TypeFase,
     TypeListas, TypeWorker, TypePmp, TypeMem, Ajeno, SinCola, SinTimer
<1>12. ListaInv'
  BY <1>1, <1>2 DEF IInv, BloquearEnMutex, EnCpu, ListaInv, TypePcb,
     TypeListas, TypeTimer, TypeMem, Ajeno, SinCola, SinTimer
<1>13. DebeInv'
  BY <1>1, <1>2 DEF IInv, BloquearEnMutex, EnCpu, DebeInv, TypePcb,
     TypeWorker, TypeMem, Ajeno, SinCola, SinTimer
<1>14. ResidenciaInv'
  BY <1>1, <1>2 DEF IInv, BloquearEnMutex, EnCpu, ResidenciaInv, TypePcb,
     TypeMem, Ajeno, SinCola, SinTimer
<1>15. VolcadoQuieto'
  BY <1>1, <1>2 DEF IInv, BloquearEnMutex, EnCpu, VolcadoQuieto, TypePcb,
     TypeListas, TypeTimer, Ajeno, SinCola, SinTimer
<1>16. ListoTrasVolcado'
  BY <1>1, <1>2 DEF IInv, BloquearEnMutex, EnCpu, ListoTrasVolcado, TypePcb,
     TypeListas, TypePmp, TypeMem, Ajeno, SinCola, SinTimer
<1> QED BY <1>3, <1>4, <1>5, <1>7, <1>8, <1>9, <1>10, <1>11, <1>12,
      <1>13, <1>14, <1>15, <1>16 DEF IInv

\* The invariant survives a receptor that counts a mutex episode late, even
\* while another timer is dumping the process to swap.
LEMMA PasoCuentaEpisodio ==
  ASSUME IInv, NEW p \in Procs, CuentaEpisodio(p)
  PROVE  IInv'
<1>1. TypeFase' /\ TypeListas' /\ TypeIO' /\ TypeWorker' /\ TypePmp' /\
      TypeCanal' /\ TypeMem' /\ SocketInv' /\ RespuestaInv' /\ ColaInv' /\
      WorkerInv' /\ PmpInv' /\ DebeInv' /\ ResidenciaInv' /\ ListoTrasVolcado'
  BY Marco DEF CuentaEpisodio
<1>2. /\ epoch[p] \in 0..MaxEpoch /\ atrasado[p] \in Nat /\ atrasado[p] > 0
      /\ epoch[p] + atrasado[p] <= MaxEpoch
  BY DEF IInv, TypePcb, FaseInv, CuentaEpisodio
<1>3. epoch[p] + 1 \in Epocas
  BY <1>2
<1>4. TypePcb'
  BY <1>2 DEF IInv, TypePcb, CuentaEpisodio
<1>5. TypeTimer'
  BY <1>3 DEF IInv, TypeTimer, CuentaEpisodio
<1>6. \A q \in Procs : \A e \in Epocas :
        IF q = p /\ e = epoch[p] + 1
        THEN timer[q][e] \notin Volcando /\ timer'[q][e] = "duerme"
        ELSE timer'[q][e] = timer[q][e]
  <2>1. timer[p][epoch[p] + 1] \notin Volcando
    BY <1>2, <1>3 DEF IInv, VolcadoQuieto
  <2> QED BY <1>3, <2>1 DEF IInv, TypeTimer, CuentaEpisodio
<1>7. UNCHANGED <<estado, enSwap, fase, block, lista, mem, entrada, wpc, wpid,
                  ppc, pp, dueno, pedido, atendido>>
  BY DEF CuentaEpisodio
<1>8. /\ epoch'[p] = epoch[p] + 1 /\ atrasado'[p] = atrasado[p] - 1
      /\ \A q \in Procs \ {p} : epoch'[q] = epoch[q] /\ atrasado'[q] = atrasado[q]
  BY DEF IInv, TypePcb, CuentaEpisodio
<1>9. CanalInv'
  BY <1>6, <1>7 DEF IInv, CanalInv
<1>10. FaseInv'
  BY <1>2, <1>7, <1>8 DEF IInv, FaseInv, TypePcb
<1>11. ListaInv'
  BY <1>6, <1>7 DEF IInv, ListaInv
<1>12. VolcadoQuieto'
  <2> SUFFICES ASSUME NEW q \in Procs, NEW e \in Epocas, timer'[q][e] \in Volcando
               PROVE  /\ estado[q] = "SUSP_BLOCK" /\ q \in block /\ ~enSwap[q]
                      /\ entrada[q] <= e /\ e <= epoch'[q]
                      /\ \A f \in Epocas : timer'[q][f] \in Volcando => f = e
    BY <1>7 DEF VolcadoQuieto
  <2>1. timer'[q][e] = timer[q][e]
    BY <1>6
  <2>2. /\ estado[q] = "SUSP_BLOCK" /\ q \in block /\ ~enSwap[q]
        /\ entrada[q] <= e /\ e <= epoch[q]
        /\ \A f \in Epocas : timer[q][f] \in Volcando => f = e
    BY <2>1 DEF IInv, VolcadoQuieto
  <2>3. e <= epoch'[q]
    BY <1>2, <1>8, <2>2
  <2>4. \A f \in Epocas : timer'[q][f] \in Volcando => timer[q][f] \in Volcando
    BY <1>6
  <2> QED BY <2>2, <2>3, <2>4
<1> QED BY <1>1, <1>4, <1>5, <1>9, <1>10, <1>11, <1>12 DEF IInv

\* The invariant survives the wake-up of a mutex waiter.
LEMMA PasoDesbloquearDeMutex ==
  ASSUME IInv, NEW p \in Procs, DesbloquearDeMutex(p)
  PROVE  IInv'
<1>1. Ajeno(p)
  BY EjecutableAjeno DEF DesbloquearDeMutex
<1>2. mem[p] # "swap" /\ ~debe[p]
  BY <1>1 DEF IInv, ResidenciaInv, DebeInv, FaseInv, Ajeno, DesbloquearDeMutex
<1>3. TypeListas' /\ TypeIO' /\ TypeTimer' /\ TypeWorker' /\ TypePmp' /\
      TypeCanal' /\ TypeMem' /\ SocketInv' /\ RespuestaInv'
  BY Marco DEF DesbloquearDeMutex
<1>4. TypePcb'
  BY <1>1, <1>2 DEF IInv, DesbloquearDeMutex, TypePcb
<1>5. TypeFase'
  BY <1>1, <1>2 DEF IInv, DesbloquearDeMutex, TypeFase
<1>6. CanalInv'
  BY <1>1, <1>2 DEF IInv, DesbloquearDeMutex, CanalInv, TypeFase, TypeTimer,
     TypeWorker, TypePmp, TypeCanal, Ajeno, SinCola, SinTimer
<1>7. FaseInv'
  BY <1>1, <1>2 DEF IInv, DesbloquearDeMutex, FaseInv, TypePcb, TypeFase,
     TypeListas, Ajeno, SinCola, SinTimer
<1>8. ColaInv'
  BY <1>1, <1>2 DEF IInv, DesbloquearDeMutex, ColaInv, TypeFase, TypeListas,
     Ajeno, SinCola, SinTimer
<1>9. WorkerInv'
  BY <1>1, <1>2 DEF IInv, DesbloquearDeMutex, WorkerInv, TypePcb, TypeFase,
     TypeListas, TypeIO, TypeWorker, Ajeno, SinCola, SinTimer
<1>10. PmpInv'
  BY <1>1, <1>2 DEF IInv, DesbloquearDeMutex, PmpInv, TypePcb, TypeFase,
     TypeListas, TypeWorker, TypePmp, TypeMem, Ajeno, SinCola, SinTimer
<1>11. ListaInv'
  BY <1>1, <1>2 DEF IInv, DesbloquearDeMutex, ListaInv, TypePcb, TypeListas,
     TypeTimer, TypeMem, Ajeno, SinCola, SinTimer
<1>12. DebeInv'
  BY <1>1, <1>2 DEF IInv, DesbloquearDeMutex, DebeInv, TypePcb, TypeWorker,
     TypeMem, Ajeno, SinCola, SinTimer
<1>13. ResidenciaInv'
  BY <1>1, <1>2 DEF IInv, DesbloquearDeMutex, ResidenciaInv, TypePcb, TypeMem,
     Ajeno, SinCola, SinTimer
<1>14. VolcadoQuieto'
  BY <1>1, <1>2 DEF IInv, DesbloquearDeMutex, VolcadoQuieto, TypePcb,
     TypeListas, TypeTimer, Ajeno, SinCola, SinTimer
<1>15. ListoTrasVolcado'
  BY <1>1, <1>2 DEF IInv, DesbloquearDeMutex, ListoTrasVolcado, TypePcb,
     TypeListas, TypePmp, TypeMem, Ajeno, SinCola, SinTimer
<1> QED BY <1>3, <1>4, <1>5, <1>6, <1>7, <1>8, <1>9, <1>10, <1>11, <1>12,
      <1>13, <1>14, <1>15 DEF IInv

\* The invariant survives a receptor thread taking the channel.
LEMMA PasoReceptorPide ==
  ASSUME IInv, NEW p \in Procs, ReceptorPide(p)
  PROVE  IInv'
<1>1. /\ Enviar(Receptor(p), fase[p], p)
      /\ fase[p] \in {"LECTURA", "SOLICITAR", "ELIMINAR", "FINALIZAR"}
  BY DEF IInv, TypeFase, ReceptorPide
<1>2. TypeCanal' /\ SocketInv' /\ RespuestaInv'
      /\ dueno' = Receptor(p) /\ pedido' = Pedido(fase[p], p)
  BY <1>1, Enviado
<1>3. TypePcb' /\ TypeFase' /\ TypeListas' /\ TypeIO' /\ TypeTimer' /\
      TypeWorker' /\ TypePmp' /\ TypeMem' /\ SocketInv' /\ FaseInv' /\
      ColaInv' /\ WorkerInv' /\ PmpInv' /\ ListaInv' /\ DebeInv' /\
      ResidenciaInv' /\ VolcadoQuieto' /\ ListoTrasVolcado'
  BY Marco DEF ReceptorPide, Enviar
<1>4. CanalInv'
  BY <1>1, <1>2 DEF IInv, ReceptorPide, CanalInv, TypeFase, TypeTimer,
     TypeWorker, TypePmp, TypeCanal
<1> QED BY <1>2, <1>3, <1>4 DEF IInv

\* The invariant survives a receptor thread reading OK.
LEMMA PasoReceptorSigue ==
  ASSUME IInv, NEW p \in Procs, ReceptorSigue(p)
  PROVE  IInv'
<1>1. Recibir(Receptor(p), "OK")
  BY DEF ReceptorSigue
<1>2. TypeCanal' /\ CanalInv' /\ SocketInv' /\ RespuestaInv'
  BY <1>1, Recibida
<1>3. fase[p] \in {"LECTURA", "SOLICITAR", "ELIMINAR", "FINALIZAR"}
  BY <1>1, Recibida DEF IInv, CanalInv
<1>4. Ajeno(p)
  BY <1>3, EjecutableAjeno
<1>5. IF fase[p] = "FINALIZAR" THEN estado[p] = "EXIT"
      ELSE estado[p] = "EXEC"
  BY <1>3 DEF IInv, FaseInv
<1>6. TypeListas' /\ TypeIO' /\ TypeTimer' /\ TypeWorker' /\ TypePmp' /\
      TypeMem'
  BY Marco DEF ReceptorSigue, Recibir
<1>7. TypePcb'
  BY <1>2, <1>3, <1>4, <1>5 DEF IInv, ReceptorSigue, TypePcb
<1>8. TypeFase'
  BY <1>2, <1>3, <1>4, <1>5 DEF IInv, ReceptorSigue, TypeFase
<1>9. FaseInv'
  BY <1>2, <1>3, <1>4, <1>5 DEF IInv, ReceptorSigue, FaseInv, TypePcb,
     TypeFase, TypeListas, Ajeno, SinCola, SinTimer
<1>10. ColaInv'
  BY <1>2, <1>3, <1>4, <1>5 DEF IInv, ReceptorSigue, ColaInv, TypeFase,
     TypeListas, Ajeno, SinCola, SinTimer
<1>11. WorkerInv'
  BY <1>2, <1>3, <1>4, <1>5 DEF IInv, ReceptorSigue, WorkerInv, TypePcb,
     TypeFase, TypeListas, TypeIO, TypeWorker, Ajeno, SinCola, SinTimer
<1>12. PmpInv'
  BY <1>2, <1>3, <1>4, <1>5 DEF IInv, ReceptorSigue, PmpInv, TypePcb,
     TypeFase, TypeListas, TypeWorker, TypePmp, TypeMem, Ajeno, SinCola,
     SinTimer
<1>13. ListaInv'
  BY <1>2, <1>3, <1>4, <1>5 DEF IInv, ReceptorSigue, ListaInv, TypePcb,
     TypeListas, TypeTimer, TypeMem, Ajeno, SinCola, SinTimer
<1>14. DebeInv'
  BY <1>2, <1>3, <1>4, <1>5 DEF IInv, ReceptorSigue, DebeInv, TypePcb,
     TypeWorker, TypeMem, Ajeno, SinCola, SinTimer
<1>15. ResidenciaInv'
  BY <1>2, <1>3, <1>4, <1>5 DEF IInv, ReceptorSigue, ResidenciaInv, TypePcb,
     TypeMem, Ajeno, SinCola, SinTimer
<1>16. VolcadoQuieto'
  BY <1>2, <1>3, <1>4, <1>5 DEF IInv, ReceptorSigue, VolcadoQuieto, TypePcb,
     TypeListas, TypeTimer, Ajeno, SinCola, SinTimer
<1>17. ListoTrasVolcado'
  BY <1>2, <1>3, <1>4, <1>5 DEF IInv, ReceptorSigue, ListoTrasVolcado,
     TypePcb, TypeListas, TypePmp, TypeMem, Ajeno, SinCola, SinTimer
<1> QED BY <1>2, <1>6, <1>7, <1>8, <1>9, <1>10, <1>11, <1>12, <1>13, <1>14,
      <1>15, <1>16, <1>17 DEF IInv

\* The invariant survives a receptor thread reading SEGMENTATION_FAULT.
LEMMA PasoReceptorFalla ==
  ASSUME IInv, NEW p \in Procs, ReceptorFalla(p)
  PROVE  IInv'
<1>1. Recibir(Receptor(p), "SEGFAULT")
  BY DEF ReceptorFalla
<1>2. TypeCanal' /\ CanalInv' /\ SocketInv' /\ RespuestaInv'
  BY <1>1, Recibida
<1>3. fase[p] \in {"LECTURA", "SOLICITAR", "ELIMINAR", "FINALIZAR"}
  BY <1>1, Recibida DEF IInv, CanalInv
<1>4. Ajeno(p)
  BY <1>3, EjecutableAjeno
<1>5. IF fase[p] = "FINALIZAR" THEN estado[p] = "EXIT"
      ELSE estado[p] = "EXEC"
  BY <1>3 DEF IInv, FaseInv
<1>6. TypeIO' /\ TypeTimer' /\ TypeWorker' /\ TypePmp' /\ TypeMem'
  BY Marco DEF ReceptorFalla, Recibir
<1>7. TypePcb'
  BY <1>2, <1>3, <1>4, <1>5 DEF IInv, ReceptorFalla, TypePcb
<1>8. TypeFase'
  BY <1>2, <1>3, <1>4, <1>5 DEF IInv, ReceptorFalla, TypeFase
<1>9. TypeListas'
  BY <1>2, <1>3, <1>4, <1>5 DEF IInv, ReceptorFalla, TypeListas
<1>10. FaseInv'
  BY <1>2, <1>3, <1>4, <1>5 DEF IInv, ReceptorFalla, FaseInv, TypePcb,
     TypeFase, TypeListas, Ajeno, SinCola, SinTimer
<1>11. ColaInv'
  BY <1>2, <1>3, <1>4, <1>5 DEF IInv, ReceptorFalla, ColaInv, TypeFase,
     TypeListas, Ajeno, SinCola, SinTimer
<1>12. WorkerInv'
  BY <1>2, <1>3, <1>4, <1>5 DEF IInv, ReceptorFalla, WorkerInv, TypePcb,
     TypeFase, TypeListas, TypeIO, TypeWorker, Ajeno, SinCola, SinTimer
<1>13. PmpInv'
  BY <1>2, <1>3, <1>4, <1>5 DEF IInv, ReceptorFalla, PmpInv, TypePcb,
     TypeFase, TypeListas, TypeWorker, TypePmp, TypeMem, Ajeno, SinCola,
     SinTimer
<1>14. ListaInv'
  BY <1>2, <1>3, <1>4, <1>5 DEF IInv, ReceptorFalla, ListaInv, TypePcb,
     TypeListas, TypeTimer, TypeMem, Ajeno, SinCola, SinTimer
<1>15. DebeInv'
  BY <1>2, <1>3, <1>4, <1>5 DEF IInv, ReceptorFalla, DebeInv, TypePcb,
     TypeWorker, TypeMem, Ajeno, SinCola, SinTimer
<1>16. ResidenciaInv'
  BY <1>2, <1>3, <1>4, <1>5 DEF IInv, ReceptorFalla, ResidenciaInv, TypePcb,
     TypeMem, Ajeno, SinCola, SinTimer
<1>17. VolcadoQuieto'
  BY <1>2, <1>3, <1>4, <1>5 DEF IInv, ReceptorFalla, VolcadoQuieto, TypePcb,
     TypeListas, TypeTimer, Ajeno, SinCola, SinTimer
<1>18. ListoTrasVolcado'
  BY <1>2, <1>3, <1>4, <1>5 DEF IInv, ReceptorFalla, ListoTrasVolcado,
     TypePcb, TypeListas, TypePmp, TypeMem, Ajeno, SinCola, SinTimer
<1> QED BY <1>2, <1>6, <1>7, <1>8, <1>9, <1>10, <1>11, <1>12, <1>13, <1>14,
      <1>15, <1>16, <1>17, <1>18 DEF IInv

\* The invariant survives the first half of encolar_io_request, which
\* starts a BLOCK episode and its timer.
LEMMA PasoEncolarBloquea ==
  ASSUME IInv, NEW p \in Procs, EncolarBloquea(p)
  PROVE  IInv'
<1>1. Ajeno(p)
  BY EjecutableAjeno DEF EncolarBloquea
<1>2. /\ estado[p] = "EXEC" /\ epoch[p] + atrasado[p] < MaxEpoch
      /\ mem[p] # "swap" /\ ~debe[p]
  BY DEF IInv, FaseInv, ResidenciaInv, DebeInv, EncolarBloquea
<1>3. TypeIO' /\ TypeWorker' /\ TypePmp' /\ TypeCanal' /\ TypeMem' /\
      SocketInv' /\ RespuestaInv'
  BY Marco DEF EncolarBloquea
<1>4. TypePcb'
  BY <1>1, <1>2 DEF IInv, EncolarBloquea, TypePcb
<1>5. TypeFase'
  BY <1>1, <1>2 DEF IInv, EncolarBloquea, TypeFase
<1>6. TypeListas'
  BY <1>1, <1>2 DEF IInv, EncolarBloquea, TypeListas
<1>7. TypeTimer'
  BY <1>1, <1>2 DEF IInv, EncolarBloquea, TypeTimer
<1>8. CanalInv'
  BY <1>1, <1>2 DEF IInv, EncolarBloquea, CanalInv, TypeFase, TypeTimer,
     TypeWorker, TypePmp, TypeCanal, Ajeno, SinCola, SinTimer
<1>9. FaseInv'
  BY <1>1, <1>2 DEF IInv, EncolarBloquea, FaseInv, TypePcb, TypeFase,
     TypeListas, Ajeno, SinCola, SinTimer
<1>10. ColaInv'
  BY <1>1, <1>2 DEF IInv, EncolarBloquea, ColaInv, TypeFase, TypeListas,
     Ajeno, SinCola, SinTimer
<1>11. WorkerInv'
  BY <1>1, <1>2 DEF IInv, EncolarBloquea, WorkerInv, TypePcb, TypeFase,
     TypeListas, TypeIO, TypeWorker, Ajeno, SinCola, SinTimer
<1>12. PmpInv'
  BY <1>1, <1>2 DEF IInv, EncolarBloquea, PmpInv, TypePcb, TypeFase,
     TypeListas, TypeWorker, TypePmp, TypeMem, Ajeno, SinCola, SinTimer
<1>13. ListaInv'
  BY <1>1, <1>2 DEF IInv, EncolarBloquea, ListaInv, TypePcb, TypeListas,
     TypeTimer, TypeMem, Ajeno, SinCola, SinTimer
<1>14. DebeInv'
  BY <1>1, <1>2 DEF IInv, EncolarBloquea, DebeInv, TypePcb, TypeWorker,
     TypeMem, Ajeno, SinCola, SinTimer
<1>15. ResidenciaInv'
  BY <1>1, <1>2 DEF IInv, EncolarBloquea, ResidenciaInv, TypePcb, TypeMem,
     Ajeno, SinCola, SinTimer
<1>16. VolcadoQuieto'
  BY <1>1, <1>2 DEF IInv, EncolarBloquea, VolcadoQuieto, TypePcb, TypeListas,
     TypeTimer, Ajeno, SinCola, SinTimer
<1>17. ListoTrasVolcado'
  BY <1>1, <1>2 DEF IInv, EncolarBloquea, ListoTrasVolcado, TypePcb,
     TypeListas, TypePmp, TypeMem, Ajeno, SinCola, SinTimer
<1> QED BY <1>3, <1>4, <1>5, <1>6, <1>7, <1>8, <1>9, <1>10, <1>11, <1>12,
      <1>13, <1>14, <1>15, <1>16, <1>17 DEF IInv

\* The invariant survives the second half of encolar_io_request, which
\* pushes the request.
LEMMA PasoEncolarPedido ==
  ASSUME IInv, NEW p \in Procs, EncolarPedido(p)
  PROVE  IInv'
<1>1. SinCola(p)
  BY DEF IInv, ColaInv, SinCola, EncolarPedido
<1>2. \A i \in Ios : wpid[i] # p
  BY DEF IInv, WorkerInv, EncolarPedido
<1>3. p \in block /\ SinCola(p) /\ \A i \in Ios : wpid[i] # p
  BY <1>1, <1>2 DEF IInv, FaseInv, EncolarPedido
<1>4. \A j \in Ios : Append(cola[j], p) \in Seq(Procs)
  BY DEF IInv, TypeIO
<1>5. TypeIO'
  BY <1>4 DEF IInv, TypeIO, EncolarPedido
<1>6. \A j \in Ios : \A k \in 1..Len(cola'[j]) :
        \/ k \in 1..Len(cola[j]) /\ cola'[j][k] = cola[j][k]
        \/ j = destino[p] /\ k = Len(cola[j]) + 1 /\ cola'[j][k] = p
  BY DEF IInv, TypeIO, EncolarPedido
<1>7. TypePcb' /\ TypeListas' /\ TypeTimer' /\ TypeWorker' /\ TypePmp' /\
      TypeCanal' /\ TypeMem' /\ SocketInv' /\ RespuestaInv' /\
      ListaInv' /\ DebeInv' /\ ResidenciaInv' /\ VolcadoQuieto' /\
      ListoTrasVolcado'
  BY Marco DEF EncolarPedido
<1>8. TypeFase'
  BY <1>1, <1>2, <1>3, <1>4, <1>5, <1>6 DEF IInv, EncolarPedido, TypeFase
<1>9. CanalInv'
  BY <1>1, <1>2, <1>3, <1>4, <1>5, <1>6 DEF IInv, EncolarPedido, CanalInv,
     TypeFase, TypeTimer, TypeWorker, TypePmp, TypeCanal, SinCola
<1>10. FaseInv'
  BY <1>1, <1>2, <1>3, <1>4, <1>5, <1>6 DEF IInv, EncolarPedido, FaseInv,
     TypePcb, TypeFase, TypeListas, SinCola
<1>11. ColaInv'
  BY <1>1, <1>2, <1>3, <1>4, <1>5, <1>6 DEF IInv, EncolarPedido, ColaInv,
     TypeFase, TypeListas, SinCola
<1>12. WorkerInv'
  BY <1>1, <1>2, <1>3, <1>4, <1>5, <1>6 DEF IInv, EncolarPedido, WorkerInv,
     TypePcb, TypeFase, TypeListas, TypeIO, TypeWorker, SinCola
<1>13. PmpInv'
  BY <1>1, <1>2, <1>3, <1>4, <1>5, <1>6 DEF IInv, EncolarPedido, PmpInv,
     TypePcb, TypeFase, TypeListas, TypeWorker, TypePmp, TypeMem, SinCola
<1> QED BY <1>5, <1>7, <1>8, <1>9, <1>10, <1>11, <1>12, <1>13 DEF IInv

\* The invariant survives encolar_io_request finding the interface dead.
LEMMA PasoEncolarRechaza ==
  ASSUME IInv, NEW p \in Procs, EncolarRechaza(p)
  PROVE  IInv'
<1>1. Ajeno(p)
  BY EjecutableAjeno DEF EncolarRechaza
<1>2. TypePcb' /\ TypeListas' /\ TypeIO' /\ TypeTimer' /\ TypeWorker' /\
      TypePmp' /\ TypeCanal' /\ TypeMem' /\ SocketInv' /\
      RespuestaInv' /\ ListaInv' /\ DebeInv' /\ ResidenciaInv' /\
      VolcadoQuieto' /\ ListoTrasVolcado'
  BY Marco DEF EncolarRechaza
<1>3. TypeFase'
  BY <1>1 DEF IInv, EncolarRechaza, TypeFase
<1>4. CanalInv'
  BY <1>1 DEF IInv, EncolarRechaza, CanalInv, TypeFase, TypeTimer, TypeWorker,
     TypePmp, TypeCanal, Ajeno, SinCola, SinTimer
<1>5. FaseInv'
  BY <1>1 DEF IInv, EncolarRechaza, FaseInv, TypePcb, TypeFase, TypeListas,
     Ajeno, SinCola, SinTimer
<1>6. ColaInv'
  BY <1>1 DEF IInv, EncolarRechaza, ColaInv, TypeFase, TypeListas, Ajeno,
     SinCola, SinTimer
<1>7. WorkerInv'
  BY <1>1 DEF IInv, EncolarRechaza, WorkerInv, TypePcb, TypeFase, TypeListas,
     TypeIO, TypeWorker, Ajeno, SinCola, SinTimer
<1>8. PmpInv'
  BY <1>1 DEF IInv, EncolarRechaza, PmpInv, TypePcb, TypeFase, TypeListas,
     TypeWorker, TypePmp, TypeMem, Ajeno, SinCola, SinTimer
<1> QED BY <1>2, <1>3, <1>4, <1>5, <1>6, <1>7, <1>8 DEF IInv

\* The invariant survives a timer that expires in its own episode and
\* suspends.
LEMMA PasoTimerSuspende ==
  ASSUME IInv, NEW p \in Procs, NEW e \in Epocas, TimerSuspende(p, e)
  PROVE  IInv'
<1>1. TypeFase' /\ TypeListas' /\ TypeIO' /\ TypeWorker' /\ TypePmp' /\
      TypeCanal' /\ TypeMem' /\ SocketInv' /\ RespuestaInv' /\ ColaInv'
  BY Marco DEF TimerSuspende, AvanzaTimer
<1>2. TypePcb'
  BY DEF IInv, TimerSuspende, AvanzaTimer, TypePcb
<1>3. TypeTimer'
  BY DEF IInv, TimerSuspende, AvanzaTimer, TypeTimer
<1>4. CanalInv'
  BY DEF IInv, TimerSuspende, AvanzaTimer, CanalInv, TypeFase, TypeTimer,
     TypeWorker, TypePmp, TypeCanal
<1>5. FaseInv'
  BY DEF IInv, TimerSuspende, AvanzaTimer, FaseInv, TypePcb, TypeFase,
     TypeListas
<1>6. WorkerInv'
  <2>1. \A i \in Ios : wpid[i] = p => wpc[i] \in {"enIO", "extrae", "fin"}
    BY DEF IInv, WorkerInv, TypeWorker, TimerSuspende
  <2>2. /\ UNCHANGED <<wpc, wpid, fase, block, cola>>
        /\ \A q \in Procs \ {p} : estado'[q] = estado[q]
    BY DEF IInv, TypePcb, TimerSuspende, AvanzaTimer
  <2> QED BY <2>1, <2>2, EstadoSinWorker
<1>7. PmpInv'
  BY DEF IInv, TimerSuspende, AvanzaTimer, PmpInv, TypePcb, TypeFase,
     TypeListas, TypeWorker, TypePmp, TypeMem
<1>8. ListaInv'
  BY DEF IInv, TimerSuspende, AvanzaTimer, ListaInv, TypePcb, TypeListas,
     TypeTimer, TypeMem
<1>9. DebeInv'
  BY DEF IInv, TimerSuspende, AvanzaTimer, DebeInv, TypePcb, TypeWorker,
     TypeMem
<1>10. ResidenciaInv'
  BY DEF IInv, TimerSuspende, AvanzaTimer, ResidenciaInv, TypePcb, TypeMem
<1>11. VolcadoQuieto'
  <2>1. /\ p \in block /\ estado[p] = "BLOCK" /\ epoch[p] = e
        /\ entrada[p] <= epoch[p] /\ epoch[p] \in Nat
    BY DEF IInv, TypePcb, FaseInv, TimerSuspende
  <2>2. \A f \in Epocas : timer[p][f] \notin Volcando
    BY <2>1 DEF IInv, VolcadoQuieto
  <2>3. \A q \in Procs : \A f \in Epocas :
          IF q = p /\ f = e THEN timer'[q][f] = "suspendido"
                            ELSE timer'[q][f] = timer[q][f]
    BY DEF IInv, TypeTimer, TimerSuspende, AvanzaTimer
  <2>4. /\ UNCHANGED <<epoch, entrada, block>>
        /\ estado'[p] = "SUSP_BLOCK" /\ ~enSwap'[p]
        /\ \A q \in Procs \ {p} : estado'[q] = estado[q] /\ enSwap'[q] = enSwap[q]
    BY DEF IInv, TypePcb, TimerSuspende, AvanzaTimer
  <2> QED BY <2>1, <2>2, <2>3, <2>4 DEF IInv, VolcadoQuieto
<1>12. ListoTrasVolcado'
  BY DEF IInv, TimerSuspende, AvanzaTimer, ListoTrasVolcado, TypePcb,
     TypeListas, TypePmp, TypeMem
<1> QED BY <1>1, <1>2, <1>3, <1>4, <1>5, <1>6, <1>7, <1>8, <1>9, <1>10,
      <1>11, <1>12 DEF IInv

\* The invariant survives a timer that expires after its episode ended.
LEMMA PasoTimerCaduca ==
  ASSUME IInv, NEW p \in Procs, NEW e \in Epocas, TimerCaduca(p, e)
  PROVE  IInv'
<1>1. TypePcb' /\ TypeFase' /\ TypeListas' /\ TypeIO' /\ TypeWorker' /\
      TypePmp' /\ TypeCanal' /\ TypeMem' /\ SocketInv' /\
      RespuestaInv' /\ FaseInv' /\ ColaInv' /\ WorkerInv' /\ PmpInv' /\
      DebeInv' /\ ResidenciaInv' /\ ListoTrasVolcado'
  BY Marco DEF TimerCaduca, AvanzaTimer
<1>2. TypeTimer'
  BY DEF IInv, TimerCaduca, AvanzaTimer, TypeTimer
<1>3. CanalInv'
  BY DEF IInv, TimerCaduca, AvanzaTimer, CanalInv, TypeFase, TypeTimer,
     TypeWorker, TypePmp, TypeCanal
<1>4. ListaInv'
  BY DEF IInv, TimerCaduca, AvanzaTimer, ListaInv, TypePcb, TypeListas,
     TypeTimer, TypeMem
<1>5. VolcadoQuieto'
  BY DEF IInv, TimerCaduca, AvanzaTimer, VolcadoQuieto, TypePcb, TypeListas,
     TypeTimer
<1> QED BY <1>1, <1>2, <1>3, <1>4, <1>5 DEF IInv

\* The invariant survives the timer adding the process to
\* lista_suspendidos.
LEMMA PasoTimerAgrega ==
  ASSUME IInv, NEW p \in Procs, NEW e \in Epocas, TimerAgrega(p, e)
  PROVE  IInv'
<1>1. estado[p] = "SUSP_BLOCK" /\ p \in block
  BY DEF IInv, VolcadoQuieto, ListaInv, TimerAgrega, AvanzaTimer
<1>2. TypePcb' /\ TypeFase' /\ TypeIO' /\ TypeWorker' /\ TypePmp' /\
      TypeCanal' /\ TypeMem' /\ SocketInv' /\ RespuestaInv' /\
      FaseInv' /\ ColaInv' /\ WorkerInv' /\ DebeInv' /\ ResidenciaInv'
  BY Marco DEF TimerAgrega, AvanzaTimer
<1>3. TypeListas'
  BY <1>1 DEF IInv, TimerAgrega, AvanzaTimer, TypeListas
<1>4. TypeTimer'
  BY <1>1 DEF IInv, TimerAgrega, AvanzaTimer, TypeTimer
<1>5. CanalInv'
  BY <1>1 DEF IInv, TimerAgrega, AvanzaTimer, CanalInv, TypeFase, TypeTimer,
     TypeWorker, TypePmp, TypeCanal
<1>6. PmpInv'
  BY <1>1 DEF IInv, TimerAgrega, AvanzaTimer, PmpInv, TypePcb, TypeFase,
     TypeListas, TypeWorker, TypePmp, TypeMem
<1>7. ListaInv'
  BY <1>1 DEF IInv, TimerAgrega, AvanzaTimer, ListaInv, TypePcb, TypeListas,
     TypeTimer, TypeMem
<1>8. VolcadoQuieto'
  BY <1>1 DEF IInv, TimerAgrega, AvanzaTimer, VolcadoQuieto, TypePcb,
     TypeListas, TypeTimer
<1>9. ListoTrasVolcado'
  BY <1>1 DEF IInv, TimerAgrega, AvanzaTimer, ListoTrasVolcado, TypePcb,
     TypeListas, TypePmp, TypeMem
<1> QED BY <1>2, <1>3, <1>4, <1>5, <1>6, <1>7, <1>8, <1>9 DEF IInv

\* The invariant survives the timer sending SUSPENDER_PROCESO.
LEMMA PasoTimerPide ==
  ASSUME IInv, NEW p \in Procs, NEW e \in Epocas, TimerPide(p, e)
  PROVE  IInv'
<1>1. Enviar(Timer(p, e), "SUSPENDER", p) /\ timer[p][e] = "listado"
  BY DEF TimerPide
<1>2. TypeCanal' /\ SocketInv' /\ RespuestaInv'
      /\ dueno' = Timer(p, e) /\ pedido' = Pedido("SUSPENDER", p)
  BY <1>1, Enviado
<1>3. TypePcb' /\ TypeFase' /\ TypeListas' /\ TypeIO' /\ TypeTimer' /\
      TypeWorker' /\ TypePmp' /\ TypeMem' /\ SocketInv' /\ FaseInv' /\
      ColaInv' /\ WorkerInv' /\ PmpInv' /\ ListaInv' /\ DebeInv' /\
      ResidenciaInv' /\ VolcadoQuieto' /\ ListoTrasVolcado'
  BY Marco DEF TimerPide, Enviar
<1>4. CanalInv'
  BY <1>1, <1>2 DEF IInv, TimerPide, CanalInv, TypeFase, TypeTimer,
     TypeWorker, TypePmp, TypeCanal
<1> QED BY <1>2, <1>3, <1>4 DEF IInv

\* The invariant survives the timer reading memory's answer to
\* SUSPENDER_PROCESO.
LEMMA PasoTimerVolcado ==
  ASSUME IInv, NEW p \in Procs, NEW e \in Epocas, TimerVolcado(p, e)
  PROVE  IInv'
<1>1. Recibir(Timer(p, e), "OK")
  BY DEF TimerVolcado
<1>2. TypeCanal' /\ CanalInv' /\ SocketInv' /\ RespuestaInv'
  BY <1>1, Recibida
<1>3. timer[p][e] = "listado" /\ pedido = Pedido("SUSPENDER", p)
  BY <1>1, Recibida DEF IInv, CanalInv
<1>4. p \in lista /\ (SwapFalla \/ mem[p] # "ram")
  BY <1>1, <1>3, Contenido DEF IInv, ListaInv
<1>5. TypePcb' /\ TypeFase' /\ TypeListas' /\ TypeIO' /\ TypeWorker' /\
      TypePmp' /\ TypeMem' /\ FaseInv' /\ ColaInv' /\ WorkerInv' /\
      PmpInv' /\ DebeInv' /\ ResidenciaInv' /\ ListoTrasVolcado'
  BY Marco DEF TimerVolcado, Recibir, AvanzaTimer
<1>6. TypeTimer'
  BY <1>2, <1>3, <1>4 DEF IInv, TimerVolcado, AvanzaTimer, TypeTimer
<1>7. ListaInv'
  BY <1>2, <1>3, <1>4 DEF IInv, TimerVolcado, AvanzaTimer, ListaInv, TypePcb,
     TypeListas, TypeTimer, TypeMem
<1>8. VolcadoQuieto'
  BY <1>2, <1>3, <1>4 DEF IInv, TimerVolcado, AvanzaTimer, VolcadoQuieto,
     TypePcb, TypeListas, TypeTimer
<1> QED BY <1>2, <1>5, <1>6, <1>7, <1>8 DEF IInv

\* The invariant survives a SUSPENDER_PROCESO that memory did not answer.
LEMMA PasoTimerVence ==
  ASSUME IInv, NEW p \in Procs, NEW e \in Epocas, TimerVence(p, e)
  PROVE  IInv'
<1>1. /\ dueno = Timer(p, e) /\ atendido /\ socket = << >>
      /\ dueno' = Nadie /\ pedido' = SinPedido /\ atendido' = FALSE
      /\ socket' = socket
  BY DEF TimerVence
<1>2. CanalInv' /\ RespuestaInv'
  BY <1>1 DEF CanalInv, RespuestaInv
<1>3. SocketInv'
  BY <1>1 DEF SocketInv
<1>4. TypeCanal'
  <2>1. dueno' \in Hilos \union {Nadie}
    BY <1>1
  <2>2. pedido' \in [op : Operaciones, pid : Procs] \union {SinPedido}
    BY <1>1
  <2>3. atendido' \in BOOLEAN
    BY <1>1
  <2>4. socket' \in Seq(Respuestas \union {"LIBERADA"})
    BY <1>1 DEF IInv, TypeCanal
  <2> QED BY <2>1, <2>2, <2>3, <2>4 DEF TypeCanal
<1>5. /\ timer[p][e] = "listado" /\ p \in lista
      /\ SwapFalla \/ mem[p] # "ram"
  BY <1>1 DEF IInv, CanalInv, RespuestaInv, ListaInv
<1>6. TypePcb' /\ TypeFase' /\ TypeListas' /\ TypeIO' /\ TypeWorker' /\
      TypePmp' /\ TypeMem' /\ FaseInv' /\ ColaInv' /\ WorkerInv' /\
      PmpInv' /\ DebeInv' /\ ResidenciaInv' /\ ListoTrasVolcado'
  BY Marco DEF TimerVence, AvanzaTimer
<1>7. TypeTimer'
  BY DEF IInv, TimerVence, AvanzaTimer, TypeTimer
<1>8. ListaInv'
  BY <1>5 DEF IInv, TimerVence, AvanzaTimer, ListaInv, TypePcb, TypeListas,
     TypeTimer, TypeMem
<1>9. VolcadoQuieto'
  BY <1>5 DEF IInv, TimerVence, AvanzaTimer, VolcadoQuieto, TypePcb, TypeListas,
     TypeTimer
<1> QED BY <1>2, <1>3, <1>4, <1>6, <1>7, <1>8, <1>9 DEF IInv

\* The invariant survives the timer setting suspendido_en_swap.
LEMMA PasoTimerMarca ==
  ASSUME IInv, NEW p \in Procs, NEW e \in Epocas, TimerMarca(p, e)
  PROVE  IInv'
<1>1. /\ estado[p] = "SUSP_BLOCK" /\ p \in block /\ p \in lista
      /\ SwapFalla \/ mem[p] # "ram"
      /\ \A f \in Epocas : timer[p][f] \in Volcando => f = e
  BY DEF IInv, VolcadoQuieto, ListaInv, TimerMarca, AvanzaTimer
<1>2. TypeFase' /\ TypeListas' /\ TypeIO' /\ TypeWorker' /\ TypePmp' /\
      TypeCanal' /\ TypeMem' /\ SocketInv' /\ RespuestaInv' /\
      FaseInv' /\ ColaInv' /\ WorkerInv' /\ PmpInv' /\ DebeInv' /\
      ResidenciaInv' /\ ListoTrasVolcado'
  BY Marco DEF TimerMarca, AvanzaTimer
<1>3. TypePcb'
  BY <1>1 DEF IInv, TimerMarca, AvanzaTimer, TypePcb
<1>4. TypeTimer'
  BY <1>1 DEF IInv, TimerMarca, AvanzaTimer, TypeTimer
<1>5. CanalInv'
  BY <1>1 DEF IInv, TimerMarca, AvanzaTimer, CanalInv, TypeFase, TypeTimer,
     TypeWorker, TypePmp, TypeCanal
<1>6. ListaInv'
  BY <1>1 DEF IInv, TimerMarca, AvanzaTimer, ListaInv, TypePcb, TypeListas,
     TypeTimer, TypeMem
<1>7. VolcadoQuieto'
  BY <1>1 DEF IInv, TimerMarca, AvanzaTimer, VolcadoQuieto, TypePcb,
     TypeListas, TypeTimer
<1> QED BY <1>2, <1>3, <1>4, <1>5, <1>6, <1>7 DEF IInv

\* The invariant survives the timer's last post on
\* sem_reevaluar_suspendidos.
LEMMA PasoTimerNotifica ==
  ASSUME IInv, NEW p \in Procs, NEW e \in Epocas, TimerNotifica(p, e)
  PROVE  IInv'
<1>1. TypePcb' /\ TypeFase' /\ TypeIO' /\ TypeWorker' /\ TypePmp' /\
      TypeCanal' /\ TypeMem' /\ SocketInv' /\ RespuestaInv' /\
      FaseInv' /\ ColaInv' /\ WorkerInv' /\ PmpInv' /\ DebeInv' /\
      ResidenciaInv' /\ ListoTrasVolcado'
  BY Marco DEF TimerNotifica, AvanzaTimer
<1>2. TypeListas'
  BY DEF IInv, TimerNotifica, AvanzaTimer, TypeListas
<1>3. TypeTimer'
  BY DEF IInv, TimerNotifica, AvanzaTimer, TypeTimer
<1>4. CanalInv'
  BY DEF IInv, TimerNotifica, AvanzaTimer, CanalInv, TypeFase, TypeTimer,
     TypeWorker, TypePmp, TypeCanal
<1>5. ListaInv'
  BY DEF IInv, TimerNotifica, AvanzaTimer, ListaInv, TypePcb, TypeListas,
     TypeTimer, TypeMem
<1>6. VolcadoQuieto'
  BY DEF IInv, TimerNotifica, AvanzaTimer, VolcadoQuieto, TypePcb, TypeListas,
     TypeTimer
<1> QED BY <1>1, <1>2, <1>3, <1>4, <1>5, <1>6 DEF IInv

\* The invariant survives an I/O worker popping a request.
LEMMA PasoTomarPedido ==
  ASSUME IInv, NEW i \in Ios, TomarPedido(i)
  PROVE  IInv'
<1>1. PICK p \in block :
        /\ p = Head(cola[i]) /\ p \in Procs /\ fase[p] = "-"
        /\ \A j \in Ios : \A k \in 1..Len(cola[j]) :
             cola[j][k] = p => j = i /\ k = 1
        /\ \A j \in Ios : wpid[j] # p
  BY DEF IInv, TypeIO, TypeListas, ColaInv, WorkerInv, TomarPedido
<1>2. /\ cola[i] \in Seq(Procs) /\ cola[i] # <<>> /\ wpc[i] = "espera"
      /\ \A k \in 1..Len(Tail(cola[i])) : /\ k + 1 \in 1..Len(cola[i])
                                        /\ Tail(cola[i])[k] = cola[i][k + 1]
  BY DEF IInv, TypeIO, TomarPedido
<1>3. pp # p
  BY <1>1, CandidatoLibre
<1>4. TypePcb' /\ TypeFase' /\ TypeListas' /\ TypeTimer' /\ TypePmp' /\
      TypeCanal' /\ TypeMem' /\ SocketInv' /\ RespuestaInv' /\
      FaseInv' /\ ListaInv' /\ ResidenciaInv' /\ VolcadoQuieto' /\
      ListoTrasVolcado'
  BY Marco DEF TomarPedido
<1>5. TypeIO'
  BY <1>1, <1>2, <1>3 DEF IInv, TomarPedido, TypeIO
<1>6. TypeWorker'
  BY <1>1, <1>2, <1>3 DEF IInv, TomarPedido, TypeWorker
<1>7. CanalInv'
  BY <1>1, <1>2, <1>3 DEF IInv, TomarPedido, CanalInv, TypeFase, TypeTimer,
     TypeWorker, TypePmp, TypeCanal
<1>8. ColaInv'
  BY <1>1, <1>2, <1>3 DEF IInv, TomarPedido, ColaInv, TypeFase, TypeListas
<1>9. WorkerInv'
  <2>1. /\ UNCHANGED <<fase, estado, block>> /\ wpc'[i] = "enIO" /\ wpid'[i] = p
        /\ \A j \in Ios \ {i} : wpc'[j] = wpc[j] /\ wpid'[j] = wpid[j]
    BY <1>1 DEF IInv, TomarPedido, TypeWorker
  <2>2. \A j \in Ios : cola'[j] = IF j = i THEN Tail(cola[i]) ELSE cola[j]
    BY DEF IInv, TomarPedido, TypeIO
  <2>3. ASSUME NEW j \in Ios, NEW k \in 1..Len(cola'[j])
        PROVE  /\ cola'[j][k] # p
               /\ \E l \in 1..Len(cola[j]) : cola'[j][k] = cola[j][l]
    <3>1. CASE j = i
      <4>0. cola'[j] = Tail(cola[i])
        BY <2>2, <3>1
      <4>1. k + 1 \in 1..Len(cola[i]) /\ cola'[j][k] = cola[i][k + 1] /\ k \in Nat
        BY <1>2, <4>0
      <4>2. k + 1 # 1
        BY <4>1
      <4> QED BY <1>1, <3>1, <4>1, <4>2
    <3>2. CASE j # i
      BY <1>1, <2>2, <3>2
    <3> QED BY <3>1, <3>2
  <2> QED BY <1>1, <2>1, <2>3, MueveWorker
<1>10. PmpInv'
  BY <1>1, <1>2, <1>3 DEF IInv, TomarPedido, PmpInv, TypePcb, TypeFase,
     TypeListas, TypeWorker, TypePmp, TypeMem
<1>11. DebeInv'
  <2> SUFFICES ASSUME NEW q \in Procs, debe[q],
                      estado[q] \in {"BLOCK", "SUSP_BLOCK"}
               PROVE  \E j \in Ios : /\ wpid'[j] = q /\ Tipo[j] = "STDIN"
                                     /\ wpc'[j] \in {"extrae", "escribe"}
    BY DEF IInv, DebeInv, TomarPedido
  <2>1. PICK j \in Ios : /\ wpid[j] = q /\ Tipo[j] = "STDIN"
                         /\ wpc[j] \in {"extrae", "escribe"}
    BY DEF IInv, DebeInv
  <2>2. j # i
    BY <1>2, <2>1
  <2> QED BY <2>1, <2>2 DEF IInv, TypeWorker, TomarPedido
<1> QED BY <1>4, <1>5, <1>6, <1>7, <1>8, <1>9, <1>10, <1>11 DEF IInv

\* The invariant survives the device's IO_FINALIZADA.
LEMMA PasoTerminaIO ==
  ASSUME IInv, NEW i \in Ios, TerminaIO(i)
  PROVE  IInv'
<1>1. PICK p \in Procs : p = wpid[i] /\ p \in block /\ fase[p] = "-"
  BY DEF IInv, WorkerInv, TerminaIO
<1>2. estado[p] \in {"BLOCK", "SUSP_BLOCK"} /\ pp # p
  BY <1>1 DEF IInv, FaseInv, PmpInv, TypePmp
<1>3. ~(atendido /\ pedido = Pedido("ESCRITURA", p))
  BY <1>1, <1>2, Solicitante DEF IInv, CanalInv, WorkerInv
<1>4. TypePcb' /\ TypeFase' /\ TypeListas' /\ TypeIO' /\ TypeTimer' /\
      TypePmp' /\ TypeCanal' /\ SocketInv' /\ FaseInv' /\ ColaInv' /\
      PmpInv' /\ ListaInv' /\ ResidenciaInv' /\ VolcadoQuieto' /\
      ListoTrasVolcado'
  BY Marco DEF TerminaIO
<1>5. TypeWorker'
  BY <1>1, <1>2, <1>3 DEF IInv, TerminaIO, TypeWorker
<1>6. TypeMem'
  BY <1>1, <1>2, <1>3 DEF IInv, TerminaIO, TypeMem
<1>7. CanalInv'
  BY <1>1, <1>2, <1>3 DEF IInv, TerminaIO, CanalInv, TypeFase, TypeTimer,
     TypeWorker, TypePmp, TypeCanal
<1>8. RespuestaInv'
  BY <1>1, <1>2, <1>3 DEF IInv, TerminaIO, RespuestaInv, TypeCanal, TypeMem
<1>9. WorkerInv'
  <2>1. /\ UNCHANGED <<fase, estado, block, cola>>
        /\ wpc'[i] = "extrae" /\ wpid'[i] = wpid[i]
        /\ \A j \in Ios \ {i} : wpc'[j] = wpc[j] /\ wpid'[j] = wpid[j]
    BY DEF IInv, TerminaIO, TypeWorker
  <2>2. /\ p \in Procs /\ p = wpid[i] /\ p \in block /\ fase[p] = "-"
        /\ \A j \in Ios \ {i} : wpid[j] # p
        /\ \A j \in Ios : \A k \in 1..Len(cola[j]) : cola[j][k] # p
    BY <1>1, <1>2 DEF IInv, WorkerInv, TerminaIO
  <2> QED BY <2>1, <2>2, MueveWorker
<1>10. DebeInv'
  BY <1>1, <1>2, <1>3 DEF IInv, TerminaIO, DebeInv, TypePcb, TypeWorker,
     TypeMem
<1> QED BY <1>4, <1>5, <1>6, <1>7, <1>8, <1>9, <1>10 DEF IInv

\* The invariant survives the disconnection of an interface.
LEMMA PasoDesconectaIO ==
  ASSUME IInv, NEW i \in Ios, DesconectaIO(i)
  PROVE  IInv'
<1>1. TypePcb' /\ TypeFase' /\ TypeListas' /\ TypeTimer' /\ TypePmp' /\
      TypeCanal' /\ TypeMem' /\ SocketInv' /\ RespuestaInv' /\
      FaseInv' /\ ColaInv' /\ PmpInv' /\ ListaInv' /\ ResidenciaInv' /\
      VolcadoQuieto' /\ ListoTrasVolcado'
  BY Marco DEF DesconectaIO
<1>2. TypeIO'
  BY DEF IInv, DesconectaIO, TypeIO
<1>3. TypeWorker'
  BY DEF IInv, DesconectaIO, TypeWorker
<1>4. CanalInv'
  BY DEF IInv, DesconectaIO, CanalInv, TypeFase, TypeTimer, TypeWorker,
     TypePmp, TypeCanal
<1>5. WorkerInv'
  BY DEF IInv, DesconectaIO, WorkerInv, TypePcb, TypeFase, TypeListas, TypeIO,
     TypeWorker
<1>6. DebeInv'
  BY DEF IInv, DesconectaIO, DebeInv, TypePcb, TypeWorker, TypeMem
<1> QED BY <1>1, <1>2, <1>3, <1>4, <1>5, <1>6 DEF IInv

\* The invariant survives the registration of an interface.
LEMMA PasoRegistrarInterfaz ==
  ASSUME IInv, NEW i \in Ios, RegistrarInterfaz(i)
  PROVE  IInv'
<1>1. TypePcb' /\ TypeFase' /\ TypeListas' /\ TypeTimer' /\ TypeWorker' /\
      TypePmp' /\ TypeCanal' /\ TypeMem' /\ CanalInv' /\ SocketInv' /\
      RespuestaInv' /\ FaseInv' /\ ColaInv' /\ WorkerInv' /\ PmpInv' /\
      ListaInv' /\ DebeInv' /\ ResidenciaInv' /\ VolcadoQuieto' /\
      ListoTrasVolcado'
  BY Marco DEF RegistrarInterfaz, workerVars
<1>2. TypeIO'
  BY DEF IInv, RegistrarInterfaz, TypeIO
<1> QED BY <1>1, <1>2 DEF IInv

\* The invariant survives the completion of the I/O of a suspended
\* process.
LEMMA PasoTerminaSuspendido ==
  ASSUME IInv, NEW i \in Ios, TerminaSuspendido(i)
  PROVE  IInv'
<1>1. PICK p \in Procs :
        /\ p = wpid[i] /\ p \in block /\ fase[p] = "-" /\ SinCola(p)
        /\ \A j \in Ios : wpid[j] = p => j = i
  BY DEF IInv, WorkerInv, Extraer, SinCola, TerminaSuspendido
<1>2. /\ estado[p] = "SUSP_BLOCK" /\ enSwap[p] /\ p \in lista
      /\ SwapFalla \/ mem[p] # "ram"
      /\ p \notin cand /\ pp # p /\ SinTimer(p)
  BY <1>1 DEF IInv, FaseInv, ListaInv, PmpInv, TypePmp, VolcadoQuieto,
     ResidenciaInv, SinTimer, Extraer, TerminaSuspendido
<1>3. TypeFase' /\ TypeIO' /\ TypeTimer' /\ TypePmp' /\ TypeCanal' /\
      TypeMem' /\ SocketInv' /\ RespuestaInv'
  BY Marco DEF TerminaSuspendido, Extraer, WorkerLibre
<1>4. TypePcb'
  BY <1>1, <1>2 DEF IInv, TerminaSuspendido, Extraer, WorkerLibre, TypePcb
<1>5. TypeListas'
  BY <1>1, <1>2 DEF IInv, TerminaSuspendido, Extraer, WorkerLibre, TypeListas
<1>6. TypeWorker'
  BY <1>1, <1>2 DEF IInv, TerminaSuspendido, Extraer, WorkerLibre, TypeWorker
<1>7. CanalInv'
  BY <1>1, <1>2 DEF IInv, TerminaSuspendido, Extraer, WorkerLibre, CanalInv,
     TypeFase, TypeTimer, TypeWorker, TypePmp, TypeCanal, SinCola, SinTimer
<1>8. FaseInv'
  BY <1>1, <1>2 DEF IInv, TerminaSuspendido, Extraer, WorkerLibre, FaseInv,
     TypePcb, TypeFase, TypeListas, SinCola, SinTimer
<1>9. ColaInv'
  BY <1>1, <1>2 DEF IInv, TerminaSuspendido, Extraer, WorkerLibre, ColaInv,
     TypeFase, TypeListas, SinCola, SinTimer
<1>10. WorkerInv'
  BY SMTT(40), <1>1, <1>2 DEF IInv, TerminaSuspendido, Extraer, WorkerLibre,
     WorkerInv,
     TypePcb, TypeFase, TypeListas, TypeIO, TypeWorker, SinCola, SinTimer
<1>11. PmpInv'
  BY <1>1, <1>2 DEF IInv, TerminaSuspendido, Extraer, WorkerLibre, PmpInv,
     TypePcb, TypeFase, TypeListas, TypeWorker, TypePmp, TypeMem, SinCola,
     SinTimer
<1>12. ListaInv'
  BY <1>1, <1>2 DEF IInv, TerminaSuspendido, Extraer, WorkerLibre, ListaInv,
     TypePcb, TypeListas, TypeTimer, TypeMem, SinCola, SinTimer
<1>13. DebeInv'
  BY <1>1, <1>2 DEF IInv, TerminaSuspendido, Extraer, WorkerLibre, DebeInv,
     TypePcb, TypeWorker, TypeMem, SinCola, SinTimer
<1>14. ResidenciaInv'
  BY <1>1, <1>2 DEF IInv, TerminaSuspendido, Extraer, WorkerLibre,
     ResidenciaInv, TypePcb, TypeMem, SinCola, SinTimer
<1>15. VolcadoQuieto'
  BY <1>1, <1>2 DEF IInv, TerminaSuspendido, Extraer, WorkerLibre,
     VolcadoQuieto, TypePcb, TypeListas, TypeTimer, SinCola, SinTimer
<1>16. ListoTrasVolcado'
  BY <1>1, <1>2 DEF IInv, TerminaSuspendido, Extraer, WorkerLibre,
     ListoTrasVolcado, TypePcb, TypeListas, TypePmp, TypeMem, SinCola,
     SinTimer
<1> QED BY <1>3, <1>4, <1>5, <1>6, <1>7, <1>8, <1>9, <1>10, <1>11, <1>12,
      <1>13, <1>14, <1>15, <1>16 DEF IInv

\* The invariant survives the completion of the I/O of a process still in
\* BLOCK.
LEMMA PasoTerminaEnRam ==
  ASSUME IInv, NEW i \in Ios, TerminaEnRam(i)
  PROVE  IInv'
<1>1. PICK p \in Procs :
        /\ p = wpid[i] /\ p \in block /\ fase[p] = "-" /\ SinCola(p)
        /\ \A j \in Ios : wpid[j] = p => j = i
  BY DEF IInv, WorkerInv, Extraer, SinCola, TerminaEnRam
<1>2. estado[p] = "BLOCK" /\ p \notin lista /\ mem[p] # "swap"
      /\ p \notin cand /\ pp # p /\ SinTimer(p)
  BY <1>1 DEF IInv, FaseInv, ListaInv, PmpInv, TypePmp, VolcadoQuieto,
     ResidenciaInv, SinTimer, Extraer, TerminaEnRam
<1>3. TypeFase' /\ TypeIO' /\ TypeTimer' /\ TypePmp' /\ TypeCanal' /\
      TypeMem' /\ SocketInv' /\ RespuestaInv'
  BY Marco DEF TerminaEnRam, Extraer, WorkerLibre
<1>4. TypePcb'
  BY <1>1, <1>2 DEF IInv, TerminaEnRam, Extraer, WorkerLibre, TypePcb
<1>5. TypeListas'
  BY <1>1, <1>2 DEF IInv, TerminaEnRam, Extraer, WorkerLibre, TypeListas
<1>6. TypeWorker'
  BY <1>1, <1>2 DEF IInv, TerminaEnRam, Extraer, WorkerLibre, TypeWorker
<1>7. CanalInv'
  BY <1>1, <1>2 DEF IInv, TerminaEnRam, Extraer, WorkerLibre, CanalInv,
     TypeFase, TypeTimer, TypeWorker, TypePmp, TypeCanal, SinCola, SinTimer
<1>8. FaseInv'
  <2>1. /\ UNCHANGED <<fase, epoch, atrasado>> /\ block' = block \ {p}
        /\ estado'[p] \in {"BLOCK", "READY"} /\ entrada'[p] = 0
        /\ \A q \in Procs \ {p} : estado'[q] = estado[q] /\ entrada'[q] = entrada[q]
    BY <1>1, <1>2 DEF IInv, TypePcb, TerminaEnRam, Extraer, WorkerLibre
  <2>2. epoch[p] \in Nat
    BY DEF IInv, TypePcb
  <2> QED BY <1>1, <2>1, <2>2 DEF IInv, FaseInv
<1>9. ColaInv'
  BY <1>1, <1>2 DEF IInv, TerminaEnRam, Extraer, WorkerLibre, ColaInv,
     TypeFase, TypeListas, SinCola, SinTimer
<1>10. WorkerInv'
  <2>1. /\ UNCHANGED <<fase, cola>> /\ block' = block \ {p}
        /\ \A q \in Procs \ {p} : estado'[q] = estado[q]
    BY <1>1 DEF IInv, TypePcb, TerminaEnRam, Extraer
  <2>2. /\ \A j \in Ios \ {i} : wpc'[j] = wpc[j] /\ wpid'[j] = wpid[j]
        /\ \/ wpc'[i] = "espera" /\ wpid'[i] = Nulo
           \/ wpc'[i] = "escribe" /\ wpid'[i] = p /\ estado' = estado
    BY <1>1 DEF IInv, TypeWorker, TerminaEnRam, WorkerLibre
  <2> QED BY <1>1, <1>2, <2>1, <2>2, MueveWorker DEF SinCola
<1>11. PmpInv'
  BY <1>1, <1>2 DEF IInv, TerminaEnRam, Extraer, WorkerLibre, PmpInv, TypePcb,
     TypeFase, TypeListas, TypeWorker, TypePmp, TypeMem, SinCola, SinTimer
<1>12. ListaInv'
  BY <1>1, <1>2 DEF IInv, TerminaEnRam, Extraer, WorkerLibre, ListaInv,
     TypePcb, TypeListas, TypeTimer, TypeMem, SinCola, SinTimer
<1>13. DebeInv'
  <2>1. debe[p] => Tipo[i] = "STDIN"
    BY <1>1, <1>2 DEF IInv, DebeInv
  <2>2. CASE Tipo[i] = "STDIN"
    BY <1>1, <1>2, <2>2 DEF IInv, TerminaEnRam, Extraer, DebeInv, TypePcb,
       TypeWorker, TypeMem
  <2>3. CASE Tipo[i] # "STDIN"
    <3>1. ~debe[p] /\ \A q \in Procs \ {p} : estado'[q] = estado[q]
      BY <1>1, <2>1, <2>3 DEF IInv, TypePcb, TerminaEnRam, Extraer
    <3>2. \A j \in Ios \ {i} : wpid'[j] = wpid[j] /\ wpc'[j] = wpc[j]
      BY <2>3 DEF IInv, TypeWorker, TerminaEnRam, WorkerLibre
    <3>3. UNCHANGED <<debe, stdinPend>>
      BY DEF TerminaEnRam, Extraer
    <3> QED BY <1>1, <3>1, <3>2, <3>3 DEF IInv, DebeInv
  <2> QED BY <2>2, <2>3
<1>14. ResidenciaInv'
  BY <1>1, <1>2 DEF IInv, TerminaEnRam, Extraer, WorkerLibre, ResidenciaInv,
     TypePcb, TypeMem, SinCola, SinTimer
<1>15. VolcadoQuieto'
  BY <1>1, <1>2 DEF IInv, TerminaEnRam, Extraer, WorkerLibre, VolcadoQuieto,
     TypePcb, TypeListas, TypeTimer, SinCola, SinTimer
<1>16. ListoTrasVolcado'
  BY <1>1, <1>2 DEF IInv, TerminaEnRam, Extraer, WorkerLibre,
     ListoTrasVolcado, TypePcb, TypeListas, TypePmp, TypeMem, SinCola,
     SinTimer
<1> QED BY <1>3, <1>4, <1>5, <1>6, <1>7, <1>8, <1>9, <1>10, <1>11, <1>12,
      <1>13, <1>14, <1>15, <1>16 DEF IInv

\* The invariant survives an I/O worker taking the channel.
LEMMA PasoWorkerPide ==
  ASSUME IInv, NEW i \in Ios, WorkerPide(i)
  PROVE  IInv'
<1>1. PICK op \in {"ESCRITURA", "FINALIZAR"} :
        /\ Enviar(Worker(i), op, wpid[i]) /\ wpid[i] \in Procs
        /\ wpc[i] = IF op = "ESCRITURA" THEN "escribe" ELSE "finaliza"
  BY DEF IInv, WorkerInv, WorkerPide
<1>2. TypeCanal' /\ SocketInv' /\ RespuestaInv'
      /\ dueno' = Worker(i) /\ pedido' = Pedido(op, wpid[i])
  BY <1>1, Enviado
<1>3. TypePcb' /\ TypeFase' /\ TypeListas' /\ TypeIO' /\ TypeTimer' /\
      TypeWorker' /\ TypePmp' /\ TypeMem' /\ SocketInv' /\ FaseInv' /\
      ColaInv' /\ WorkerInv' /\ PmpInv' /\ ListaInv' /\ DebeInv' /\
      ResidenciaInv' /\ VolcadoQuieto' /\ ListoTrasVolcado'
  BY Marco DEF WorkerPide, Enviar
<1>4. CanalInv'
  BY <1>1, <1>2 DEF IInv, WorkerPide, CanalInv, TypeFase, TypeTimer,
     TypeWorker, TypePmp, TypeCanal
<1> QED BY <1>2, <1>3, <1>4 DEF IInv

\* The invariant survives an I/O worker reading OK.
LEMMA PasoWorkerSigue ==
  ASSUME IInv, NEW i \in Ios, WorkerSigue(i)
  PROVE  IInv'
<1>1. Recibir(Worker(i), "OK")
  BY DEF WorkerSigue
<1>2. TypeCanal' /\ CanalInv' /\ SocketInv' /\ RespuestaInv'
  BY <1>1, Recibida
<1>3. PICK p \in Procs :
        /\ p = wpid[i] /\ p \notin block /\ fase[p] = "-"
        /\ \A j \in Ios : wpid[j] = p => j = i
        /\ \/ /\ wpc[i] = "escribe" /\ estado[p] = "BLOCK"
              /\ pedido = Pedido("ESCRITURA", p)
           \/ wpc[i] = "finaliza" /\ estado[p] = "EXIT"
  BY <1>1, Recibida DEF IInv, CanalInv, WorkerInv, FaseInv
<1>4. p \notin lista /\ p \notin cand /\ pp # p /\ SinCola(p) /\ SinTimer(p)
  BY <1>3, FueraDeBlock DEF IInv, ListaInv, PmpInv, TypePmp
<1>5. wpc[i] = "escribe" => mem[p] # "swap" /\ ~debe[p]
  BY <1>1, <1>3, Contenido DEF IInv, ResidenciaInv
<1>6. TypeFase' /\ TypeListas' /\ TypeIO' /\ TypeTimer' /\ TypePmp' /\
      TypeMem' /\ ColaInv'
  BY Marco DEF WorkerSigue, Recibir, WorkerLibre
<1>7. TypePcb'
  BY <1>2, <1>3, <1>4, <1>5 DEF IInv, WorkerSigue, WorkerLibre, TypePcb
<1>8. TypeWorker'
  BY <1>2, <1>3, <1>4, <1>5 DEF IInv, WorkerSigue, WorkerLibre, TypeWorker
<1>9. FaseInv'
  BY <1>2, <1>3, <1>4, <1>5 DEF IInv, WorkerSigue, WorkerLibre, FaseInv,
     TypePcb, TypeFase, TypeListas, SinCola, SinTimer
<1>10. WorkerInv'
  BY SMTT(40), <1>2, <1>3, <1>4, <1>5 DEF IInv, WorkerSigue, WorkerLibre,
     WorkerInv,
     TypePcb, TypeFase, TypeListas, TypeIO, TypeWorker, SinCola, SinTimer
<1>11. PmpInv'
  BY <1>2, <1>3, <1>4, <1>5 DEF IInv, WorkerSigue, WorkerLibre, PmpInv,
     TypePcb, TypeFase, TypeListas, TypeWorker, TypePmp, TypeMem, SinCola,
     SinTimer
<1>12. ListaInv'
  BY <1>2, <1>3, <1>4, <1>5 DEF IInv, WorkerSigue, WorkerLibre, ListaInv,
     TypePcb, TypeListas, TypeTimer, TypeMem, SinCola, SinTimer
<1>13. DebeInv'
  BY <1>2, <1>3, <1>4, <1>5 DEF IInv, WorkerSigue, WorkerLibre, DebeInv,
     TypePcb, TypeWorker, TypeMem, SinCola, SinTimer
<1>14. ResidenciaInv'
  BY <1>2, <1>3, <1>4, <1>5 DEF IInv, WorkerSigue, WorkerLibre, ResidenciaInv,
     TypePcb, TypeMem, SinCola, SinTimer
<1>15. VolcadoQuieto'
  BY <1>2, <1>3, <1>4, <1>5 DEF IInv, WorkerSigue, WorkerLibre, VolcadoQuieto,
     TypePcb, TypeListas, TypeTimer, SinCola, SinTimer
<1>16. ListoTrasVolcado'
  BY <1>2, <1>3, <1>4, <1>5 DEF IInv, WorkerSigue, WorkerLibre,
     ListoTrasVolcado, TypePcb, TypeListas, TypePmp, TypeMem, SinCola,
     SinTimer
<1> QED BY <1>2, <1>6, <1>7, <1>8, <1>9, <1>10, <1>11, <1>12, <1>13, <1>14,
      <1>15, <1>16 DEF IInv

\* The invariant survives an I/O worker reading SEGMENTATION_FAULT.
LEMMA PasoWorkerFalla ==
  ASSUME IInv, NEW i \in Ios, WorkerFalla(i)
  PROVE  IInv'
<1>1. Recibir(Worker(i), "SEGFAULT")
  BY DEF WorkerFalla
<1>2. TypeCanal' /\ CanalInv' /\ SocketInv' /\ RespuestaInv'
  BY <1>1, Recibida
<1>3. PICK p \in Procs :
        /\ p = wpid[i] /\ p \notin block /\ fase[p] = "-"
        /\ \A j \in Ios : wpid[j] = p => j = i
        /\ \/ /\ wpc[i] = "escribe" /\ estado[p] = "BLOCK"
              /\ pedido = Pedido("ESCRITURA", p)
           \/ wpc[i] = "finaliza" /\ estado[p] = "EXIT"
  BY <1>1, Recibida DEF IInv, CanalInv, WorkerInv, FaseInv
<1>4. p \notin lista /\ p \notin cand /\ pp # p /\ SinCola(p) /\ SinTimer(p)
  BY <1>3, FueraDeBlock DEF IInv, ListaInv, PmpInv, TypePmp
<1>5. wpc[i] = "escribe" => mem[p] # "swap"
  BY <1>1, <1>3, Contenido DEF IInv, ResidenciaInv
<1>6. TypeFase' /\ TypeIO' /\ TypeTimer' /\ TypePmp' /\ TypeMem' /\
      ColaInv'
  BY Marco DEF WorkerFalla, Recibir
<1>7. TypePcb'
  BY <1>2, <1>3, <1>4, <1>5 DEF IInv, WorkerFalla, TypePcb
<1>8. TypeListas'
  BY <1>2, <1>3, <1>4, <1>5 DEF IInv, WorkerFalla, TypeListas
<1>9. TypeWorker'
  BY <1>2, <1>3, <1>4, <1>5 DEF IInv, WorkerFalla, TypeWorker
<1>10. FaseInv'
  BY <1>2, <1>3, <1>4, <1>5 DEF IInv, WorkerFalla, FaseInv, TypePcb, TypeFase,
     TypeListas, SinCola, SinTimer
<1>11. WorkerInv'
  <2>1. /\ UNCHANGED <<fase, block, cola>> /\ estado'[p] = "EXIT"
        /\ \A q \in Procs \ {p} : estado'[q] = estado[q]
    BY <1>3 DEF IInv, TypePcb, WorkerFalla
  <2>2. /\ wpc'[i] = "finaliza" /\ wpid'[i] = p
        /\ \A j \in Ios \ {i} : wpc'[j] = wpc[j] /\ wpid'[j] = wpid[j]
    BY <1>3 DEF IInv, TypeWorker, WorkerFalla
  <2> QED BY <1>3, <1>4, <2>1, <2>2, MueveWorker DEF SinCola
<1>12. PmpInv'
  BY <1>2, <1>3, <1>4, <1>5 DEF IInv, WorkerFalla, PmpInv, TypePcb, TypeFase,
     TypeListas, TypeWorker, TypePmp, TypeMem, SinCola, SinTimer
<1>13. ListaInv'
  BY <1>2, <1>3, <1>4, <1>5 DEF IInv, WorkerFalla, ListaInv, TypePcb,
     TypeListas, TypeTimer, TypeMem, SinCola, SinTimer
<1>14. DebeInv'
  BY <1>2, <1>3, <1>4, <1>5 DEF IInv, WorkerFalla, DebeInv, TypePcb,
     TypeWorker, TypeMem, SinCola, SinTimer
<1>15. ResidenciaInv'
  BY <1>2, <1>3, <1>4, <1>5 DEF IInv, WorkerFalla, ResidenciaInv, TypePcb,
     TypeMem, SinCola, SinTimer
<1>16. VolcadoQuieto'
  BY <1>2, <1>3, <1>4, <1>5 DEF IInv, WorkerFalla, VolcadoQuieto, TypePcb,
     TypeListas, TypeTimer, SinCola, SinTimer
<1>17. ListoTrasVolcado'
  BY <1>2, <1>3, <1>4, <1>5 DEF IInv, WorkerFalla, ListoTrasVolcado, TypePcb,
     TypeListas, TypePmp, TypeMem, SinCola, SinTimer
<1> QED BY <1>2, <1>6, <1>7, <1>8, <1>9, <1>10, <1>11, <1>12, <1>13, <1>14,
      <1>15, <1>16, <1>17 DEF IInv

\* The invariant survives the medium-term loop waking and taking its
\* snapshot.
LEMMA PasoPmpDespierta ==
  ASSUME IInv, PmpDespierta
  PROVE  IInv'
<1>1. TypePcb' /\ TypeFase' /\ TypeIO' /\ TypeTimer' /\ TypeWorker' /\
      TypeCanal' /\ TypeMem' /\ SocketInv' /\ RespuestaInv' /\
      FaseInv' /\ ColaInv' /\ WorkerInv' /\ ListaInv' /\ DebeInv' /\
      ResidenciaInv' /\ VolcadoQuieto' /\ ListoTrasVolcado'
  BY Marco DEF PmpDespierta
<1>2. TypeListas'
  BY DEF IInv, PmpDespierta, TypeListas
<1>3. TypePmp'
  BY DEF IInv, PmpDespierta, TypePmp, TypeListas
<1>4. CanalInv'
  BY DEF IInv, PmpDespierta, CanalInv, TypeFase, TypeTimer, TypeWorker,
     TypePmp, TypeCanal
<1>5. PmpInv'
  BY DEF IInv, PmpDespierta, PmpInv, TypePcb, TypeFase, TypeListas,
     TypeWorker, TypePmp, TypeMem
<1> QED BY <1>1, <1>2, <1>3, <1>4, <1>5 DEF IInv

\* The invariant survives the medium-term loop choosing a candidate.
LEMMA PasoPmpElige ==
  ASSUME IInv, NEW p \in Procs, PmpElige(p)
  PROVE  IInv'
<1>1. estado[p] = "SUSP_READY" /\ p \in lista /\ pp = Nulo
  BY DEF IInv, PmpInv, PmpElige
<1>2. TypePcb' /\ TypeFase' /\ TypeListas' /\ TypeIO' /\ TypeTimer' /\
      TypeWorker' /\ TypeCanal' /\ TypeMem' /\ SocketInv' /\
      RespuestaInv' /\ FaseInv' /\ ColaInv' /\ WorkerInv' /\ ListaInv' /\
      DebeInv' /\ ResidenciaInv' /\ VolcadoQuieto'
  BY Marco DEF PmpElige
<1>3. TypePmp'
  BY <1>1 DEF IInv, PmpElige, TypePmp
<1>4. CanalInv'
  BY <1>1 DEF IInv, PmpElige, CanalInv, TypeFase, TypeTimer, TypeWorker,
     TypePmp, TypeCanal
<1>5. PmpInv'
  BY <1>1 DEF IInv, PmpElige, PmpInv, TypePcb, TypeFase, TypeListas,
     TypeWorker, TypePmp, TypeMem
<1>6. ListoTrasVolcado'
  BY <1>1 DEF IInv, PmpElige, ListoTrasVolcado, TypePcb, TypeListas, TypePmp,
     TypeMem
<1> QED BY <1>2, <1>3, <1>4, <1>5, <1>6 DEF IInv

\* The invariant survives the end of a round of the medium-term loop.
LEMMA PasoPmpTermina ==
  ASSUME IInv, PmpTermina
  PROVE  IInv'
<1>1. TypePcb' /\ TypeFase' /\ TypeListas' /\ TypeIO' /\ TypeTimer' /\
      TypeWorker' /\ TypeCanal' /\ TypeMem' /\ SocketInv' /\
      RespuestaInv' /\ FaseInv' /\ ColaInv' /\ WorkerInv' /\ ListaInv' /\
      DebeInv' /\ ResidenciaInv' /\ VolcadoQuieto' /\ ListoTrasVolcado'
  BY Marco DEF PmpTermina
<1>2. TypePmp'
  BY DEF IInv, PmpTermina, TypePmp
<1>3. CanalInv'
  BY DEF IInv, PmpTermina, CanalInv, TypeFase, TypeTimer, TypeWorker, TypePmp,
     TypeCanal
<1>4. PmpInv'
  BY DEF IInv, PmpTermina, PmpInv, TypePcb, TypeFase, TypeListas, TypeWorker,
     TypePmp, TypeMem
<1> QED BY <1>1, <1>2, <1>3, <1>4 DEF IInv

\* The invariant survives the medium-term loop taking the channel.
LEMMA PasoPmpPide ==
  ASSUME IInv, PmpPide
  PROVE  IInv'
<1>1. PICK op \in {"DES_SUSPENDER", "ESCRITURA", "FINALIZAR"} :
        /\ Enviar(Pmp, op, pp) /\ pp \in Procs
        /\ ppc = CASE op = "DES_SUSPENDER" -> "pide"
                   [] op = "ESCRITURA" -> "escribe"
                   [] op = "FINALIZAR" -> "finaliza"
  BY DEF IInv, PmpInv, PmpPide
<1>2. TypeCanal' /\ SocketInv' /\ RespuestaInv'
      /\ dueno' = Pmp /\ pedido' = Pedido(op, pp)
  BY <1>1, Enviado
<1>3. TypePcb' /\ TypeFase' /\ TypeListas' /\ TypeIO' /\ TypeTimer' /\
      TypeWorker' /\ TypePmp' /\ TypeMem' /\ SocketInv' /\ FaseInv' /\
      ColaInv' /\ WorkerInv' /\ PmpInv' /\ ListaInv' /\ DebeInv' /\
      ResidenciaInv' /\ VolcadoQuieto' /\ ListoTrasVolcado'
  BY Marco DEF PmpPide, Enviar
<1>4. CanalInv'
  BY <1>1, <1>2 DEF IInv, PmpPide, CanalInv, TypeFase, TypeTimer, TypeWorker,
     TypePmp, TypeCanal
<1> QED BY <1>2, <1>3, <1>4 DEF IInv

\* The invariant survives a DES_SUSPENDER_PROCESO that found no room.
LEMMA PasoPmpSinEspacio ==
  ASSUME IInv, PmpSinEspacio
  PROVE  IInv'
<1>1. Recibir(Pmp, "SEGFAULT")
  BY DEF PmpSinEspacio, PmpRecibe
<1>2. TypeCanal' /\ CanalInv' /\ SocketInv' /\ RespuestaInv'
  BY <1>1, Recibida
<1>3. PICK p \in Procs : p = pp
  BY DEF IInv, PmpInv, PmpSinEspacio
<1>4. /\ p \notin block /\ p \notin cand /\ fase[p] = "-"
      /\ SinCola(p) /\ SinTimer(p) /\ \A i \in Ios : wpid[i] # p
      /\ estado[p] = "SUSP_READY"
  BY <1>3, CandidatoLibre DEF PmpSinEspacio
<1>5. pedido = Pedido("DES_SUSPENDER", p)
  BY <1>1, <1>3, Recibida DEF IInv, CanalInv, PmpSinEspacio
<1>6. p \in lista /\ (SwapFalla \/ mem[p] = "swap")
  BY <1>1, <1>3, <1>5, Contenido DEF IInv, PmpInv, PmpSinEspacio
<1>7. TypePcb' /\ TypeFase' /\ TypeListas' /\ TypeIO' /\ TypeTimer' /\
      TypeWorker' /\ TypeMem' /\ FaseInv' /\ ColaInv' /\ WorkerInv' /\
      ListaInv' /\ DebeInv' /\ ResidenciaInv' /\ VolcadoQuieto'
  BY Marco DEF PmpSinEspacio, PmpRecibe, Recibir
<1>8. TypePmp'
  BY <1>3, <1>4, <1>6 DEF IInv, PmpSinEspacio, PmpRecibe, TypePmp
<1>9. PmpInv'
  BY <1>3, <1>4, <1>6 DEF IInv, PmpSinEspacio, PmpRecibe, PmpInv, TypePcb,
     TypeFase, TypeListas, TypeWorker, TypePmp, TypeMem, SinCola, SinTimer
<1>10. ListoTrasVolcado'
  BY <1>3, <1>4, <1>6 DEF IInv, PmpSinEspacio, PmpRecibe, ListoTrasVolcado,
     TypePcb, TypeListas, TypePmp, TypeMem, SinCola, SinTimer
<1> QED BY <1>2, <1>7, <1>8, <1>9, <1>10 DEF IInv

\* The invariant survives a DES_SUSPENDER_PROCESO that succeeded.
LEMMA PasoPmpDesSuspende ==
  ASSUME IInv, PmpDesSuspende
  PROVE  IInv'
<1>1. Recibir(Pmp, "OK")
  BY DEF PmpDesSuspende, PmpRecibe
<1>2. TypeCanal' /\ CanalInv' /\ SocketInv' /\ RespuestaInv'
  BY <1>1, Recibida
<1>3. PICK p \in Procs : p = pp
  BY DEF IInv, PmpInv, PmpDesSuspende
<1>4. /\ p \notin block /\ p \notin cand /\ fase[p] = "-"
      /\ SinCola(p) /\ SinTimer(p) /\ \A i \in Ios : wpid[i] # p
      /\ estado[p] = "SUSP_READY"
  BY <1>3, CandidatoLibre DEF PmpDesSuspende
<1>5. pedido = Pedido("DES_SUSPENDER", p)
  BY <1>1, <1>3, Recibida DEF IInv, CanalInv, PmpDesSuspende
<1>6. p \in lista /\ mem[p] # "swap"
  BY <1>1, <1>3, <1>5, Contenido DEF IInv, PmpInv, PmpDesSuspende
<1>7. TypeFase' /\ TypeIO' /\ TypeTimer' /\ TypeWorker' /\ TypeMem' /\
      ColaInv'
  BY Marco DEF PmpDesSuspende, PmpRecibe, Recibir
<1>8. TypePcb'
  BY <1>3, <1>4, <1>6 DEF IInv, PmpDesSuspende, PmpRecibe, TypePcb
<1>9. TypeListas'
  BY <1>3, <1>4, <1>6 DEF IInv, PmpDesSuspende, PmpRecibe, TypeListas
<1>10. TypePmp'
  BY <1>3, <1>4, <1>6 DEF IInv, PmpDesSuspende, PmpRecibe, TypePmp
<1>11. FaseInv'
  BY <1>3, <1>4, <1>6 DEF IInv, PmpDesSuspende, PmpRecibe, FaseInv, TypePcb,
     TypeFase, TypeListas, SinCola, SinTimer
<1>12. WorkerInv'
  BY <1>3, <1>4, <1>6 DEF IInv, PmpDesSuspende, PmpRecibe, WorkerInv, TypePcb,
     TypeFase, TypeListas, TypeIO, TypeWorker, SinCola, SinTimer
<1>13. PmpInv'
  BY <1>3, <1>4, <1>6 DEF IInv, PmpDesSuspende, PmpRecibe, PmpInv, TypePcb,
     TypeFase, TypeListas, TypeWorker, TypePmp, TypeMem, SinCola, SinTimer
<1>14. ListaInv'
  BY <1>3, <1>4, <1>6 DEF IInv, PmpDesSuspende, PmpRecibe, ListaInv, TypePcb,
     TypeListas, TypeTimer, TypeMem, SinCola, SinTimer
<1>15. DebeInv'
  BY <1>3, <1>4, <1>6 DEF IInv, PmpDesSuspende, PmpRecibe, DebeInv, TypePcb,
     TypeWorker, TypeMem, SinCola, SinTimer
<1>16. ResidenciaInv'
  BY <1>3, <1>4, <1>6 DEF IInv, PmpDesSuspende, PmpRecibe, ResidenciaInv,
     TypePcb, TypeMem, SinCola, SinTimer
<1>17. VolcadoQuieto'
  BY <1>3, <1>4, <1>6 DEF IInv, PmpDesSuspende, PmpRecibe, VolcadoQuieto,
     TypePcb, TypeListas, TypeTimer, SinCola, SinTimer
<1>18. ListoTrasVolcado'
  BY <1>3, <1>4, <1>6 DEF IInv, PmpDesSuspende, PmpRecibe, ListoTrasVolcado,
     TypePcb, TypeListas, TypePmp, TypeMem, SinCola, SinTimer
<1> QED BY <1>2, <1>7, <1>8, <1>9, <1>10, <1>11, <1>12, <1>13, <1>14, <1>15,
      <1>16, <1>17, <1>18 DEF IInv

\* The invariant survives the deferred STDIN write of the medium-term
\* loop.
LEMMA PasoPmpEscribio ==
  ASSUME IInv, PmpEscribio
  PROVE  IInv'
<1>1. Recibir(Pmp, "OK")
  BY DEF PmpEscribio, PmpRecibe
<1>2. TypeCanal' /\ CanalInv' /\ SocketInv' /\ RespuestaInv'
  BY <1>1, Recibida
<1>3. PICK p \in Procs : p = pp
  BY DEF IInv, PmpInv, PmpEscribio
<1>4. /\ p \notin block /\ p \notin cand /\ fase[p] = "-"
      /\ SinCola(p) /\ SinTimer(p) /\ \A i \in Ios : wpid[i] # p
      /\ estado[p] = "SUSP_READY"
  BY <1>3, CandidatoLibre DEF PmpEscribio
<1>5. pedido = Pedido("ESCRITURA", p)
  BY <1>1, <1>3, Recibida DEF IInv, CanalInv, PmpEscribio
<1>6. mem[p] # "swap" /\ p \notin lista /\ ~debe[p]
  BY <1>1, <1>3, <1>5, Contenido DEF IInv, PmpInv, PmpEscribio
<1>7. TypeFase' /\ TypeListas' /\ TypeIO' /\ TypeTimer' /\ TypeWorker' /\
      TypeMem' /\ ColaInv'
  BY Marco DEF PmpEscribio, PmpRecibe, Recibir
<1>8. TypePcb'
  BY <1>3, <1>4, <1>6 DEF IInv, PmpEscribio, PmpRecibe, TypePcb
<1>9. TypePmp'
  BY <1>3, <1>4, <1>6 DEF IInv, PmpEscribio, PmpRecibe, TypePmp
<1>10. FaseInv'
  BY <1>3, <1>4, <1>6 DEF IInv, PmpEscribio, PmpRecibe, FaseInv, TypePcb,
     TypeFase, TypeListas, SinCola, SinTimer
<1>11. WorkerInv'
  BY <1>3, <1>4, <1>6 DEF IInv, PmpEscribio, PmpRecibe, WorkerInv, TypePcb,
     TypeFase, TypeListas, TypeIO, TypeWorker, SinCola, SinTimer
<1>12. PmpInv'
  BY <1>3, <1>4, <1>6 DEF IInv, PmpEscribio, PmpRecibe, PmpInv, TypePcb,
     TypeFase, TypeListas, TypeWorker, TypePmp, TypeMem, SinCola, SinTimer
<1>13. ListaInv'
  BY <1>3, <1>4, <1>6 DEF IInv, PmpEscribio, PmpRecibe, ListaInv, TypePcb,
     TypeListas, TypeTimer, TypeMem, SinCola, SinTimer
<1>14. DebeInv'
  BY <1>3, <1>4, <1>6 DEF IInv, PmpEscribio, PmpRecibe, DebeInv, TypePcb,
     TypeWorker, TypeMem, SinCola, SinTimer
<1>15. ResidenciaInv'
  BY <1>3, <1>4, <1>6 DEF IInv, PmpEscribio, PmpRecibe, ResidenciaInv,
     TypePcb, TypeMem, SinCola, SinTimer
<1>16. VolcadoQuieto'
  BY <1>3, <1>4, <1>6 DEF IInv, PmpEscribio, PmpRecibe, VolcadoQuieto,
     TypePcb, TypeListas, TypeTimer, SinCola, SinTimer
<1>17. ListoTrasVolcado'
  BY <1>3, <1>4, <1>6 DEF IInv, PmpEscribio, PmpRecibe, ListoTrasVolcado,
     TypePcb, TypeListas, TypePmp, TypeMem, SinCola, SinTimer
<1> QED BY <1>2, <1>7, <1>8, <1>9, <1>10, <1>11, <1>12, <1>13, <1>14, <1>15,
      <1>16, <1>17 DEF IInv

\* The invariant survives the deferred STDIN write that faults.
LEMMA PasoPmpFalla ==
  ASSUME IInv, PmpFalla
  PROVE  IInv'
<1>1. Recibir(Pmp, "SEGFAULT")
  BY DEF PmpFalla, PmpRecibe
<1>2. TypeCanal' /\ CanalInv' /\ SocketInv' /\ RespuestaInv'
  BY <1>1, Recibida
<1>3. PICK p \in Procs : p = pp
  BY DEF IInv, PmpInv, PmpFalla
<1>4. /\ p \notin block /\ p \notin cand /\ fase[p] = "-"
      /\ SinCola(p) /\ SinTimer(p) /\ \A i \in Ios : wpid[i] # p
      /\ estado[p] = "SUSP_READY"
  BY <1>3, CandidatoLibre DEF PmpFalla
<1>5. pedido = Pedido("ESCRITURA", p)
  BY <1>1, <1>3, Recibida DEF IInv, CanalInv, PmpFalla
<1>6. mem[p] # "swap" /\ p \notin lista
  BY <1>1, <1>3, <1>5, Contenido DEF IInv, PmpInv, PmpFalla
<1>7. TypeFase' /\ TypeIO' /\ TypeTimer' /\ TypeWorker' /\ TypeMem' /\
      ColaInv'
  BY Marco DEF PmpFalla, PmpRecibe, Recibir
<1>8. TypePcb'
  BY <1>3, <1>4, <1>6 DEF IInv, PmpFalla, PmpRecibe, TypePcb
<1>9. TypeListas'
  BY <1>3, <1>4, <1>6 DEF IInv, PmpFalla, PmpRecibe, TypeListas
<1>10. TypePmp'
  BY <1>3, <1>4, <1>6 DEF IInv, PmpFalla, PmpRecibe, TypePmp
<1>11. FaseInv'
  BY <1>3, <1>4, <1>6 DEF IInv, PmpFalla, PmpRecibe, FaseInv, TypePcb,
     TypeFase, TypeListas, SinCola, SinTimer
<1>12. WorkerInv'
  BY <1>3, <1>4, <1>6 DEF IInv, PmpFalla, PmpRecibe, WorkerInv, TypePcb,
     TypeFase, TypeListas, TypeIO, TypeWorker, SinCola, SinTimer
<1>13. PmpInv'
  BY <1>3, <1>4, <1>6 DEF IInv, PmpFalla, PmpRecibe, PmpInv, TypePcb,
     TypeFase, TypeListas, TypeWorker, TypePmp, TypeMem, SinCola, SinTimer
<1>14. ListaInv'
  BY <1>3, <1>4, <1>6 DEF IInv, PmpFalla, PmpRecibe, ListaInv, TypePcb,
     TypeListas, TypeTimer, TypeMem, SinCola, SinTimer
<1>15. DebeInv'
  BY <1>3, <1>4, <1>6 DEF IInv, PmpFalla, PmpRecibe, DebeInv, TypePcb,
     TypeWorker, TypeMem, SinCola, SinTimer
<1>16. ResidenciaInv'
  BY <1>3, <1>4, <1>6 DEF IInv, PmpFalla, PmpRecibe, ResidenciaInv, TypePcb,
     TypeMem, SinCola, SinTimer
<1>17. VolcadoQuieto'
  BY <1>3, <1>4, <1>6 DEF IInv, PmpFalla, PmpRecibe, VolcadoQuieto, TypePcb,
     TypeListas, TypeTimer, SinCola, SinTimer
<1>18. ListoTrasVolcado'
  BY <1>3, <1>4, <1>6 DEF IInv, PmpFalla, PmpRecibe, ListoTrasVolcado,
     TypePcb, TypeListas, TypePmp, TypeMem, SinCola, SinTimer
<1> QED BY <1>2, <1>7, <1>8, <1>9, <1>10, <1>11, <1>12, <1>13, <1>14, <1>15,
      <1>16, <1>17, <1>18 DEF IInv

\* The invariant survives the medium-term loop freeing a process that
\* faulted.
LEMMA PasoPmpFinaliza ==
  ASSUME IInv, PmpFinaliza
  PROVE  IInv'
<1>1. Recibir(Pmp, "OK")
  BY DEF PmpFinaliza, PmpRecibe
<1>2. TypeCanal' /\ CanalInv' /\ SocketInv' /\ RespuestaInv'
  BY <1>1, Recibida
<1>3. PICK p \in Procs : p = pp
  BY DEF IInv, PmpInv, PmpFinaliza
<1>4. /\ p \notin block /\ p \notin cand /\ fase[p] = "-"
      /\ SinCola(p) /\ SinTimer(p) /\ \A i \in Ios : wpid[i] # p
      /\ estado[p] = "EXIT"
  BY <1>3, CandidatoLibre DEF PmpFinaliza
<1>5. pedido = Pedido("FINALIZAR", p)
  BY <1>1, <1>3, Recibida DEF IInv, CanalInv, PmpFinaliza
<1>6. p \notin lista
  BY <1>3, <1>4 DEF IInv, ListaInv
<1>7. TypeFase' /\ TypeListas' /\ TypeIO' /\ TypeTimer' /\ TypeWorker' /\
      TypeMem' /\ ColaInv'
  BY Marco DEF PmpFinaliza, PmpRecibe, Recibir
<1>8. TypePcb'
  BY <1>3, <1>4, <1>6 DEF IInv, PmpFinaliza, PmpRecibe, TypePcb
<1>9. TypePmp'
  BY <1>3, <1>4, <1>6 DEF IInv, PmpFinaliza, PmpRecibe, TypePmp
<1>10. FaseInv'
  BY <1>3, <1>4, <1>6 DEF IInv, PmpFinaliza, PmpRecibe, FaseInv, TypePcb,
     TypeFase, TypeListas, SinCola, SinTimer
<1>11. WorkerInv'
  <2>1. /\ UNCHANGED <<wpc, wpid, fase, block, cola>>
        /\ \A q \in Procs \ {p} : estado'[q] = estado[q]
    BY <1>3 DEF IInv, TypePcb, PmpFinaliza, PmpRecibe
  <2> QED BY <1>4, <2>1, EstadoSinWorker
<1>12. PmpInv'
  BY <1>3, <1>4, <1>6 DEF IInv, PmpFinaliza, PmpRecibe, PmpInv, TypePcb,
     TypeFase, TypeListas, TypeWorker, TypePmp, TypeMem, SinCola, SinTimer
<1>13. ListaInv'
  BY <1>3, <1>4, <1>6 DEF IInv, PmpFinaliza, PmpRecibe, ListaInv, TypePcb,
     TypeListas, TypeTimer, TypeMem, SinCola, SinTimer
<1>14. DebeInv'
  BY <1>3, <1>4, <1>6 DEF IInv, PmpFinaliza, PmpRecibe, DebeInv, TypePcb,
     TypeWorker, TypeMem, SinCola, SinTimer
<1>15. ResidenciaInv'
  BY <1>3, <1>4, <1>6 DEF IInv, PmpFinaliza, PmpRecibe, ResidenciaInv,
     TypePcb, TypeMem, SinCola, SinTimer
<1>16. VolcadoQuieto'
  BY <1>3, <1>4, <1>6 DEF IInv, PmpFinaliza, PmpRecibe, VolcadoQuieto,
     TypePcb, TypeListas, TypeTimer, SinCola, SinTimer
<1>17. ListoTrasVolcado'
  BY <1>3, <1>4, <1>6 DEF IInv, PmpFinaliza, PmpRecibe, ListoTrasVolcado,
     TypePcb, TypeListas, TypePmp, TypeMem, SinCola, SinTimer
<1> QED BY <1>2, <1>7, <1>8, <1>9, <1>10, <1>11, <1>12, <1>13, <1>14, <1>15,
      <1>16, <1>17 DEF IInv

\* Every step of the scheduler, of memory or of the devices preserves the
\* inductive invariant.
LEMMA Paso ==
  ASSUME IInv, Next
  PROVE  IInv'
<1>1. CASE DrenarNotificacion
  BY <1>1, PasoDrenarNotificacion
<1>2. CASE Memoria
  BY <1>2, PasoMemSuspender, PasoMemDesSuspender, PasoMemSolicitar,
     PasoMemLiberar, PasoMemAcceder DEF Memoria
<1>3. CASE Programa
  <2> PICK p \in Procs :
        \/ Admitir(p) \/ Despachar(p) \/ Desalojar(p) \/ Salir(p)
        \/ SyscallMemoria(p, "SOLICITAR") \/ SyscallMemoria(p, "ELIMINAR")
        \/ \E i \in Ios : SyscallIO(p, i) \/ SyscallSinInterfaz(p, i)
        \/ BloquearEnMutex(p) \/ DesbloquearDeMutex(p)
    BY <1>3 DEF Programa
  <2>1. CASE SyscallMemoria(p, "SOLICITAR") \/ SyscallMemoria(p, "ELIMINAR")
    BY <2>1, PasoSyscallMemoria
  <2>2. CASE \E i \in Ios : SyscallIO(p, i) \/ SyscallSinInterfaz(p, i)
    BY <2>2, PasoSyscallIO, PasoSyscallSinInterfaz
  <2>3. CASE Admitir(p) \/ Despachar(p) \/ Desalojar(p) \/ Salir(p)
    BY <2>3, PasoAdmitir, PasoDespachar, PasoDesalojar, PasoSalir
  <2>4. CASE BloquearEnMutex(p) \/ DesbloquearDeMutex(p)
    BY <2>4, PasoBloquearEnMutex, PasoDesbloquearDeMutex
  <2> QED BY <2>1, <2>2, <2>3, <2>4
<1>4. CASE \E p \in Procs : ReceptorCpu(p)
  BY <1>4, PasoReceptorPide, PasoReceptorSigue, PasoReceptorFalla,
     PasoEncolarBloquea, PasoEncolarPedido, PasoEncolarRechaza,
     PasoCuentaEpisodio DEF ReceptorCpu
<1>5. CASE \E p \in Procs, e \in Epocas : TimerSuspension(p, e)
  BY <1>5, PasoTimerSuspende, PasoTimerCaduca, PasoTimerAgrega, PasoTimerPide,
     PasoTimerVolcado, PasoTimerVence, PasoTimerMarca, PasoTimerNotifica
     DEF TimerSuspension
<1>6. CASE \E i \in Ios : WorkerIO(i) \/ DesconectaIO(i) \/ RegistrarInterfaz(i)
  BY <1>6, PasoTomarPedido, PasoTerminaIO, PasoTerminaSuspendido,
     PasoTerminaEnRam, PasoWorkerPide, PasoWorkerSigue, PasoWorkerFalla,
     PasoDesconectaIO, PasoRegistrarInterfaz DEF WorkerIO
<1>7. CASE MedianoPlazo
  BY <1>7, PasoPmpDespierta, PasoPmpElige, PasoPmpTermina, PasoPmpPide,
     PasoPmpSinEspacio, PasoPmpDesSuspende, PasoPmpEscribio, PasoPmpFalla,
     PasoPmpFinaliza DEF MedianoPlazo
<1>8. CASE Terminado
  BY <1>8, PasoQuieto DEF Terminado
<1> QED BY <1>1, <1>2, <1>3, <1>4, <1>5, <1>6, <1>7, <1>8 DEF Next

-----------------------------------------------------------------------------
(* The theorems.                                                           *)

\* The conjunction IInv holds in every reachable state of the scheduler, for
\* any processes, interfaces, memory sizes and bounds.
THEOREM Invariante == Spec => []IInv
<1>1. Init => IInv
  BY Inicio
<1>2. IInv /\ [Next]_vars => IInv'
  BY Paso, PasoQuieto
<1> QED BY <1>1, <1>2, PTL DEF Spec

\* Every variable stays in its type: among others, mutex_memory_socket has at
\* most one owner and the socket holds only responses and notifications.
THEOREM Tipos == Spec => []TypeOK
<1>1. IInv => TypeOK
  BY DEF IInv
<1> QED BY <1>1, Invariante, PTL

\* While a dump to swap is in flight its process stays in SUSP_BLOCK and in
\* cola_procesos_block, the dump is the only one, and the timer that started it
\* is not of an episode older than the I/O in course.
THEOREM VolcadoSeguro == Spec => []VolcadoQuieto
<1>1. IInv => VolcadoQuieto
  BY DEF IInv
<1> QED BY <1>1, Invariante, PTL

\* A process in SUSP_READY is in lista_suspendidos, with nothing in RAM while
\* swap works, unless it is the candidate the medium-term loop is bringing back.
THEOREM OrdenVolcado == Spec => []ListoTrasVolcado
<1>1. IInv => ListoTrasVolcado
  BY DEF IInv
<1> QED BY <1>1, Invariante, PTL

\* A process in READY or EXEC has no segment in swap.
THEOREM Residencia == Spec => []ResidenteParaEjecutar
<1>1. IInv => ResidenteParaEjecutar
  BY DEF IInv, ResidenciaInv, ResidenteParaEjecutar
<1> QED BY <1>1, Invariante, PTL

\* No read or write request is ever sent for a process that is in swap.
THEOREM Accesos == Spec => []AccesoResidente
<1>1. IInv => AccesoResidente
  <2> SUFFICES ASSUME IInv, pedido.op \in {"LECTURA", "ESCRITURA"}
               PROVE  mem[pedido.pid] # "swap"
    BY DEF AccesoResidente
  <2>1. pedido \in [op : Operaciones, pid : Procs]
    BY DEF IInv, TypeCanal
  <2>2. dueno # Nadie
    BY <2>1 DEF IInv, CanalInv
  <2>3. PICK op \in Operaciones, p \in Procs : pedido = [op |-> op, pid |-> p]
    BY <2>1
  <2>4. CASE op = "LECTURA"
    <3>1. fase[p] = "LECTURA"
      BY <2>2, <2>3, <2>4, Solicitante
    <3> QED BY <2>3, <3>1 DEF IInv, FaseInv, ResidenciaInv
  <2>5. CASE op = "ESCRITURA"
    <3>1. \/ ppc = "escribe" /\ pp = p
          \/ \E i \in Ios : wpc[i] = "escribe" /\ wpid[i] = p
      BY <2>2, <2>3, <2>5, Solicitante
    <3> QED BY <2>3, <3>1 DEF IInv, PmpInv, WorkerInv, ResidenciaInv
  <2> QED BY <2>3, <2>4, <2>5
<1> QED BY <1>1, Invariante, PTL

\* What was typed for a process is in its memory before it is READY again.
THEOREM Entradas == Spec => []EntradaEscrita
<1>1. IInv => EntradaEscrita
  BY DEF IInv, DebeInv, EntradaEscrita
<1> QED BY <1>1, Invariante, PTL

\* No list, queue, snapshot, worker or dump still holds a PCB that was freed;
\* receptors that keep a pointer after handing the process over are not part
\* of the claim.
THEOREM Colgantes == Spec => []LiberadoSinRastro
<1>1. IInv => LiberadoSinRastro
  <2> SUFFICES ASSUME IInv, NEW p \in Procs, estado[p] = "LIBERADO"
               PROVE  /\ p \notin block /\ p \notin lista /\ p \notin cand
                      /\ pp # p /\ pedido.pid # p /\ fase[p] = "-"
                      /\ ~EnCola(p) /\ \A i \in Ios : wpid[i] # p
                      /\ \A e \in Epocas : timer[p][e] \notin Volcando
    BY DEF LiberadoSinRastro
  <2>1. Ajeno(p)
    BY EjecutableAjeno
  <2>2. ~EnCola(p)
    <3>1. \A i \in Ios : DOMAIN cola[i] = 1..Len(cola[i])
      BY DEF IInv, TypeIO
    <3> QED BY <2>1, <3>1 DEF EnCola, Ajeno, SinCola
  <2>3. fase[p] = "-"
    BY <2>1 DEF IInv, TypeFase, FaseInv, Ajeno
  <2>4. pedido.pid # p
    <3> SUFFICES ASSUME pedido.pid = p PROVE FALSE
      OBVIOUS
    <3>1. PICK op \in Operaciones : pedido = [op |-> op, pid |-> p]
      BY DEF IInv, TypeCanal
    <3>2. dueno # Nadie
      BY <3>1 DEF IInv, CanalInv
    <3> QED BY <3>1, <3>2, Vivo
  <2> QED BY <2>1, <2>2, <2>3, <2>4 DEF Ajeno, SinTimer
<1> QED BY <1>1, Invariante, PTL
-----------------------------------------------------------------------------
(* Every blocked process has exactly one pending request.  IInv says that  *)
(* there is at most one, EncoladoInv that there is one.                    *)

\* A step that leaves the queues and the workers alone, blocks nobody and
\* takes no request from a receptor thread.
LEMMA MarcoPedido ==
  ASSUME IInv, EncoladoInv, UNCHANGED <<block, cola, wpc, wpid, faseVars>>
  PROVE  EncoladoInv'
  BY DEF EncoladoInv, PedidoInv, DestinoInv

\* A step of a process that is not waiting to be queued, nor will be, or that
\* knows its queue.
LEMMA FaseDeUno ==
  ASSUME IInv, EncoladoInv, UNCHANGED <<block, cola, wpc, wpid>>,
         NEW p \in Procs, NEW f, fase' = [fase EXCEPT ![p] = f],
         fase[p] # "encolado",
         \/ f \notin {"LECTURA", "encolar", "encolado"}
         \/ destino'[p] \in Ios,
         \A q \in Procs \ {p} : destino'[q] = destino[q]
  PROVE  EncoladoInv'
<1>1. /\ fase'[p] = f
      /\ \A q \in Procs \ {p} : fase'[q] = fase[q]
  BY DEF IInv, TypeFase
<1>2. DestinoInv'
  BY <1>1 DEF EncoladoInv, DestinoInv
<1>3. \A q \in block : fase[q] = "encolado" => fase'[q] = "encolado"
  BY <1>1 DEF IInv, TypeListas
<1>4. PedidoInv'
  BY <1>3 DEF EncoladoInv, PedidoInv
<1> QED BY <1>2, <1>4 DEF EncoladoInv

\* encolar_io_request blocks the process and then queues its request: it is
\* never blocked without one.
LEMMA PedidoReceptor ==
  ASSUME IInv, EncoladoInv, NEW p \in Procs, ReceptorCpu(p)
  PROVE  EncoladoInv'
<1>1. CASE ReceptorPide(p)
  BY <1>1, MarcoPedido DEF ReceptorPide
<1>2. CASE ReceptorSigue(p) \/ ReceptorFalla(p)
  <2>1. dueno = Receptor(p)
    BY <1>2 DEF ReceptorSigue, ReceptorFalla, Recibir
  <2>2. fase[p] # "encolado"
    BY <2>1 DEF IInv, CanalInv
  <2>3. CASE ReceptorSigue(p)
    <3>1. CASE fase[p] = "LECTURA"
      <4>1. destino[p] \in Ios
        BY <3>1 DEF EncoladoInv, DestinoInv
      <4> QED BY <2>2, <2>3, <3>1, <4>1, FaseDeUno DEF ReceptorSigue
    <3>2. CASE fase[p] # "LECTURA"
      BY <2>2, <2>3, <3>2, FaseDeUno DEF ReceptorSigue
    <3> QED BY <3>1, <3>2
  <2>4. CASE ReceptorFalla(p)
    <3>1. \A q \in Procs \ {p} : destino'[q] = destino[q]
      BY <2>4 DEF ReceptorFalla, IInv, TypeFase
    <3> QED BY <2>2, <2>4, <3>1, FaseDeUno DEF ReceptorFalla
  <2> QED BY <1>2, <2>3, <2>4
<1>3. CASE EncolarBloquea(p)
  <2>1. /\ block' = block \union {p} /\ fase' = [fase EXCEPT ![p] = "encolado"]
        /\ UNCHANGED <<cola, wpc, wpid, destino>> /\ fase[p] = "encolar"
    BY <1>3 DEF EncolarBloquea
  <2>2. /\ fase'[p] = "encolado"
        /\ \A q \in Procs \ {p} : fase'[q] = fase[q]
    BY <2>1 DEF IInv, TypeFase
  <2>3. DestinoInv'
    BY <2>1, <2>2 DEF EncoladoInv, DestinoInv
  <2>4. block \subseteq Procs
    BY DEF IInv, TypeListas
  <2>5. PedidoInv'
    BY <2>1, <2>2, <2>4 DEF EncoladoInv, PedidoInv
  <2> QED BY <2>3, <2>5 DEF EncoladoInv
<1>4. CASE EncolarPedido(p)
  <2> DEFINE d == destino[p]
  <2>1. /\ cola' = [cola EXCEPT ![d] = Append(@, p)]
        /\ fase' = [fase EXCEPT ![p] = "-"] /\ UNCHANGED <<block, wpc, wpid>>
        /\ destino' = [destino EXCEPT ![p] = Nulo] /\ fase[p] = "encolado"
    BY <1>4 DEF EncolarPedido
  <2>2. d \in Ios
    BY <2>1 DEF EncoladoInv, DestinoInv
  <2>3. /\ fase'[p] = "-"
        /\ \A q \in Procs \ {p} : fase'[q] = fase[q] /\ destino'[q] = destino[q]
    BY <2>1 DEF IInv, TypeFase
  <2>4. DestinoInv'
    BY <2>3 DEF EncoladoInv, DestinoInv
  <2>5. cola[d] \in Seq(Procs) /\ cola'[d] = Append(cola[d], p)
    BY <2>1, <2>2 DEF IInv, TypeIO
  <2>6. /\ Len(cola[d]) + 1 \in 1..Len(cola'[d])
        /\ cola'[d][Len(cola[d]) + 1] = p
    BY <2>5
  <2>7. \A i \in Ios : \A k \in 1..Len(cola[i]) :
          k \in 1..Len(cola'[i]) /\ cola'[i][k] = cola[i][k]
    BY <2>1, <2>2 DEF IInv, TypeIO
  <2>8. block \subseteq Procs
    BY DEF IInv, TypeListas
  <2>9. PedidoInv'
    <3> SUFFICES ASSUME NEW q \in block
                 PROVE \/ fase'[q] = "encolado"
                       \/ \E i \in Ios : \E k \in 1..Len(cola'[i]) :
                            cola'[i][k] = q
                       \/ \E i \in Ios : /\ wpid[i] = q
                                         /\ wpc[i] \in {"enIO", "extrae", "fin"}
      BY <2>1 DEF PedidoInv
    <3>1. CASE q = p
      BY <2>2, <2>6, <3>1
    <3>2. CASE q # p
      BY <2>3, <2>7, <2>8, <3>2 DEF EncoladoInv, PedidoInv
    <3> QED BY <3>1, <3>2
  <2> QED BY <2>4, <2>9 DEF EncoladoInv
<1>5. CASE EncolarRechaza(p)
  BY <1>5, FaseDeUno DEF EncolarRechaza
<1>6. CASE CuentaEpisodio(p)
  BY <1>6, MarcoPedido DEF CuentaEpisodio
<1> QED BY <1>1, <1>2, <1>3, <1>4, <1>5, <1>6 DEF ReceptorCpu

\* The steps of the programs block nobody in cola_procesos_block.
LEMMA PedidoPrograma ==
  ASSUME IInv, EncoladoInv, Programa
  PROVE  EncoladoInv'
<1> PICK p \in Procs :
      \/ Admitir(p) \/ Despachar(p) \/ Desalojar(p) \/ Salir(p)
      \/ SyscallMemoria(p, "SOLICITAR") \/ SyscallMemoria(p, "ELIMINAR")
      \/ \E i \in Ios : SyscallIO(p, i) \/ SyscallSinInterfaz(p, i)
      \/ BloquearEnMutex(p) \/ DesbloquearDeMutex(p)
  BY DEF Programa
<1>1. CASE Admitir(p) \/ Despachar(p) \/ Desalojar(p)
           \/ \E i \in Ios : SyscallSinInterfaz(p, i)
  BY <1>1, MarcoPedido DEF Admitir, Despachar, Desalojar, SyscallSinInterfaz
<1>2. CASE Salir(p)
  BY <1>2, FaseDeUno DEF Salir, EnCpu
<1>3. CASE SyscallMemoria(p, "SOLICITAR")
  BY <1>3, FaseDeUno DEF SyscallMemoria, EnCpu
<1>4. CASE SyscallMemoria(p, "ELIMINAR")
  BY <1>4, FaseDeUno DEF SyscallMemoria, EnCpu
<1>5. CASE \E i \in Ios : SyscallIO(p, i)
  <2> PICK i \in Ios : SyscallIO(p, i)
    BY <1>5
  <2>1. /\ destino'[p] = i
        /\ \A q \in Procs \ {p} : destino'[q] = destino[q]
    BY DEF SyscallIO, IInv, TypeFase
  <2>2. PICK f : fase' = [fase EXCEPT ![p] = f]
    BY DEF SyscallIO
  <2>3. fase[p] # "encolado" /\ UNCHANGED <<block, cola, wpc, wpid>>
    BY DEF SyscallIO, EnCpu
  <2> QED BY <2>1, <2>2, <2>3, FaseDeUno
<1>6. CASE BloquearEnMutex(p)
  BY <1>6, FaseDeUno DEF BloquearEnMutex, EnCpu
<1>7. CASE DesbloquearDeMutex(p)
  BY <1>7, FaseDeUno DEF DesbloquearDeMutex
<1> QED BY <1>1, <1>2, <1>3, <1>4, <1>5, <1>6, <1>7

\* A worker takes the oldest request out of its queue and nobody loses one.
LEMMA PedidoTomado ==
  ASSUME IInv, EncoladoInv, NEW i \in Ios, TomarPedido(i)
  PROVE  EncoladoInv'
<1>1. /\ wpc[i] = "espera" /\ cola[i] # <<>>
      /\ wpc' = [wpc EXCEPT ![i] = "enIO"]
      /\ wpid' = [wpid EXCEPT ![i] = Head(cola[i])]
      /\ cola' = [cola EXCEPT ![i] = Tail(@)]
      /\ UNCHANGED <<block, fase, destino>>
  BY DEF TomarPedido
<1>2. /\ wpc'[i] = "enIO" /\ wpid'[i] = cola[i][1]
      /\ \A j \in Ios \ {i} : wpc'[j] = wpc[j] /\ wpid'[j] = wpid[j]
  BY <1>1 DEF IInv, TypeIO, TypeWorker
<1>3. \A k \in 1..Len(cola[i]) :
        \/ k = 1
        \/ k - 1 \in 1..Len(cola'[i]) /\ cola'[i][k - 1] = cola[i][k]
  <2>1. cola[i] \in Seq(Procs) /\ cola'[i] = Tail(cola[i])
    BY <1>1 DEF IInv, TypeIO
  <2>2. /\ Len(cola[i]) \in Nat /\ Len(cola'[i]) = Len(cola[i]) - 1
        /\ \A k \in 1..Len(cola[i]) - 1 : cola'[i][k] = cola[i][k + 1]
    <3>1. \A s \in Seq(Procs) : s # <<>> =>
            /\ Len(s) \in Nat /\ Len(Tail(s)) = Len(s) - 1
            /\ \A k \in 1..Len(s) - 1 : Tail(s)[k] = s[k + 1]
      OBVIOUS
    <3> QED BY <1>1, <2>1, <3>1
  <2> QED BY <2>2
<1>4. \A j \in Ios \ {i} : cola'[j] = cola[j]
  BY <1>1 DEF IInv, TypeIO
<1>5. DestinoInv'
  BY <1>1 DEF EncoladoInv, DestinoInv
<1>6. PedidoInv'
  <2> SUFFICES ASSUME NEW q \in block
               PROVE \/ fase[q] = "encolado"
                     \/ \E j \in Ios : \E k \in 1..Len(cola'[j]) :
                          cola'[j][k] = q
                     \/ \E j \in Ios : /\ wpid'[j] = q
                                       /\ wpc'[j] \in {"enIO", "extrae", "fin"}
    BY <1>1 DEF PedidoInv
  <2>1. CASE fase[q] = "encolado"
    BY <2>1
  <2>2. CASE \E j \in Ios : \E k \in 1..Len(cola[j]) : cola[j][k] = q
    <3> PICK j \in Ios : \E k \in 1..Len(cola[j]) : cola[j][k] = q
      BY <2>2
    <3> PICK k \in 1..Len(cola[j]) : cola[j][k] = q
      OBVIOUS
    <3>1. CASE j # i
      BY <1>4, <3>1
    <3>2. CASE j = i /\ k = 1
      BY <1>2, <3>2
    <3>3. CASE j = i /\ k # 1
      BY <1>3, <3>3
    <3> QED BY <3>1, <3>2, <3>3
  <2>3. CASE \E j \in Ios : /\ wpid[j] = q
                            /\ wpc[j] \in {"enIO", "extrae", "fin"}
    BY <1>1, <1>2, <2>3
  <2> QED BY <2>1, <2>2, <2>3 DEF EncoladoInv, PedidoInv
<1> QED BY <1>5, <1>6 DEF EncoladoInv

\* A worker that moves on keeps the process in its hands, or has already taken
\* it out of cola_procesos_block.
LEMMA PedidoAvanza ==
  ASSUME IInv, EncoladoInv, NEW i \in Ios, UNCHANGED <<cola, faseVars>>,
         block' \subseteq block,
         \A j \in Ios \ {i} : wpc'[j] = wpc[j] /\ wpid'[j] = wpid[j],
         \/ wpid'[i] = wpid[i] /\ wpc'[i] \in {"enIO", "extrae", "fin"}
         \/ wpid[i] \notin block'
         \/ wpc[i] \notin {"enIO", "extrae", "fin"}
  PROVE  EncoladoInv'
<1>1. DestinoInv'
  BY DEF EncoladoInv, DestinoInv
<1>2. PedidoInv'
  BY DEF EncoladoInv, PedidoInv
<1> QED BY <1>1, <1>2 DEF EncoladoInv

LEMMA PedidoWorker ==
  ASSUME IInv, EncoladoInv, NEW i \in Ios,
         WorkerIO(i) \/ DesconectaIO(i) \/ RegistrarInterfaz(i)
  PROVE  EncoladoInv'
<1>0. wpc \in [Ios -> {"espera", "enIO", "extrae", "escribe", "finaliza", "fin"}]
      /\ wpid \in [Ios -> Procs \union {Nulo}]
  BY DEF IInv, TypeWorker
<1>1. CASE TomarPedido(i)
  BY <1>1, PedidoTomado
<1>2. CASE TerminaIO(i)
  BY <1>0, <1>2, PedidoAvanza DEF TerminaIO
<1>3. CASE DesconectaIO(i)
  BY <1>0, <1>3, PedidoAvanza DEF DesconectaIO
<1>4. CASE TerminaSuspendido(i)
  <2>1. /\ block' = block \ {wpid[i]} /\ UNCHANGED <<cola, faseVars>>
        /\ \A j \in Ios \ {i} : wpc'[j] = wpc[j] /\ wpid'[j] = wpid[j]
    BY <1>0, <1>4 DEF TerminaSuspendido, Extraer, WorkerLibre
  <2> QED BY <2>1, PedidoAvanza
<1>5. CASE TerminaEnRam(i)
  <2>1. /\ block' = block \ {wpid[i]} /\ UNCHANGED <<cola, faseVars>>
        /\ \A j \in Ios \ {i} : wpc'[j] = wpc[j] /\ wpid'[j] = wpid[j]
    BY <1>0, <1>5 DEF TerminaEnRam, Extraer, WorkerLibre
  <2> QED BY <2>1, PedidoAvanza
<1>6. CASE WorkerSigue(i) \/ WorkerFalla(i)
  <2>1. wpc[i] \in {"escribe", "finaliza"}
    <3>1. dueno = Worker(i)
      BY <1>6 DEF WorkerSigue, WorkerFalla, Recibir
    <3> QED BY <3>1 DEF IInv, CanalInv
  <2>2. /\ UNCHANGED <<block, cola, faseVars>>
        /\ \A j \in Ios \ {i} : wpc'[j] = wpc[j] /\ wpid'[j] = wpid[j]
    BY <1>0, <1>6 DEF WorkerSigue, WorkerFalla, WorkerLibre
  <2> QED BY <2>1, <2>2, PedidoAvanza
<1>7. CASE WorkerPide(i) \/ RegistrarInterfaz(i)
  BY <1>7, MarcoPedido DEF WorkerPide, RegistrarInterfaz
<1> QED BY <1>1, <1>2, <1>3, <1>4, <1>5, <1>6, <1>7 DEF WorkerIO

LEMMA PasoPedido ==
  ASSUME IInv, EncoladoInv, [Next]_vars
  PROVE  EncoladoInv'
<1>1. CASE DrenarNotificacion
  BY <1>1, MarcoPedido DEF DrenarNotificacion
<1>2. CASE Memoria
  BY <1>2, MarcoPedido DEF Memoria, MemSuspender, MemDesSuspender, MemSolicitar,
     MemLiberar, MemAcceder, Atiende
<1>3. CASE Programa
  BY <1>3, PedidoPrograma
<1>4. CASE \E p \in Procs : ReceptorCpu(p)
  BY <1>4, PedidoReceptor
<1>5. CASE \E p \in Procs, e \in Epocas : TimerSuspension(p, e)
  BY <1>5, MarcoPedido DEF TimerSuspension, TimerSuspende, TimerCaduca,
     TimerAgrega, TimerPide, TimerVolcado, TimerVence, TimerMarca, TimerNotifica,
     AvanzaTimer
<1>6. CASE \E i \in Ios : WorkerIO(i) \/ DesconectaIO(i) \/ RegistrarInterfaz(i)
  BY <1>6, PedidoWorker
<1>7. CASE MedianoPlazo
  BY <1>7, MarcoPedido DEF MedianoPlazo, PmpDespierta, PmpElige, PmpTermina,
     PmpPide, PmpSinEspacio, PmpDesSuspende, PmpEscribio, PmpFalla, PmpFinaliza,
     PmpRecibe
<1>8. CASE Terminado \/ UNCHANGED vars
  BY <1>8, MarcoPedido DEF Terminado, vars
<1> QED BY <1>1, <1>2, <1>3, <1>4, <1>5, <1>6, <1>7, <1>8 DEF Next

\* The two invariants give the count: each place that could hold a request of
\* p excludes the others, and p is in cola_procesos_block if one of them does.
LEMMA CuentaPendientes ==
  ASSUME IInv, EncoladoInv
  PROVE  UnPedido
<1> SUFFICES ASSUME NEW p \in Procs
             PROVE  Cardinality(Pendientes(p)) =
                      IF p \in block /\ ~Abandonado(p) THEN 1 ELSE 0
  BY DEF UnPedido
<1> DEFINE enCola == {x \in UNION {{i} \X DOMAIN cola[i] :
                                     i \in {j \in Ios : wpc[j] # "fin"}} :
                        cola[x[1]][x[2]] = p}
           enMano == {x \in Ios \X {0} : /\ wpid[x[1]] = p
                                         /\ wpc[x[1]] \in {"enIO", "extrae"}}
           porIr  == IF fase[p] = "encolado" THEN {<<destino[p], 0>>} ELSE {}
<1>1. Pendientes(p) = enCola \union enMano \union porIr
  BY DEF Pendientes
<1>0. \A i \in Ios : DOMAIN cola[i] = 1..Len(cola[i])
  BY DEF IInv, TypeIO
<1>2. \A x : x \in enCola <=>
        \E i \in Ios : \E k \in 1..Len(cola[i]) :
          x = <<i, k>> /\ cola[i][k] = p /\ wpc[i] # "fin"
  BY <1>0
<1>3. \A x : x \in enMano <=>
        \E i \in Ios : /\ x = <<i, 0>> /\ wpid[i] = p
                       /\ wpc[i] \in {"enIO", "extrae"}
  OBVIOUS
<1>4. Abandonado(p) <=>
        \E i \in Ios : /\ wpc[i] = "fin"
                       /\ \/ wpid[i] = p
                          \/ \E k \in 1..Len(cola[i]) : cola[i][k] = p
  BY <1>0 DEF Abandonado
<1>5. Cardinality({}) = 0 /\ \A x : Cardinality({x}) = 1
  BY FS_EmptySet, FS_Singleton
<1> HIDE DEF enCola, enMano
<1>6. CASE p \notin block
  <2>1. enCola = {}
    BY <1>2, <1>6 DEF IInv, ColaInv
  <2>2. enMano = {}
    BY <1>3, <1>6 DEF IInv, WorkerInv
  <2>3. porIr = {}
    BY <1>6 DEF IInv, FaseInv
  <2>4. Pendientes(p) = {}
    BY <1>1, <2>1, <2>2, <2>3
  <2> QED BY <1>5, <1>6, <2>4
<1>7. CASE fase[p] = "encolado"
  <2>1. enCola = {}
    BY <1>2, <1>7 DEF IInv, ColaInv
  <2>2. enMano = {} /\ ~Abandonado(p)
    BY <1>3, <1>4, <1>7 DEF IInv, WorkerInv, ColaInv
  <2>3. Pendientes(p) = {<<destino[p], 0>>}
    BY <1>1, <1>7, <2>1, <2>2
  <2>4. p \in block
    BY <1>7 DEF IInv, FaseInv
  <2> QED BY <1>5, <2>2, <2>3, <2>4
<1>8. CASE \E i \in Ios : \E k \in 1..Len(cola[i]) : cola[i][k] = p
  <2> PICK i \in Ios : \E k \in 1..Len(cola[i]) : cola[i][k] = p
    BY <1>8
  <2> PICK k \in 1..Len(cola[i]) : cola[i][k] = p
    OBVIOUS
  <2>1. porIr = {} /\ p \in block
    BY DEF IInv, ColaInv
  <2>2. enMano = {} /\ \A j \in Ios : wpid[j] # p
    BY <1>3 DEF IInv, WorkerInv
  <2>3. \A j \in Ios : \A l \in 1..Len(cola[j]) : cola[j][l] = p => j = i /\ l = k
    BY DEF IInv, ColaInv
  <2>4. CASE wpc[i] = "fin"
    <3>1. enCola = {}
      BY <1>2, <2>3, <2>4
    <3>2. Pendientes(p) = {}
      BY <1>1, <2>1, <2>2, <3>1
    <3>3. Abandonado(p)
      BY <1>4, <2>4
    <3> QED BY <1>5, <3>2, <3>3
  <2>5. CASE wpc[i] # "fin"
    <3>1. <<i, k>> \in enCola /\ \A x \in enCola : x = <<i, k>>
      BY <1>2, <2>3, <2>5
    <3>2. Pendientes(p) = {<<i, k>>}
      BY <1>1, <2>1, <2>2, <3>1
    <3>3. ~Abandonado(p)
      BY <1>4, <2>2, <2>3, <2>5
    <3> QED BY <1>5, <2>1, <3>2, <3>3
  <2> QED BY <2>4, <2>5
<1>9. CASE \E i \in Ios : wpid[i] = p /\ wpc[i] \in {"enIO", "extrae", "fin"}
  <2> PICK i \in Ios : wpid[i] = p /\ wpc[i] \in {"enIO", "extrae", "fin"}
    BY <1>9
  <2>1. porIr = {} /\ p \in block
    BY DEF IInv, WorkerInv
  <2>2. enCola = {} /\ \A j \in Ios : \A l \in 1..Len(cola[j]) : cola[j][l] # p
    BY <1>2 DEF IInv, WorkerInv
  <2>3. \A j \in Ios : wpid[j] = p => j = i
    BY DEF IInv, WorkerInv
  <2>4. CASE wpc[i] = "fin"
    <3>1. enMano = {}
      BY <1>3, <2>3, <2>4
    <3>2. Pendientes(p) = {}
      BY <1>1, <2>1, <2>2, <3>1
    <3>3. Abandonado(p)
      BY <1>4, <2>4
    <3> QED BY <1>5, <3>2, <3>3
  <2>5. CASE wpc[i] # "fin"
    <3>1. <<i, 0>> \in enMano /\ \A x \in enMano : x = <<i, 0>>
      BY <1>3, <2>3, <2>5
    <3>2. Pendientes(p) = {<<i, 0>>}
      BY <1>1, <2>1, <2>2, <3>1
    <3>3. ~Abandonado(p)
      BY <1>4, <2>2, <2>3, <2>5
    <3> QED BY <1>5, <2>1, <3>2, <3>3
  <2> QED BY <2>4, <2>5
<1> QED BY <1>6, <1>7, <1>8, <1>9 DEF EncoladoInv, PedidoInv

\* A process blocked on I/O has exactly one pending request, about to be
\* queued, queued, or in the hands of one worker, unless the interface that had
\* it disconnected; nobody else has any.
THEOREM CadaBloqueadoUnPedido == Spec => []UnPedido
<1>1. Init => EncoladoInv
  BY DEF Init, EncoladoInv, DestinoInv, PedidoInv
<1>2. IInv /\ EncoladoInv /\ [Next]_vars => EncoladoInv'
  BY PasoPedido
<1>3. IInv /\ EncoladoInv => UnPedido
  BY CuentaPendientes
<1> QED BY <1>1, <1>2, <1>3, Invariante, PTL DEF Spec

=============================================================================
