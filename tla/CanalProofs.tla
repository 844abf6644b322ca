---------------------------- MODULE CanalProofs ----------------------------
(***************************************************************************)
(* The channel between the scheduler and kernel_memory carries one request *)
(* at a time and its answer, whatever the notifications pushed into the    *)
(* same stream, and the admission of processes that rests on it keeps both *)
(* sides in agreement, for every number of threads, processes and          *)
(* requests.                                                               *)
(*                                                                         *)
(* The argument: the mutex makes the holder of the channel the only sender *)
(* (Turno); from the send to the unlock the request is in one of five      *)
(* places, ida, the hands of the receptor, a compaction, vuelta, or        *)
(* dropped (Flujo); and its process is in nobody else's hands (Pedidos),   *)
(* so what kernel_memory did and what segmentos_info will say differ by    *)
(* that one answer (Datos).                                                *)
(***************************************************************************)
EXTENDS Canal, WellFoundedInduction, TLAPS

SinCorte == ~ Tarde

-----------------------------------------------------------------------------
(* The inductive invariant.                                                *)

Ocupados == {"creando", "sale", "pide", "fin"}
Estables == {"new", "ready", "exec", "bloq", "swap"}
Estados == {"no"} \union Ocupados \union Estables
Tramite == {"recv", "marca", "colas", "exit"}
MpcQuieto == {"lee", "avisa"}
MpcCompacta == {"pide", "compacta", "reasigna"}

Numeros == Segs \union {Nulo}
TipoReq == [op : Ops \union {"", "INICIAR"}, pid : Procs \union {Nulo}, seg : Numeros,
            de : Hilos \union {Nulo}]
OpPaquete == Ops \union Avisos \union {"SEGFAULT", "RESTO"}
TipoPaquete == [op : OpPaquete, fmt : {"ok", "nueva", "seg", "datos", "resto"},
                de : Hilos \union {Nulo}]

TypeHilo ==
  /\ pc \in [Hilos -> {"libre", "espera", "encola"} \union Tramite]
  /\ req \in [Hilos -> TipoReq]
  /\ dueno \in Hilos \union {Nulo}
  /\ sinTimeout \in BOOLEAN /\ compactando \in BOOLEAN

TypeProc ==
  /\ est \in [Procs -> Estados]
  /\ segsS \in [Procs -> Seq(Numeros)]
  /\ nuevos \in Seq(Procs) /\ hayCola \in BOOLEAN
  /\ semNew \in Nat /\ plp \in {"espera", "saca"}
  /\ corrupto \in BOOLEAN /\ vivo \in BOOLEAN

TypeMem ==
  /\ ida \in Seq(TipoReq) /\ vuelta \in Seq(TipoPaquete)
  /\ mpc \in MpcQuieto \union MpcCompacta
  /\ mreq \in TipoReq
  /\ existe \subseteq Procs /\ segsM \in [Procs -> Seq(Numeros)]

\* The mutex: who is past the lock has it, and a thread in manejar_bsod keeps it.
Turno ==
  /\ dueno # Nulo => pc[dueno] \in Tramite
  /\ \A t \in Hilos : pc[t] \in Tramite => dueno = t
  /\ \A t \in Hilos : pc[t] \in Tramite \ {"recv"} => corrupto

\* A process with a request under way is the request's alone.
Pedidos ==
  \A t \in Hilos : pc[t] # "libre" =>
    /\ req[t].op \in Ops /\ req[t].pid \in Procs /\ req[t].de = t
    /\ est[req[t].pid] \in Ocupados
    /\ pc[t] = "encola" => req[t].op = "CREAR"
    /\ \A k \in 1 .. Len(nuevos) : nuevos[k] # req[t].pid
    /\ \A u \in Hilos : u # t /\ pc[u] # "libre" => req[u].pid # req[t].pid

\* kernel_memory knows p, and has the segments segmentos_info has.
Coincide(p) == p \in existe /\ segsS[p] = segsM[p]

\* The NEW queue: created processes, once each, and a post of sem_new for each.
Cola ==
  /\ hayCola => Len(nuevos) = semNew + (IF plp = "saca" THEN 1 ELSE 0)
  /\ \A k \in 1 .. Len(nuevos) : est[nuevos[k]] \in {"new", "fin"} /\ Coincide(nuevos[k])
  /\ \A j, k \in 1 .. Len(nuevos) : nuevos[j] = nuevos[k] => j = k

\* What the two streams hold.
EsResp(m) == m.op \notin Avisos
EsIni(m) == m.op = "INICIAR"
EsFin(m) == m.op = "FINALIZAR_COMPACTACION"

FlujoIda ==
  ida # <<>> =>
    /\ Len(ida) = 1 /\ dueno # Nulo
    /\ \/ mpc \in MpcQuieto /\ ida[1] = req[dueno]
       \/ mpc = "pide" /\ compactando /\ sinTimeout

FlujoResp ==
  \A k \in 1 .. Len(vuelta) : EsResp(vuelta[k]) =>
    /\ dueno # Nulo /\ ida = <<>> /\ mpc \in MpcQuieto
    /\ vuelta[k].de = dueno
    /\ vuelta[k].fmt = Drena(req[dueno].op, vuelta[k].op)
    /\ \A j \in 1 .. Len(vuelta) : EsResp(vuelta[j]) => j = k
    /\ \A j \in 1 .. Len(vuelta) : EsFin(vuelta[j]) => j < k

FlujoIni ==
  \A k \in 1 .. Len(vuelta) : EsIni(vuelta[k]) =>
    /\ mpc = "pide" /\ ida = <<>>
    /\ \A j \in 1 .. Len(vuelta) : EsIni(vuelta[j]) => j = k

FlujoFin ==
  \A k \in 1 .. Len(vuelta) : EsFin(vuelta[k]) =>
    dueno # Nulo /\ mpc \in {"reasigna", "lee", "avisa"} /\ ida = <<>>

FlujoMem ==
  /\ mpc \in MpcCompacta => dueno # Nulo /\ mreq = req[dueno] /\ mreq.op = "SOLICITAR"
  /\ mpc = "compacta" => compactando /\ sinTimeout

Flujo == FlujoIda /\ FlujoResp /\ FlujoIni /\ FlujoFin /\ FlujoMem

\* The request of t is not served yet, or it was dropped.
Pendiente(t) == pc[t] = "recv" /\ (ida # <<>> \/ mpc \in MpcCompacta)
SinResp == \A k \in 1 .. Len(vuelta) : ~ EsResp(vuelta[k])

\* What holds of a process before kernel_memory serves the request r about it.
Antes(r) ==
  /\ r.op = "CREAR" => segsS[r.pid] = <<>>
  /\ r.op \notin {"CREAR", "FINALIZAR"} => Coincide(r.pid)

\* And once the answer ack to it is on its way.
Despachado(r, ack) ==
  r.op # "FINALIZAR" =>
    /\ r.pid \in existe
    /\ ~ Mata(r.op, ack) => Tras(segsS[r.pid], r, ack) = segsM[r.pid]

Datos ==
  /\ \A p \in Procs : est[p] \in Estables => Coincide(p)
  /\ \A p \in Procs : est[p] = "no" => segsS[p] = <<>>
  /\ \A t \in Hilos :
       /\ pc[t] = "espera" \/ Pendiente(t) => Antes(req[t])
       /\ pc[t] = "encola" => Coincide(req[t].pid)
       /\ pc[t] = "recv" /\ ~ Pendiente(t) /\ SinResp =>
            req[t].op \in {"LECTURA", "SUSPENDER"} /\ Coincide(req[t].pid)
       /\ pc[t] = "recv" => \A k \in 1 .. Len(vuelta) :
            EsResp(vuelta[k]) => Despachado(req[t], vuelta[k].op)

IInv == TypeHilo /\ TypeProc /\ TypeMem /\ Turno /\ Pedidos /\ Cola /\ Flujo /\ Datos

-----------------------------------------------------------------------------

USE CanalAssumption DEF hiloVars, procVars, memVars, envVars, Ocupados, Estables,
    Tramite, MpcQuieto, MpcCompacta

\* A request made of its parts has the type of a request.
LEMMA TipoDeReq ==
  ASSUME NEW op \in Ops \union {"", "INICIAR"}, NEW p \in Procs \union {Nulo},
         NEW s \in Numeros, NEW t \in Hilos \union {Nulo}
  PROVE  Req(op, p, s, t) \in TipoReq
  BY DEF Req, TipoReq

\* A packet made of its parts has the type of a packet.
LEMMA TipoDePaquete ==
  ASSUME NEW op \in OpPaquete, NEW f \in {"ok", "nueva", "seg", "datos", "resto"},
         NEW t \in Hilos \union {Nulo}
  PROVE  Paquete(op, f, t) \in TipoPaquete
  BY DEF Paquete, TipoPaquete

\* A notification is a packet, and keeps its op_code.
LEMMA TipoDeAviso ==
  ASSUME NEW op \in Avisos
  PROVE  Aviso(op) \in TipoPaquete /\ Aviso(op).op = op
  BY DEF Aviso, Paquete, TipoPaquete, OpPaquete

\* The first state of the program has nothing under way.
LEMMA Inicio == Init => IInv
<1> SUFFICES ASSUME Init PROVE IInv OBVIOUS
<1>1. TypeHilo /\ TypeProc /\ TypeMem
  <2>1. SinReq \in TipoReq
    BY TipoDeReq DEF SinReq, Numeros
  <2>2. TypeHilo
    BY <2>1 DEF Init, TypeHilo
  <2>3. TypeProc
    <3>1. est \in [Procs -> Estados]
      BY DEF Init, Estados
    <3>2. <<>> \in Seq(Numeros) /\ <<>> \in Seq(Procs)
      OBVIOUS
    <3> QED BY <3>1, <3>2 DEF Init, TypeProc
  <2>4. TypeMem
    BY <2>1 DEF Init, TypeMem
  <2> QED BY <2>2, <2>3, <2>4
<1>2. Turno /\ Pedidos /\ Cola /\ Flujo
  BY DEF Init, Turno, Pedidos, Cola, Flujo, FlujoIda, FlujoResp, FlujoIni, FlujoFin,
         FlujoMem
<1>3. Datos
  BY DEF Init, Datos, Coincide, Pendiente
<1> QED BY <1>1, <1>2, <1>3 DEF IInv

\* A thread starts a request: its process was in nobody else's hands.
LEMMA IPedir ==
  ASSUME IInv, NEW t \in Hilos, NEW op \in Ops, NEW p \in Procs, NEW s \in Numeros,
         Pedir(t, op, p, s)
  PROVE  IInv'
<1> USE DEF IInv
<1>1. /\ Previo(op) \in {"no", "exec", "bloq", "swap"}
      /\ Durante(op) \in {"creando", "sale", "pide"}
      /\ op = "CREAR" <=> Previo(op) = "no"
  BY DEF Ops, Previo, Durante
<1>2. Req(op, p, s, t) \in TipoReq
  BY TipoDeReq
<1>3. TypeHilo' /\ TypeProc' /\ TypeMem'
  BY <1>1, <1>2 DEF Pedir, TypeHilo, TypeProc, TypeMem, Estados
<1>4. \A k \in 1 .. Len(nuevos) : nuevos[k] # p
  BY <1>1 DEF Pedir, Cola
<1>5. \A u \in Hilos : pc[u] # "libre" => req[u].pid # p
  BY <1>1 DEF Pedir, Pedidos
<1>6. Turno'
  BY DEF Pedir, Turno, TypeHilo
<1>7. Pedidos'
  BY <1>1, <1>4, <1>5 DEF Pedir, Pedidos, TypeHilo, TypeProc, Req
<1>8. Cola'
  BY <1>4 DEF Pedir, Cola, TypeProc, Coincide
<1>9. Flujo'
  <2>1. dueno # t
    BY DEF Pedir, Turno
  <2> QED BY <2>1 DEF Pedir, Flujo, FlujoIda, FlujoResp, FlujoIni, FlujoFin, FlujoMem, TypeHilo
<1>10. Datos'
  <2>1. Antes(Req(op, p, s, t))
    BY <1>1 DEF Antes, Pedir, Datos, Req
  <2> QED BY <1>1, <2>1, <1>5 DEF Pedir, Datos, TypeHilo, TypeProc, Coincide, Antes, Pendiente, SinResp, Despachado
<1> QED BY <1>3, <1>6, <1>7, <1>8, <1>9, <1>10 DEF IInv

\* The lock and the send: nothing of an earlier request is left in the streams.
LEMMA IEnviar ==
  ASSUME IInv, NEW t \in Hilos, Enviar(t)
  PROVE  IInv'
<1> USE DEF IInv
<1>1. ida = <<>> /\ mpc \in MpcQuieto /\ SinResp
  BY DEF Enviar, Flujo, FlujoIda, FlujoMem, FlujoResp, TypeMem, SinResp
<1>2. ida' = <<req[t]>> /\ ida' # <<>> /\ Len(ida') = 1 /\ ida'[1] = req[t]
  BY <1>1 DEF Enviar, TypeMem, TypeHilo
<1>3. TypeHilo' /\ TypeProc' /\ TypeMem'
  BY DEF Enviar, TypeHilo, TypeProc, TypeMem
<1>4. Turno' /\ Pedidos' /\ Cola'
  BY DEF Enviar, Turno, Pedidos, Cola, Coincide, TypeHilo
<1>5. Flujo'
  BY <1>1, <1>2 DEF Enviar, Flujo, FlujoIda, FlujoResp, FlujoIni, FlujoFin, FlujoMem,
        TypeHilo, SinResp, EsResp, EsIni, EsFin
<1>6. Datos'
  BY <1>1, <1>2 DEF Enviar, Datos, TypeHilo, Coincide, Antes, Pendiente, SinResp,
        Despachado, Turno
<1> QED BY <1>3, <1>4, <1>5, <1>6

-----------------------------------------------------------------------------
(* recibir_respuesta_de_memoria.                                           *)

\* What is behind the packet that is read.
LEMMA Resto1 ==
  ASSUME IInv, vuelta # <<>>, vuelta' = Tail(vuelta)
  PROVE  /\ vuelta' \in Seq(TipoPaquete)
         /\ vuelta[1] = Head(vuelta) /\ Len(vuelta) \in Nat \ {0}
         /\ Len(vuelta') = Len(vuelta) - 1
         /\ \A k \in 1 .. Len(vuelta') :
              k + 1 \in 1 .. Len(vuelta) /\ vuelta'[k] = vuelta[k + 1]
  BY DEF IInv, TypeMem

\* A notification that is read takes no answer with it.
LEMMA SinRespLeido ==
  ASSUME IInv, vuelta # <<>>, Head(vuelta).op \in Avisos, vuelta' = Tail(vuelta)
  PROVE  SinResp' <=> SinResp
<1>0. /\ vuelta[1] = Head(vuelta) /\ Len(vuelta) \in Nat \ {0}
      /\ Len(vuelta') = Len(vuelta) - 1
      /\ \A k \in 1 .. Len(vuelta') :
           k + 1 \in 1 .. Len(vuelta) /\ vuelta'[k] = vuelta[k + 1]
  BY Resto1
<1>1. SinResp => SinResp'
  BY <1>0 DEF SinResp
<1>2. ASSUME SinResp', NEW k \in 1 .. Len(vuelta) PROVE ~ EsResp(vuelta[k])
  <2>1. CASE k = 1
    BY <2>1, <1>0 DEF EsResp
  <2>2. CASE k # 1
    <3>1. k - 1 \in 1 .. Len(vuelta') /\ vuelta'[k - 1] = vuelta[k]
      BY <2>2, <1>0
    <3> QED BY <3>1, <1>2 DEF SinResp, EsResp
  <2> QED BY <2>1, <2>2
<1> QED BY <1>1, <1>2 DEF SinResp

\* The places of the answers and of the other notifications move up together.
LEMMA FlujoLeido ==
  ASSUME IInv, vuelta # <<>>, vuelta' = Tail(vuelta), UNCHANGED <<dueno, req, mpc, ida>>
  PROVE  FlujoResp' /\ FlujoIni' /\ FlujoFin'
<1>0. /\ vuelta[1] = Head(vuelta) /\ Len(vuelta) \in Nat \ {0}
      /\ Len(vuelta') = Len(vuelta) - 1
      /\ \A k \in 1 .. Len(vuelta') :
           k + 1 \in 1 .. Len(vuelta) /\ vuelta'[k] = vuelta[k + 1]
  BY Resto1
<1> QED BY <1>0 DEF IInv, Flujo, FlujoResp, FlujoIni, FlujoFin, EsResp, EsIni, EsFin

\* Datos looks at the stream through the answers in it only.
LEMMA DatosLeido ==
  ASSUME IInv, vuelta # <<>>, Head(vuelta).op \in Avisos, vuelta' = Tail(vuelta),
         UNCHANGED <<pc, req, est, segsS, existe, segsM, mpc>>,
         ida # <<>> \/ mpc \in MpcCompacta <=> (ida # <<>> \/ mpc \in MpcCompacta)'
  PROVE  Datos'
<1> USE DEF IInv
<1>1. SinResp' <=> SinResp
  BY SinRespLeido
<1> QED BY <1>1, Resto1 DEF Datos, Coincide, Antes, Pendiente, Despachado, EsResp

\* MEMORIA_LIBERADA and NUEVA_MEMORIA change nothing but the stream.
LEMMA IAvisoMemoria ==
  ASSUME IInv, NEW t \in Hilos, AvisoMemoria(t)
  PROVE  IInv'
<1>1. vuelta # <<>> /\ Head(vuelta).op \in Avisos /\ vuelta' = Tail(vuelta)
  BY TipoDeAviso DEF AvisoMemoria, Lee, Avisos, AvisosOk
<1>2. TypeHilo' /\ TypeProc' /\ TypeMem'
  BY <1>1, Resto1 DEF IInv, AvisoMemoria, TypeHilo, TypeProc, TypeMem
<1>3. Turno' /\ Pedidos' /\ Cola'
  BY DEF IInv, AvisoMemoria, Turno, Pedidos, Cola, Coincide
<1>4. Flujo'
  <2>1. FlujoResp' /\ FlujoIni' /\ FlujoFin'
    BY <1>1, FlujoLeido DEF AvisoMemoria
  <2> QED BY <2>1 DEF IInv, AvisoMemoria, Flujo, FlujoIda, FlujoMem
<1>5. Datos'
  BY <1>1, DatosLeido DEF AvisoMemoria
<1> QED BY <1>2, <1>3, <1>4, <1>5 DEF IInv

\* INICIAR_COMPACTACION: the timeout goes off and the OK goes out, while the
\* receptor waits for it.
LEMMA IAvisoIniciar ==
  ASSUME IInv, NEW t \in Hilos, AvisoIniciar(t)
  PROVE  IInv'
<1>1. /\ vuelta # <<>> /\ Head(vuelta).op = "INICIAR" /\ Head(vuelta).op \in Avisos
      /\ vuelta' = Tail(vuelta)
  BY TipoDeAviso DEF AvisoIniciar, Lee, Avisos, AvisosOk
<1>2. dueno = t /\ mpc = "pide" /\ ida = <<>>
  BY <1>1, Resto1 DEF IInv, AvisoIniciar, Lee, Flujo, FlujoIni, EsIni, TypeMem
<1>3. Req("INICIAR", Nulo, Nulo, t) \in TipoReq
  BY TipoDeReq DEF Numeros
<1>4. ida' # <<>> /\ Len(ida') = 1
  BY <1>2, <1>3 DEF AvisoIniciar
<1>5. TypeHilo' /\ TypeProc' /\ TypeMem'
  BY <1>1, <1>3, Resto1 DEF IInv, AvisoIniciar, TypeHilo, TypeProc, TypeMem
<1>6. Turno' /\ Pedidos' /\ Cola'
  BY DEF IInv, AvisoIniciar, Turno, Pedidos, Cola, Coincide
<1>7. \A k \in 1 .. Len(vuelta') : ~ EsResp(vuelta'[k]) /\ ~ EsIni(vuelta'[k]) /\ ~ EsFin(vuelta'[k])
  <2>1. \A k \in 1 .. Len(vuelta) : ~ EsResp(vuelta[k]) /\ ~ EsFin(vuelta[k]) /\ (EsIni(vuelta[k]) => k = 1)
    BY <1>1, <1>2, Resto1 DEF IInv, Flujo, FlujoResp, FlujoIni, FlujoFin, EsIni
  <2> QED BY <1>1, <2>1, Resto1
<1>8. Flujo'
  BY <1>2, <1>4, <1>7 DEF IInv, AvisoIniciar, Flujo, FlujoIda, FlujoMem, FlujoResp, FlujoIni, FlujoFin
<1>9. Datos'
  BY <1>1, <1>2, DatosLeido DEF AvisoIniciar
<1> QED BY <1>5, <1>6, <1>8, <1>9 DEF IInv

\* FINALIZAR_COMPACTACION: nothing is being moved any more.
LEMMA IAvisoFinalizar ==
  ASSUME IInv, NEW t \in Hilos, AvisoFinalizar(t)
  PROVE  IInv'
<1>1. /\ vuelta # <<>> /\ Head(vuelta).op = "FINALIZAR_COMPACTACION"
      /\ Head(vuelta).op \in Avisos /\ vuelta' = Tail(vuelta)
  BY TipoDeAviso DEF AvisoFinalizar, Lee, Avisos, AvisosOk
<1>2. mpc \in {"reasigna", "lee", "avisa"} /\ ida = <<>>
  BY <1>1, Resto1 DEF IInv, AvisoFinalizar, Lee, Flujo, FlujoFin, EsFin, TypeMem
<1>3. TypeHilo' /\ TypeProc' /\ TypeMem'
  BY <1>1, Resto1 DEF IInv, AvisoFinalizar, TypeHilo, TypeProc, TypeMem
<1>4. Turno' /\ Pedidos' /\ Cola'
  BY DEF IInv, AvisoFinalizar, Turno, Pedidos, Cola, Coincide
<1>5. Flujo'
  <2>1. FlujoResp' /\ FlujoIni' /\ FlujoFin'
    BY <1>1, FlujoLeido DEF AvisoFinalizar
  <2> QED BY <2>1, <1>2 DEF IInv, AvisoFinalizar, Flujo, FlujoIda, FlujoMem
<1>6. Datos'
  BY <1>1, DatosLeido DEF AvisoFinalizar
<1> QED BY <1>3, <1>4, <1>5, <1>6 DEF IInv

\* BSOD: the thread keeps the channel and goes into manejar_bsod.
LEMMA IAvisoBsod ==
  ASSUME IInv, NEW t \in Hilos, AvisoBsod(t)
  PROVE  IInv'
<1>1. vuelta # <<>> /\ Head(vuelta).op \in Avisos /\ vuelta' = Tail(vuelta)
  BY TipoDeAviso DEF AvisoBsod, Lee, Avisos, AvisosOk
<1>2. pc[t] = "recv" /\ dueno = t /\ pc' = [pc EXCEPT ![t] = "marca"]
  BY DEF AvisoBsod, Lee
<1>3. TypeHilo' /\ TypeProc' /\ TypeMem'
  BY <1>1, Resto1 DEF IInv, AvisoBsod, TypeHilo, TypeProc, TypeMem
<1>4. Turno' /\ Pedidos' /\ Cola'
  BY <1>2 DEF IInv, AvisoBsod, Turno, Pedidos, Cola, Coincide, TypeHilo
<1>5. Flujo'
  <2>1. FlujoResp' /\ FlujoIni' /\ FlujoFin'
    BY <1>1, FlujoLeido DEF AvisoBsod
  <2> QED BY <2>1 DEF IInv, AvisoBsod, Flujo, FlujoIda, FlujoMem
<1>6. Datos'
  <2>1. SinResp' <=> SinResp
    BY <1>1, SinRespLeido
  <2> QED BY <2>1, <1>1, <1>2, Resto1
          DEF IInv, AvisoBsod, TypeHilo, Datos, Coincide, Antes, Pendiente, Despachado, EsResp
<1> QED BY <1>3, <1>4, <1>5, <1>6 DEF IInv

-----------------------------------------------------------------------------
(* segmentos_info.                                                         *)

\* A set of numbers that is not empty has a least one, which Min takes.
LEMMA MinimoEnConjunto ==
  ASSUME NEW T \in SUBSET Nat, T # {}
  PROVE  Min(T) \in T
<1> DEFINE R == OpToRel(<, Nat)
<1>1. IsWellFoundedOn(R, Nat)
  BY NatLessThanWellFounded
<1>2. \A x, y \in Nat : y < x => <<y, x>> \in R
  BY DEF OpToRel
<1> HIDE DEF R
<1>3. \E x \in T : \A y \in T : ~ (<<y, x>> \in R)
  BY <1>1, WFMin
<1>4. PICK x \in T : \A y \in T : ~ (<<y, x>> \in R)
  BY <1>3
<1>5. x \in Nat /\ \A y \in T : y \in Nat /\ ~ (y < x)
  BY <1>2, <1>4
<1>6. \A y \in T : x =< y
  BY <1>5
<1> QED BY <1>6 DEF Min

\* Taking a number out leaves a list of the same type.
LEMMA TipoDeSin ==
  ASSUME NEW S, NEW q \in Seq(S), NEW x
  PROVE  Sin(q, x) \in Seq(S)
<1> DEFINE I == {i \in 1 .. Len(q) : q[i] = x}
<1>1. CASE I = {}
  BY <1>1 DEF Sin, SelectInSeq
<1>2. CASE I # {}
  <2>1. Min(I) \in I
    BY <1>2, MinimoEnConjunto
  <2> DEFINE k == Min(I)
  <2>2. k \in 1 .. Len(q)
    BY <2>1
  <2>3. Sin(q, x) = RemoveAt(q, k)
    BY <1>2, <2>2 DEF Sin, SelectInSeq
  <2> HIDE DEF k
  <2>4. RemoveAt(q, k) \in Seq(S)
    BY <2>2 DEF RemoveAt
  <2> QED BY <2>3, <2>4
<1> QED BY <1>1, <1>2

\* A number that is not in a list leaves it as it was.
LEMMA SinAusente ==
  ASSUME NEW S, NEW q \in Seq(S), NEW x, x \notin ToSet(q)
  PROVE  Sin(q, x) = q
<1>1. {i \in 1 .. Len(q) : q[i] = x} = {}
  BY DEF ToSet
<1> QED BY <1>1 DEF Sin, SelectInSeq

\* segmentos_info after any answer is a list of numbers.
LEMMA TipoDeTras ==
  ASSUME NEW q \in Seq(Numeros), NEW r \in TipoReq, NEW ack
  PROVE  Tras(q, r, ack) \in Seq(Numeros)
<1>1. r.seg \in Numeros
  BY DEF TipoReq
<1>2. Sin(q, r.seg) \in Seq(Numeros)
  BY TipoDeSin
<1> QED BY <1>1, <1>2 DEF Tras

\* The caller of recibir_respuesta_de_memoria goes on after an answer, or after
\* the timeout of a request that was dropped: the channel is idle, and its
\* process, in its hands until now, agrees on both sides or is about to end.
LEMMA IContinua ==
  ASSUME IInv, NEW t \in Hilos, NEW ack, NEW CONSTANT r, NEW CONSTANT p, r = req[t],
         p = r.pid, pc[t] = "recv", dueno = t, dueno' = Nulo,
         UNCHANGED sinTimeout, Continua(t, ack), ida = <<>>, mpc \in MpcQuieto,
         Despachado(r, ack), vuelta' \in Seq(TipoPaquete),
         \A k \in 1 .. Len(vuelta') :
           ~ EsResp(vuelta'[k]) /\ ~ EsIni(vuelta'[k]) /\ ~ EsFin(vuelta'[k])
  PROVE  IInv'
<1>0. /\ r \in TipoReq /\ r.op \in Ops /\ p \in Procs /\ r.de = t
      /\ est[p] \in Ocupados /\ segsS[p] \in Seq(Numeros)
      /\ \A k \in 1 .. Len(nuevos) : nuevos[k] # p
      /\ \A u \in Hilos : u # t /\ pc[u] # "libre" => req[u].pid # p
      /\ \A u \in Hilos : u # t => pc[u] \notin Tramite
  BY DEF IInv, Pedidos, TypeHilo, TypeProc, Turno
<1>1. /\ segsS' = [segsS EXCEPT ![p] = Tras(@, r, ack)]
      /\ UNCHANGED <<compactando, nuevos, hayCola, semNew, plp, corrupto, vivo, ida, mpc,
                     mreq, existe, segsM>>
  BY DEF Continua
<1>2. /\ segsS' \in [Procs -> Seq(Numeros)]
      /\ segsS'[p] = Tras(segsS[p], r, ack)
      /\ \A q \in Procs \ {p} : segsS'[q] = segsS[q]
  BY <1>0, <1>1, TipoDeTras DEF IInv, TypeProc
<1>3. /\ r.op # "FINALIZAR" => p \in existe
      /\ r.op # "FINALIZAR" /\ ~ Mata(r.op, ack) => Coincide(p)'
  BY <1>1, <1>2 DEF Despachado, Coincide
\* The three ways on.
<1>4. \/ /\ req' = [req EXCEPT ![t] = Req("FINALIZAR", p, Nulo, t)]
         /\ pc' = [pc EXCEPT ![t] = "espera"] /\ est' = [est EXCEPT ![p] = "sale"]
      \/ /\ req' = [req EXCEPT ![t] = Req("ESCRITURA", p, Nulo, t)]
         /\ pc' = [pc EXCEPT ![t] = "espera"] /\ est' = est /\ Coincide(p)'
      \/ /\ r.op = "CREAR" /\ req' = [req EXCEPT ![t] = r] /\ Coincide(p)'
         /\ pc' = [pc EXCEPT ![t] = "encola"] /\ est' = [est EXCEPT ![p] = "creando"]
      \/ /\ req' = [req EXCEPT ![t] = SinReq] /\ pc' = [pc EXCEPT ![t] = "libre"]
         /\ \E e \in {"exec", "ready", "bloq", "swap", "fin"} :
              /\ est' = [est EXCEPT ![p] = e]
              /\ e # "fin" => Coincide(p)'
  <2>1. CASE Mata(r.op, ack)
    <3>1. ~ (r.op = "DES_SUSPENDER" /\ ack = r.op)
      BY <2>1 DEF Mata
    <3> QED BY <2>1, <3>1 DEF Continua
  <2>2. CASE r.op = "DES_SUSPENDER" /\ ack = r.op
    <3>1. ~ Mata(r.op, ack) /\ Despues(r.op, ack) = "ready"
      BY <2>2 DEF Mata, Despues
    <3>2. Coincide(p)'
      BY <2>2, <3>1, <1>3
    <3>3. \/ /\ req' = [req EXCEPT ![t] = Req("ESCRITURA", p, Nulo, t)]
             /\ pc' = [pc EXCEPT ![t] = "espera"] /\ est' = est
          \/ /\ req' = [req EXCEPT ![t] = SinReq] /\ pc' = [pc EXCEPT ![t] = "libre"]
             /\ est' = [est EXCEPT ![p] = "ready"]
      BY <2>2, <3>1 DEF Continua
    <3> QED BY <3>2, <3>3
  <2>3. CASE ~ Mata(r.op, ack) /\ ~ (r.op = "DES_SUSPENDER" /\ ack = r.op)
    <3>1. /\ req' = [req EXCEPT ![t] = IF r.op = "CREAR" THEN r ELSE SinReq]
          /\ pc' = [pc EXCEPT ![t] = IF r.op = "CREAR" THEN "encola" ELSE "libre"]
          /\ est' = [est EXCEPT ![p] = Despues(r.op, ack)]
      BY <2>3 DEF Continua
    <3>2. CASE r.op = "CREAR"
      BY <3>1, <3>2, <2>3, <1>3 DEF Despues
    <3>3. CASE r.op = "FINALIZAR"
      BY <3>1, <3>3 DEF Despues
    <3>4. CASE r.op \notin {"CREAR", "FINALIZAR"}
      <4>1. Despues(r.op, ack) \in {"exec", "ready", "bloq", "swap"}
        BY <3>4, <1>0 DEF Despues, Ops
      <4> QED BY <3>1, <3>4, <4>1, <2>3, <1>3
    <3> QED BY <3>2, <3>3, <3>4
  <2> QED BY <2>1, <2>2, <2>3
<1>5. Req("FINALIZAR", p, Nulo, t) \in TipoReq /\ Req("ESCRITURA", p, Nulo, t) \in TipoReq
      /\ SinReq \in TipoReq
  BY <1>0, TipoDeReq DEF SinReq, Numeros, Ops
\* What the rest of the proof needs of them.
<1>6. /\ req' \in [Hilos -> TipoReq] /\ pc' \in [Hilos -> {"libre", "espera", "encola"} \union Tramite]
      /\ est' \in [Procs -> Estados]
      /\ pc'[t] \in {"libre", "espera", "encola"}
      /\ pc'[t] # "libre" => req'[t].op \in Ops /\ req'[t].pid = p /\ req'[t].de = t
                             /\ est'[p] \in Ocupados
      /\ pc'[t] = "encola" => req'[t].op = "CREAR" /\ Coincide(p)'
      /\ pc'[t] = "espera" => req'[t].op \in {"FINALIZAR", "ESCRITURA"}
                              /\ (req'[t].op = "ESCRITURA" => Coincide(p)')
      /\ est'[p] \in Estables => Coincide(p)'
      /\ est'[p] # "no"
      /\ \A u \in Hilos \ {t} : pc'[u] = pc[u] /\ req'[u] = req[u]
      /\ \A q \in Procs \ {p} : est'[q] = est[q]
  <2>1. pc \in [Hilos -> {"libre", "espera", "encola"} \union Tramite] /\ req \in [Hilos -> TipoReq]
        /\ est \in [Procs -> Estados]
    BY DEF IInv, TypeHilo, TypeProc
  <2> QED BY SMTT(30), <1>0, <1>4, <1>5, <2>1 DEF Req, Ops, Estados
<1> HIDE DEF Continua
<1>7. TypeHilo' /\ TypeProc' /\ TypeMem'
  BY <1>1, <1>2, <1>6 DEF IInv, TypeHilo, TypeProc, TypeMem
<1>8. Turno'
  BY <1>0, <1>6 DEF IInv, Turno
<1>9. Pedidos'
  BY <1>0, <1>1, <1>6 DEF IInv, Pedidos
<1>10. Cola'
  BY <1>0, <1>1, <1>2, <1>6 DEF IInv, Cola, Coincide, TypeProc
<1>11. Flujo'
  BY <1>1 DEF Flujo, FlujoIda, FlujoResp, FlujoIni, FlujoFin, FlujoMem
<1>12. Datos'
  <2>1. \A q \in Procs \ {p} : Coincide(q) <=> Coincide(q)'
    BY <1>1, <1>2 DEF Coincide
  <2>2. \A q \in Procs : /\ est'[q] \in Estables => Coincide(q)'
                         /\ est'[q] = "no" => segsS'[q] = <<>>
    BY <2>1, <1>2, <1>6 DEF IInv, Datos
  <2>3. pc'[t] = "espera" => Antes(req[t])'
    BY <1>6 DEF Antes
  <2>4. \A u \in Hilos \ {t} :
          /\ pc'[u] = "espera" => Antes(req[u])'
          /\ pc'[u] = "encola" => Coincide(req[u].pid)'
          /\ pc'[u] # "recv"
    <3> SUFFICES ASSUME NEW u \in Hilos \ {t}, pc[u] # "libre"
                 PROVE  /\ pc'[u] = "espera" => Antes(req[u])'
                        /\ pc'[u] = "encola" => Coincide(req[u].pid)'
                        /\ pc'[u] # "recv"
      BY <1>6
    <3>1. req[u].pid \in Procs \ {p} /\ req'[u] = req[u] /\ pc'[u] = pc[u]
      BY <1>0, <1>6 DEF IInv, Pedidos
    <3>2. segsS'[req[u].pid] = segsS[req[u].pid]
      BY <3>1, <1>2
    <3> QED BY <1>0, <1>1, <3>1, <3>2, <2>1 DEF IInv, Datos, Antes, Coincide
  <2> QED BY <2>2, <2>3, <2>4, <1>6 DEF Datos, Pendiente
<1> QED BY <1>7, <1>8, <1>9, <1>10, <1>11, <1>12 DEF IInv

\* The answer: it is for the thread that reads it, and the payload drained is
\* the one it has.
LEMMA IRecibir ==
  ASSUME IInv, NEW t \in Hilos, Recibir(t)
  PROVE  IInv'
<1> DEFINE m == Head(vuelta)
<1>1. pc[t] = "recv" /\ dueno = t /\ vuelta # <<>> /\ EsResp(m)
  BY DEF Recibir, EsAviso, EsResp
<1>2. m = vuelta[1] /\ 1 \in 1 .. Len(vuelta)
  BY <1>1 DEF IInv, TypeMem
<1>3. /\ ida = <<>> /\ mpc \in MpcQuieto /\ m.fmt = Drena(req[t].op, m.op)
      /\ \A k \in 1 .. Len(vuelta) : k # 1 =>
           ~ EsResp(vuelta[k]) /\ ~ EsIni(vuelta[k]) /\ ~ EsFin(vuelta[k])
      /\ Despachado(req[t], m.op)
  BY <1>1, <1>2 DEF IInv, Flujo, FlujoResp, FlujoIni, FlujoFin, Datos
<1>4. vuelta' = Tail(vuelta)
  BY <1>3 DEF Recibir
<1>5. /\ vuelta' \in Seq(TipoPaquete)
      /\ \A k \in 1 .. Len(vuelta') :
           ~ EsResp(vuelta'[k]) /\ ~ EsIni(vuelta'[k]) /\ ~ EsFin(vuelta'[k])
  BY <1>1, <1>3, <1>4, Resto1
<1>6. dueno' = Nulo /\ UNCHANGED sinTimeout /\ Continua(t, m.op)
  BY DEF Recibir
<1> QED BY <1>1, <1>3, <1>5, <1>6, IContinua

\* The timeout: it only ends a request that kernel_memory dropped, a read or a
\* dump, and no answer to it will come.
LEMMA IVencer ==
  ASSUME IInv, SinCorte, NEW t \in Hilos, Vencer(t)
  PROVE  IInv'
<1>1. pc[t] = "recv" /\ dueno = t /\ vuelta = <<>> /\ vuelta' = <<>>
  BY DEF Vencer
<1>2. mpc = "lee" /\ ida = <<>>
  BY DEF IInv, SinCorte, Vencer, Lenta, Flujo, FlujoMem
<1>3. SinResp /\ ~ Pendiente(t)
  BY <1>1, <1>2 DEF SinResp, Pendiente
<1>4. req[t].op \in {"LECTURA", "SUSPENDER"} /\ Coincide(req[t].pid)
  BY <1>1, <1>3 DEF IInv, Datos
<1>5. Despachado(req[t], "")
  BY <1>4 DEF Despachado, Coincide, Tras
<1>6. dueno' = Nulo /\ UNCHANGED sinTimeout /\ Continua(t, "")
  BY DEF Vencer
<1>7. /\ vuelta' \in Seq(TipoPaquete)
      /\ \A k \in 1 .. Len(vuelta') :
           ~ EsResp(vuelta'[k]) /\ ~ EsIni(vuelta'[k]) /\ ~ EsFin(vuelta'[k])
  BY <1>1
<1> QED BY <1>1, <1>2, <1>5, <1>6, <1>7, IContinua

-----------------------------------------------------------------------------
(* Admission and BSOD.                                                     *)

\* What these steps leave alone keeps the stream as it was.
LEMMA FlujoQuieto ==
  ASSUME Flujo, UNCHANGED <<dueno, sinTimeout, compactando, ida, vuelta, mpc, mreq>>,
         dueno # Nulo => UNCHANGED req[dueno]
  PROVE  Flujo'
  BY DEF Flujo, FlujoIda, FlujoResp, FlujoIni, FlujoFin, FlujoMem

\* The end of crear_proceso: the process is known to kernel_memory by then.
LEMMA IEncolar ==
  ASSUME IInv, NEW t \in Hilos, Encolar(t)
  PROVE  IInv'
<1>0. PICK p \in Procs : p = req[t].pid
  BY DEF IInv, Encolar, Pedidos
<1>1. /\ pc[t] = "encola" /\ est[p] \in Ocupados /\ Coincide(p) /\ dueno # t
      /\ \A k \in 1 .. Len(nuevos) : nuevos[k] # p
      /\ \A u \in Hilos : u # t /\ pc[u] # "libre" => req[u].pid # p
  BY <1>0 DEF IInv, Encolar, Pedidos, Datos, Turno
<1>2. SinReq \in TipoReq
  BY TipoDeReq DEF SinReq, Numeros
<1>3. /\ req' \in [Hilos -> TipoReq] /\ pc' = [pc EXCEPT ![t] = "libre"]
      /\ \A u \in Hilos \ {t} : req'[u] = req[u]
      /\ est' \in [Procs -> Estados] /\ est'[p] \in {"new", "fin"}
      /\ \A q \in Procs \ {p} : est'[q] = est[q]
      /\ \/ /\ hayCola /\ nuevos' = Append(nuevos, p) /\ semNew' = semNew + 1
            /\ est'[p] = "new"
         \/ ~ hayCola /\ nuevos' = nuevos /\ semNew' = semNew
  BY <1>0, <1>2 DEF IInv, Encolar, TypeHilo, TypeProc, Estados
<1>4. TypeHilo' /\ TypeProc' /\ TypeMem'
  <2>0. nuevos \in Seq(Procs) /\ semNew \in Nat
    BY DEF IInv, TypeProc
  <2>1. nuevos' \in Seq(Procs) /\ semNew' \in Nat
    <3>1. Append(nuevos, p) \in Seq(Procs) /\ semNew + 1 \in Nat
      BY <2>0
    <3>2. nuevos' = Append(nuevos, p) \/ nuevos' = nuevos
      BY <1>3
    <3>3. semNew' = semNew + 1 \/ semNew' = semNew
      BY <1>3
    <3>4. nuevos' \in Seq(Procs)
      BY <2>0, <3>1, <3>2
    <3> QED BY <2>0, <3>1, <3>3, <3>4
  <2> QED BY <1>3, <2>1 DEF IInv, Encolar, TypeHilo, TypeProc, TypeMem
<1>5. Turno' /\ Flujo'
  <2>1. Turno'
    BY <1>1, <1>3 DEF IInv, Encolar, Turno, TypeHilo
  <2>2. dueno # Nulo => req'[dueno] = req[dueno]
    BY <1>1, <1>3 DEF IInv, TypeHilo
  <2>3. UNCHANGED <<dueno, sinTimeout, compactando, ida, vuelta, mpc, mreq>>
    BY DEF Encolar
  <2>4. Flujo'
    BY <2>2, <2>3, FlujoQuieto DEF IInv
  <2> QED BY <2>1, <2>4
<1>6. Pedidos'
  <2> SUFFICES ASSUME NEW u \in Hilos \ {t}, pc[u] # "libre", pc'[u] = pc[u], req'[u] = req[u]
               PROVE  /\ req[u].op \in Ops /\ req[u].pid \in Procs /\ req[u].de = u
                      /\ est'[req[u].pid] \in Ocupados
                      /\ pc[u] = "encola" => req[u].op = "CREAR"
                      /\ \A k \in 1 .. Len(nuevos') : nuevos'[k] # req[u].pid
                      /\ \A v \in Hilos : v # u /\ pc'[v] # "libre" => req'[v].pid # req[u].pid
    BY <1>3 DEF Pedidos, IInv, TypeHilo
  <2>1. req[u].pid \in Procs \ {p}
    BY <1>1 DEF IInv, Pedidos
  <2>2. \A k \in 1 .. Len(nuevos') : nuevos'[k] # req[u].pid
    <3>1. \A k \in 1 .. Len(nuevos) : nuevos[k] # req[u].pid
      BY DEF IInv, Pedidos
    <3>2. nuevos \in Seq(Procs)
      BY DEF IInv, TypeProc
    <3> QED BY <1>3, <2>1, <3>1, <3>2
  <2> QED BY <1>3, <2>1, <2>2 DEF IInv, Pedidos, TypeHilo
<1>7. \A q \in Procs : Coincide(q) <=> Coincide(q)'
  BY DEF Encolar, Coincide
<1>8. Cola'
  <2>1. CASE hayCola
    <3>1. nuevos' = Append(nuevos, p) /\ semNew' = semNew + 1 /\ est'[p] = "new"
      BY <2>1, <1>3
    <3>2. /\ Len(nuevos') = Len(nuevos) + 1 /\ nuevos'[Len(nuevos) + 1] = p
          /\ \A k \in 1 .. Len(nuevos) : nuevos'[k] = nuevos[k]
      BY <3>1 DEF IInv, TypeProc
    <3>3. nuevos \in Seq(Procs) /\ Len(nuevos) \in Nat
      BY DEF IInv, TypeProc
    <3>4. \A q \in Procs : (\E k \in 1 .. Len(nuevos) : nuevos[k] = q) \/ q = p =>
            est'[q] \in {"new", "fin"} /\ Coincide(q)'
      BY <1>1, <1>3, <1>7 DEF IInv, Cola
    <3>5. \A k \in 1 .. Len(nuevos') : nuevos'[k] \in Procs /\
            ((\E j \in 1 .. Len(nuevos) : nuevos[j] = nuevos'[k]) \/ nuevos'[k] = p)
      BY <3>2, <3>3
    <3>6. \A j, k \in 1 .. Len(nuevos') : nuevos'[j] = nuevos'[k] => j = k
      <4>1. \A j, k \in 1 .. Len(nuevos) : nuevos[j] = nuevos[k] => j = k
        BY DEF IInv, Cola
      <4> QED BY <1>1, <3>2, <3>3, <4>1
    <3>7. hayCola' => Len(nuevos') = semNew' + (IF plp' = "saca" THEN 1 ELSE 0)
      BY <2>1, <3>1, <3>2 DEF IInv, Cola, TypeProc, Encolar
    <3> QED BY <3>4, <3>5, <3>6, <3>7 DEF Cola
  <2>2. CASE ~ hayCola
    BY <2>2, <1>1, <1>3, <1>7 DEF IInv, Cola, TypeProc, Encolar
  <2> QED BY <2>1, <2>2
<1>9. Datos'
  BY <1>1, <1>3, <1>7 DEF IInv, Encolar, Datos, TypeHilo, Pedidos, Antes, Pendiente, SinResp, Despachado,
        Coincide
<1> QED BY <1>4, <1>5, <1>6, <1>8, <1>9 DEF IInv

\* A step of the scheduler that leaves the threads' requests, the streams and
\* kernel_memory alone keeps the data part if no process turns stable.
LEMMA DatosQuieto ==
  ASSUME Datos, UNCHANGED <<pc, req, segsS, existe, segsM, ida, vuelta, mpc>>,
         \A p \in Procs : /\ est'[p] \in Estables => est[p] \in Estables \/ Coincide(p)
                          /\ est'[p] = "no" => est[p] = "no"
  PROVE  Datos'
  BY DEF Datos, Coincide, Antes, Pendiente, SinResp, Despachado

\* sem_wait(sem_new).
LEMMA IPlpEspera ==
  ASSUME IInv, PlpEspera
  PROVE  IInv'
<1>1. TypeHilo' /\ TypeProc' /\ TypeMem'
  BY DEF IInv, PlpEspera, TypeHilo, TypeProc, TypeMem
<1>2. Turno' /\ Pedidos' /\ Flujo' /\ Datos'
  BY FlujoQuieto, DatosQuieto DEF IInv, PlpEspera, Turno, Pedidos
<1>3. Cola'
  BY DEF IInv, PlpEspera, Cola, Coincide, TypeProc
<1> QED BY <1>1, <1>2, <1>3 DEF IInv

\* The long-term scheduler takes a process out of NEW: there is one, and
\* kernel_memory knows it.
LEMMA IPlpSaca ==
  ASSUME IInv, PlpSaca
  PROVE  IInv'
<1>0. nuevos \in Seq(Procs) /\ semNew \in Nat /\ Len(nuevos) = semNew + 1
  BY DEF IInv, PlpSaca, Cola, TypeProc
<1>1. PICK p \in Procs : p = Head(nuevos)
  BY <1>0
<1>2. /\ nuevos' \in Seq(Procs) /\ Len(nuevos') = Len(nuevos) - 1 /\ nuevos[1] = p
      /\ \A k \in 1 .. Len(nuevos') : k + 1 \in 1 .. Len(nuevos) /\ nuevos'[k] = nuevos[k + 1]
      /\ 1 \in 1 .. Len(nuevos)
  BY <1>0, <1>1 DEF PlpSaca
<1>3. Coincide(p) /\ est' = [est EXCEPT ![p] = "ready"]
  BY <1>1, <1>2 DEF IInv, Cola, PlpSaca
<1>4. TypeHilo' /\ TypeProc' /\ TypeMem'
  BY <1>2, <1>3 DEF IInv, PlpSaca, TypeHilo, TypeProc, TypeMem, Estados
<1>5. Turno' /\ Flujo' /\ Datos'
  BY <1>3, FlujoQuieto, DatosQuieto DEF IInv, PlpSaca, Turno, TypeProc
<1>6. \A k \in 1 .. Len(nuevos') : nuevos'[k] \in Procs \ {p}
  BY <1>0, <1>2 DEF IInv, Cola
<1>7. Pedidos'
  <2>1. \A t \in Hilos : pc[t] # "libre" => req[t].pid # p /\ est'[req[t].pid] = est[req[t].pid]
    <3>1. \A t \in Hilos : pc[t] # "libre" => req[t].pid \in Procs \ {p}
      BY <1>2 DEF IInv, Pedidos
    <3> QED BY <1>3, <3>1 DEF IInv, TypeProc
  <2>2. \A t \in Hilos : pc[t] # "libre" => \A k \in 1 .. Len(nuevos') : nuevos'[k] # req[t].pid
    BY <1>2 DEF IInv, Pedidos
  <2> QED BY <2>1, <2>2 DEF IInv, PlpSaca, Pedidos
<1>8. Cola'
  <2>1. hayCola' => Len(nuevos') = semNew' + (IF plp' = "saca" THEN 1 ELSE 0)
    BY <1>0, <1>2 DEF PlpSaca
  <2>2. \A k \in 1 .. Len(nuevos') : est'[nuevos'[k]] \in {"new", "fin"} /\ Coincide(nuevos'[k])
    <3>1. \A k \in 1 .. Len(nuevos) : est[nuevos[k]] \in {"new", "fin"} /\ Coincide(nuevos[k])
      BY DEF IInv, Cola
    <3>2. \A q \in Procs \ {p} : est'[q] = est[q]
      BY <1>3 DEF IInv, TypeProc
    <3>3. ASSUME NEW k \in 1 .. Len(nuevos')
          PROVE  est'[nuevos'[k]] \in {"new", "fin"} /\ Coincide(nuevos'[k])
      <4>1. PICK q \in Procs \ {p} : q = nuevos'[k]
        BY <1>6
      <4>2. est[q] \in {"new", "fin"} /\ Coincide(q)
        BY <1>2, <3>1, <4>1
      <4> QED BY <3>2, <4>1, <4>2
    <3> QED BY <3>3
  <2>3. \A k \in 1 .. Len(nuevos') : Coincide(nuevos[k])'
    BY <2>2 DEF Coincide, PlpSaca
  <2>4. \A j, k \in 1 .. Len(nuevos') : nuevos'[j] = nuevos'[k] => j = k
    <3>1. \A j, k \in 1 .. Len(nuevos) : nuevos[j] = nuevos[k] => j = k
      BY DEF IInv, Cola
    <3>2. ASSUME NEW j \in 1 .. Len(nuevos'), NEW k \in 1 .. Len(nuevos'),
                 nuevos'[j] = nuevos'[k]
          PROVE  j = k
      <4>1. nuevos[j + 1] = nuevos[k + 1]
        BY <1>2, <3>2
      <4>2. j + 1 = k + 1
        BY <1>2, <3>1, <4>1
      <4> QED BY <4>2, <1>0, <1>2
    <3> QED BY <3>2
  <2> QED BY <2>1, <2>2, <2>3, <2>4 DEF Cola
<1> QED BY <1>4, <1>5, <1>7, <1>8 DEF IInv

\* The two ways the scheduler ends.
LEMMA IFinal ==
  ASSUME IInv, PlpRompe \/ \E t \in Hilos : BsodExit(t)
  PROVE  IInv'
<1>1. /\ UNCHANGED <<hiloVars, est, segsS, nuevos, hayCola, semNew, plp, corrupto, ida,
                     vuelta, memVars>>
      /\ vivo' = FALSE
  BY DEF PlpRompe, BsodExit
<1>2. TypeHilo' /\ TypeProc' /\ TypeMem'
  BY <1>1 DEF IInv, TypeHilo, TypeProc, TypeMem
<1>3. Turno' /\ Pedidos' /\ Cola' /\ Flujo' /\ Datos'
  BY <1>1, FlujoQuieto, DatosQuieto DEF IInv, Turno, Pedidos, Cola, Coincide
<1> QED BY <1>2, <1>3 DEF IInv

\* manejar_bsod puts every PCB in EXIT, those with a request under way and those
\* in NEW too.
LEMMA IBsodMarca ==
  ASSUME IInv, NEW t \in Hilos, BsodMarca(t)
  PROVE  IInv'
<1>1. /\ est' \in [Procs -> Estados] /\ pc[t] = "marca" /\ pc' = [pc EXCEPT ![t] = "colas"]
      /\ \A p \in Procs : est[p] \in Ocupados \union {"new"} => est'[p] = "fin"
      /\ \A p \in Procs : est'[p] \notin Estables /\ (est'[p] = "no" => est[p] = "no")
  BY DEF BsodMarca, Estados
<1>2. TypeHilo' /\ TypeProc' /\ TypeMem'
  BY <1>1 DEF IInv, BsodMarca, TypeHilo, TypeProc, TypeMem
<1>3. Turno' /\ Flujo'
  BY <1>1, FlujoQuieto DEF IInv, BsodMarca, Turno, TypeHilo
<1>4. Pedidos'
  BY <1>1 DEF IInv, BsodMarca, Pedidos, TypeHilo
<1>5. Cola'
  BY <1>1 DEF IInv, BsodMarca, Cola, Coincide, TypeProc
<1>6. Datos'
  BY <1>1 DEF IInv, BsodMarca, Datos, Coincide, Antes, Pendiente, SinResp, Despachado, TypeHilo
<1> QED BY <1>2, <1>3, <1>4, <1>5, <1>6 DEF IInv

\* The queues are destroyed: nobody will be admitted.
LEMMA IBsodColas ==
  ASSUME IInv, NEW t \in Hilos, BsodColas(t)
  PROVE  IInv'
<1>1. pc[t] = "colas" /\ pc' = [pc EXCEPT ![t] = "exit"] /\ nuevos' = <<>> /\ hayCola' = FALSE
  BY DEF BsodColas
<1>2. TypeHilo' /\ TypeProc' /\ TypeMem'
  <2>1. nuevos' \in Seq(Procs)
    BY <1>1
  <2> QED BY <1>1, <2>1 DEF IInv, BsodColas, TypeHilo, TypeProc, TypeMem
<1>3. Turno' /\ Flujo'
  BY <1>1, FlujoQuieto DEF IInv, BsodColas, Turno, TypeHilo
<1>4. Pedidos' /\ Cola'
  BY <1>1 DEF IInv, BsodColas, Pedidos, Cola, TypeHilo
<1>5. Datos'
  BY <1>1 DEF IInv, BsodColas, Datos, Coincide, Antes, Pendiente, SinResp, Despachado, TypeHilo
<1> QED BY <1>2, <1>3, <1>4, <1>5 DEF IInv

\* A dispatch and a blocking syscall move a process nobody asks for.
LEMMA IMover ==
  ASSUME IInv, NEW p \in Procs, Despachar(p) \/ Bloquear(p)
  PROVE  IInv'
<1>1. PICK e \in {"exec", "bloq"} : est' = [est EXCEPT ![p] = e]
  BY DEF Despachar, Bloquear, Mover
<1>2. /\ est[p] \in {"ready", "exec"}
      /\ UNCHANGED <<hiloVars, segsS, nuevos, hayCola, semNew, plp, corrupto, vivo, ida,
                     vuelta, memVars>>
  BY DEF Despachar, Bloquear, Mover
<1>3. TypeHilo' /\ TypeProc' /\ TypeMem'
  BY <1>1, <1>2 DEF IInv, TypeHilo, TypeProc, TypeMem, Estados
<1>4. Turno' /\ Flujo' /\ Datos'
  BY <1>1, <1>2, FlujoQuieto, DatosQuieto DEF IInv, Turno, TypeProc
<1>5. Pedidos' /\ Cola'
  BY <1>1, <1>2 DEF IInv, Pedidos, Cola, Coincide, TypeProc
<1> QED BY <1>3, <1>4, <1>5 DEF IInv

-----------------------------------------------------------------------------
(* kernel_memory.                                                          *)

\* The request under way: its process is out of every queue and of every other
\* thread's hands.
LEMMA Tramitado ==
  ASSUME IInv, dueno # Nulo
  PROVE  LET p == req[dueno].pid IN
         /\ dueno \in Hilos /\ pc[dueno] \in Tramite /\ req[dueno] \in TipoReq
         /\ req[dueno].op \in Ops /\ p \in Procs /\ req[dueno].de = dueno
         /\ est[p] \in Ocupados
         /\ \A k \in 1 .. Len(nuevos) : nuevos[k] # p
         /\ \A u \in Hilos : u # dueno => pc[u] \notin Tramite
         /\ \A u \in Hilos : u # dueno /\ pc[u] # "libre" => req[u].pid # p
  BY DEF IInv, TypeHilo, Turno, Pedidos

\* The receptor takes a request from the stream: it is the one of the thread
\* that holds the channel, and the only packet there.
LEMMA Tomado ==
  ASSUME IInv, mpc = "lee", ida # <<>>, ida' = Tail(ida)
  PROVE  /\ dueno # Nulo /\ Head(ida) = req[dueno] /\ ida' = <<>>
         /\ pc[dueno] = "recv" => Antes(req[dueno])
         /\ \A k \in 1 .. Len(vuelta) :
              ~ EsResp(vuelta[k]) /\ ~ EsIni(vuelta[k]) /\ ~ EsFin(vuelta[k])
<1>1. dueno # Nulo /\ Len(ida) = 1 /\ ida[1] = req[dueno]
  BY DEF IInv, Flujo, FlujoIda
<1>2. Head(ida) = req[dueno] /\ ida' = <<>>
  BY <1>1 DEF IInv, TypeMem
<1>3. pc[dueno] = "recv" => Antes(req[dueno])
  BY <1>1 DEF IInv, Datos, Pendiente, TypeHilo
<1>4. \A k \in 1 .. Len(vuelta) :
              ~ EsResp(vuelta[k]) /\ ~ EsIni(vuelta[k]) /\ ~ EsFin(vuelta[k])
  BY DEF IInv, Flujo, FlujoResp, FlujoIni, FlujoFin
<1> QED BY <1>1, <1>2, <1>3, <1>4

\* kernel_memory only changes its record of the process the request is about:
\* nothing the scheduler says of any other is affected.
LEMMA SoloElPedido ==
  ASSUME IInv, dueno # Nulo, Fijo,
         existe' \subseteq Procs, segsM' \in [Procs -> Seq(Numeros)],
         \A q \in Procs : q # req[dueno].pid =>
           (q \in existe' <=> q \in existe) /\ segsM'[q] = segsM[q]
  PROVE  /\ TypeHilo' /\ TypeProc' /\ Turno' /\ Pedidos' /\ Cola'
         /\ \A q \in Procs : /\ est'[q] \in Estables => Coincide(q)'
                             /\ est'[q] = "no" => segsS'[q] = <<>>
         /\ \A u \in Hilos : u # dueno =>
              /\ pc'[u] = "espera" => Antes(req[u])'
              /\ pc'[u] = "encola" => Coincide(req[u].pid)'
              /\ pc'[u] # "recv"
<1>0. PICK p \in Procs : p = req[dueno].pid
  BY Tramitado
<1>1. \A q \in Procs \ {p} : Coincide(q) <=> Coincide(q)'
  BY <1>0 DEF Coincide, Fijo
<1>2. TypeHilo' /\ TypeProc' /\ Turno' /\ Pedidos'
  BY DEF IInv, Fijo, TypeHilo, TypeProc, Turno, Pedidos
<1>3. Cola'
  <2>1. \A k \in 1 .. Len(nuevos) : nuevos[k] \in Procs \ {p}
    BY <1>0, Tramitado DEF IInv, TypeProc
  <2>2. \A k \in 1 .. Len(nuevos) : Coincide(nuevos[k])'
    BY <1>1, <2>1 DEF IInv, Cola, Fijo, Coincide
  <2> QED BY <2>2 DEF IInv, Cola, Fijo
<1>4. \A q \in Procs : /\ est'[q] \in Estables => Coincide(q)'
                       /\ est'[q] = "no" => segsS'[q] = <<>>
  <2>1. est[p] \in Ocupados
    BY <1>0, Tramitado
  <2> QED BY <1>1, <2>1 DEF IInv, Datos, Fijo
<1>5. \A u \in Hilos : u # dueno =>
              /\ pc'[u] = "espera" => Antes(req[u])'
              /\ pc'[u] = "encola" => Coincide(req[u].pid)'
              /\ pc'[u] # "recv"
  <2> SUFFICES ASSUME NEW u \in Hilos, u # dueno, pc[u] # "libre"
               PROVE  /\ pc'[u] = "espera" => Antes(req[u])'
                      /\ pc'[u] = "encola" => Coincide(req[u].pid)'
                      /\ pc'[u] # "recv"
    BY DEF Fijo
  <2>1. PICK q \in Procs \ {p} : q = req[u].pid
    BY <1>0, Tramitado DEF IInv, Pedidos
  <2>2. pc[u] \notin Tramite
    BY Tramitado
  <2>3. Coincide(q) <=> Coincide(q)'
    BY <1>1, <2>1
  <2> QED BY <2>1, <2>2, <2>3 DEF IInv, Datos, Antes, Fijo, Coincide
<1> QED BY <1>2, <1>3, <1>4, <1>5

\* The request is answered, and the answer is the last packet of the stream.
LEMMA Contestado ==
  ASSUME IInv, dueno # Nulo, Fijo, ida' = <<>>, mpc' \in MpcQuieto, mreq' \in TipoReq,
         existe' \subseteq Procs, segsM' \in [Procs -> Seq(Numeros)],
         \A q \in Procs : q # req[dueno].pid =>
           (q \in existe' <=> q \in existe) /\ segsM'[q] = segsM[q],
         vuelta' \in Seq(TipoPaquete), vuelta' # <<>>,
         \A k \in 1 .. Len(vuelta') : k # Len(vuelta') =>
           ~ EsResp(vuelta'[k]) /\ ~ EsIni(vuelta'[k]),
         NEW CONSTANT m, m = vuelta'[Len(vuelta')],
         m.op \notin Avisos, m.de = dueno, m.fmt = Drena(req[dueno].op, m.op),
         pc[dueno] = "recv" => Despachado(req[dueno], m.op)'
  PROVE  IInv'
<1>1. Len(vuelta') \in Nat /\ Len(vuelta') \in 1 .. Len(vuelta')
  OBVIOUS
<1>2. TypeMem'
  BY DEF TypeMem
<1>3. Flujo'
  <2>1. UNCHANGED <<dueno, req>>
    BY DEF Fijo
  <2> QED BY <1>1, <2>1 DEF Flujo, FlujoIda, FlujoResp, FlujoIni, FlujoFin, FlujoMem, EsResp,
        EsIni, EsFin, Avisos, AvisosOk
<1>4. Datos'
  <2>1. UNCHANGED <<pc, dueno, req>>
    BY DEF Fijo
  <2>2. ~ SinResp' /\ ~ Pendiente(dueno)'
    BY <1>1, <2>1 DEF SinResp, EsResp, Pendiente
  <2>3. pc'[dueno] \in Tramite
    BY <2>1, Tramitado
  <2>4. pc'[dueno] = "recv" => \A k \in 1 .. Len(vuelta') :
            EsResp(vuelta'[k]) => Despachado(req[dueno], vuelta[k].op)'
    BY <1>1, <2>1
  <2> QED BY <2>1, <2>2, <2>3, <2>4, SoloElPedido DEF Datos, Pendiente
<1> QED BY <1>2, <1>3, <1>4, SoloElPedido DEF IInv

\* The request is dropped: a read cut by a stick that is gone, a dump that fails.
LEMMA Descartado ==
  ASSUME IInv, dueno # Nulo, Fijo, ida' = <<>>, UNCHANGED memVars, mpc = "lee",
         vuelta' \in Seq(TipoPaquete),
         \A k \in 1 .. Len(vuelta') :
           ~ EsResp(vuelta'[k]) /\ ~ EsIni(vuelta'[k]) /\ ~ EsFin(vuelta'[k]),
         req[dueno].op \in {"LECTURA", "SUSPENDER"},
         pc[dueno] = "recv" => Antes(req[dueno])
  PROVE  IInv'
<1>1. UNCHANGED <<pc, dueno, req, segsS, existe, segsM>>
  BY DEF Fijo
<1>2. TypeMem' /\ Flujo'
  BY <1>1 DEF IInv, TypeMem, Flujo, FlujoIda, FlujoResp, FlujoIni, FlujoFin, FlujoMem
<1>3. /\ TypeHilo' /\ TypeProc' /\ Turno' /\ Pedidos' /\ Cola'
      /\ \A q \in Procs : /\ est'[q] \in Estables => Coincide(q)'
                          /\ est'[q] = "no" => segsS'[q] = <<>>
      /\ \A u \in Hilos : u # dueno =>
           /\ pc'[u] = "espera" => Antes(req[u])'
           /\ pc'[u] = "encola" => Coincide(req[u].pid)'
           /\ pc'[u] # "recv"
  BY SoloElPedido DEF IInv, TypeMem
<1>4. pc'[dueno] \in Tramite /\ (pc'[dueno] = "recv" => Coincide(req[dueno].pid)')
  BY <1>1, Tramitado DEF Antes, Coincide
<1>5. Datos'
  BY <1>1, <1>3, <1>4 DEF Datos, Pendiente
<1> QED BY <1>2, <1>3, <1>5 DEF IInv

\* A packet goes to the end of the stream.
LEMMA Anexado ==
  ASSUME IInv, NEW m \in TipoPaquete, vuelta' = Append(vuelta, m)
  PROVE  /\ vuelta' \in Seq(TipoPaquete) /\ vuelta' # <<>>
         /\ Len(vuelta) \in Nat /\ Len(vuelta') = Len(vuelta) + 1
         /\ vuelta'[Len(vuelta')] = m
         /\ \A k \in 1 .. Len(vuelta') :
              k # Len(vuelta') => k \in 1 .. Len(vuelta) /\ vuelta'[k] = vuelta[k]
<1>1. vuelta \in Seq(TipoPaquete)
  BY DEF IInv, TypeMem
<1> QED BY <1>1

\* Every answer of one packet: what is left to show is its format and the state
\* of the process.
LEMMA ContestadoUno ==
  ASSUME IInv, mpc = "lee", ida # <<>>, ida' = Tail(ida), Fijo, mpc' \in MpcQuieto,
         UNCHANGED mreq, existe' \subseteq Procs, segsM' \in [Procs -> Seq(Numeros)],
         \A q \in Procs : q # req[dueno].pid =>
           (q \in existe' <=> q \in existe) /\ segsM'[q] = segsM[q],
         NEW CONSTANT op \in OpPaquete \ Avisos,
         NEW CONSTANT f \in {"ok", "seg", "datos"}, Contesta(op, f, Head(ida).de),
         f = Drena(req[dueno].op, op),
         pc[dueno] = "recv" => Despachado(req[dueno], op)'
  PROVE  IInv'
<1>1. /\ dueno # Nulo /\ Head(ida) = req[dueno] /\ ida' = <<>>
      /\ \A k \in 1 .. Len(vuelta) :
           ~ EsResp(vuelta[k]) /\ ~ EsIni(vuelta[k]) /\ ~ EsFin(vuelta[k])
  BY Tomado
<1>2. dueno \in Hilos /\ Head(ida).de = dueno
  BY <1>1, Tramitado
<1>3. PICK m \in TipoPaquete : m = Paquete(op, f, dueno)
  BY <1>2, TipoDePaquete
<1>4. vuelta' = Append(vuelta, m) /\ m.op = op /\ m.de = dueno /\ m.fmt = f
  BY <1>2, <1>3 DEF Contesta, Paquete
<1>5. mreq' \in TipoReq
  BY DEF IInv, TypeMem
<1> QED BY <1>1, <1>2, <1>4, <1>5, Anexado, Contestado

\* CREAR_PROCESO: the process is known before the answer goes out.
LEMMA IMemCrear ==
  ASSUME IInv, MemCrear
  PROVE  IInv'
<1>1. mpc = "lee" /\ ida # <<>> /\ ida' = Tail(ida) /\ Head(ida).op = "CREAR"
  BY DEF MemCrear, Toma
<1>2. Head(ida) = req[dueno] /\ dueno # Nulo /\ (pc[dueno] = "recv" => Antes(req[dueno]))
  BY <1>1, Tomado
<1>3. PICK p \in Procs : p = req[dueno].pid
  BY <1>2, Tramitado
<1>4. existe' = existe \union {p} /\ segsM' = [segsM EXCEPT ![p] = <<>>]
  BY <1>2, <1>3 DEF MemCrear
<1>5. /\ existe' \subseteq Procs /\ segsM' \in [Procs -> Seq(Numeros)] /\ segsM'[p] = <<>>
      /\ \A q \in Procs : q # p => (q \in existe' <=> q \in existe) /\ segsM'[q] = segsM[q]
  <2>1. segsM \in [Procs -> Seq(Numeros)] /\ existe \subseteq Procs /\ <<>> \in Seq(Numeros)
    BY DEF IInv, TypeMem
  <2> QED BY <1>4, <2>1
<1>6. pc[dueno] = "recv" => Despachado(req[dueno], "CREAR")'
  BY <1>1, <1>2, <1>3, <1>4, <1>5 DEF Despachado, Antes, Tras, MemCrear, Fijo
<1>7. "CREAR" \in OpPaquete \ Avisos /\ "ok" = Drena(req[dueno].op, "CREAR")
  BY <1>1, <1>2 DEF OpPaquete, Ops, Avisos, AvisosOk, Drena
<1>8. Fijo /\ UNCHANGED <<mpc, mreq>> /\ Contesta("CREAR", "ok", Head(ida).de)
  BY DEF MemCrear
<1> QED BY <1>1, <1>3, <1>5, <1>6, <1>7, <1>8, ContestadoUno

\* ELIMINAR_SEGMENTO takes out what segmentos_info will lose with the answer.
LEMMA IMemEliminar ==
  ASSUME IInv, MemEliminar
  PROVE  IInv'
<1>1. mpc = "lee" /\ ida # <<>> /\ ida' = Tail(ida) /\ Head(ida).op = "ELIMINAR"
  BY DEF MemEliminar, Toma
<1>2. Head(ida) = req[dueno] /\ dueno # Nulo /\ (pc[dueno] = "recv" => Antes(req[dueno]))
  BY <1>1, Tomado
<1>3. PICK p \in Procs : p = req[dueno].pid
  BY <1>2, Tramitado
<1>4. PICK s : s = req[dueno].seg
  OBVIOUS
<1>5. /\ existe' = existe
      /\ segsM' = IF p \in existe /\ s \in ToSet(segsM[p])
                  THEN [segsM EXCEPT ![p] = Sin(@, s)] ELSE segsM
  BY <1>2, <1>3, <1>4 DEF MemEliminar
<1>6. segsM \in [Procs -> Seq(Numeros)] /\ existe \subseteq Procs
  BY DEF IInv, TypeMem
<1>7. /\ existe' \subseteq Procs /\ segsM' \in [Procs -> Seq(Numeros)]
      /\ \A q \in Procs : q # p => (q \in existe' <=> q \in existe) /\ segsM'[q] = segsM[q]
  BY <1>5, <1>6, TipoDeSin
<1>8. pc[dueno] = "recv" => Despachado(req[dueno], "ELIMINAR")'
  <2> HAVE pc[dueno] = "recv"
  <2>1. p \in existe /\ segsS[p] = segsM[p]
    BY <1>1, <1>2, <1>3 DEF Antes, Coincide
  <2>2. segsM'[p] = Sin(segsS[p], s)
    BY <2>1, <1>5, <1>6, SinAusente
  <2>3. UNCHANGED <<req, dueno, segsS>>
    BY DEF MemEliminar, Libera, Fijo
  <2> QED BY <2>1, <2>2, <2>3, <1>1, <1>2, <1>3, <1>4, <1>5 DEF Despachado, Tras
<1>9. "ELIMINAR" \in OpPaquete \ Avisos /\ "ok" = Drena(req[dueno].op, "ELIMINAR")
  BY <1>1, <1>2 DEF OpPaquete, Ops, Avisos, AvisosOk, Drena
<1>10. Fijo /\ UNCHANGED mreq /\ mpc' \in MpcQuieto /\ Contesta("ELIMINAR", "ok", Head(ida).de)
  BY <1>1 DEF MemEliminar, Libera
<1> QED BY <1>1, <1>3, <1>7, <1>8, <1>9, <1>10, ContestadoUno

\* FINALIZAR_PROCESO forgets the process, which nobody will admit again.
LEMMA IMemFinalizar ==
  ASSUME IInv, MemFinalizar
  PROVE  IInv'
<1>1. mpc = "lee" /\ ida # <<>> /\ ida' = Tail(ida) /\ Head(ida).op = "FINALIZAR"
  BY DEF MemFinalizar, Toma
<1>2. Head(ida) = req[dueno] /\ dueno # Nulo
  BY <1>1, Tomado
<1>3. PICK p \in Procs : p = req[dueno].pid
  BY <1>2, Tramitado
<1>4. existe' = existe \ {p} /\ segsM' = [segsM EXCEPT ![p] = <<>>]
  BY <1>2, <1>3 DEF MemFinalizar
<1>5. /\ existe' \subseteq Procs /\ segsM' \in [Procs -> Seq(Numeros)]
      /\ \A q \in Procs : q # p => (q \in existe' <=> q \in existe) /\ segsM'[q] = segsM[q]
  <2>1. segsM \in [Procs -> Seq(Numeros)] /\ existe \subseteq Procs /\ <<>> \in Seq(Numeros)
    BY DEF IInv, TypeMem
  <2> QED BY <1>4, <2>1
<1>6. Fijo /\ UNCHANGED mreq /\ mpc' \in MpcQuieto /\ Contesta("FINALIZAR", "ok", Head(ida).de)
  BY <1>1 DEF MemFinalizar, Libera
<1>7. pc[dueno] = "recv" => Despachado(req[dueno], "FINALIZAR")'
  BY <1>1, <1>2, <1>6 DEF Despachado, Fijo
<1>8. "FINALIZAR" \in OpPaquete \ Avisos /\ "ok" = Drena(req[dueno].op, "FINALIZAR")
  BY <1>1, <1>2 DEF OpPaquete, Ops, Avisos, AvisosOk, Drena
<1> QED BY <1>1, <1>3, <1>5, <1>6, <1>7, <1>8, ContestadoUno

\* A step that leaves the record of every process and answers in one packet.
LEMMA ContestadoIgual ==
  ASSUME IInv, mpc = "lee", ida # <<>>, ida' = Tail(ida), Fijo, UNCHANGED memVars,
         NEW CONSTANT op \in OpPaquete \ Avisos,
         NEW CONSTANT f \in {"ok", "seg", "datos"}, Contesta(op, f, Head(ida).de),
         f = Drena(Head(ida).op, op),
         Head(ida).op \in {"LECTURA", "ESCRITURA", "SUSPENDER", "DES_SUSPENDER"}
  PROVE  IInv'
<1>1. Head(ida) = req[dueno] /\ dueno # Nulo /\ (pc[dueno] = "recv" => Antes(req[dueno]))
  BY Tomado
<1>2. existe' \subseteq Procs /\ segsM' \in [Procs -> Seq(Numeros)]
  BY DEF IInv, TypeMem
<1>3. pc[dueno] = "recv" => Despachado(req[dueno], op)'
  BY <1>1 DEF Despachado, Antes, Coincide, Tras, Mata, Fijo
<1> QED BY <1>1, <1>2, <1>3, ContestadoUno

\* LECTURA and ESCRITURA: an answer, an answer behind a BSOD, or a read cut.
LEMMA IMemAcceso ==
  ASSUME IInv, NEW op \in {"LECTURA", "ESCRITURA"}, MemAcceso(op)
  PROVE  IInv'
<1> DEFINE f == IF op = "LECTURA" THEN "datos" ELSE "ok"
<1>1. /\ mpc = "lee" /\ ida # <<>> /\ ida' = Tail(ida) /\ Head(ida).op = op
      /\ Fijo /\ UNCHANGED memVars
  BY DEF MemAcceso, Toma
<1>2. /\ "SEGFAULT" \in OpPaquete \ Avisos /\ op \in OpPaquete \ Avisos
      /\ "ok" = Drena(op, "SEGFAULT") /\ f = Drena(op, op)
      /\ f \in {"ok", "datos"}
  BY DEF OpPaquete, Ops, Avisos, AvisosOk, Drena
<1>3. CASE Contesta("SEGFAULT", "ok", Head(ida).de)
  BY <1>1, <1>2, <1>3, ContestadoIgual
<1>4. CASE vuelta' = Append(vuelta, Paquete(op, f, Head(ida).de))
  <2>1. PICK g \in {"ok", "seg", "datos"} : g = f
    BY <1>2
  <2>2. Contesta(op, g, Head(ida).de) /\ g = Drena(Head(ida).op, op)
    BY <1>1, <1>2, <1>4, <2>1 DEF Contesta
  <2> QED BY <1>1, <1>2, <2>2, ContestadoIgual
<1>5. CASE /\ Head(ida).pid \in existe /\ caido
           /\ vuelta' = vuelta \o <<Aviso("BSOD")>> \o
                IF op = "LECTURA" THEN <<>> ELSE <<Paquete(op, f, Head(ida).de)>>
  <2>1. /\ dueno # Nulo /\ Head(ida) = req[dueno] /\ ida' = <<>>
        /\ (pc[dueno] = "recv" => Antes(req[dueno]))
        /\ \A k \in 1 .. Len(vuelta) :
             ~ EsResp(vuelta[k]) /\ ~ EsIni(vuelta[k]) /\ ~ EsFin(vuelta[k])
    BY <1>1, Tomado
  <2>2. dueno \in Hilos /\ Head(ida).de = dueno
    BY <2>1, Tramitado
  <2>3. PICK a \in TipoPaquete : a = Aviso("BSOD") /\ a.op = "BSOD"
    BY TipoDeAviso DEF Avisos, AvisosOk
  <2>4. ~ EsResp(a) /\ ~ EsIni(a) /\ ~ EsFin(a)
    BY <2>3 DEF EsResp, EsIni, EsFin, Avisos, AvisosOk
  <2>5. vuelta \in Seq(TipoPaquete)
    BY DEF IInv, TypeMem
  <2>6. CASE op = "LECTURA"
    <3>1. vuelta' = Append(vuelta, a)
      BY <1>5, <2>3, <2>5, <2>6
    <3>2. /\ vuelta' \in Seq(TipoPaquete)
          /\ \A k \in 1 .. Len(vuelta') :
               ~ EsResp(vuelta'[k]) /\ ~ EsIni(vuelta'[k]) /\ ~ EsFin(vuelta'[k])
      BY <2>1, <2>4, <3>1, Anexado
    <3> QED BY <1>1, <2>1, <2>6, <3>2, Descartado
  <2>7. CASE op = "ESCRITURA"
    <3>1. PICK m \in TipoPaquete : m = Paquete(op, f, dueno)
      BY <1>2, <2>2, TipoDePaquete
    <3>2. m.op = op /\ m.de = dueno /\ m.fmt = f
      BY <3>1 DEF Paquete
    <3>3. vuelta' = vuelta \o <<a, m>>
      BY <1>5, <2>2, <2>3, <2>5, <2>7, <3>1
    <3>4. /\ vuelta' \in Seq(TipoPaquete) /\ vuelta' # <<>> /\ Len(vuelta') = Len(vuelta) + 2
          /\ vuelta'[Len(vuelta')] = m
          /\ \A k \in 1 .. Len(vuelta') : k # Len(vuelta') =>
               vuelta'[k] = a \/ (k \in 1 .. Len(vuelta) /\ vuelta'[k] = vuelta[k])
      BY <2>5, <3>3
    <3>5. \A k \in 1 .. Len(vuelta') : k # Len(vuelta') =>
               ~ EsResp(vuelta'[k]) /\ ~ EsIni(vuelta'[k])
      BY <2>1, <2>4, <3>4
    <3>6. /\ existe' \subseteq Procs /\ segsM' \in [Procs -> Seq(Numeros)]
          /\ mreq' \in TipoReq /\ mpc' \in MpcQuieto
      BY <1>1 DEF IInv, TypeMem
    <3>7. pc[dueno] = "recv" => Despachado(req[dueno], op)'
      BY <1>1, <2>1, <2>7 DEF Despachado, Antes, Coincide, Tras, Mata, Fijo
    <3> QED BY <1>1, <1>2, <2>1, <3>2, <3>4, <3>5, <3>6, <3>7, Contestado
  <2> QED BY <2>6, <2>7
<1> QED BY <1>3, <1>4, <1>5 DEF MemAcceso

\* SUSPENDER: an answer, or nothing.
LEMMA IMemSuspender ==
  ASSUME IInv, MemSuspender
  PROVE  IInv'
<1>1. /\ mpc = "lee" /\ ida # <<>> /\ ida' = Tail(ida) /\ Head(ida).op = "SUSPENDER"
      /\ Fijo /\ UNCHANGED memVars
  BY DEF MemSuspender, Toma
<1>2. "SUSPENDER" \in OpPaquete \ Avisos /\ "ok" = Drena("SUSPENDER", "SUSPENDER")
  BY DEF OpPaquete, Ops, Avisos, AvisosOk, Drena
<1>3. CASE Contesta("SUSPENDER", "ok", Head(ida).de)
  <2>1. PICK op \in OpPaquete \ Avisos : op = "SUSPENDER"
    BY <1>2
  <2>2. Contesta(op, "ok", Head(ida).de) /\ "ok" = Drena(Head(ida).op, op)
    BY <1>1, <1>2, <1>3, <2>1
  <2> QED BY <1>1, <2>2, ContestadoIgual
<1>4. CASE vuelta' = vuelta \o IF caido THEN <<Aviso("BSOD")>> ELSE <<>>
  <2>1. /\ dueno # Nulo /\ Head(ida) = req[dueno] /\ ida' = <<>>
        /\ (pc[dueno] = "recv" => Antes(req[dueno]))
        /\ \A k \in 1 .. Len(vuelta) :
             ~ EsResp(vuelta[k]) /\ ~ EsIni(vuelta[k]) /\ ~ EsFin(vuelta[k])
    BY <1>1, Tomado
  <2>2. PICK a \in TipoPaquete : a = Aviso("BSOD") /\ a.op = "BSOD"
    BY TipoDeAviso DEF Avisos, AvisosOk
  <2>3. ~ EsResp(a) /\ ~ EsIni(a) /\ ~ EsFin(a)
    BY <2>2 DEF EsResp, EsIni, EsFin, Avisos, AvisosOk
  <2>4. vuelta \in Seq(TipoPaquete)
    BY DEF IInv, TypeMem
  <2>5. vuelta' = Append(vuelta, a) \/ vuelta' = vuelta
    BY <1>4, <2>2, <2>4
  <2>6. /\ vuelta' \in Seq(TipoPaquete)
        /\ \A k \in 1 .. Len(vuelta') :
             ~ EsResp(vuelta'[k]) /\ ~ EsIni(vuelta'[k]) /\ ~ EsFin(vuelta'[k])
    BY <2>1, <2>3, <2>4, <2>5, Anexado
  <2> QED BY <1>1, <2>1, <2>6, Descartado
<1> QED BY <1>3, <1>4 DEF MemSuspender

\* DES_SUSPENDER: an answer, one way or the other.
LEMMA IMemDesSuspender ==
  ASSUME IInv, MemDesSuspender
  PROVE  IInv'
<1>1. /\ mpc = "lee" /\ ida # <<>> /\ ida' = Tail(ida) /\ Head(ida).op = "DES_SUSPENDER"
      /\ Fijo /\ UNCHANGED memVars
  BY DEF MemDesSuspender, Toma
<1>2. PICK op \in {"DES_SUSPENDER", "SEGFAULT"} : Contesta(op, "ok", Head(ida).de)
  BY DEF MemDesSuspender
<1>3. op \in OpPaquete \ Avisos /\ "ok" = Drena(Head(ida).op, op)
  BY <1>1 DEF OpPaquete, Ops, Avisos, AvisosOk, Drena
<1> QED BY <1>1, <1>2, <1>3, ContestadoIgual

\* A notification that asks for nothing goes to the end of the stream.
LEMMA AvisoAnexado ==
  ASSUME IInv, NEW CONSTANT op \in {"BSOD", "LIBERADA", "NUEVA_MEMORIA"},
         vuelta' = Append(vuelta, Aviso(op)),
         UNCHANGED <<hiloVars, procVars, ida, mreq, existe, segsM>>,
         mpc' = mpc \/ (mpc \in MpcQuieto /\ mpc' = "lee")
  PROVE  IInv'
<1>1. PICK m \in TipoPaquete : m = Aviso(op) /\ m.op = op
  BY TipoDeAviso DEF Avisos, AvisosOk
<1>2. ~ EsResp(m) /\ ~ EsIni(m) /\ ~ EsFin(m)
  BY <1>1 DEF EsResp, EsIni, EsFin, Avisos, AvisosOk
<1>3. /\ vuelta' \in Seq(TipoPaquete) /\ Len(vuelta) \in Nat /\ Len(vuelta') = Len(vuelta) + 1
      /\ vuelta'[Len(vuelta')] = m
      /\ \A k \in 1 .. Len(vuelta') :
           k # Len(vuelta') => k \in 1 .. Len(vuelta) /\ vuelta'[k] = vuelta[k]
  BY <1>1, Anexado
<1>4. \A k \in 1 .. Len(vuelta) : k \in 1 .. Len(vuelta') /\ vuelta'[k] = vuelta[k]
  BY <1>3
<1>5. TypeHilo' /\ TypeProc' /\ TypeMem'
  BY <1>3 DEF IInv, TypeHilo, TypeProc, TypeMem
<1>6. Turno' /\ Pedidos' /\ Cola'
  BY DEF IInv, Turno, Pedidos, Cola, Coincide
<1>7. \A k \in 1 .. Len(vuelta') : EsResp(vuelta'[k]) \/ EsIni(vuelta'[k]) \/ EsFin(vuelta'[k]) =>
        k \in 1 .. Len(vuelta) /\ vuelta'[k] = vuelta[k]
  BY <1>2, <1>3
<1>8. Flujo'
  BY <1>7 DEF IInv, Flujo, FlujoIda, FlujoResp, FlujoIni, FlujoFin, FlujoMem, EsResp, EsIni, EsFin
<1>9. Datos'
  <2>1. SinResp' <=> SinResp
    BY <1>4, <1>7 DEF SinResp, EsResp
  <2>2. mpc' \in MpcCompacta <=> mpc \in MpcCompacta
    OBVIOUS
  <2> QED BY <2>1, <2>2, <1>7 DEF IInv, Datos, Coincide, Antes, Pendiente, Despachado, EsResp
<1> QED BY <1>5, <1>6, <1>8, <1>9 DEF IInv

\* MEMORIA_LIBERADA, a stick that connects, a stick that is gone.
LEMMA IAviso ==
  ASSUME IInv, MemAvisa \/ NuevoStick \/ CaeStick
  PROVE  IInv'
<1>1. CASE MemAvisa
  BY <1>1, AvisoAnexado DEF MemAvisa, Fijo
<1>2. CASE NuevoStick
  BY <1>2, AvisoAnexado DEF NuevoStick
<1>3. CASE CaeStick
  BY <1>3, AvisoAnexado DEF CaeStick
<1> QED BY <1>1, <1>2, <1>3

\* The end of SOLICITAR_SEGMENTO leaves the segment kernel_memory gives where
\* segmentos_info will have it.
LEMMA Asignado ==
  ASSUME IInv, dueno # Nulo, NEW CONSTANT r, r = req[dueno], r.op = "SOLICITAR", Asigna(r), Fijo,
         pc[dueno] = "recv" => Antes(r)
  PROVE  /\ existe' \subseteq Procs /\ segsM' \in [Procs -> Seq(Numeros)]
         /\ \A q \in Procs : q # r.pid =>
              (q \in existe' <=> q \in existe) /\ segsM'[q] = segsM[q]
         /\ \E op \in OpPaquete \ Avisos, f \in {"ok", "seg", "datos"} :
              /\ Contesta(op, f, r.de) /\ f = Drena(r.op, op)
              /\ pc[dueno] = "recv" => Despachado(req[dueno], op)'
<1>1. PICK p \in Procs : p = r.pid
  BY Tramitado
<1>2. segsM \in [Procs -> Seq(Numeros)] /\ existe \subseteq Procs /\ r \in TipoReq
  BY DEF IInv, TypeMem, TypeHilo
<1>3. r.seg \in Numeros
  BY <1>2 DEF TipoReq
<1>4. UNCHANGED <<existe, segsS, req, dueno>>
  BY DEF Asigna, Fijo
<1>5. pc[dueno] = "recv" => p \in existe /\ segsS[p] = segsM[p]
  BY <1>1 DEF Antes, Coincide
<1>6. CASE Contesta("SEGFAULT", "ok", r.de) /\ UNCHANGED segsM
  <2>1. "SEGFAULT" \in OpPaquete \ Avisos /\ "ok" = Drena(r.op, "SEGFAULT")
    BY DEF OpPaquete, Ops, Avisos, AvisosOk, Drena
  <2>2. pc[dueno] = "recv" => Despachado(req[dueno], "SEGFAULT")'
    BY <1>1, <1>4, <1>5 DEF Despachado, Mata
  <2> QED BY <1>2, <1>4, <1>6, <2>1, <2>2
<1>7. CASE /\ segsM' = [segsM EXCEPT ![p] = Append(@, r.seg)]
           /\ Contesta("SOLICITAR", "seg", r.de)
  <2>1. "SOLICITAR" \in OpPaquete \ Avisos /\ "seg" = Drena(r.op, "SOLICITAR")
    BY DEF OpPaquete, Ops, Avisos, AvisosOk, Drena
  <2>2. segsM'[p] = Append(segsM[p], r.seg)
    BY <1>2, <1>7
  <2>3. pc[dueno] = "recv" => Despachado(req[dueno], "SOLICITAR")'
    BY <1>1, <1>4, <1>5, <2>2 DEF Despachado, Tras
  <2>4. Append(segsM[p], r.seg) \in Seq(Numeros)
    BY <1>2, <1>3
  <2>5. segsM' \in [Procs -> Seq(Numeros)] /\ \A q \in Procs : q # p => segsM'[q] = segsM[q]
    BY <1>2, <1>7, <2>4
  <2> QED BY <1>1, <1>2, <1>4, <1>7, <2>1, <2>3, <2>5
<1> QED BY <1>1, <1>6, <1>7 DEF Asigna

\* SOLICITAR_SEGMENTO without a compaction.
LEMMA IMemSolicitar ==
  ASSUME IInv, MemSolicitar
  PROVE  IInv'
<1>1. mpc = "lee" /\ ida # <<>> /\ ida' = Tail(ida) /\ Head(ida).op = "SOLICITAR"
  BY DEF MemSolicitar, Toma
<1>2. Head(ida) = req[dueno] /\ dueno # Nulo /\ (pc[dueno] = "recv" => Antes(req[dueno]))
  BY <1>1, Tomado
<1>3. PICK r \in TipoReq : r = req[dueno]
  BY <1>2, Tramitado
<1>4. /\ Asigna(r) /\ UNCHANGED mreq /\ Fijo /\ mpc' \in MpcQuieto
      /\ (pc[dueno] = "recv" => Antes(r)) /\ r.op = "SOLICITAR" /\ r.de = Head(ida).de
  BY <1>1, <1>2, <1>3 DEF MemSolicitar, Asigna
<1>5. /\ existe' \subseteq Procs /\ segsM' \in [Procs -> Seq(Numeros)]
      /\ \A q \in Procs : q # r.pid => (q \in existe' <=> q \in existe) /\ segsM'[q] = segsM[q]
      /\ \E op \in OpPaquete \ Avisos, f \in {"ok", "seg", "datos"} :
           /\ Contesta(op, f, r.de) /\ f = Drena(r.op, op)
           /\ pc[dueno] = "recv" => Despachado(req[dueno], op)'
  BY <1>2, <1>3, <1>4, Asignado
<1>6. PICK op \in OpPaquete \ Avisos, f \in {"ok", "seg", "datos"} :
           /\ Contesta(op, f, r.de) /\ f = Drena(r.op, op)
           /\ pc[dueno] = "recv" => Despachado(req[dueno], op)'
  BY <1>5
<1> QED BY <1>1, <1>3, <1>4, <1>5, <1>6, ContestadoUno

\* And behind one: the request kept in mreq is still the holder's.
LEMMA IMemReasigna ==
  ASSUME IInv, MemReasigna
  PROVE  IInv'
<1>1. /\ mpc = "reasigna" /\ dueno # Nulo /\ mreq = req[dueno] /\ mreq.op = "SOLICITAR"
      /\ ida = <<>> /\ ida' = <<>>
      /\ \A k \in 1 .. Len(vuelta) : ~ EsResp(vuelta[k]) /\ ~ EsIni(vuelta[k])
  BY DEF IInv, MemReasigna, Flujo, FlujoIda, FlujoResp, FlujoIni, FlujoMem
<1>2. pc[dueno] = "recv" => Antes(req[dueno])
  BY <1>1, Tramitado DEF IInv, Datos, Pendiente
<1>3. PICK r \in TipoReq : r = req[dueno]
  BY <1>1, Tramitado
<1>4. /\ Asigna(r) /\ Fijo /\ mpc' \in MpcQuieto /\ mreq' = SinReq
      /\ (pc[dueno] = "recv" => Antes(r)) /\ r.op = "SOLICITAR"
  BY <1>1, <1>2, <1>3 DEF MemReasigna, Asigna
<1>5. /\ existe' \subseteq Procs /\ segsM' \in [Procs -> Seq(Numeros)]
      /\ \A q \in Procs : q # r.pid => (q \in existe' <=> q \in existe) /\ segsM'[q] = segsM[q]
      /\ \E op \in OpPaquete \ Avisos, f \in {"ok", "seg", "datos"} :
           /\ Contesta(op, f, r.de) /\ f = Drena(r.op, op)
           /\ pc[dueno] = "recv" => Despachado(req[dueno], op)'
  BY <1>1, <1>3, <1>4, Asignado
<1>6. PICK op \in OpPaquete \ Avisos, f \in {"ok", "seg", "datos"} :
           /\ Contesta(op, f, r.de) /\ f = Drena(r.op, op)
           /\ pc[dueno] = "recv" => Despachado(req[dueno], op)'
  BY <1>5
<1>7. dueno \in Hilos /\ r.de = dueno
  BY <1>1, <1>3, Tramitado
<1>8. PICK m \in TipoPaquete : m = Paquete(op, f, dueno)
  BY <1>7, TipoDePaquete
<1>9. vuelta' = Append(vuelta, m) /\ m.op = op /\ m.de = dueno /\ m.fmt = f
  BY <1>6, <1>7, <1>8 DEF Contesta, Paquete
<1>10. SinReq \in TipoReq
  BY TipoDeReq DEF SinReq, Numeros
<1> QED BY <1>1, <1>3, <1>4, <1>5, <1>6, <1>9, <1>10, Anexado, Contestado

\* While the request is in the receptor's hands nothing is said of its process.
LEMMA DatosEnCurso ==
  ASSUME IInv, Fijo, UNCHANGED <<existe, segsM>>, dueno # Nulo,
         ida # <<>> \/ mpc \in MpcCompacta, mpc' \in MpcCompacta,
         \A k \in 1 .. Len(vuelta') : ~ EsResp(vuelta'[k])
  PROVE  Turno' /\ Pedidos' /\ Cola' /\ Datos' /\ TypeHilo' /\ TypeProc'
<1>1. Turno' /\ Pedidos' /\ Cola' /\ TypeHilo' /\ TypeProc'
  BY DEF IInv, Fijo, Turno, Pedidos, Cola, Coincide, TypeHilo, TypeProc
<1>2. \A t \in Hilos : pc[t] = "recv" => Pendiente(t) /\ Pendiente(t)'
  BY DEF Pendiente, Fijo
<1>3. UNCHANGED <<pc, req, est, segsS>>
  BY DEF Fijo
<1>4. \A t \in Hilos : pc[t] = "espera" \/ Pendiente(t) => Antes(req[t])'
  BY <1>3 DEF IInv, Datos, Antes, Coincide
<1>5. \A t \in Hilos : pc[t] = "encola" => Coincide(req[t].pid)'
  BY <1>3 DEF IInv, Datos, Coincide
<1>6. \A p \in Procs : /\ est[p] \in Estables => Coincide(p)'
                       /\ est[p] = "no" => segsS[p] = <<>>
  BY <1>3 DEF IInv, Datos, Coincide
<1>7. \A t \in Hilos : Pendiente(t)' => pc[t] = "recv"
  BY <1>3 DEF Pendiente
<1>8. Datos'
  BY <1>2, <1>3, <1>4, <1>5, <1>6, <1>7 DEF Datos
<1> QED BY <1>1, <1>8

\* compactar_y_reasignar keeps the request and asks for the OK.
LEMMA IMemCompactar ==
  ASSUME IInv, MemCompactar
  PROVE  IInv'
<1>1. /\ mpc = "lee" /\ ida # <<>> /\ ida' = Tail(ida) /\ Head(ida).op = "SOLICITAR"
      /\ mpc' = "pide" /\ mreq' = Head(ida) /\ UNCHANGED <<existe, segsM>> /\ Fijo
      /\ vuelta' = Append(vuelta, Aviso("INICIAR"))
  BY DEF MemCompactar, Toma
<1>2. /\ Head(ida) = req[dueno] /\ dueno # Nulo /\ ida' = <<>>
      /\ \A k \in 1 .. Len(vuelta) :
           ~ EsResp(vuelta[k]) /\ ~ EsIni(vuelta[k]) /\ ~ EsFin(vuelta[k])
  BY <1>1, Tomado
<1>3. PICK m \in TipoPaquete : m = Aviso("INICIAR") /\ m.op = "INICIAR"
  BY TipoDeAviso DEF Avisos, AvisosOk
<1>4. /\ vuelta' \in Seq(TipoPaquete) /\ Len(vuelta) \in Nat /\ Len(vuelta') = Len(vuelta) + 1
      /\ vuelta'[Len(vuelta')] = m
      /\ \A k \in 1 .. Len(vuelta') :
           k # Len(vuelta') => k \in 1 .. Len(vuelta) /\ vuelta'[k] = vuelta[k]
  BY <1>1, <1>3, Anexado
<1>5. \A k \in 1 .. Len(vuelta') : /\ ~ EsResp(vuelta'[k]) /\ ~ EsFin(vuelta'[k])
                                   /\ EsIni(vuelta'[k]) => k = Len(vuelta')
  BY <1>2, <1>3, <1>4 DEF EsResp, EsIni, EsFin, Avisos, AvisosOk
<1>6. Turno' /\ Pedidos' /\ Cola' /\ Datos' /\ TypeHilo' /\ TypeProc'
  BY <1>1, <1>2, <1>5, DatosEnCurso
<1>7. TypeMem'
  BY <1>1, <1>2, <1>4, Tramitado DEF IInv, TypeMem
<1>8. Flujo'
  <2>1. UNCHANGED <<dueno, req>>
    BY <1>1 DEF Fijo
  <2> QED BY <1>1, <1>2, <1>5, <2>1 DEF Flujo, FlujoIda, FlujoResp, FlujoIni, FlujoFin, FlujoMem
<1> QED BY <1>6, <1>7, <1>8 DEF IInv

\* The packet the receptor takes for the OK is the OK: whoever sent it turned the
\* timeout off and dispatch too.
LEMMA IMemConforme ==
  ASSUME IInv, MemConforme
  PROVE  IInv'
<1>1. /\ mpc = "pide" /\ ida # <<>> /\ ida' = Tail(ida) /\ mpc' = "compacta"
      /\ UNCHANGED <<vuelta, mreq, existe, segsM>> /\ Fijo
  BY DEF MemConforme
<1>2. /\ dueno # Nulo /\ mreq = req[dueno] /\ mreq.op = "SOLICITAR"
      /\ Len(ida) = 1 /\ compactando /\ sinTimeout
      /\ \A k \in 1 .. Len(vuelta) :
           ~ EsResp(vuelta[k]) /\ ~ EsIni(vuelta[k]) /\ ~ EsFin(vuelta[k])
  BY <1>1 DEF IInv, Flujo, FlujoIda, FlujoResp, FlujoIni, FlujoFin, FlujoMem
<1>3. ida' = <<>>
  BY <1>1, <1>2 DEF IInv, TypeMem
<1>4. Turno' /\ Pedidos' /\ Cola' /\ Datos' /\ TypeHilo' /\ TypeProc'
  BY <1>1, <1>2, DatosEnCurso
<1>5. TypeMem'
  BY <1>1, <1>3 DEF IInv, TypeMem
<1>6. Flujo'
  <2>1. UNCHANGED hiloVars
    BY <1>1 DEF Fijo
  <2> QED BY <1>1, <1>2, <1>3, <2>1 DEF Flujo, FlujoIda, FlujoResp, FlujoIni, FlujoFin, FlujoMem
<1> QED BY <1>4, <1>5, <1>6 DEF IInv

\* FINALIZAR_COMPACTACION goes in front of the answer.
LEMMA IMemTermina ==
  ASSUME IInv, MemTermina
  PROVE  IInv'
<1>1. /\ mpc = "compacta" /\ vuelta' = Append(vuelta, Aviso("FINALIZAR_COMPACTACION"))
      /\ mpc' = "reasigna" /\ UNCHANGED <<ida, mreq, existe, segsM>> /\ Fijo
  BY DEF MemTermina
<1>2. /\ dueno # Nulo /\ mreq = req[dueno] /\ mreq.op = "SOLICITAR" /\ ida = <<>>
      /\ \A k \in 1 .. Len(vuelta) :
           ~ EsResp(vuelta[k]) /\ ~ EsIni(vuelta[k]) /\ ~ EsFin(vuelta[k])
  BY <1>1 DEF IInv, Flujo, FlujoIda, FlujoResp, FlujoIni, FlujoFin, FlujoMem
<1>3. PICK m \in TipoPaquete :
        m = Aviso("FINALIZAR_COMPACTACION") /\ m.op = "FINALIZAR_COMPACTACION"
  BY TipoDeAviso DEF Avisos, AvisosOk
<1>4. /\ vuelta' \in Seq(TipoPaquete) /\ Len(vuelta) \in Nat /\ Len(vuelta') = Len(vuelta) + 1
      /\ vuelta'[Len(vuelta')] = m
      /\ \A k \in 1 .. Len(vuelta') :
           k # Len(vuelta') => k \in 1 .. Len(vuelta) /\ vuelta'[k] = vuelta[k]
  BY <1>1, <1>3, Anexado
<1>5. \A k \in 1 .. Len(vuelta') : ~ EsResp(vuelta'[k]) /\ ~ EsIni(vuelta'[k])
  BY <1>2, <1>3, <1>4 DEF EsResp, EsIni, Avisos, AvisosOk
<1>6. Turno' /\ Pedidos' /\ Cola' /\ Datos' /\ TypeHilo' /\ TypeProc'
  BY <1>1, <1>2, <1>5, DatosEnCurso
<1>7. TypeMem'
  BY <1>1, <1>4 DEF IInv, TypeMem
<1>8. Flujo'
  <2>1. UNCHANGED <<dueno, req>>
    BY <1>1 DEF Fijo
  <2> QED BY <1>1, <1>2, <1>5, <2>1 DEF Flujo, FlujoIda, FlujoResp, FlujoIni, FlujoFin, FlujoMem
<1> QED BY <1>6, <1>7, <1>8 DEF IInv

-----------------------------------------------------------------------------
(* The theorems.                                                           *)

\* Every step keeps the invariant, as long as only the waits the code has may
\* run out: a compaction, or a request kernel_memory dropped.
LEMMA Paso == IInv /\ SinCorte /\ [Next]_vars => IInv'
<1> SUFFICES ASSUME IInv, SinCorte, [Next]_vars PROVE IInv'
  OBVIOUS
<1>1. ASSUME NEW t \in Hilos, NEW p \in Procs,
             \/ \E s \in Segs, op \in {"SOLICITAR", "ELIMINAR"} : Pedir(t, op, p, s)
             \/ \E op \in Ops \ {"SOLICITAR", "ELIMINAR"} : Pedir(t, op, p, Nulo)
      PROVE  IInv'
  <2>1. PICK op \in Ops, s \in Numeros : Pedir(t, op, p, s)
    BY <1>1 DEF Numeros, Ops
  <2> QED BY <2>1, IPedir
<1>2. ASSUME NEW t \in Hilos, Hilo(t) PROVE IInv'
  BY <1>2, IEnviar, IAvisoMemoria, IAvisoIniciar, IAvisoFinalizar, IAvisoBsod, IRecibir,
     IVencer, IEncolar, IBsodMarca, IBsodColas, IFinal DEF Hilo, Recepcion
<1>3. ASSUME NEW p \in Procs, Despachar(p) \/ Bloquear(p) PROVE IInv'
  BY <1>3, IMover
<1>4. CASE Memoria
  BY <1>4, IMemCrear, IMemEliminar, IMemFinalizar, IAviso, IMemAcceso, IMemSuspender,
     IMemDesSuspender, IMemSolicitar, IMemCompactar, IMemConforme, IMemTermina, IMemReasigna
     DEF Memoria
<1>5. CASE Plp
  BY <1>5, IPlpEspera, IPlpSaca, IFinal DEF Plp
<1>6. CASE NuevoStick \/ CaeStick
  BY <1>6, IAviso
<1>7. CASE UNCHANGED vars
  <2>1. TypeHilo' /\ TypeProc' /\ TypeMem'
    BY <1>7 DEF vars, IInv, TypeHilo, TypeProc, TypeMem
  <2>2. Turno' /\ Pedidos' /\ Cola' /\ Flujo' /\ Datos'
    BY <1>7, FlujoQuieto, DatosQuieto DEF vars, IInv, Turno, Pedidos, Cola, Coincide
  <2> QED BY <2>1, <2>2 DEF IInv
<1> QED BY <1>1, <1>2, <1>3, <1>4, <1>5, <1>6, <1>7 DEF Next

\* The invariant holds in every state of every run of the program.
THEOREM CanalOrdenado == SinCorte /\ Spec => []IInv
<1>1. Init => IInv
  BY Inicio
<1>2. SinCorte /\ IInv /\ [Next]_vars => IInv'
  BY Paso
<1>3. SinCorte => []SinCorte
  BY DEF SinCorte
<1> QED BY <1>1, <1>2, <1>3, PTL DEF Spec

\* An answer in the stream is for the thread that holds the channel and waits
\* for it, comes once, and has the payload that thread drains: for any number of
\* threads and of notifications, recibir_respuesta_de_memoria never takes one
\* request's answer for another's.
THEOREM RespuestaDeQuienEspera == SinCorte /\ Spec => []RespuestaPropia
<1>1. IInv => RespuestaPropia
  <2> SUFFICES ASSUME IInv, NEW k \in DOMAIN vuelta, vuelta[k].op \notin Avisos
               PROVE  /\ vuelta[k].de = dueno /\ dueno \in Hilos
                      /\ vivo /\ ~ corrupto => pc[dueno] = "recv"
                      /\ vuelta[k].fmt = Drena(req[dueno].op, vuelta[k].op)
                      /\ \A j \in DOMAIN vuelta : vuelta[j].op \notin Avisos => j = k
    BY DEF RespuestaPropia
  <2>1. DOMAIN vuelta = 1 .. Len(vuelta)
    BY DEF IInv, TypeMem
  <2>2. /\ dueno # Nulo /\ vuelta[k].de = dueno
        /\ vuelta[k].fmt = Drena(req[dueno].op, vuelta[k].op)
        /\ \A j \in DOMAIN vuelta : vuelta[j].op \notin Avisos => j = k
    BY <2>1 DEF IInv, Flujo, FlujoResp, EsResp
  <2>3. dueno \in Hilos /\ (~ corrupto => pc[dueno] = "recv")
    BY <2>2, Tramitado DEF IInv, Turno
  <2> QED BY <2>2, <2>3
<1> QED BY <1>1, CanalOrdenado, PTL

\* However long a compaction takes, the thread whose MEM_ALLOC caused it still
\* has the channel and waits, and dispatch is held back.
THEOREM CompactacionNoCorta == SinCorte /\ Spec => []CompactacionSinCorte
<1>1. IInv => CompactacionSinCorte
  <2> SUFFICES ASSUME IInv, mpc = "compacta", ~ corrupto
               PROVE  /\ dueno = mreq.de /\ pc[dueno] = "recv" /\ req[dueno] = mreq
                      /\ compactando
    BY DEF CompactacionSinCorte
  <2>1. dueno # Nulo /\ mreq = req[dueno] /\ compactando
    BY DEF IInv, Flujo, FlujoMem
  <2>2. mreq.de = dueno /\ pc[dueno] = "recv"
    BY <2>1, Tramitado DEF IInv, Turno
  <2> QED BY <2>1, <2>2
<1> QED BY <1>1, CanalOrdenado, PTL

\* A process that may get a CPU is known to kernel_memory.
THEOREM ElAdmitidoExiste == SinCorte /\ Spec => []AdmitidoExiste
<1>1. IInv => AdmitidoExiste
  BY DEF IInv, Datos, Coincide, AdmitidoExiste
<1> QED BY <1>1, CanalOrdenado, PTL

\* segmentos_info of a PCB and the segments of kernel_memory are the same list
\* whenever no request about the process is under way.
THEOREM LosSegmentosCoinciden == SinCorte /\ Spec => []SegmentosCoinciden
<1>1. IInv => SegmentosCoinciden
  BY DEF IInv, Datos, Coincide, SegmentosCoinciden
<1> QED BY <1>1, CanalOrdenado, PTL

=============================================================================
