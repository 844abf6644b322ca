--------------------------- MODULE DispatchProofs ---------------------------
(***************************************************************************)
(* Dispatch, return, eviction, memory syscalls and failed sends neither    *)
(* lose a process nor put it in two places, a CPU runs what its entry of   *)
(* the table says, and the two semaphores cover the READY queues and the   *)
(* free CPUs: for every number of CPUs, processes, levels, timers and      *)
(* threads, whatever the order of their steps.                             *)
(*                                                                         *)
(* The argument: the process in the hands of a thread is told by its       *)
(* program counter (Manos), an entry of the table is written only by the   *)
(* thread whose turn it is (Tabla), so a CPU has one process at most, the  *)
(* one of its entry (CpuSegunTabla), and each step moves one process from  *)
(* one place to another (Lugares).                                         *)
(***************************************************************************)
EXTENDS Dispatch, FiniteSetTheorems, TLAPS

-----------------------------------------------------------------------------
(* The inductive invariant.                                                *)

\* The steps of a receptor that keeps its CPU for the process of a memory syscall.
Reservada == {"memoria", "compacta", "responde", "vuelve", "devuelve", "suelta"}

\* Who has a process, and what else the program counters say.
Manos ==
  /\ pcp \in {"envia", "manda", "marca", "cronometra"} => pp \in Procs
  /\ pcp \in {"manda", "marca", "cronometra"} => pcpu \in Cpus
  /\ \A h \in Hilos :
       /\ hpc[h] \in {"recibe", "suelta"} => hp[h] = Nulo
       /\ hpc[h] \notin {"recibe", "suelta", "avisa"} => hp[h] \in Procs
       /\ hpc[h] = "avisa" /\ hp[h] # Nulo => hm[h] \in Motivos \ {"MEM"}
       /\ hpc[h] = "interrumpe" => hv[h].cpu \in Cpus /\ hv[h].pid \in Procs

\* CPU c has no process.
Vacia(c) == Enviados(c) = {} /\ listo[c] = 0 /\ ~EnCiclo(c) /\ vuelta[c] = <<>>

\* The dispatcher is about to send a process to CPU c.
Manda(c) == pcp = "manda" /\ pcpu = c

\* What an entry of the table says of the threads that may write it.
TablaDe(c) ==
  /\ cpc[c] = "apagada" => hpc[c] = "recibe" /\ ~disponible[c] /\ actual[c] = Nulo
  /\ disponible[c] => actual[c] = Nulo
  /\ hpc[c] \in Reservada => ~disponible[c] /\ Vacia(c)
  /\ hpc[c] \in Reservada \ {"devuelve"} => actual[c] = Nulo
  /\ hpc[c] = "devuelve" => actual[c] = hp[c]
  /\ Manda(c) => actual[c] = pp /\ ~disponible[c] /\ Vacia(c) /\ hpc[c] \notin Reservada
  /\ listo[c] > 0 => slot[c] \in Procs
  /\ EnCiclo(c) => cpid[c] \in Procs

Tabla == \A c \in Cpus : TablaDe(c)

\* The READY queues: each process once, in the queue of its priority.
Colas ==
  \A n \in Nivel :
    /\ \A i \in 1 .. Len(cola[n]) : Prioridad[cola[n][i]] = n
    /\ \A i, j \in 1 .. Len(cola[n]) : cola[n][i] = cola[n][j] => i = j

\* The process in the hands of thread h, and of the dispatcher.
Mano(h) == IF Tiene(h) THEN hp[h] ELSE Nulo
ManoPcp == IF pcp = "envia" THEN pp ELSE Nulo

\* The places of a process.
EnCola(p)  == \E n \in Nivel : \E i \in 1 .. Len(cola[n]) : cola[n][i] = p
EnTabla(p) == \E c \in Cpus : actual[c] = p
EnManos(p) == \E h \in Hilos : Mano(h) = p

\* One of them, and once.
Lugar(p) ==
  /\ \/ EnCola(p) \/ EnTabla(p) \/ EnManos(p) \/ ManoPcp = p
     \/ p \in fuera \/ p \in liberado
  /\ EnCola(p)  => ~(EnTabla(p) \/ EnManos(p) \/ ManoPcp = p \/ p \in fuera \/ p \in liberado)
  /\ EnTabla(p) => ~(EnManos(p) \/ ManoPcp = p \/ p \in fuera \/ p \in liberado)
  /\ EnManos(p) => ~(ManoPcp = p \/ p \in fuera \/ p \in liberado)
  /\ ManoPcp = p => ~(p \in fuera \/ p \in liberado)
  /\ p \in fuera => p \notin liberado

UnaTabla == \A c, d \in Cpus : actual[c] = actual[d] /\ actual[c] # Nulo => c = d
UnaMano == \A g, h \in Hilos : Mano(g) = Mano(h) /\ Mano(g) # Nulo => g = h

Lugares == UnaTabla /\ UnaMano /\ \A p \in Procs : Lugar(p)

IInv == TypeOK /\ Manos /\ Tabla /\ CpuSegunTabla /\ Colas /\ Lugares

-----------------------------------------------------------------------------

USE DispatchAssumption DEF colaVars, tablaVars, pcbVars, pcpVars, hiloVars, cpuVars

\* The first state: every process outside, nobody connected.
LEMMA Inicio == Init => IInv
<1> SUFFICES ASSUME Init PROVE IInv
  OBVIOUS
<1>0. /\ \A n \in Nivel : cola[n] = <<>>
      /\ \A c \in Cpus : /\ canal[c] = <<>> /\ vuelta[c] = <<>> /\ actual[c] = Nulo
                         /\ cpc[c] = "apagada" /\ listo[c] = 0 /\ hpc[c] = "recibe"
                         /\ ~disponible[c]
      /\ \A h \in Hilos : hpc[h] = "recibe" /\ hp[h] = Nulo
      /\ pcp = "espera" /\ fuera = Procs /\ liberado = {}
  BY DEF Init, Hilos
<1>1. TypeOK
  <2>1. /\ \A S : <<>> \in Seq(S)
    OBVIOUS
  <2>2. /\ cola \in [Nivel -> Seq(Procs)] /\ canal \in [Cpus -> Seq(Mensajes)]
        /\ vuelta \in [Cpus -> Seq([pid : Procs, motivo : Motivos])]
    BY <2>1 DEF Init
  <2>3. NoVictima \in [cpu : Cpus \union {Nulo}, pid : PidONulo]
    BY DEF PidONulo, NoVictima
  <2>4. TipoColas /\ TipoTabla /\ TipoPcb /\ TipoPcp
    BY <2>2 DEF Init, TipoColas, TipoTabla, TipoPcb, TipoPcp, PidONulo
  <2>5. TipoHilos /\ TipoRelojes /\ TipoCanales /\ TipoCpu
    BY <2>2, <2>3 DEF Init, TipoHilos, TipoRelojes, TipoCanales, TipoCpu, PidONulo
  <2> QED BY <2>4, <2>5 DEF TypeOK
<1>2. \A c \in Cpus : Enviados(c) = {} /\ ~EnCiclo(c)
  BY <1>0 DEF Enviados, EnCiclo
<1>3. Manos /\ Tabla /\ CpuSegunTabla
  BY <1>0, <1>2 DEF Manos, Tabla, TablaDe, Manda, CpuSegunTabla, SegunTabla, Reservada
<1>4. Colas /\ Lugares
  BY <1>0 DEF Colas, Lugares, Lugar, UnaTabla, UnaMano, EnCola, EnTabla, EnManos, Mano,
       ManoPcp, Tiene
<1> QED BY <1>1, <1>3, <1>4 DEF IInv

-----------------------------------------------------------------------------
(* Types.                                                                  *)

\* A message to a CPU that is sent and lost or queued.
LEMMA TipoEnviado ==
  ASSUME TypeOK, NEW c \in Cpus, NEW m \in Mensajes, Enviar(c, m)
  PROVE  /\ canal' \in [Cpus -> Seq(Mensajes)]
         /\ \A d \in Cpus \ {c} : canal'[d] = canal[d]
         /\ canal'[c] = canal[c] \/ (cpc[c] # "caida" /\ canal'[c] = Append(canal[c], m))
<1>1. canal \in [Cpus -> Seq(Mensajes)]
  BY DEF TypeOK, TipoCanales
<1>2. Append(canal[c], m) \in Seq(Mensajes)
  BY <1>1
<1> QED BY <1>1, <1>2 DEF Enviar

\* The messages of the scheduler have their type.
LEMMA TipoMensaje ==
  ASSUME NEW p \in Procs, NEW m \in {"QUANTUM", "DESALOJO"}
  PROVE  /\ Ejecutar(p) \in Mensajes /\ Ejecutar(p).op = "EJECUTAR" /\ Ejecutar(p).pid = p
         /\ Interrupcion(p, m) \in Mensajes /\ Interrupcion(p, m).op = "INTERRUPCION"
  BY DEF Ejecutar, Interrupcion, Mensajes

\* A new timer has its type.
LEMMA TipoTimer ==
  ASSUME TypeOK, NEW c \in Cpus, NEW p \in Procs, IniciarTimer(c, p)
  PROVE  /\ timerActivo' \in [Cpus -> BOOLEAN] /\ timerPid' \in [Cpus -> PidONulo]
         /\ TipoRelojes'
<1>1. [cpu |-> c, pid |-> p, pc |-> "duerme"]
        \in [cpu : Cpus, pid : Procs, pc : {"duerme", "envia"}]
  OBVIOUS
<1> QED BY <1>1 DEF TypeOK, TipoTabla, TipoRelojes, IniciarTimer, PidONulo

-----------------------------------------------------------------------------
(* CPUs and places that a step leaves alone.                               *)

\* An entry of the table and its CPU, when the step is not about them.
LEMMA CpuIgual ==
  ASSUME IInv, NEW c \in Cpus,
         cpc'[c] = cpc[c], hpc'[c] = hpc[c], hp'[c] = hp[c],
         disponible'[c] = disponible[c], actual'[c] = actual[c], canal'[c] = canal[c],
         listo'[c] = listo[c], slot'[c] = slot[c], cpid'[c] = cpid[c], vuelta'[c] = vuelta[c],
         Manda(c)' => Manda(c) /\ pp' = pp
  PROVE  TablaDe(c)' /\ SegunTabla(c)'
<1>1. TablaDe(c) /\ SegunTabla(c)
  BY DEF IInv, Tabla, CpuSegunTabla
<1>2. (Enviados(c)' = Enviados(c)) /\ (EnCiclo(c)' <=> EnCiclo(c))
  BY DEF Enviados, EnCiclo
<1> QED BY <1>1, <1>2 DEF TablaDe, SegunTabla, Vacia

\* No CPU and no entry is touched.
LEMMA CpusIguales ==
  ASSUME IInv, UNCHANGED <<cpc, disponible, actual, canal, listo, slot, cpid, vuelta, hpc, hp>>,
         \A c \in Cpus : Manda(c)' => Manda(c) /\ pp' = pp
  PROVE  Tabla' /\ CpuSegunTabla'
  BY CpuIgual DEF Tabla, CpuSegunTabla

\* No process changes place.
LEMMA LugaresIguales ==
  ASSUME IInv, UNCHANGED <<cola, actual, fuera, liberado>>, ManoPcp' = ManoPcp,
         \A h \in Hilos : Mano(h)' = Mano(h)
  PROVE  Colas' /\ Lugares'
<1>1. Colas'
  BY DEF IInv, Colas
<1>2. UnaTabla' /\ UnaMano'
  BY DEF IInv, Lugares, UnaTabla, UnaMano
<1>3. \A p \in Procs : Lugar(p)'
  BY DEF IInv, Lugares, Lugar, EnCola, EnTabla, EnManos
<1> QED BY <1>1, <1>2, <1>3 DEF Lugares

\* One process changes place.
LEMMA Mudanza ==
  ASSUME IInv, NEW p \in Procs, UnaTabla', UnaMano', Lugar(p)',
         \A q \in Procs \ {p} :
           /\ EnCola(q)' <=> EnCola(q)
           /\ EnTabla(q)' <=> EnTabla(q)
           /\ EnManos(q)' <=> EnManos(q)
           /\ ManoPcp' = q <=> ManoPcp = q
           /\ q \in fuera' <=> q \in fuera
           /\ q \in liberado' <=> q \in liberado
  PROVE  Lugares'
  BY DEF IInv, Lugares, Lugar

\* A queue that changes alone.
LEMMA EnColaDe ==
  ASSUME NEW n \in Nivel, \A m \in Nivel \ {n} : cola'[m] = cola[m], NEW q
  PROVE  /\ EnCola(q) <=> \/ \E i \in 1 .. Len(cola[n]) : cola[n][i] = q
                          \/ \E m \in Nivel \ {n} : \E i \in 1 .. Len(cola[m]) : cola[m][i] = q
         /\ EnCola(q)' <=> \/ \E i \in 1 .. Len(cola'[n]) : cola'[n][i] = q
                           \/ \E m \in Nivel \ {n} : \E i \in 1 .. Len(cola[m]) : cola[m][i] = q
<1>1. EnCola(q) <=> \/ \E i \in 1 .. Len(cola[n]) : cola[n][i] = q
                    \/ \E m \in Nivel \ {n} : \E i \in 1 .. Len(cola[m]) : cola[m][i] = q
  BY DEF EnCola
<1>2. EnCola(q)' <=> \/ \E i \in 1 .. Len(cola'[n]) : cola'[n][i] = q
                     \/ \E m \in Nivel \ {n} : \E i \in 1 .. Len(cola'[m]) : cola'[m][i] = q
  BY DEF EnCola
<1>3. (\E m \in Nivel \ {n} : \E i \in 1 .. Len(cola'[m]) : cola'[m][i] = q) <=>
      (\E m \in Nivel \ {n} : \E i \in 1 .. Len(cola[m]) : cola[m][i] = q)
  OBVIOUS
<1> QED BY <1>1, <1>2, <1>3

\* A process is pushed at the end or at the front of its READY queue.
LEMMA Encolado ==
  ASSUME IInv, NEW p \in Procs, ~EnCola(p), AlFinal(p) \/ AlInicio(p)
  PROVE  /\ cola' \in [Nivel -> Seq(Procs)] /\ Colas'
         /\ \A q \in Procs : EnCola(q)' <=> EnCola(q) \/ q = p
<1>0. cola \in [Nivel -> Seq(Procs)] /\ Prioridad[p] \in Nivel
  BY DEF IInv, TypeOK, TipoColas
<1>1. PICK n \in Nivel : n = Prioridad[p]
  BY <1>0
<1>2. PICK s \in Seq(Procs) : s = cola[n]
  BY <1>0
<1>3. \A i \in 1 .. Len(s) : s[i] # p /\ Prioridad[s[i]] = n
  BY <1>2 DEF EnCola, IInv, Colas
<1>4. \A i, j \in 1 .. Len(s) : s[i] = s[j] => i = j
  BY <1>2 DEF IInv, Colas
<1>5. PICK r \in Seq(Procs) : /\ r = Append(s, p) \/ r = <<p>> \o s
                              /\ cola' = [cola EXCEPT ![n] = r]
  <2>1. Append(s, p) \in Seq(Procs) /\ <<p>> \o s \in Seq(Procs)
    OBVIOUS
  <2> QED BY <1>0, <1>1, <1>2, <2>1 DEF AlFinal, AlInicio
<1>6. /\ Len(r) = Len(s) + 1 /\ Len(s) \in Nat
      /\ \/ r[Len(s) + 1] = p /\ \A i \in 1 .. Len(s) : r[i] = s[i]
         \/ r[1] = p /\ \A i \in 2 .. Len(s) + 1 : r[i] = s[i - 1]
  <2>1. CASE r = Append(s, p)
    BY <2>1
  <2>2. CASE r = <<p>> \o s
    BY <2>2
  <2> QED BY <1>5, <2>1, <2>2
<1>7. /\ \A i \in 1 .. Len(r) : Prioridad[r[i]] = n
      /\ \A i, j \in 1 .. Len(r) : r[i] = r[j] => i = j
      /\ \A q \in Procs : (\E i \in 1 .. Len(r) : r[i] = q) <=>
                          (\E i \in 1 .. Len(s) : s[i] = q) \/ q = p
  <2>1. CASE r[Len(s) + 1] = p /\ \A i \in 1 .. Len(s) : r[i] = s[i]
    BY <1>1, <1>3, <1>4, <1>6, <2>1, SMTT(30)
  <2>2. CASE r[1] = p /\ \A i \in 2 .. Len(s) + 1 : r[i] = s[i - 1]
    <3>1. \A i \in 1 .. Len(r) : i = 1 \/ (i - 1 \in 1 .. Len(s) /\ r[i] = s[i - 1])
      BY <1>6, <2>2
    <3>2. \A i \in 1 .. Len(s) : i + 1 \in 1 .. Len(r) /\ r[i + 1] = s[i]
      BY <1>6, <2>2, SMTT(30)
    <3>3. \A i \in 1 .. Len(r) : Prioridad[r[i]] = n
      BY <1>1, <1>3, <2>2, <3>1
    <3>4. ASSUME NEW i \in 1 .. Len(r), NEW j \in 1 .. Len(r), r[i] = r[j] PROVE i = j
      <4>1. CASE i = 1 \/ j = 1
        BY <4>1, <1>3, <2>2, <3>1, <3>4, SMTT(30)
      <4>2. CASE i # 1 /\ j # 1
        <5>1. i - 1 = j - 1
          BY <4>2, <1>4, <3>1, <3>4
        <5> QED BY <5>1, <1>6
      <4> QED BY <4>1, <4>2
    <3>5. \A q \in Procs : (\E i \in 1 .. Len(r) : r[i] = q) <=>
                           (\E i \in 1 .. Len(s) : s[i] = q) \/ q = p
      <4>1. 1 \in 1 .. Len(r)
        BY <1>6
      <4>2. ASSUME NEW q \in Procs, NEW i \in 1 .. Len(r), r[i] = q, q # p
            PROVE  \E j \in 1 .. Len(s) : s[j] = q
        <5>1. i - 1 \in 1 .. Len(s) /\ s[i - 1] = q
          BY <2>2, <3>1, <4>2
        <5> QED BY <5>1
      <4>3. ASSUME NEW q \in Procs, NEW i \in 1 .. Len(s), s[i] = q
            PROVE  \E j \in 1 .. Len(r) : r[j] = q
        BY <3>2, <4>3
      <4> QED BY <2>2, <4>1, <4>2, <4>3
    <3> QED BY <3>3, <3>4, <3>5
  <2> QED BY <1>6, <2>1, <2>2
<1>8. cola' \in [Nivel -> Seq(Procs)] /\ cola'[n] = r /\ \A m \in Nivel \ {n} : cola'[m] = cola[m]
  BY <1>0, <1>5
<1>9. Colas'
  <2> SUFFICES ASSUME NEW m \in Nivel
               PROVE  /\ \A i \in 1 .. Len(cola'[m]) : Prioridad[cola'[m][i]] = m
                      /\ \A i, j \in 1 .. Len(cola'[m]) : cola'[m][i] = cola'[m][j] => i = j
    BY DEF Colas
  <2>1. CASE m = n
    BY <1>7, <1>8, <2>1
  <2>2. CASE m # n
    BY <1>8, <2>2 DEF IInv, Colas
  <2> QED BY <2>1, <2>2
<1>10. \A q \in Procs : EnCola(q)' <=> EnCola(q) \/ q = p
  <2> SUFFICES ASSUME NEW q \in Procs PROVE EnCola(q)' <=> EnCola(q) \/ q = p
    OBVIOUS
  <2>1. (\E i \in 1 .. Len(cola'[n]) : cola'[n][i] = q) <=>
        (\E i \in 1 .. Len(cola[n]) : cola[n][i] = q) \/ q = p
    BY <1>2, <1>7, <1>8
  <2>2. \A m \in Nivel \ {n} : cola'[m] = cola[m]
    BY <1>8
  <2> QED BY <2>1, <2>2, EnColaDe
<1> QED BY <1>8, <1>9, <1>10

\* The first process of a READY queue leaves it.
LEMMA Desencolado ==
  ASSUME IInv, NEW n \in Nivel, cola[n] # <<>>, cola' = [cola EXCEPT ![n] = Tail(@)],
         NEW CONSTANT p, p = Head(cola[n])
  PROVE  /\ cola' \in [Nivel -> Seq(Procs)] /\ Colas' /\ p \in Procs /\ EnCola(p)
         /\ \A q \in Procs : EnCola(q)' <=> EnCola(q) /\ q # p
<1>0. cola \in [Nivel -> Seq(Procs)]
  BY DEF IInv, TypeOK, TipoColas
<1>2. PICK s \in Seq(Procs) : s = cola[n]
  BY <1>0
<1>3. PICK r \in Seq(Procs) : r = Tail(s)
  <2>1. s # <<>>
    BY <1>2
  <2>2. Tail(s) \in Seq(Procs)
    BY <2>1
  <2> QED BY <2>2
<1>4. /\ Len(s) \in Nat \ {0} /\ Len(r) = Len(s) - 1 /\ s[1] = p /\ p \in Procs
      /\ \A i \in 1 .. Len(r) : i + 1 \in 1 .. Len(s) /\ r[i] = s[i + 1]
  BY <1>2, <1>3
<1>5. \A i, j \in 1 .. Len(s) : s[i] = s[j] => i = j
  BY <1>2 DEF IInv, Colas
<1>6. \A i \in 1 .. Len(s) : Prioridad[s[i]] = n
  BY <1>2 DEF IInv, Colas
<1>7. \A q \in Procs : (\E i \in 1 .. Len(r) : r[i] = q) <=> (\E i \in 1 .. Len(s) : s[i] = q) /\ q # p
  <2>1. ASSUME NEW i \in 1 .. Len(s), s[i] # p PROVE i - 1 \in 1 .. Len(r) /\ r[i - 1] = s[i]
    <3>1. i # 1
      BY <1>4, <2>1
    <3>2. i - 1 \in 1 .. Len(r)
      BY <1>4, <3>1
    <3> QED BY <1>4, <3>2
  <2>2. ASSUME NEW i \in 1 .. Len(r) PROVE i + 1 \in 1 .. Len(s) /\ r[i] = s[i + 1] /\ r[i] # p
    <3>1. i + 1 # 1 /\ 1 \in 1 .. Len(s)
      BY <1>4
    <3> QED BY <1>4, <1>5, <3>1
  <2> QED BY <2>1, <2>2
<1>8. /\ cola' \in [Nivel -> Seq(Procs)] /\ cola'[n] = r
      /\ \A m \in Nivel \ {n} : cola'[m] = cola[m]
  BY <1>0, <1>2, <1>3
<1>9. \A m \in Nivel \ {n} : \A i \in 1 .. Len(cola[m]) : cola[m][i] # p
  <2>1. Prioridad[p] = n
    BY <1>4, <1>6
  <2> QED BY <2>1 DEF IInv, Colas
<1>10. Colas'
  <2>1. \A i \in 1 .. Len(r) : Prioridad[r[i]] = n
    BY <1>4, <1>6
  <2>2. \A i, j \in 1 .. Len(r) : r[i] = r[j] => i = j
    <3> SUFFICES ASSUME NEW i \in 1 .. Len(r), NEW j \in 1 .. Len(r), r[i] = r[j] PROVE i = j
      OBVIOUS
    <3>1. i + 1 = j + 1
      BY <1>4, <1>5, SMTT(30)
    <3> QED BY <3>1, <1>4
  <2> QED BY <1>8, <2>1, <2>2 DEF IInv, Colas
<1>11. \A q \in Procs : EnCola(q)' <=> EnCola(q) /\ q # p
  <2> SUFFICES ASSUME NEW q \in Procs PROVE EnCola(q)' <=> EnCola(q) /\ q # p
    OBVIOUS
  <2>1. (\E i \in 1 .. Len(cola'[n]) : cola'[n][i] = q) <=>
        (\E i \in 1 .. Len(cola[n]) : cola[n][i] = q) /\ q # p
    BY <1>2, <1>7, <1>8
  <2>2. \A m \in Nivel \ {n} : cola'[m] = cola[m]
    BY <1>8
  <2>3. (\E m \in Nivel \ {n} : \E i \in 1 .. Len(cola[m]) : cola[m][i] = q) => q # p
    BY <1>9
  <2> QED BY <2>1, <2>2, <2>3, EnColaDe
<1>12. EnCola(p)
  BY <1>2, <1>4 DEF EnCola
<1> QED BY <1>4, <1>8, <1>10, <1>11, <1>12

\* A thread gives up the process it had, or takes one.
LEMMA ManoCambia ==
  ASSUME IInv, NEW h \in Hilos, \A g \in Hilos \ {h} : Mano(g)' = Mano(g)
  PROVE  /\ Mano(h)' = Nulo =>
              UnaMano' /\ \A q \in Procs : EnManos(q)' <=> EnManos(q) /\ q # Mano(h)
         /\ Mano(h) = Nulo /\ ~EnManos(Mano(h)') =>
              UnaMano' /\ \A q \in Procs : EnManos(q)' <=> EnManos(q) \/ q = Mano(h)'
         /\ Mano(h)' = Mano(h) =>
              UnaMano' /\ \A q \in Procs : EnManos(q)' <=> EnManos(q)
<1>1. UnaMano
  BY DEF IInv, Lugares
<1>2. ASSUME Mano(h)' = Nulo
      PROVE  UnaMano' /\ \A q \in Procs : EnManos(q)' <=> EnManos(q) /\ q # Mano(h)
  <2>1. UnaMano'
    BY <1>1, <1>2 DEF UnaMano
  <2>2. ASSUME NEW q \in Procs PROVE EnManos(q)' <=> EnManos(q) /\ q # Mano(h)
    BY <1>1, <1>2 DEF EnManos, UnaMano
  <2> QED BY <2>1, <2>2
<1>3. ASSUME Mano(h) = Nulo, ~EnManos(Mano(h)')
      PROVE  UnaMano' /\ \A q \in Procs : EnManos(q)' <=> EnManos(q) \/ q = Mano(h)'
  BY <1>1, <1>3 DEF EnManos, UnaMano
<1>4. ASSUME Mano(h)' = Mano(h)
      PROVE  UnaMano' /\ \A q \in Procs : EnManos(q)' <=> EnManos(q)
  BY <1>1, <1>4 DEF EnManos, UnaMano
<1> QED BY <1>2, <1>3, <1>4

\* An entry of the table loses the process it had, or gets one.
LEMMA TablaCambia ==
  ASSUME IInv, NEW c \in Cpus, \A d \in Cpus \ {c} : actual'[d] = actual[d]
  PROVE  /\ actual'[c] = Nulo =>
              UnaTabla' /\ \A q \in Procs : EnTabla(q)' <=> EnTabla(q) /\ q # actual[c]
         /\ actual[c] = Nulo /\ ~EnTabla(actual'[c]) =>
              UnaTabla' /\ \A q \in Procs : EnTabla(q)' <=> EnTabla(q) \/ q = actual'[c]
<1>1. UnaTabla
  BY DEF IInv, Lugares
<1>2. ASSUME actual'[c] = Nulo
      PROVE  UnaTabla' /\ \A q \in Procs : EnTabla(q)' <=> EnTabla(q) /\ q # actual[c]
  BY <1>1, <1>2 DEF EnTabla, UnaTabla
<1>3. ASSUME actual[c] = Nulo, ~EnTabla(actual'[c])
      PROVE  UnaTabla' /\ \A q \in Procs : EnTabla(q)' <=> EnTabla(q) \/ q = actual'[c]
  BY <1>1, <1>3 DEF EnTabla, UnaTabla
<1> QED BY <1>2, <1>3

\* A CPU whose entry names no process has none.
LEMMA VaciaLibre ==
  ASSUME IInv, NEW c \in Cpus, actual[c] = Nulo
  PROVE  Vacia(c)
<1>0. TablaDe(c) /\ SegunTabla(c)
  BY DEF IInv, Tabla, CpuSegunTabla
<1>1. canal[c] \in Seq(Mensajes) /\ vuelta[c] \in Seq([pid : Procs, motivo : Motivos])
      /\ listo[c] \in 0 .. 1
  BY DEF IInv, TypeOK, TipoCanales, TipoCpu
<1>2. Enviados(c) = {}
  <2> SUFFICES ASSUME NEW i \in Enviados(c) PROVE FALSE
    OBVIOUS
  <2>1. canal[c][i] \in Mensajes /\ canal[c][i].pid = Nulo
    BY <1>0, <1>1 DEF Enviados, SegunTabla
  <2> QED BY <2>1 DEF Mensajes
<1>3. listo[c] = 0 /\ ~EnCiclo(c)
  BY <1>0, <1>1 DEF TablaDe, SegunTabla
<1>4. vuelta[c] = <<>>
  <2> SUFFICES ASSUME vuelta[c] # <<>> PROVE FALSE
    OBVIOUS
  <2>1. Len(vuelta[c]) = 1 /\ vuelta[c][1].pid = Nulo
    BY <1>0 DEF SegunTabla
  <2>2. \A S : \A s \in Seq(S) : Len(s) = 1 => s[1] \in S
    OBVIOUS
  <2>3. vuelta[c][1] \in [pid : Procs, motivo : Motivos]
    BY <1>1, <2>1, <2>2
  <2> QED BY <2>1, <2>3
<1> QED BY <1>2, <1>3, <1>4 DEF Vacia

\* An empty CPU agrees with any entry.
LEMMA SegunVacia ==
  ASSUME NEW c \in Cpus, Vacia(c)'
  PROVE  SegunTabla(c)'
  BY DEF Vacia, SegunTabla

-----------------------------------------------------------------------------
(* planificadorCortoPlazo.                                                 *)

\* The waits of the dispatcher.
LEMMA IPcpEsperas ==
  ASSUME IInv, PcpEspera \/ PcpMira \/ PcpSinCpu \/ PcpReintenta
  PROVE  IInv'
<1>0. TypeOK /\ Manos
  BY DEF IInv
<1>1. /\ UNCHANGED <<cola, tablaVars, pcbVars, pp, pcpu, hiloVars, relojes, canal, vuelta, cpuVars>>
      /\ pcp \in {"espera", "mira", "sinCpu", "falla"}
      /\ pcp' \in {"espera", "mira", "elige", "sinCpu", "falla"}
  BY DEF PcpEspera, PcpMira, PcpSinCpu, PcpReintenta
<1>2. semReady' \in Nat /\ semCpu' \in 0 .. MaxSem
  <2>1. semReady \in Nat /\ semCpu \in 0 .. MaxSem /\ MaxSem \in Nat
    BY <1>0 DEF TypeOK, TipoColas
  <2> QED BY <2>1 DEF PcpEspera, PcpMira, PcpSinCpu, PcpReintenta, WaitCpu
<1>3. TypeOK'
  <2>1. TipoColas' /\ TipoTabla' /\ TipoPcb' /\ TipoPcp'
    BY <1>0, <1>1, <1>2 DEF TypeOK, TipoColas, TipoTabla, TipoPcb, TipoPcp
  <2>2. TipoHilos' /\ TipoRelojes' /\ TipoCanales' /\ TipoCpu'
    BY <1>0, <1>1 DEF TypeOK, TipoHilos, TipoRelojes, TipoCanales, TipoCpu
  <2> QED BY <2>1, <2>2 DEF TypeOK
<1>4. Manos'
  BY <1>0, <1>1 DEF Manos
<1>5. Tabla' /\ CpuSegunTabla'
  BY <1>1, CpusIguales DEF Manda
<1>6. Colas' /\ Lugares'
  BY <1>1, LugaresIguales DEF ManoPcp, Mano, Tiene
<1> QED BY <1>3, <1>4, <1>5, <1>6 DEF IInv

\* desencolar_proceso_ready.
LEMMA IPcpElige ==
  ASSUME IInv, PcpElige
  PROVE  IInv'
<1>0. TypeOK /\ Manos
  BY DEF IInv
<1>1. /\ UNCHANGED <<semReady, semCpu, tablaVars, pcbVars, pcpu, hiloVars, relojes, canal,
                     vuelta, cpuVars>>
      /\ pcp = "elige" /\ pcp' \in {"espera", "envia"}
  BY DEF PcpElige
<1>2. TypeOK' /\ Manos' /\ Tabla' /\ CpuSegunTabla'
  <2>1. cola' \in [Nivel -> Seq(Procs)] /\ pp' \in PidONulo /\ (pcp' = "envia" => pp' \in Procs)
    <3>1. CASE pcp' = "espera" /\ UNCHANGED <<cola, pp>>
      BY <1>0, <3>1 DEF TypeOK, TipoColas, TipoPcp
    <3>2. CASE \E n \in Nivel : /\ cola[n] # <<>> /\ pp' = Head(cola[n])
                                /\ cola' = [cola EXCEPT ![n] = Tail(@)] /\ pcp' = "envia"
      BY <3>2, Desencolado DEF PidONulo
    <3> QED BY <3>1, <3>2 DEF PcpElige
  <2>2. TipoColas' /\ TipoTabla' /\ TipoPcb' /\ TipoPcp'
    BY <1>0, <1>1, <2>1 DEF TypeOK, TipoColas, TipoTabla, TipoPcb, TipoPcp
  <2>3. TipoHilos' /\ TipoRelojes' /\ TipoCanales' /\ TipoCpu'
    BY <1>0, <1>1 DEF TypeOK, TipoHilos, TipoRelojes, TipoCanales, TipoCpu
  <2>4. Manos'
    BY <1>0, <1>1, <2>1 DEF Manos
  <2>5. Tabla' /\ CpuSegunTabla'
    BY <1>1, CpusIguales DEF Manda
  <2> QED BY <2>2, <2>3, <2>4, <2>5 DEF TypeOK
<1>3. Colas' /\ Lugares'
  <2>1. CASE pcp' = "espera" /\ UNCHANGED <<cola, pp>>
    BY <1>1, <2>1, LugaresIguales DEF ManoPcp, Mano, Tiene
  <2>2. CASE \E n \in Nivel : /\ cola[n] # <<>> /\ pp' = Head(cola[n])
                              /\ cola' = [cola EXCEPT ![n] = Tail(@)] /\ pcp' = "envia"
    <3>0. PICK n \in Nivel : /\ cola[n] # <<>> /\ pp' = Head(cola[n])
                             /\ cola' = [cola EXCEPT ![n] = Tail(@)] /\ pcp' = "envia"
      BY <2>2
    <3>1. PICK p : /\ cola[n] # <<>> /\ pp' = p /\ p = Head(cola[n])
                   /\ cola' = [cola EXCEPT ![n] = Tail(@)] /\ pcp' = "envia"
      BY <3>0
    <3>2. /\ Colas' /\ p \in Procs /\ EnCola(p)
          /\ \A q \in Procs : EnCola(q)' <=> EnCola(q) /\ q # p
      BY <3>1, Desencolado
    <3>3. ManoPcp = Nulo /\ ManoPcp' = p
      BY <1>1, <3>1 DEF ManoPcp
    <3>4. /\ UnaTabla' /\ UnaMano'
          /\ \A q \in Procs : (EnTabla(q)' <=> EnTabla(q)) /\ (EnManos(q)' <=> EnManos(q))
      BY <1>1 DEF IInv, Lugares, UnaTabla, UnaMano, Mano, Tiene, EnTabla, EnManos
    <3>5. Lugar(p)
      BY <3>2 DEF IInv, Lugares
    <3>6. Lugar(p)'
      BY <1>1, <3>2, <3>3, <3>4, <3>5 DEF Lugar
    <3> QED BY <1>1, <3>2, <3>3, <3>4, <3>6, Mudanza
  <2> QED BY <2>1, <2>2 DEF PcpElige
<1> QED BY <1>2, <1>3 DEF IInv

\* enviar_proceso_a_cpu up to the unlock.
LEMMA IPcpEnvia ==
  ASSUME IInv, PcpEnvia
  PROVE  IInv'
<1>0. TypeOK /\ Manos
  BY DEF IInv
<1>1. /\ UNCHANGED <<colaVars, semCpu, conectada, timerActivo, timerPid, pcbVars, pp,
                     hiloVars, relojes, canal, vuelta, cpuVars>>
      /\ pcp = "envia" /\ pcp' = "manda" /\ pp \in Procs
  BY <1>0 DEF PcpEnvia, Manos
<1>2. PICK c \in Cpus : /\ disponible[c] /\ disponible' = [disponible EXCEPT ![c] = FALSE]
                        /\ actual' = [actual EXCEPT ![c] = pp] /\ pcpu' = c
  BY DEF PcpEnvia, Libre
<1>3. TypeOK' /\ Manos'
  <2>1. TipoColas' /\ TipoTabla' /\ TipoPcb' /\ TipoPcp'
    BY <1>0, <1>1, <1>2 DEF TypeOK, TipoColas, TipoTabla, TipoPcb, TipoPcp, PidONulo
  <2>2. TipoHilos' /\ TipoRelojes' /\ TipoCanales' /\ TipoCpu'
    BY <1>0, <1>1 DEF TypeOK, TipoHilos, TipoRelojes, TipoCanales, TipoCpu
  <2>3. Manos'
    BY <1>0, <1>1, <1>2 DEF Manos
  <2> QED BY <2>1, <2>2, <2>3 DEF TypeOK
<1>4. /\ actual[c] = Nulo /\ hpc[c] \notin Reservada /\ cpc[c] # "apagada"
      /\ actual'[c] = pp /\ ~disponible'[c]
      /\ \A d \in Cpus \ {c} : actual'[d] = actual[d] /\ disponible'[d] = disponible[d]
  BY <1>0, <1>2 DEF IInv, Tabla, TablaDe, TypeOK, TipoTabla
<1>5. Tabla' /\ CpuSegunTabla'
  <2>1. Vacia(c) /\ Vacia(c)'
    <3>1. Vacia(c)
      BY <1>4, VaciaLibre
    <3> QED BY <1>1, <3>1 DEF Vacia, Enviados, EnCiclo
  <2>2. SegunTabla(c)'
    BY <2>1, SegunVacia
  <2>3. TablaDe(c)'
    BY <1>1, <1>4, <2>1 DEF TablaDe, Vacia, Reservada
  <2>4. \A d \in Cpus \ {c} : TablaDe(d)' /\ SegunTabla(d)'
    BY <1>1, <1>2, <1>4, CpuIgual DEF Manda
  <2> QED BY <2>2, <2>3, <2>4 DEF Tabla, CpuSegunTabla
<1>6. Colas' /\ Lugares'
  <2>1. Colas' /\ \A q \in Procs : EnCola(q)' <=> EnCola(q)
    BY <1>1 DEF IInv, Colas, EnCola
  <2>2. PICK p \in Procs : p = pp
    BY <1>1
  <2>3. ManoPcp = p /\ ManoPcp' = Nulo /\ Lugar(p)
    BY <1>1, <2>2 DEF ManoPcp, IInv, Lugares
  <2>4. UnaTabla' /\ \A q \in Procs : EnTabla(q)' <=> EnTabla(q) \/ q = p
    BY <1>4, <2>2, <2>3, TablaCambia DEF Lugar
  <2>5. UnaMano' /\ \A q \in Procs : EnManos(q)' <=> EnManos(q)
    BY <1>1 DEF IInv, Lugares, UnaMano, Mano, Tiene, EnManos
  <2>6. Lugar(p)'
    BY <1>1, <2>1, <2>3, <2>4, <2>5 DEF Lugar
  <2>7. Lugares'
    BY <1>1, <2>1, <2>3, <2>4, <2>5, <2>6, Mudanza
  <2> QED BY <2>1, <2>7
<1> QED BY <1>3, <1>5, <1>6 DEF IInv

\* No CPU is left: the process goes back to the front of its queue.
LEMMA IPcpFalla ==
  ASSUME IInv, PcpFalla
  PROVE  IInv'
<1>0. TypeOK /\ Manos
  BY DEF IInv
<1>1. /\ UNCHANGED <<semCpu, tablaVars, pcbVars, pcpu, hiloVars, relojes, canal, vuelta, cpuVars>>
      /\ pcp = "envia" /\ pcp' = "falla" /\ pp' = Nulo /\ semReady' = semReady + 2 /\ AlInicio(pp)
  BY DEF PcpFalla
<1>2. PICK p \in Procs : p = pp
  BY <1>0, <1>1 DEF Manos
<1>3. ManoPcp = p /\ ManoPcp' = Nulo /\ Lugar(p)
  BY <1>1, <1>2 DEF ManoPcp, IInv, Lugares
<1>4. /\ cola' \in [Nivel -> Seq(Procs)] /\ Colas'
      /\ \A q \in Procs : EnCola(q)' <=> EnCola(q) \/ q = p
  BY <1>1, <1>2, <1>3, Encolado DEF Lugar
<1>5. TypeOK' /\ Manos'
  <2>1. semReady' \in Nat
    BY <1>0, <1>1 DEF TypeOK, TipoColas
  <2>2. TipoColas' /\ TipoTabla' /\ TipoPcb' /\ TipoPcp'
    BY <1>0, <1>1, <1>4, <2>1 DEF TypeOK, TipoColas, TipoTabla, TipoPcb, TipoPcp, PidONulo
  <2>3. TipoHilos' /\ TipoRelojes' /\ TipoCanales' /\ TipoCpu'
    BY <1>0, <1>1 DEF TypeOK, TipoHilos, TipoRelojes, TipoCanales, TipoCpu
  <2>4. Manos'
    BY <1>0, <1>1 DEF Manos
  <2> QED BY <2>2, <2>3, <2>4 DEF TypeOK
<1>6. Tabla' /\ CpuSegunTabla'
  BY <1>1, CpusIguales DEF Manda
<1>7. Lugares'
  <2>1. /\ UnaTabla' /\ UnaMano'
        /\ \A q \in Procs : (EnTabla(q)' <=> EnTabla(q)) /\ (EnManos(q)' <=> EnManos(q))
    BY <1>1 DEF IInv, Lugares, UnaTabla, UnaMano, Mano, Tiene, EnTabla, EnManos
  <2>2. Lugar(p)'
    BY <1>1, <1>3, <1>4, <2>1 DEF Lugar
  <2> QED BY <1>1, <1>3, <1>4, <2>1, <2>2, Mudanza
<1> QED BY <1>4, <1>5, <1>6, <1>7 DEF IInv

\* A CPU that has no process is sent one.
LEMMA CpuRecibe ==
  ASSUME IInv, NEW c \in Cpus, NEW p \in Procs, Vacia(c), actual[c] = p,
         Enviar(c, Ejecutar(p)), UNCHANGED <<actual, listo, cpc, slot, cpid, vuelta>>
  PROVE  SegunTabla(c)' /\ canal' \in [Cpus -> Seq(Mensajes)]
         /\ \A d \in Cpus \ {c} : canal'[d] = canal[d]
<1>1. /\ canal' \in [Cpus -> Seq(Mensajes)]
      /\ \A d \in Cpus \ {c} : canal'[d] = canal[d]
      /\ canal'[c] = canal[c] \/ canal'[c] = Append(canal[c], Ejecutar(p))
  BY TipoMensaje, TipoEnviado DEF IInv
<1>2. CASE canal'[c] = canal[c]
  <2>1. Vacia(c)'
    BY <1>2 DEF Vacia, Enviados, EnCiclo
  <2> QED BY <1>1, <2>1, SegunVacia
<1>3. CASE canal'[c] = Append(canal[c], Ejecutar(p))
  <2>1. PICK s \in Seq(Mensajes) : s = canal[c]
    BY DEF IInv, TypeOK, TipoCanales
  <2>2. PICK m \in Mensajes : m = Ejecutar(p) /\ m.op = "EJECUTAR" /\ m.pid = p
    BY TipoMensaje
  <2>3. PICK r : r = Append(s, m) /\ canal'[c] = r
    BY <1>3, <2>1, <2>2
  <2>4. /\ DOMAIN r = 1 .. Len(s) + 1 /\ Len(s) \in Nat /\ r[Len(s) + 1] = m
        /\ \A i \in 1 .. Len(s) : i \in DOMAIN s /\ r[i] = s[i]
    BY <2>3
  <2>5. \A i \in 1 .. Len(s) : s[i].op # "EJECUTAR"
    BY <2>1, <2>4 DEF Vacia, Enviados
  <2>6. Enviados(c)' = {Len(s) + 1} /\ canal'[c][Len(s) + 1].pid = p
    BY <2>2, <2>3, <2>4, <2>5 DEF Enviados
  <2> QED BY <1>1, <2>6 DEF SegunTabla, Vacia, EnCiclo
<1> QED BY <1>1, <1>2, <1>3

\* enviar_pid: the CPU the dispatcher took has no process until now.
LEMMA IPcpManda ==
  ASSUME IInv, PcpManda
  PROVE  IInv'
<1>0. TypeOK /\ Manos
  BY DEF IInv
<1>1. /\ UNCHANGED <<colaVars, semCpu, tablaVars, pcbVars, pp, pcpu, hiloVars, relojes,
                     vuelta, cpuVars>>
      /\ pcp = "manda" /\ pcp' = "marca" /\ Enviar(pcpu, Ejecutar(pp))
  BY DEF PcpManda
<1>2. PICK c \in Cpus, p \in Procs : c = pcpu /\ p = pp
  BY <1>0, <1>1 DEF Manos
<1>3. actual[c] = p /\ ~disponible[c] /\ Vacia(c) /\ hpc[c] \notin Reservada /\ cpc[c] # "apagada"
  BY <1>1, <1>2 DEF IInv, Tabla, TablaDe, Manda
<1>4. /\ SegunTabla(c)' /\ canal' \in [Cpus -> Seq(Mensajes)]
      /\ \A d \in Cpus \ {c} : canal'[d] = canal[d]
  BY <1>1, <1>2, <1>3, CpuRecibe
<1>5. TypeOK' /\ Manos'
  <2>1. TipoColas' /\ TipoTabla' /\ TipoPcb' /\ TipoPcp'
    BY <1>0, <1>1 DEF TypeOK, TipoColas, TipoTabla, TipoPcb, TipoPcp
  <2>2. TipoHilos' /\ TipoRelojes' /\ TipoCanales' /\ TipoCpu'
    BY <1>0, <1>1, <1>4 DEF TypeOK, TipoHilos, TipoRelojes, TipoCanales, TipoCpu
  <2>3. Manos'
    BY <1>0, <1>1 DEF Manos
  <2> QED BY <2>1, <2>2, <2>3 DEF TypeOK
<1>6. Tabla' /\ CpuSegunTabla'
  <2>1. TablaDe(c)'
    BY <1>1, <1>3 DEF IInv, Tabla, TablaDe, Manda, Vacia, EnCiclo, Reservada
  <2>2. \A d \in Cpus \ {c} : TablaDe(d)' /\ SegunTabla(d)'
    BY <1>1, <1>4, CpuIgual DEF Manda
  <2> QED BY <1>4, <2>1, <2>2 DEF Tabla, CpuSegunTabla
<1>7. Colas' /\ Lugares'
  BY <1>1, LugaresIguales DEF ManoPcp, Mano, Tiene
<1> QED BY <1>5, <1>6, <1>7 DEF IInv

\* The PCB is written and the timer started after the process went out.
LEMMA IPcpMarca ==
  ASSUME IInv, PcpMarca \/ PcpCronometra
  PROVE  IInv'
<1>0. TypeOK /\ Manos
  BY DEF IInv
<1>1. /\ UNCHANGED <<colaVars, semCpu, disponible, actual, conectada, liberado, fuera,
                     hiloVars, canal, vuelta, cpuVars>>
      /\ pcp \in {"marca", "cronometra"} /\ pcp' \in {"cronometra", "espera"}
      /\ \/ UNCHANGED <<pp, pcpu>>
         \/ pcp' = "espera" /\ pp' = Nulo /\ pcpu' = Nulo
  BY DEF PcpMarca, PcpCronometra
<1>2. pp \in Procs /\ pcpu \in Cpus
  BY <1>0, <1>1 DEF Manos
<1>3. TypeOK' /\ Manos'
  <2>1. timerActivo' \in [Cpus -> BOOLEAN] /\ timerPid' \in [Cpus -> PidONulo] /\ TipoRelojes'
    <3>1. CASE PcpMarca
      BY <1>0, <3>1 DEF PcpMarca, TypeOK, TipoTabla, TipoRelojes
    <3>2. CASE PcpCronometra
      BY <1>0, <1>2, <3>2, TipoTimer DEF PcpCronometra
    <3> QED BY <3>1, <3>2
  <2>2. quantum' \in [Procs -> BOOLEAN]
    <3>1. CASE PcpMarca
      <4>1. quantum' = [quantum EXCEPT ![pp] = Prioridad[pp] \in NivelesRR]
        BY <3>1 DEF PcpMarca
      <4>2. quantum \in [Procs -> BOOLEAN]
        BY <1>0 DEF TypeOK, TipoPcb
      <4>3. (Prioridad[pp] \in NivelesRR) \in BOOLEAN
        OBVIOUS
      <4> QED BY <4>1, <4>2, <4>3, Zenon
    <3>2. CASE PcpCronometra
      BY <1>0, <3>2 DEF PcpCronometra, TypeOK, TipoPcb
    <3> QED BY <3>1, <3>2
  <2>3. TipoColas' /\ TipoTabla' /\ TipoPcb' /\ TipoPcp'
    BY <1>0, <1>1, <2>1, <2>2 DEF TypeOK, TipoColas, TipoTabla, TipoPcb, TipoPcp, PidONulo
  <2>4. TipoHilos' /\ TipoCanales' /\ TipoCpu'
    BY <1>0, <1>1 DEF TypeOK, TipoHilos, TipoCanales, TipoCpu
  <2>5. Manos'
    BY <1>0, <1>1, <1>2 DEF Manos
  <2> QED BY <2>1, <2>3, <2>4, <2>5 DEF TypeOK
<1>4. Tabla' /\ CpuSegunTabla'
  BY <1>1, CpusIguales DEF Manda
<1>5. Colas' /\ Lugares'
  BY <1>1, LugaresIguales DEF ManoPcp, Mano, Tiene
<1> QED BY <1>3, <1>4, <1>5 DEF IInv

-----------------------------------------------------------------------------
(* quantum_timer_thread.                                                   *)

\* A message that is not a process changes nothing of what a CPU has.
LEMMA CpuInterrumpida ==
  ASSUME IInv, NEW c \in Cpus, NEW m \in Mensajes, m.op = "INTERRUPCION",
         canal'[c] = canal[c] \/ canal'[c] = Append(canal[c], m),
         cpc'[c] = cpc[c], disponible'[c] = disponible[c],
         actual'[c] = actual[c], listo'[c] = listo[c], slot'[c] = slot[c],
         cpid'[c] = cpid[c], vuelta'[c] = vuelta[c],
         cpc[c] = "apagada" => hpc'[c] = "recibe",
         hpc'[c] \in Reservada => hpc[c] \in Reservada \ {"devuelve"} \/ hpc'[c] = hpc[c],
         hpc'[c] = "devuelve" => hpc'[c] = hpc[c] /\ hp'[c] = hp[c],
         Manda(c)' => Manda(c) /\ pp' = pp
  PROVE  TablaDe(c)' /\ SegunTabla(c)'
<1>1. TablaDe(c) /\ SegunTabla(c)
  BY DEF IInv, Tabla, CpuSegunTabla
<1>2. /\ Enviados(c)' = Enviados(c) /\ (EnCiclo(c)' <=> EnCiclo(c))
      /\ \A i \in Enviados(c) : canal'[c][i] = canal[c][i]
  <2>1. PICK s \in Seq(Mensajes) : s = canal[c]
    BY DEF IInv, TypeOK, TipoCanales
  <2>2. CASE canal'[c] = Append(s, m)
    <3>1. PICK r : r = Append(s, m) /\ canal'[c] = r
      BY <2>2
    <3>2. /\ DOMAIN r = 1 .. Len(s) + 1 /\ DOMAIN s = 1 .. Len(s) /\ Len(s) \in Nat
          /\ r[Len(s) + 1] = m /\ \A i \in 1 .. Len(s) : r[i] = s[i]
      BY <3>1
    <3> QED BY <2>1, <3>1, <3>2 DEF Enviados, EnCiclo
  <2>3. CASE canal'[c] = canal[c]
    BY <2>3 DEF Enviados, EnCiclo
  <2> QED BY <2>1, <2>2, <2>3
<1> QED BY <1>1, <1>2 DEF TablaDe, SegunTabla, Vacia, Reservada

\* A timer ends, or sends its interrupt to a CPU that may have another process.
LEMMA IReloj ==
  ASSUME IInv, NEW k \in DOMAIN relojes, Reloj(k)
  PROVE  IInv'
<1>0. TypeOK /\ Manos
  BY DEF IInv
<1>1. /\ UNCHANGED <<colaVars, semCpu, disponible, actual, conectada, timerPid, pcbVars,
                     pcpVars, hiloVars, vuelta, cpuVars>>
      /\ relojes[k] # Nulo
  BY DEF Reloj, Vence, EnviaQuantum
<1>2. relojes \in [1 .. MaxRelojes ->
        [cpu : Cpus, pid : Procs, pc : {"duerme", "envia"}] \union {Nulo}]
  BY <1>0 DEF TypeOK, TipoRelojes
<1>3. PICK r \in [cpu : Cpus, pid : Procs, pc : {"duerme", "envia"}] :
        r = relojes[k] /\ r.cpu \in Cpus /\ r.pid \in Procs
  BY <1>1, <1>2
<1>4. TipoRelojes' /\ timerActivo' \in [Cpus -> BOOLEAN]
  <2>1. timerActivo \in [Cpus -> BOOLEAN]
    BY <1>0 DEF TypeOK, TipoTabla
  <2>2. CASE Vence(k)
    <3>1. PICK s \in [cpu : Cpus, pid : Procs, pc : {"duerme", "envia"}] \union {Nulo} :
            relojes' = [relojes EXCEPT ![k] = s]
      BY <1>2, <1>3, <2>2 DEF Vence
    <3>2. timerActivo' = timerActivo \/ timerActivo' = [timerActivo EXCEPT ![r.cpu] = FALSE]
      BY <1>3, <2>2 DEF Vence
    <3> QED BY <1>2, <1>3, <2>1, <3>1, <3>2 DEF TipoRelojes
  <2>3. CASE EnviaQuantum(k)
    BY <1>2, <2>1, <2>3 DEF EnviaQuantum, TipoRelojes
  <2> QED BY <2>2, <2>3 DEF Reloj
<1>5. PICK m \in Mensajes : m.op = "INTERRUPCION" /\ m = Interrupcion(r.pid, "QUANTUM")
  BY <1>3, TipoMensaje
<1>6. /\ canal' \in [Cpus -> Seq(Mensajes)]
      /\ \A c \in Cpus : canal'[c] = canal[c] \/ canal'[c] = Append(canal[c], m)
  <2>1. CASE Vence(k)
    BY <1>0, <2>1 DEF Vence, TypeOK, TipoCanales
  <2>2. CASE EnviaQuantum(k)
    BY <1>0, <1>3, <1>5, <2>2, TipoEnviado DEF EnviaQuantum
  <2> QED BY <2>1, <2>2 DEF Reloj
<1>7. TypeOK' /\ Manos'
  <2>1. TipoColas' /\ TipoTabla' /\ TipoPcb' /\ TipoPcp'
    BY <1>0, <1>1, <1>4 DEF TypeOK, TipoColas, TipoTabla, TipoPcb, TipoPcp
  <2>2. TipoHilos' /\ TipoCanales' /\ TipoCpu'
    BY <1>0, <1>1, <1>6 DEF TypeOK, TipoHilos, TipoCanales, TipoCpu
  <2>3. Manos'
    BY <1>0, <1>1 DEF Manos
  <2> QED BY <1>4, <2>1, <2>2, <2>3 DEF TypeOK
<1>8. Tabla' /\ CpuSegunTabla'
  <2> SUFFICES ASSUME NEW c \in Cpus PROVE TablaDe(c)' /\ SegunTabla(c)'
    BY DEF Tabla, CpuSegunTabla
  <2>1. cpc[c] = "apagada" => hpc[c] = "recibe"
    BY DEF IInv, Tabla, TablaDe
  <2> QED BY <1>1, <1>5, <1>6, <2>1, CpuInterrumpida DEF Manda
<1>9. Colas' /\ Lugares'
  BY <1>1, LugaresIguales DEF ManoPcp, Mano, Tiene
<1> QED BY <1>7, <1>8, <1>9 DEF IInv

-----------------------------------------------------------------------------
(* Receptor threads.                                                       *)

\* A step of thread h alone: the entry of its CPU, if it has one, and the others.
LEMMA HiloTabla ==
  ASSUME IInv, NEW h \in Hilos, NEW x, hpc' = [hpc EXCEPT ![h] = x],
         \A g \in Hilos \ {h} : hp'[g] = hp[g],
         UNCHANGED <<cpc, disponible, actual, canal, listo, slot, cpid, vuelta, pcp, pp, pcpu>>,
         h \in Cpus => hpc[h] # "recibe",
         x \in Reservada => hpc[h] \in Reservada \ {"devuelve"} /\ x # "devuelve"
  PROVE  /\ Tabla' /\ CpuSegunTabla' /\ ManoPcp' = ManoPcp
         /\ \A g \in Hilos \ {h} : Mano(g)' = Mano(g)
<1>0. hpc \in [Hilos -> {"recibe", "avisa", "fin", "bloquea", "encola", "frente", "verifica",
                         "interrumpe", "memoria", "compacta", "responde", "vuelve", "devuelve",
                         "mide", "suelta"}]
  BY DEF IInv, TypeOK, TipoHilos
<1>1. hpc'[h] = x /\ \A g \in Hilos \ {h} : hpc'[g] = hpc[g]
  BY <1>0
<1>2. ASSUME NEW c \in Cpus PROVE TablaDe(c)' /\ SegunTabla(c)'
  <2>1. CASE c # h
    <3>1. c \in Hilos \ {h}
      BY <2>1 DEF Hilos
    <3> QED BY <1>1, <3>1, CpuIgual DEF Manda
  <2>2. CASE c = h
    <3>1. TablaDe(c) /\ SegunTabla(c)
      BY DEF IInv, Tabla, CpuSegunTabla
    <3>2. Enviados(c)' = Enviados(c) /\ (EnCiclo(c)' <=> EnCiclo(c))
      BY DEF Enviados, EnCiclo
    <3>3. hpc[c] # "recibe" /\ hpc'[c] = x
      BY <1>1, <2>2
    <3>4. TablaDe(c)'
      BY <2>2, <3>1, <3>2, <3>3 DEF TablaDe, Vacia, Manda, Reservada
    <3>5. SegunTabla(c)'
      BY <3>1, <3>2 DEF SegunTabla
    <3> QED BY <3>4, <3>5
  <2> QED BY <2>1, <2>2
<1>3. ManoPcp' = ManoPcp /\ \A g \in Hilos \ {h} : Mano(g)' = Mano(g)
  BY <1>1 DEF ManoPcp, Mano, Tiene
<1> QED BY <1>2, <1>3 DEF Tabla, CpuSegunTabla

\* scheduler_handshake_handler.
LEMMA IConecta ==
  ASSUME IInv, NEW c \in Cpus, Conecta(c)
  PROVE  IInv'
<1>0. TypeOK /\ Manos /\ TablaDe(c) /\ c \in Hilos
  BY DEF IInv, Tabla, Hilos
<1>1. /\ cpc[c] = "apagada" /\ cpc' = [cpc EXCEPT ![c] = "ocioso"]
      /\ conectada' = [conectada EXCEPT ![c] = TRUE]
      /\ disponible' = [disponible EXCEPT ![c] = TRUE]
      /\ hpc' = [hpc EXCEPT ![c] = "avisa"]
      /\ UNCHANGED <<colaVars, semCpu, actual, timerActivo, timerPid, pcbVars, pcpVars,
                     hp, hm, hv, relojes, canal, vuelta, cpid, slot, listo, enEjec,
                     pend, motivo>>
  BY DEF Conecta
<1>2. hpc[c] = "recibe" /\ hp[c] = Nulo /\ actual[c] = Nulo /\ ~Manda(c)
  BY <1>0, <1>1 DEF TablaDe, Manos, Manda
<1>3. TypeOK'
  <2>1. TipoColas' /\ TipoTabla' /\ TipoPcb' /\ TipoPcp'
    BY <1>0, <1>1 DEF TypeOK, TipoColas, TipoTabla, TipoPcb, TipoPcp
  <2>2. TipoHilos' /\ TipoRelojes' /\ TipoCanales' /\ TipoCpu'
    BY <1>0, <1>1 DEF TypeOK, TipoHilos, TipoRelojes, TipoCanales, TipoCpu
  <2> QED BY <2>1, <2>2 DEF TypeOK
<1>4. hpc'[c] = "avisa" /\ cpc'[c] = "ocioso" /\ \A g \in Hilos \ {c} : hpc'[g] = hpc[g]
  BY <1>0, <1>1 DEF TypeOK, TipoHilos, TipoCpu
<1>5. Manos'
  BY <1>0, <1>1, <1>2, <1>4 DEF Manos
<1>6. Tabla' /\ CpuSegunTabla'
  <2>1. Vacia(c)
    BY <1>2, VaciaLibre
  <2>2. Vacia(c)' /\ SegunTabla(c)'
    BY <1>1, <1>4, <2>1, SegunVacia DEF Vacia, Enviados, EnCiclo
  <2>3. TablaDe(c)'
    BY <1>1, <1>2, <1>4, <2>2 DEF TablaDe, Manda, Reservada, Vacia
  <2>4. ASSUME NEW d \in Cpus \ {c} PROVE TablaDe(d)' /\ SegunTabla(d)'
    <3>1. cpc'[d] = cpc[d] /\ hpc'[d] = hpc[d] /\ disponible'[d] = disponible[d]
      BY <1>0, <1>1, <1>4 DEF TypeOK, TipoCpu, TipoTabla, Hilos
    <3> QED BY <1>1, <3>1, CpuIgual DEF Manda
  <2> QED BY <2>2, <2>3, <2>4 DEF Tabla, CpuSegunTabla
<1>7. Colas' /\ Lugares'
  BY <1>1, <1>2, <1>4, LugaresIguales DEF ManoPcp, Mano, Tiene
<1> QED BY <1>3, <1>5, <1>6, <1>7 DEF IInv

\* A return is read: it is for the process of the entry, and the CPU has no other.
LEMMA Devuelto ==
  ASSUME IInv, NEW c \in Cpus, vuelta[c] # <<>>, vuelta' = [vuelta EXCEPT ![c] = Tail(@)]
  PROVE  /\ actual[c] \in Procs /\ Enviados(c) = {} /\ listo[c] = 0 /\ ~EnCiclo(c)
         /\ ~disponible[c] /\ hpc[c] \notin Reservada /\ ~Manda(c) /\ cpc[c] # "apagada"
         /\ vuelta' \in [Cpus -> Seq([pid : Procs, motivo : Motivos])] /\ vuelta'[c] = <<>>
         /\ \A d \in Cpus \ {c} : vuelta'[d] = vuelta[d]
         /\ Head(vuelta[c]).motivo \in Motivos
<1>0. TablaDe(c) /\ SegunTabla(c)
  BY DEF IInv, Tabla, CpuSegunTabla
<1>1. vuelta \in [Cpus -> Seq([pid : Procs, motivo : Motivos])] /\ listo[c] \in 0 .. 1
  BY DEF IInv, TypeOK, TipoCanales, TipoCpu
<1>2. PICK S : S = [pid : Procs, motivo : Motivos]
  OBVIOUS
<1>3. PICK s \in Seq(S) : s = vuelta[c]
  BY <1>1, <1>2
<1>4. Len(s) = 1 /\ s[1].pid = actual[c] /\ s # <<>>
  BY <1>0, <1>3 DEF SegunTabla
<1>5. Tail(s) = <<>> /\ Tail(s) \in Seq(S) /\ Head(s) \in S /\ Head(s) = s[1]
  <2>1. Head(s) \in S /\ Head(s) = s[1]
    BY <1>4
  <2>2. Tail(s) \in Seq(S) /\ Len(Tail(s)) = 0
    BY <1>4
  <2>3. \A u \in Seq(S) : Len(u) = 0 => u = <<>>
    OBVIOUS
  <2> QED BY <2>1, <2>2, <2>3
<1>6. Enviados(c) = {} /\ listo[c] = 0 /\ ~EnCiclo(c)
  BY <1>0, <1>1 DEF SegunTabla
<1>7. actual[c] \in Procs /\ Head(vuelta[c]).motivo \in Motivos
  BY <1>2, <1>3, <1>4, <1>5
<1>8. ~disponible[c] /\ hpc[c] \notin Reservada /\ ~Manda(c) /\ cpc[c] # "apagada"
  BY <1>0, <1>7 DEF TablaDe, Vacia
<1>9. /\ vuelta' \in [Cpus -> Seq([pid : Procs, motivo : Motivos])] /\ vuelta'[c] = <<>>
      /\ \A d \in Cpus \ {c} : vuelta'[d] = vuelta[d]
  BY <1>1, <1>2, <1>3, <1>5
<1> QED BY <1>6, <1>7, <1>8, <1>9

\* retirar_proceso_de_cpu, and the variant that keeps the CPU.
LEMMA IRetira ==
  ASSUME IInv, NEW c \in Cpus, Retira(c) \/ Reserva(c)
  PROVE  IInv'
<1>0. TypeOK /\ Manos /\ c \in Hilos
  BY DEF IInv, Hilos
<1>1. /\ hpc[c] = "recibe" /\ vuelta[c] # <<>> /\ hp' = [hp EXCEPT ![c] = actual[c]]
      /\ vuelta' = [vuelta EXCEPT ![c] = Tail(@)]
      /\ actual' = [actual EXCEPT ![c] = Nulo]
      /\ timerActivo' = [timerActivo EXCEPT ![c] = FALSE]
      /\ UNCHANGED <<colaVars, semCpu, conectada, timerPid, pcbVars, pcpVars, hv, relojes,
                     canal, cpuVars>>
  BY DEF Retira, Reserva
<1>2. /\ actual[c] \in Procs /\ Enviados(c) = {} /\ listo[c] = 0 /\ ~EnCiclo(c)
      /\ ~disponible[c] /\ hpc[c] \notin Reservada /\ ~Manda(c) /\ cpc[c] # "apagada"
      /\ vuelta' \in [Cpus -> Seq([pid : Procs, motivo : Motivos])] /\ vuelta'[c] = <<>>
      /\ \A d \in Cpus \ {c} : vuelta'[d] = vuelta[d]
      /\ Head(vuelta[c]).motivo \in Motivos
  BY <1>1, Devuelto
<1>3. PICK p \in Procs : p = actual[c]
  BY <1>2
<1>4. PICK m \in Motivos :
        /\ hm' = [hm EXCEPT ![c] = m]
        /\ \/ /\ hpc' = [hpc EXCEPT ![c] = "avisa"] /\ m # "MEM"
              /\ disponible' = [disponible EXCEPT ![c] = TRUE]
           \/ hpc' = [hpc EXCEPT ![c] = "memoria"] /\ disponible' = disponible
  <2>1. CASE Retira(c)
    BY <1>2, <2>1 DEF Retira
  <2>2. CASE Reserva(c)
    BY <1>2, <1>3, <2>2 DEF Reserva, Motivos
  <2> QED BY <2>1, <2>2
<1>5. /\ hp'[c] = p /\ hm'[c] = m /\ actual'[c] = Nulo
      /\ (hpc'[c] = "avisa" /\ m # "MEM") \/ (hpc'[c] = "memoria" /\ ~disponible'[c])
      /\ \A g \in Hilos \ {c} : hpc'[g] = hpc[g] /\ hp'[g] = hp[g] /\ hm'[g] = hm[g]
      /\ \A d \in Cpus \ {c} : actual'[d] = actual[d] /\ disponible'[d] = disponible[d]
  <2>1. /\ hp'[c] = p /\ hm'[c] = m
        /\ \A g \in Hilos \ {c} : hpc'[g] = hpc[g] /\ hp'[g] = hp[g] /\ hm'[g] = hm[g]
    BY <1>0, <1>1, <1>3, <1>4 DEF TypeOK, TipoHilos
  <2>2. /\ actual'[c] = Nulo
        /\ \A d \in Cpus \ {c} : actual'[d] = actual[d] /\ disponible'[d] = disponible[d]
    BY <1>0, <1>1, <1>4 DEF TypeOK, TipoTabla
  <2>3. (hpc'[c] = "avisa" /\ m # "MEM") \/ (hpc'[c] = "memoria" /\ ~disponible'[c])
    <3>1. DOMAIN hpc = Hilos
      BY <1>0 DEF TypeOK, TipoHilos
    <3>2. CASE hpc' = [hpc EXCEPT ![c] = "avisa"] /\ m # "MEM"
      BY <1>0, <3>1, <3>2
    <3>3. CASE hpc' = [hpc EXCEPT ![c] = "memoria"] /\ disponible' = disponible
      BY <1>0, <1>2, <3>1, <3>3
    <3> QED BY <1>4, <3>2, <3>3
  <2> QED BY <2>1, <2>2, <2>3
<1>6. TypeOK'
  <2>1. TipoColas' /\ TipoTabla' /\ TipoPcb' /\ TipoPcp'
    BY <1>0, <1>1, <1>4 DEF TypeOK, TipoColas, TipoTabla, TipoPcb, TipoPcp, PidONulo
  <2>2. TipoHilos'
    BY <1>0, <1>1, <1>3, <1>4 DEF TypeOK, TipoHilos, PidONulo
  <2>3. TipoRelojes' /\ TipoCanales' /\ TipoCpu'
    BY <1>0, <1>1, <1>2 DEF TypeOK, TipoRelojes, TipoCanales, TipoCpu
  <2> QED BY <2>1, <2>2, <2>3 DEF TypeOK
<1>7. Manos'
  BY <1>0, <1>1, <1>5 DEF Manos
<1>8. Tabla' /\ CpuSegunTabla'
  <2>1. Vacia(c)' /\ SegunTabla(c)'
    BY <1>1, <1>2, SegunVacia DEF Vacia, Enviados, EnCiclo
  <2>2. TablaDe(c)'
    BY <1>1, <1>2, <1>4, <1>5, <2>1 DEF TablaDe, Manda, Reservada, Vacia
  <2>3. ASSUME NEW d \in Cpus \ {c} PROVE TablaDe(d)' /\ SegunTabla(d)'
    <3>1. hpc'[d] = hpc[d] /\ hp'[d] = hp[d]
      BY <1>5 DEF Hilos
    <3> QED BY <1>1, <1>2, <1>5, <3>1, CpuIgual DEF Manda
  <2> QED BY <2>1, <2>2, <2>3 DEF Tabla, CpuSegunTabla
<1>9. Colas' /\ Lugares'
  <2>1. Colas' /\ \A q \in Procs : EnCola(q)' <=> EnCola(q)
    BY <1>1 DEF IInv, Colas, EnCola
  <2>2. EnTabla(p) /\ Lugar(p)
    BY <1>3 DEF EnTabla, IInv, Lugares
  <2>3. UnaTabla' /\ \A q \in Procs : EnTabla(q)' <=> EnTabla(q) /\ q # p
    BY <1>3, <1>5, TablaCambia
  <2>4. Mano(c) = Nulo /\ Mano(c)' = p /\ \A g \in Hilos \ {c} : Mano(g)' = Mano(g)
    BY <1>1, <1>4, <1>5 DEF Mano, Tiene
  <2>5. UnaMano' /\ \A q \in Procs : EnManos(q)' <=> EnManos(q) \/ q = p
    BY <1>0, <2>2, <2>4, ManoCambia DEF Lugar
  <2>6. ManoPcp' = ManoPcp
    BY <1>1 DEF ManoPcp
  <2>7. Lugar(p)'
    BY <1>1, <2>1, <2>2, <2>3, <2>5, <2>6 DEF Lugar
  <2>8. Lugares'
    BY <1>1, <2>1, <2>3, <2>5, <2>6, <2>7, Mudanza
  <2> QED BY <2>1, <2>8
<1> QED BY <1>6, <1>7, <1>8, <1>9 DEF IInv


\* A thread goes on and no process changes place.
LEMMA HiloSigue ==
  ASSUME IInv, NEW h \in Hilos, NEW x, hpc' = [hpc EXCEPT ![h] = x],
         \A g \in Hilos \ {h} : hp'[g] = hp[g],
         UNCHANGED <<cola, disponible, actual, conectada, pcbVars, pcpVars, canal, vuelta, cpuVars>>,
         h \in Cpus => hpc[h] # "recibe",
         x \in Reservada => hpc[h] \in Reservada \ {"devuelve"} /\ x # "devuelve",
         TipoColas', TipoTabla', TipoHilos', TipoRelojes', Manos', Mano(h)' = Mano(h)
  PROVE  IInv'
<1>1. TypeOK'
  BY DEF IInv, TypeOK, TipoPcb, TipoPcp, TipoCanales, TipoCpu
<1>2. /\ Tabla' /\ CpuSegunTabla' /\ ManoPcp' = ManoPcp
      /\ \A g \in Hilos : Mano(g)' = Mano(g)
  BY HiloTabla
<1>3. Colas' /\ Lugares'
  BY <1>2, LugaresIguales
<1> QED BY <1>1, <1>2, <1>3 DEF IInv

\* sem_post(sem_cpu_disponible), and what the receptor does next.
LEMMA IAvisa ==
  ASSUME IInv, NEW c \in Cpus, Avisa(c)
  PROVE  IInv'
<1>0. TypeOK /\ Manos /\ c \in Hilos
  BY DEF IInv, Hilos
<1>1. /\ hpc[c] = "avisa" /\ PostCpu
      /\ UNCHANGED <<colaVars, tablaVars, pcbVars, pcpVars, hp, hm, hv, relojes, canal,
                     vuelta, cpuVars>>
  BY DEF Avisa
<1>2. PICK x \in {"recibe", "fin", "bloquea", "encola", "frente"} :
        /\ hpc' = [hpc EXCEPT ![c] = x]
        /\ x = "recibe" <=> hp[c] = Nulo
  <2>1. CASE hp[c] = Nulo
    BY <2>1 DEF Avisa
  <2>2. CASE hp[c] # Nulo
    <3>1. hm[c] \in Motivos \ {"MEM"}
      BY <1>0, <1>1, <2>2 DEF Manos
    <3>2. Sigue(hm[c]) \in {"fin", "bloquea", "encola", "frente"}
      BY <3>1 DEF Sigue, Motivos
    <3> QED BY <2>2, <3>2 DEF Avisa
  <2> QED BY <2>1, <2>2
<1>3. hpc'[c] = x /\ \A g \in Hilos \ {c} : hpc'[g] = hpc[g]
  BY <1>0, <1>2 DEF TypeOK, TipoHilos
<1>4. TipoColas' /\ TipoTabla' /\ TipoHilos' /\ TipoRelojes'
  <2>1. TipoColas'
    BY <1>0, <1>1 DEF TypeOK, TipoColas, PostCpu
  <2> QED BY <1>0, <1>1, <1>2, <2>1 DEF TypeOK, TipoTabla, TipoHilos, TipoRelojes
<1>5. hp[c] \in PidONulo
  BY <1>0 DEF TypeOK, TipoHilos
<1>6. Manos'
  BY <1>0, <1>1, <1>2, <1>3, <1>5 DEF Manos, PidONulo
<1>7. Mano(c)' = Mano(c)
  BY <1>1, <1>2, <1>3 DEF Mano, Tiene
<1> QED BY <1>0, <1>1, <1>2, <1>4, <1>6, <1>7, HiloSigue DEF Reservada

\* The steps of a memory syscall that only wait for kernel_memory.
LEMMA IMemoria ==
  ASSUME IInv, NEW c \in Cpus, CompactaFin(c) \/ MemBien(c)
  PROVE  IInv'
<1>0. TypeOK /\ Manos /\ c \in Hilos
  BY DEF IInv, Hilos
<1>1. /\ hpc[c] \in {"compacta", "memoria", "responde"}
      /\ UNCHANGED <<cola, semCpu, tablaVars, pcbVars, pcpVars, hp, hm, hv, relojes, canal,
                     vuelta, cpuVars>>
      /\ semReady' \in {semReady, semReady + 1}
  BY DEF CompactaFin, MemBien, EnPedido
<1>2. PICK x \in {"responde", "vuelve"} : hpc' = [hpc EXCEPT ![c] = x]
  BY DEF CompactaFin, MemBien
<1>3. hpc'[c] = x /\ \A g \in Hilos \ {c} : hpc'[g] = hpc[g]
  BY <1>0, <1>2 DEF TypeOK, TipoHilos
<1>4. TipoColas' /\ TipoTabla' /\ TipoHilos' /\ TipoRelojes'
  <2>1. TipoColas'
    BY <1>0, <1>1 DEF TypeOK, TipoColas
  <2> QED BY <1>0, <1>1, <1>2, <2>1 DEF TypeOK, TipoTabla, TipoHilos, TipoRelojes
<1>5. hp[c] \in Procs
  BY <1>0, <1>1 DEF Manos
<1>6. Manos'
  BY <1>0, <1>1, <1>2, <1>3, <1>5 DEF Manos
<1>7. Mano(c)' = Mano(c)
  BY <1>1, <1>2, <1>3 DEF Mano, Tiene
<1> QED BY <1>0, <1>1, <1>2, <1>4, <1>6, <1>7, HiloSigue DEF Reservada

\* quantum_restante > 0 starts a timer; the thread is done with the process.
LEMMA IMide ==
  ASSUME IInv, NEW c \in Cpus, Mide(c)
  PROVE  IInv'
<1>0. TypeOK /\ Manos /\ c \in Hilos
  BY DEF IInv, Hilos
<1>1. /\ hpc[c] = "mide" /\ Termina(c) /\ hp[c] \in Procs
      /\ UNCHANGED <<colaVars, semCpu, disponible, actual, conectada, pcbVars, pcpVars, hv,
                     canal, vuelta, cpuVars>>
  BY <1>0 DEF Mide, Manos
<1>2. /\ hpc' = [hpc EXCEPT ![c] = "recibe"] /\ hp' = [hp EXCEPT ![c] = Nulo]
      /\ hm' = [hm EXCEPT ![c] = Nulo]
  BY <1>1 DEF Termina
<1>3. /\ hpc'[c] = "recibe" /\ hp'[c] = Nulo
      /\ \A g \in Hilos \ {c} : hpc'[g] = hpc[g] /\ hp'[g] = hp[g] /\ hm'[g] = hm[g]
  BY <1>0, <1>2 DEF TypeOK, TipoHilos
<1>4. TipoRelojes' /\ timerActivo' \in [Cpus -> BOOLEAN] /\ timerPid' \in [Cpus -> PidONulo]
  <2>1. CASE quantum[hp[c]]
    BY <1>0, <1>1, <2>1, TipoTimer DEF Mide
  <2>2. CASE ~quantum[hp[c]]
    BY <1>0, <2>2 DEF Mide, TypeOK, TipoTabla, TipoRelojes
  <2> QED BY <2>1, <2>2
<1>5. TipoColas' /\ TipoTabla' /\ TipoHilos' /\ TipoRelojes'
  BY <1>0, <1>1, <1>2, <1>4 DEF TypeOK, TipoColas, TipoTabla, TipoHilos, PidONulo
<1>6. Manos'
  BY <1>0, <1>1, <1>3 DEF Manos
<1>7. Mano(c)' = Mano(c)
  BY <1>1, <1>3 DEF Mano, Tiene
<1> QED BY <1>0, <1>1, <1>2, <1>3, <1>5, <1>6, <1>7, HiloSigue DEF Reservada


\* A thread hands over the process it has: freed, outside, or to its READY queue.
LEMMA HiloEntrega ==
  ASSUME IInv, NEW h \in Hilos, NEW x, hpc' = [hpc EXCEPT ![h] = x],
         \A g \in Hilos \ {h} : hp'[g] = hp[g],
         UNCHANGED <<semCpu, tablaVars, quantum, pcpVars, relojes, canal, vuelta, cpuVars>>,
         h \in Cpus => hpc[h] # "recibe",
         x \in Reservada => hpc[h] \in Reservada \ {"devuelve"} /\ x # "devuelve",
         semReady' \in Nat, TipoHilos', Manos',
         NEW p \in Procs, Mano(h) = p, Mano(h)' = Nulo,
         \/ cola' = cola /\ fuera' = fuera /\ liberado' = liberado \union {p}
         \/ cola' = cola /\ fuera' = fuera \union {p} /\ liberado' = liberado
         \/ (AlFinal(p) \/ AlInicio(p)) /\ fuera' = fuera /\ liberado' = liberado
  PROVE  IInv'
<1>0. TypeOK
  BY DEF IInv
<1>1. /\ Tabla' /\ CpuSegunTabla' /\ ManoPcp' = ManoPcp
      /\ \A g \in Hilos \ {h} : Mano(g)' = Mano(g)
  BY HiloTabla
<1>2. Lugar(p) /\ EnManos(p)
  BY DEF IInv, Lugares, EnManos
<1>3. UnaMano' /\ \A q \in Procs : EnManos(q)' <=> EnManos(q) /\ q # p
  BY <1>1, ManoCambia
<1>4. UnaTabla' /\ \A q \in Procs : EnTabla(q)' <=> EnTabla(q)
  BY DEF IInv, Lugares, UnaTabla, EnTabla
<1>5. /\ cola' \in [Nivel -> Seq(Procs)] /\ Colas'
      /\ fuera' \subseteq Procs /\ liberado' \subseteq Procs
      /\ \A q \in Procs \ {p} : /\ EnCola(q)' <=> EnCola(q)
                                /\ q \in fuera' <=> q \in fuera
                                /\ q \in liberado' <=> q \in liberado
      /\ \/ EnCola(p)' /\ p \notin fuera' /\ p \notin liberado'
         \/ ~EnCola(p)' /\ p \in fuera' /\ p \notin liberado'
         \/ ~EnCola(p)' /\ p \notin fuera' /\ p \in liberado'
  <2>0. fuera \subseteq Procs /\ liberado \subseteq Procs /\ cola \in [Nivel -> Seq(Procs)]
    BY <1>0 DEF TypeOK, TipoColas, TipoPcb
  <2>1. ~EnCola(p) /\ p \notin fuera /\ p \notin liberado
    BY <1>2 DEF Lugar
  <2>2. CASE cola' = cola
    <3>1. Colas' /\ \A q \in Procs : EnCola(q)' <=> EnCola(q)
      BY <2>2 DEF IInv, Colas, EnCola
    <3>2. CASE fuera' = fuera /\ liberado' = liberado \union {p}
      BY <2>0, <2>1, <2>2, <3>1, <3>2
    <3>3. CASE fuera' = fuera \union {p} /\ liberado' = liberado
      BY <2>0, <2>1, <2>2, <3>1, <3>3
    <3>4. CASE (AlFinal(p) \/ AlInicio(p)) /\ fuera' = fuera /\ liberado' = liberado
      BY <2>0, <2>1, <3>4, Encolado
    <3> QED BY <3>2, <3>3, <3>4
  <2>3. CASE (AlFinal(p) \/ AlInicio(p)) /\ fuera' = fuera /\ liberado' = liberado
    BY <2>0, <2>1, <2>3, Encolado
  <2> QED BY <2>2, <2>3
<1>6. TypeOK'
  BY <1>0, <1>5 DEF TypeOK, TipoColas, TipoTabla, TipoPcb, TipoPcp, TipoRelojes, TipoCanales,
       TipoCpu
<1>7. Lugar(p)'
  BY <1>1, <1>2, <1>3, <1>4, <1>5 DEF Lugar
<1>8. Lugares'
  BY <1>1, <1>3, <1>4, <1>5, <1>7, Mudanza
<1> QED BY <1>1, <1>5, <1>6, <1>8 DEF IInv

\* The end of a process, a syscall that blocks it, an eviction.
LEMMA IEntrega ==
  ASSUME IInv, NEW c \in Cpus, Fin(c) \/ Bloquea(c) \/ Frente(c)
  PROVE  IInv'
<1>0. TypeOK /\ Manos /\ c \in Hilos
  BY DEF IInv, Hilos
<1>1. /\ hpc[c] \in {"fin", "bloquea", "frente"}
      /\ hpc' = [hpc EXCEPT ![c] = "recibe"] /\ hp' = [hp EXCEPT ![c] = Nulo]
      /\ hm' = [hm EXCEPT ![c] = Nulo]
      /\ UNCHANGED <<semCpu, tablaVars, quantum, pcpVars, hv, relojes, canal, vuelta, cpuVars>>
      /\ semReady' \in {semReady, semReady + 1}
  BY DEF Fin, Bloquea, Frente, Termina
<1>2. PICK p \in Procs : p = hp[c]
  BY <1>0, <1>1 DEF Manos
<1>3. \/ cola' = cola /\ fuera' = fuera /\ liberado' = liberado \union {p}
      \/ cola' = cola /\ fuera' = fuera \union {p} /\ liberado' = liberado
      \/ AlInicio(p) /\ fuera' = fuera /\ liberado' = liberado
  BY <1>2 DEF Fin, Bloquea, Frente
<1>4. /\ hpc'[c] = "recibe" /\ hp'[c] = Nulo
      /\ \A g \in Hilos \ {c} : hpc'[g] = hpc[g] /\ hp'[g] = hp[g] /\ hm'[g] = hm[g]
  BY <1>0, <1>1 DEF TypeOK, TipoHilos
<1>5. TipoHilos' /\ semReady' \in Nat
  BY <1>0, <1>1 DEF TypeOK, TipoHilos, TipoColas, PidONulo
<1>6. Manos'
  BY <1>0, <1>1, <1>4 DEF Manos
<1>7. Mano(c) = p /\ Mano(c)' = Nulo
  BY <1>1, <1>2, <1>4 DEF Mano, Tiene
<1> QED BY <1>0, <1>1, <1>3, <1>4, <1>5, <1>6, <1>7, HiloEntrega DEF Reservada

\* encolar_en_ready_y_notificar: with QUEUE_PREEMPTION the thread still names the
\* process, which is no longer its own.
LEMMA IEncola ==
  ASSUME IInv, NEW h \in Hilos, Encola(h)
  PROVE  IInv'
<1>0. TypeOK /\ Manos
  BY DEF IInv
<1>1. /\ hpc[h] = "encola" /\ AlFinal(hp[h]) /\ semReady' = semReady + 1
      /\ UNCHANGED <<semCpu, tablaVars, pcbVars, pcpVars, hv, relojes, canal, vuelta, cpuVars>>
  BY DEF Encola
<1>2. PICK p \in Procs : p = hp[h]
  BY <1>0, <1>1 DEF Manos
<1>3. PICK x \in {"recibe", "verifica"} :
        /\ hpc' = [hpc EXCEPT ![h] = x]
        /\ \/ x = "verifica" /\ hp' = hp /\ hm' = hm
           \/ x = "recibe" /\ hp' = [hp EXCEPT ![h] = Nulo] /\ hm' = [hm EXCEPT ![h] = Nulo]
  BY DEF Encola, Termina
<1>4. /\ hpc'[h] = x /\ (x = "recibe" => hp'[h] = Nulo) /\ (x = "verifica" => hp'[h] = p)
      /\ \A g \in Hilos \ {h} : hpc'[g] = hpc[g] /\ hp'[g] = hp[g] /\ hm'[g] = hm[g]
  BY <1>0, <1>2, <1>3 DEF TypeOK, TipoHilos
<1>5. TipoHilos' /\ semReady' \in Nat
  <2>1. semReady' \in Nat
    BY <1>0, <1>1 DEF TypeOK, TipoColas
  <2>2. CASE x = "verifica" /\ hp' = hp /\ hm' = hm
    BY <1>0, <1>1, <1>3, <2>1, <2>2 DEF TypeOK, TipoHilos
  <2>3. CASE hp' = [hp EXCEPT ![h] = Nulo] /\ hm' = [hm EXCEPT ![h] = Nulo]
    BY <1>0, <1>1, <1>3, <2>1, <2>3 DEF TypeOK, TipoHilos, PidONulo
  <2> QED BY <1>3, <2>2, <2>3
<1>6. Manos'
  BY <1>0, <1>1, <1>3, <1>4 DEF Manos
<1>7. Mano(h) = p /\ Mano(h)' = Nulo
  BY <1>1, <1>2, <1>3, <1>4 DEF Mano, Tiene
<1> QED BY <1>1, <1>2, <1>3, <1>4, <1>5, <1>6, <1>7, HiloEntrega DEF Reservada

\* A memory syscall that ends the process keeps the CPU for one more step.
LEMMA IMemMal ==
  ASSUME IInv, NEW c \in Cpus, MemMal(c)
  PROVE  IInv'
<1>0. TypeOK /\ Manos /\ c \in Hilos
  BY DEF IInv, Hilos
<1>1. /\ hpc[c] \in {"memoria", "responde"}
      /\ hpc' = [hpc EXCEPT ![c] = "suelta"] /\ hp' = [hp EXCEPT ![c] = Nulo]
      /\ UNCHANGED <<colaVars, semCpu, tablaVars, quantum, fuera, pcpVars, hm, hv, relojes, canal,
                     vuelta, cpuVars>>
  BY DEF MemMal, EnPedido
<1>2. PICK p \in Procs : p = hp[c]
  BY <1>0, <1>1 DEF Manos
<1>3. liberado' = liberado \union {p}
  BY <1>2 DEF MemMal
<1>4. /\ hpc'[c] = "suelta" /\ hp'[c] = Nulo
      /\ \A g \in Hilos \ {c} : hpc'[g] = hpc[g] /\ hp'[g] = hp[g]
  BY <1>0, <1>1 DEF TypeOK, TipoHilos
<1>5. TipoHilos' /\ semReady' \in Nat
  BY <1>0, <1>1 DEF TypeOK, TipoHilos, TipoColas, PidONulo
<1>6. Manos'
  BY <1>0, <1>1, <1>4 DEF Manos
<1>7. Mano(c) = p /\ Mano(c)' = Nulo
  BY <1>1, <1>2, <1>4 DEF Mano, Tiene
<1> QED BY <1>0, <1>1, <1>3, <1>4, <1>5, <1>6, <1>7, HiloEntrega DEF Reservada


\* verificar_y_desalojar_por_prioridad, up to the unlock.
LEMMA IVerifica ==
  ASSUME IInv, NEW h \in Hilos, Verifica(h)
  PROVE  IInv'
<1>0. TypeOK /\ Manos
  BY DEF IInv
<1>1. /\ hpc[h] = "verifica"
      /\ UNCHANGED <<colaVars, semCpu, tablaVars, pcbVars, pcpVars, relojes, canal, vuelta, cpuVars>>
  BY DEF Verifica
<1>2. TipoColas' /\ TipoTabla' /\ TipoRelojes'
  BY <1>0, <1>1 DEF TypeOK, TipoColas, TipoTabla, TipoRelojes
<1>3. CASE Termina(h) /\ UNCHANGED hv
  <2>1. /\ hpc' = [hpc EXCEPT ![h] = "recibe"] /\ hp' = [hp EXCEPT ![h] = Nulo]
        /\ hm' = [hm EXCEPT ![h] = Nulo] /\ hv' = hv
    BY <1>3 DEF Termina
  <2>2. /\ hpc'[h] = "recibe" /\ hp'[h] = Nulo
        /\ \A g \in Hilos \ {h} : hpc'[g] = hpc[g] /\ hp'[g] = hp[g] /\ hm'[g] = hm[g]
    BY <1>0, <2>1 DEF TypeOK, TipoHilos
  <2>3. TipoHilos'
    BY <1>0, <2>1 DEF TypeOK, TipoHilos, PidONulo
  <2>4. Manos'
    BY <1>0, <1>1, <2>1, <2>2 DEF Manos
  <2>5. Mano(h)' = Mano(h)
    BY <1>1, <2>2 DEF Mano, Tiene
  <2> QED BY <1>1, <1>2, <2>1, <2>2, <2>3, <2>4, <2>5, HiloSigue DEF Reservada
<1>4. CASE \E c \in Cpus : /\ Peor(c) /\ hv' = [hv EXCEPT ![h] = [cpu |-> c, pid |-> actual[c]]]
                           /\ hpc' = [hpc EXCEPT ![h] = "interrumpe"] /\ UNCHANGED <<hp, hm>>
  <2>1. PICK c \in Cpus : /\ Peor(c) /\ hv' = [hv EXCEPT ![h] = [cpu |-> c, pid |-> actual[c]]]
                          /\ hpc' = [hpc EXCEPT ![h] = "interrumpe"] /\ UNCHANGED <<hp, hm>>
    BY <1>4
  <2>2. PICK p \in Procs : p = actual[c]
    BY <1>0, <2>1 DEF Peor, Ocupada, TypeOK, TipoTabla, PidONulo
  <2>3. PICK v \in [cpu : Cpus \union {Nulo}, pid : PidONulo] :
          v.cpu = c /\ v.pid = p /\ hv' = [hv EXCEPT ![h] = v]
    <3>1. [cpu |-> c, pid |-> p] \in [cpu : Cpus \union {Nulo}, pid : PidONulo]
      BY DEF PidONulo
    <3> QED BY <2>1, <2>2, <3>1
  <2>4. TipoHilos'
    BY <1>0, <2>1, <2>3 DEF TypeOK, TipoHilos
  <2>5. /\ hpc'[h] = "interrumpe" /\ hv'[h] = v
        /\ \A g \in Hilos \ {h} : hpc'[g] = hpc[g] /\ hv'[g] = hv[g]
    BY <1>0, <2>1, <2>3 DEF TypeOK, TipoHilos
  <2>6. Manos'
    BY <1>0, <1>1, <2>1, <2>3, <2>5 DEF Manos
  <2>7. Mano(h)' = Mano(h)
    BY <1>1, <2>5 DEF Mano, Tiene
  <2> QED BY <1>1, <1>2, <2>1, <2>4, <2>6, <2>7, HiloSigue DEF Reservada
<1> QED BY <1>3, <1>4 DEF Verifica

\* Interrupts, sent by a thread that goes on to x, leave every process where it is.
LEMMA HiloInterrumpe ==
  ASSUME IInv, NEW h \in Hilos, NEW x, hpc' = [hpc EXCEPT ![h] = x],
         \A g \in Hilos \ {h} : hp'[g] = hp[g],
         UNCHANGED <<colaVars, semCpu, tablaVars, pcbVars, pcpVars, relojes, vuelta, cpuVars>>,
         \/ h \in Cpus /\ hpc[h] = "memoria" /\ x = "compacta"
         \/ hpc[h] = "interrumpe" /\ x = "recibe",
         canal' \in [Cpus -> Seq(Mensajes)],
         \A c \in Cpus : \E m \in Mensajes :
           /\ m.op = "INTERRUPCION"
           /\ canal'[c] = canal[c] \/ canal'[c] = Append(canal[c], m),
         TipoHilos', Manos', Mano(h)' = Mano(h)
  PROVE  IInv'
<1>0. TypeOK
  BY DEF IInv
<1>1. TypeOK'
  BY <1>0 DEF TypeOK, TipoColas, TipoTabla, TipoPcb, TipoPcp, TipoRelojes, TipoCanales, TipoCpu
<1>2. hpc'[h] = x /\ \A g \in Hilos \ {h} : hpc'[g] = hpc[g]
  BY <1>0 DEF TypeOK, TipoHilos
<1>3. ASSUME NEW c \in Cpus PROVE TablaDe(c)' /\ SegunTabla(c)'
  <2>0. PICK m \in Mensajes : /\ m.op = "INTERRUPCION"
                              /\ canal'[c] = canal[c] \/ canal'[c] = Append(canal[c], m)
    OBVIOUS
  <2>1. cpc[c] = "apagada" => hpc[c] = "recibe"
    BY DEF IInv, Tabla, TablaDe
  <2>2. /\ cpc[c] = "apagada" => hpc'[c] = "recibe"
        /\ hpc'[c] \in Reservada => hpc[c] \in Reservada \ {"devuelve"} \/ hpc'[c] = hpc[c]
        /\ hpc'[c] = "devuelve" => hpc'[c] = hpc[c] /\ hp'[c] = hp[c]
    <3>1. CASE c = h
      BY <1>2, <2>1, <3>1 DEF Reservada
    <3>2. CASE c # h
      <4>1. c \in Hilos \ {h}
        BY <3>2 DEF Hilos
      <4> QED BY <1>2, <2>1, <4>1
    <3> QED BY <3>1, <3>2
  <2> QED BY <2>0, <2>2, CpuInterrumpida DEF Manda
<1>4. ManoPcp' = ManoPcp /\ \A g \in Hilos : Mano(g)' = Mano(g)
  BY <1>2 DEF ManoPcp, Mano, Tiene
<1>5. Colas' /\ Lugares'
  BY <1>4, LugaresIguales
<1> QED BY <1>1, <1>3, <1>5 DEF IInv, Tabla, CpuSegunTabla

\* The interrupt of a preemption goes out after the unlock.
LEMMA IInterrumpe ==
  ASSUME IInv, NEW h \in Hilos, Interrumpe(h)
  PROVE  IInv'
<1>0. TypeOK /\ Manos
  BY DEF IInv
<1>1. /\ hpc[h] = "interrumpe" /\ Enviar(hv[h].cpu, Interrupcion(hv[h].pid, "DESALOJO"))
      /\ UNCHANGED <<colaVars, semCpu, tablaVars, pcbVars, pcpVars, relojes, vuelta, cpuVars>>
      /\ hpc' = [hpc EXCEPT ![h] = "recibe"] /\ hp' = [hp EXCEPT ![h] = Nulo]
      /\ hm' = [hm EXCEPT ![h] = Nulo] /\ hv' = [hv EXCEPT ![h] = NoVictima]
  BY DEF Interrumpe, Termina
<1>2. PICK c \in Cpus, p \in Procs : c = hv[h].cpu /\ p = hv[h].pid
  BY <1>0, <1>1 DEF Manos
<1>3. PICK m \in Mensajes : m.op = "INTERRUPCION" /\ Enviar(c, m)
  BY <1>1, <1>2, TipoMensaje
<1>4. /\ canal' \in [Cpus -> Seq(Mensajes)]
      /\ \A d \in Cpus : canal'[d] = canal[d] \/ canal'[d] = Append(canal[d], m)
  BY <1>0, <1>3, TipoEnviado
<1>5. NoVictima \in [cpu : Cpus \union {Nulo}, pid : PidONulo]
  BY DEF PidONulo, NoVictima
<1>6. TipoHilos'
  BY <1>0, <1>1, <1>5 DEF TypeOK, TipoHilos, PidONulo
<1>7. /\ hpc'[h] = "recibe" /\ hp'[h] = Nulo
      /\ \A g \in Hilos \ {h} : hpc'[g] = hpc[g] /\ hp'[g] = hp[g] /\ hm'[g] = hm[g] /\ hv'[g] = hv[g]
  BY <1>0, <1>1 DEF TypeOK, TipoHilos
<1>8. Manos'
  BY <1>0, <1>1, <1>7 DEF Manos
<1>9. Mano(h)' = Mano(h)
  BY <1>1, <1>7 DEF Mano, Tiene
<1> QED BY <1>1, <1>3, <1>4, <1>6, <1>7, <1>8, <1>9, HiloInterrumpe

\* manejar_compactacion_inicio: an interrupt to every busy CPU.
LEMMA ICompacta ==
  ASSUME IInv, NEW c \in Cpus, CompactaInicio(c)
  PROVE  IInv'
<1>0. TypeOK /\ Manos /\ c \in Hilos
  BY DEF IInv, Hilos
<1>1. /\ hpc[c] = "memoria" /\ hpc' = [hpc EXCEPT ![c] = "compacta"]
      /\ UNCHANGED <<colaVars, semCpu, tablaVars, pcbVars, pcpVars, hp, hm, hv, relojes, vuelta,
                     cpuVars>>
      /\ canal' = [d \in Cpus |-> IF Ocupada(d) /\ cpc[d] # "caida"
                                    THEN Append(canal[d], Interrupcion(actual[d], "DESALOJO"))
                                    ELSE canal[d]]
  BY DEF CompactaInicio
<1>2. ASSUME NEW d \in Cpus
      PROVE  /\ canal'[d] \in Seq(Mensajes)
             /\ \E m \in Mensajes :
                  /\ m.op = "INTERRUPCION"
                  /\ canal'[d] = canal[d] \/ canal'[d] = Append(canal[d], m)
  <2>0. canal[d] \in Seq(Mensajes)
    BY <1>0 DEF TypeOK, TipoCanales
  <2>1. CASE Ocupada(d) /\ cpc[d] # "caida"
    <3>1. PICK p \in Procs : p = actual[d]
      BY <1>0, <2>1 DEF Ocupada, TypeOK, TipoTabla, PidONulo
    <3>2. PICK m \in Mensajes : m.op = "INTERRUPCION" /\ m = Interrupcion(actual[d], "DESALOJO")
      BY <3>1, TipoMensaje
    <3>3. canal'[d] = Append(canal[d], m)
      BY <1>1, <2>1, <3>2
    <3>4. Append(canal[d], m) \in Seq(Mensajes)
      BY <2>0
    <3> QED BY <3>2, <3>3, <3>4
  <2>2. CASE ~(Ocupada(d) /\ cpc[d] # "caida")
    <3>1. canal'[d] = canal[d]
      BY <1>1, <2>2
    <3>2. PICK p \in Procs : TRUE
      BY <1>0, <1>1 DEF Manos
    <3>3. \E m \in Mensajes : m.op = "INTERRUPCION"
      BY <3>2, TipoMensaje
    <3> QED BY <2>0, <3>1, <3>3
  <2> QED BY <2>1, <2>2
<1>3. canal' \in [Cpus -> Seq(Mensajes)]
  <2>1. canal' = [d \in Cpus |-> canal'[d]]
    BY <1>1
  <2> QED BY <1>2, <2>1
<1>4. TipoHilos'
  BY <1>0, <1>1 DEF TypeOK, TipoHilos
<1>5. hpc'[c] = "compacta" /\ \A g \in Hilos \ {c} : hpc'[g] = hpc[g]
  BY <1>0, <1>1 DEF TypeOK, TipoHilos
<1>6. Manos'
  BY <1>0, <1>1, <1>5 DEF Manos
<1>7. Mano(c)' = Mano(c)
  BY <1>1, <1>5 DEF Mano, Tiene
<1> QED BY <1>0, <1>1, <1>2, <1>3, <1>4, <1>6, <1>7, HiloInterrumpe


\* A thread that is not a receptor takes a process from outside.
LEMMA ILlega ==
  ASSUME IInv, NEW e \in Externos, NEW p \in Procs, Llega(e, p)
  PROVE  IInv'
<1>0. TypeOK /\ Manos /\ e \in Hilos /\ e \notin Cpus
  BY DEF IInv, Hilos
<1>1. /\ hpc[e] = "recibe" /\ p \in fuera /\ fuera' = fuera \ {p}
      /\ hp' = [hp EXCEPT ![e] = p] /\ hpc' = [hpc EXCEPT ![e] = "encola"]
      /\ UNCHANGED <<colaVars, semCpu, tablaVars, quantum, liberado, pcpVars, hm, hv, relojes,
                     canal, vuelta, cpuVars>>
  BY DEF Llega
<1>2. /\ hpc'[e] = "encola" /\ hp'[e] = p
      /\ \A g \in Hilos \ {e} : hpc'[g] = hpc[g] /\ hp'[g] = hp[g]
  BY <1>0, <1>1 DEF TypeOK, TipoHilos
<1>3. TypeOK'
  <2>1. TipoColas' /\ TipoTabla' /\ TipoPcb' /\ TipoPcp'
    BY <1>0, <1>1 DEF TypeOK, TipoColas, TipoTabla, TipoPcb, TipoPcp
  <2>2. TipoHilos' /\ TipoRelojes' /\ TipoCanales' /\ TipoCpu'
    BY <1>0, <1>1 DEF TypeOK, TipoHilos, TipoRelojes, TipoCanales, TipoCpu, PidONulo
  <2> QED BY <2>1, <2>2 DEF TypeOK
<1>4. Manos'
  BY <1>0, <1>1, <1>2 DEF Manos
<1>5. /\ Tabla' /\ CpuSegunTabla' /\ ManoPcp' = ManoPcp
      /\ \A g \in Hilos \ {e} : Mano(g)' = Mano(g)
  BY <1>0, <1>1, <1>2, HiloTabla DEF Reservada
<1>6. Mano(e) = Nulo /\ Mano(e)' = p
  BY <1>1, <1>2 DEF Mano, Tiene
<1>7. Lugar(p) /\ ~EnManos(p)
  BY <1>1 DEF IInv, Lugares, Lugar
<1>8. UnaMano' /\ \A q \in Procs : EnManos(q)' <=> EnManos(q) \/ q = p
  BY <1>0, <1>5, <1>6, <1>7, ManoCambia
<1>9. UnaTabla' /\ Colas' /\ \A q \in Procs : (EnTabla(q)' <=> EnTabla(q)) /\ (EnCola(q)' <=> EnCola(q))
  BY <1>1 DEF IInv, Lugares, UnaTabla, EnTabla, Colas, EnCola
<1>10. Lugar(p)'
  BY <1>1, <1>5, <1>7, <1>8, <1>9 DEF Lugar
<1>11. Lugares'
  BY <1>1, <1>5, <1>8, <1>9, <1>10, Mudanza
<1> QED BY <1>3, <1>4, <1>5, <1>9, <1>11 DEF IInv

\* liberar_cpu_reservada.
LEMMA ISuelta ==
  ASSUME IInv, NEW c \in Cpus, Suelta(c)
  PROVE  IInv'
<1>0. TypeOK /\ Manos /\ c \in Hilos /\ TablaDe(c)
  BY DEF IInv, Hilos, Tabla
<1>1. /\ hpc[c] = "suelta" /\ disponible' = [disponible EXCEPT ![c] = TRUE]
      /\ hpc' = [hpc EXCEPT ![c] = "avisa"]
      /\ UNCHANGED <<colaVars, semCpu, actual, conectada, timerActivo, timerPid, pcbVars,
                     pcpVars, hp, hm, hv, relojes, canal, vuelta, cpuVars>>
  BY DEF Suelta
<1>2. hp[c] = Nulo /\ actual[c] = Nulo /\ Vacia(c) /\ ~Manda(c) /\ cpc[c] # "apagada"
  BY <1>0, <1>1 DEF Manos, TablaDe, Reservada
<1>3. hpc'[c] = "avisa" /\ \A g \in Hilos \ {c} : hpc'[g] = hpc[g]
  BY <1>0, <1>1 DEF TypeOK, TipoHilos
<1>4. TypeOK'
  <2>1. TipoColas' /\ TipoTabla' /\ TipoPcb' /\ TipoPcp'
    BY <1>0, <1>1 DEF TypeOK, TipoColas, TipoTabla, TipoPcb, TipoPcp
  <2>2. TipoHilos' /\ TipoRelojes' /\ TipoCanales' /\ TipoCpu'
    BY <1>0, <1>1 DEF TypeOK, TipoHilos, TipoRelojes, TipoCanales, TipoCpu
  <2> QED BY <2>1, <2>2 DEF TypeOK
<1>5. Manos'
  BY <1>0, <1>1, <1>2, <1>3 DEF Manos
<1>6. Tabla' /\ CpuSegunTabla'
  <2>1. Vacia(c)' /\ SegunTabla(c)'
    BY <1>1, <1>2, SegunVacia DEF Vacia, Enviados, EnCiclo
  <2>2. TablaDe(c)'
    BY <1>1, <1>2, <1>3, <2>1 DEF TablaDe, Manda, Reservada, Vacia
  <2>3. ASSUME NEW d \in Cpus \ {c} PROVE TablaDe(d)' /\ SegunTabla(d)'
    <3>1. hpc'[d] = hpc[d] /\ disponible'[d] = disponible[d]
      BY <1>0, <1>1, <1>3 DEF TypeOK, TipoTabla, Hilos
    <3> QED BY <1>1, <3>1, CpuIgual DEF Manda
  <2> QED BY <2>1, <2>2, <2>3 DEF Tabla, CpuSegunTabla
<1>7. Colas' /\ Lugares'
  BY <1>1, <1>2, <1>3, LugaresIguales DEF ManoPcp, Mano, Tiene
<1> QED BY <1>4, <1>5, <1>6, <1>7 DEF IInv

\* devolver_proceso_a_misma_cpu up to the unlock.
LEMMA IVuelve ==
  ASSUME IInv, NEW c \in Cpus, Vuelve(c)
  PROVE  IInv'
<1>0. TypeOK /\ Manos /\ c \in Hilos /\ TablaDe(c)
  BY DEF IInv, Hilos, Tabla
<1>1. /\ hpc[c] = "vuelve"
      /\ UNCHANGED <<colaVars, semCpu, disponible, conectada, timerActivo, timerPid, pcbVars,
                     pcpVars, hp, hm, hv, relojes, canal, vuelta, cpuVars>>
  BY DEF Vuelve
<1>2. PICK p \in Procs : p = hp[c]
  BY <1>0, <1>1 DEF Manos
<1>3. CASE hpc' = [hpc EXCEPT ![c] = "encola"] /\ UNCHANGED actual
  <2>1. hpc'[c] = "encola" /\ \A g \in Hilos \ {c} : hpc'[g] = hpc[g]
    BY <1>0, <1>3 DEF TypeOK, TipoHilos
  <2>2. TipoColas' /\ TipoTabla' /\ TipoHilos' /\ TipoRelojes'
    BY <1>0, <1>1, <1>3 DEF TypeOK, TipoColas, TipoTabla, TipoHilos, TipoRelojes
  <2>3. Manos'
    BY <1>0, <1>1, <1>2, <2>1 DEF Manos
  <2>4. Mano(c)' = Mano(c)
    BY <1>1, <2>1 DEF Mano, Tiene
  <2> QED BY <1>0, <1>1, <1>3, <2>2, <2>3, <2>4, HiloSigue DEF Reservada
<1>4. CASE actual' = [actual EXCEPT ![c] = hp[c]] /\ hpc' = [hpc EXCEPT ![c] = "devuelve"]
  <2>1. hpc'[c] = "devuelve" /\ \A g \in Hilos \ {c} : hpc'[g] = hpc[g]
    BY <1>0, <1>4 DEF TypeOK, TipoHilos
  <2>2. actual[c] = Nulo /\ actual'[c] = p /\ \A d \in Cpus \ {c} : actual'[d] = actual[d]
    BY <1>0, <1>1, <1>2, <1>4 DEF TypeOK, TipoTabla, TablaDe, Reservada
  <2>3. TypeOK' /\ Manos'
    <3>1. TipoColas' /\ TipoTabla' /\ TipoPcb' /\ TipoPcp'
      BY <1>0, <1>1, <1>2, <1>4 DEF TypeOK, TipoColas, TipoTabla, TipoPcb, TipoPcp, PidONulo
    <3>2. TipoHilos' /\ TipoRelojes' /\ TipoCanales' /\ TipoCpu'
      BY <1>0, <1>1, <1>4 DEF TypeOK, TipoHilos, TipoRelojes, TipoCanales, TipoCpu
    <3>3. Manos'
      BY <1>0, <1>1, <1>2, <2>1 DEF Manos
    <3> QED BY <3>1, <3>2, <3>3 DEF TypeOK
  <2>4. Tabla' /\ CpuSegunTabla'
    <3>1. Vacia(c) /\ ~disponible[c] /\ ~Manda(c) /\ cpc[c] # "apagada"
      BY <1>0, <1>1 DEF TablaDe, Reservada
    <3>2. Vacia(c)' /\ SegunTabla(c)'
      BY <1>1, <3>1, SegunVacia DEF Vacia, Enviados, EnCiclo
    <3>3. TablaDe(c)'
      BY <1>1, <1>2, <2>1, <2>2, <3>1, <3>2 DEF TablaDe, Manda, Reservada, Vacia
    <3>4. ASSUME NEW d \in Cpus \ {c} PROVE TablaDe(d)' /\ SegunTabla(d)'
      <4>1. hpc'[d] = hpc[d]
        BY <2>1 DEF Hilos
      <4> QED BY <1>1, <2>2, <4>1, CpuIgual DEF Manda
    <3> QED BY <3>2, <3>3, <3>4 DEF Tabla, CpuSegunTabla
  <2>5. Colas' /\ Lugares'
    <3>1. Colas' /\ \A q \in Procs : EnCola(q)' <=> EnCola(q)
      BY <1>1 DEF IInv, Colas, EnCola
    <3>2. Mano(c) = p /\ Mano(c)' = Nulo /\ \A g \in Hilos \ {c} : Mano(g)' = Mano(g)
      BY <1>1, <1>2, <2>1 DEF Mano, Tiene
    <3>3. Lugar(p) /\ EnManos(p)
      BY <1>0, <3>2 DEF IInv, Lugares, EnManos
    <3>4. UnaMano' /\ \A q \in Procs : EnManos(q)' <=> EnManos(q) /\ q # p
      BY <1>0, <3>2, ManoCambia
    <3>5. UnaTabla' /\ \A q \in Procs : EnTabla(q)' <=> EnTabla(q) \/ q = p
      BY <2>2, <3>3, TablaCambia DEF Lugar
    <3>6. ManoPcp' = ManoPcp
      BY <1>1 DEF ManoPcp
    <3>7. Lugar(p)'
      BY <1>1, <3>1, <3>3, <3>4, <3>5, <3>6 DEF Lugar
    <3> QED BY <1>1, <3>1, <3>4, <3>5, <3>6, <3>7, Mudanza
  <2> QED BY <2>3, <2>4, <2>5 DEF IInv
<1> QED BY <1>3, <1>4 DEF Vuelve

\* The process goes back to the CPU that was kept for it.
LEMMA IDevuelve ==
  ASSUME IInv, NEW c \in Cpus, Devuelve(c)
  PROVE  IInv'
<1>0. TypeOK /\ Manos /\ c \in Hilos /\ TablaDe(c)
  BY DEF IInv, Hilos, Tabla
<1>1. /\ hpc[c] = "devuelve" /\ Enviar(c, Ejecutar(hp[c])) /\ hpc' = [hpc EXCEPT ![c] = "mide"]
      /\ UNCHANGED <<colaVars, semCpu, tablaVars, pcbVars, pcpVars, hp, hm, hv, relojes, vuelta,
                     cpuVars>>
  BY DEF Devuelve
<1>2. PICK p \in Procs : p = hp[c]
  BY <1>0, <1>1 DEF Manos
<1>3. Vacia(c) /\ actual[c] = p /\ ~disponible[c] /\ ~Manda(c) /\ cpc[c] # "apagada"
  BY <1>0, <1>1, <1>2 DEF TablaDe, Reservada
<1>4. /\ SegunTabla(c)' /\ canal' \in [Cpus -> Seq(Mensajes)]
      /\ \A d \in Cpus \ {c} : canal'[d] = canal[d]
  BY <1>1, <1>2, <1>3, CpuRecibe
<1>5. hpc'[c] = "mide" /\ \A g \in Hilos \ {c} : hpc'[g] = hpc[g]
  BY <1>0, <1>1 DEF TypeOK, TipoHilos
<1>6. TypeOK'
  <2>1. TipoColas' /\ TipoTabla' /\ TipoPcb' /\ TipoPcp'
    BY <1>0, <1>1 DEF TypeOK, TipoColas, TipoTabla, TipoPcb, TipoPcp
  <2>2. TipoHilos' /\ TipoRelojes' /\ TipoCanales' /\ TipoCpu'
    BY <1>0, <1>1, <1>4 DEF TypeOK, TipoHilos, TipoRelojes, TipoCanales, TipoCpu
  <2> QED BY <2>1, <2>2 DEF TypeOK
<1>7. Manos'
  BY <1>0, <1>1, <1>2, <1>5 DEF Manos
<1>8. Tabla' /\ CpuSegunTabla'
  <2>1. TablaDe(c)'
    BY <1>0, <1>1, <1>3, <1>5 DEF TablaDe, Manda, Vacia, EnCiclo, Reservada
  <2>2. ASSUME NEW d \in Cpus \ {c} PROVE TablaDe(d)' /\ SegunTabla(d)'
    <3>1. hpc'[d] = hpc[d]
      BY <1>5 DEF Hilos
    <3> QED BY <1>1, <1>4, <3>1, CpuIgual DEF Manda
  <2> QED BY <1>4, <2>1, <2>2 DEF Tabla, CpuSegunTabla
<1>9. Colas' /\ Lugares'
  BY <1>1, <1>5, LugaresIguales DEF ManoPcp, Mano, Tiene
<1> QED BY <1>6, <1>7, <1>8, <1>9 DEF IInv


-----------------------------------------------------------------------------
(* CPU.                                                                    *)

\* A step of one CPU, or of its entry's connection, moves no process.
LEMMA CpuPaso ==
  ASSUME IInv, NEW c \in Cpus,
         UNCHANGED <<colaVars, semCpu, disponible, actual, timerActivo, timerPid, pcbVars,
                     pcpVars, hiloVars, relojes>>,
         TipoTabla', TipoCanales', TipoCpu', TablaDe(c)', SegunTabla(c)',
         \A d \in Cpus \ {c} :
           /\ cpc'[d] = cpc[d] /\ canal'[d] = canal[d] /\ vuelta'[d] = vuelta[d]
           /\ listo'[d] = listo[d] /\ slot'[d] = slot[d] /\ cpid'[d] = cpid[d]
  PROVE  IInv'
<1>1. TypeOK'
  BY DEF IInv, TypeOK, TipoColas, TipoPcb, TipoPcp, TipoHilos, TipoRelojes
<1>2. Manos'
  BY DEF IInv, Manos
<1>3. \A d \in Cpus \ {c} : TablaDe(d)' /\ SegunTabla(d)'
  BY CpuIgual DEF Manda
<1>4. Tabla' /\ CpuSegunTabla'
  BY <1>3 DEF Tabla, CpuSegunTabla
<1>5. Colas' /\ Lugares'
  BY LugaresIguales DEF ManoPcp, Mano, Tiene
<1> QED BY <1>1, <1>2, <1>4, <1>5 DEF IInv

\* marcar_cpu_desconectada.
LEMMA IDesconecta ==
  ASSUME IInv, NEW c \in Cpus, Desconecta(c)
  PROVE  IInv'
<1>1. /\ conectada' = [conectada EXCEPT ![c] = FALSE]
      /\ UNCHANGED <<colaVars, semCpu, disponible, actual, timerActivo, timerPid, pcbVars,
                     pcpVars, hiloVars, relojes, canal, vuelta, cpuVars>>
  BY DEF Desconecta
<1>2. TipoTabla' /\ TipoCanales' /\ TipoCpu'
  BY <1>1 DEF IInv, TypeOK, TipoTabla, TipoCanales, TipoCpu
<1>3. TablaDe(c)' /\ SegunTabla(c)'
  BY <1>1, CpuIgual DEF Manda
<1> QED BY <1>1, <1>2, <1>3, CpuPaso

\* A message is read: what stays on its way is what was.
LEMMA Leido ==
  ASSUME IInv, NEW c \in Cpus, canal[c] # <<>>, canal' = [canal EXCEPT ![c] = Tail(@)]
  PROVE  /\ canal' \in [Cpus -> Seq(Mensajes)] /\ \A d \in Cpus \ {c} : canal'[d] = canal[d]
         /\ Head(canal[c]) \in Mensajes
         /\ \A i \in Enviados(c)' : i + 1 \in Enviados(c) /\ i \in Nat \ {0}
                                    /\ canal'[c][i] = canal[c][i + 1]
         /\ Head(canal[c]).op = "EJECUTAR" => 1 \in Enviados(c) /\ canal[c][1] = Head(canal[c])
<1>0. canal \in [Cpus -> Seq(Mensajes)]
  BY DEF IInv, TypeOK, TipoCanales
<1>1. PICK s \in Seq(Mensajes) : s = canal[c] /\ s # <<>>
  BY <1>0
<1>2. Tail(s) \in Seq(Mensajes)
  BY <1>1
<1>3. PICK r \in Seq(Mensajes) : r = Tail(s)
  BY <1>2
<1>4. /\ canal' \in [Cpus -> Seq(Mensajes)] /\ canal'[c] = r
      /\ \A d \in Cpus \ {c} : canal'[d] = canal[d]
  BY <1>0, <1>1, <1>3
<1>5. /\ DOMAIN s = 1 .. Len(s) /\ DOMAIN r = 1 .. Len(r) /\ Len(s) \in Nat \ {0}
      /\ Len(r) = Len(s) - 1 /\ Head(s) = s[1] /\ Head(s) \in Mensajes
      /\ \A i \in 1 .. Len(r) : r[i] = s[i + 1]
  BY <1>1, <1>3
<1>6. \A i \in Enviados(c)' : i + 1 \in Enviados(c) /\ i \in Nat \ {0}
                              /\ canal'[c][i] = canal[c][i + 1]
  <2> SUFFICES ASSUME NEW i \in Enviados(c)'
               PROVE  i + 1 \in Enviados(c) /\ i \in Nat \ {0} /\ canal'[c][i] = canal[c][i + 1]
    OBVIOUS
  <2>1. i \in 1 .. Len(r) /\ r[i].op = "EJECUTAR"
    BY <1>4, <1>5 DEF Enviados
  <2>2. i + 1 \in 1 .. Len(s) /\ r[i] = s[i + 1] /\ i \in Nat \ {0}
    BY <1>5, <2>1
  <2> QED BY <1>1, <1>4, <1>5, <2>1, <2>2 DEF Enviados
<1>7. Head(canal[c]).op = "EJECUTAR" => 1 \in Enviados(c) /\ canal[c][1] = Head(canal[c])
  <2>1. 1 \in DOMAIN s
    BY <1>5
  <2> QED BY <1>1, <1>5, <2>1 DEF Enviados
<1> QED BY <1>1, <1>4, <1>5, <1>6, <1>7

\* cpu_scheduler_listener_thread: pid_a_ejecutar is free when a process comes.
LEMMA IEscucha ==
  ASSUME IInv, NEW c \in Cpus, Escucha(c)
  PROVE  IInv'
<1>0. TypeOK /\ TablaDe(c) /\ SegunTabla(c)
  BY DEF IInv, Tabla, CpuSegunTabla
<1>1. /\ canal[c] # <<>> /\ canal' = [canal EXCEPT ![c] = Tail(@)]
      /\ UNCHANGED <<colaVars, semCpu, tablaVars, pcbVars, pcpVars, hiloVars, relojes,
                     vuelta, cpc, cpid, enEjec>>
  BY DEF Escucha
<1>2. /\ canal' \in [Cpus -> Seq(Mensajes)] /\ \A d \in Cpus \ {c} : canal'[d] = canal[d]
      /\ Head(canal[c]) \in Mensajes
      /\ \A i \in Enviados(c)' : i + 1 \in Enviados(c) /\ i \in Nat \ {0}
                                 /\ canal'[c][i] = canal[c][i + 1]
      /\ Head(canal[c]).op = "EJECUTAR" => 1 \in Enviados(c) /\ canal[c][1] = Head(canal[c])
  BY <1>1, Leido
<1>3. PICK m \in Mensajes : m = Head(canal[c])
  BY <1>2
<1>4. m.pid \in Procs /\ (m.op = "INTERRUPCION" => m.motivo \in {"QUANTUM", "DESALOJO"})
  BY DEF Mensajes
<1>5. TipoTabla' /\ TipoCanales'
  BY <1>0, <1>1, <1>2 DEF TypeOK, TipoTabla, TipoCanales
<1>6. CASE /\ m.op = "EJECUTAR" /\ slot' = [slot EXCEPT ![c] = m.pid]
           /\ listo' = [listo EXCEPT ![c] = @ + 1] /\ UNCHANGED <<pend, motivo>>
  <2>1. /\ m.pid = actual[c] /\ listo[c] = 0 /\ ~EnCiclo(c) /\ vuelta[c] = <<>>
        /\ \A i \in Enviados(c) : i = 1
    BY <1>0, <1>2, <1>3, <1>6 DEF SegunTabla
  <2>2. Enviados(c)' = {}
    <3> SUFFICES ASSUME NEW i \in Enviados(c)' PROVE FALSE
      OBVIOUS
    <3>1. i + 1 = 1 /\ i \in Nat \ {0}
      BY <1>2, <2>1
    <3> QED BY <3>1
  <2>3. TipoCpu'
    BY <1>0, <1>1, <1>4, <1>6, <2>1 DEF TypeOK, TipoCpu, PidONulo
  <2>4. /\ listo'[c] = 1 /\ slot'[c] = m.pid
        /\ \A d \in Cpus \ {c} : listo'[d] = listo[d] /\ slot'[d] = slot[d]
    BY <1>0, <1>6, <2>1 DEF TypeOK, TipoCpu
  <2>5. ~Vacia(c)
    BY <1>2, <1>3, <1>6 DEF Vacia
  <2>6. TablaDe(c)'
    BY <1>0, <1>1, <1>4, <2>1, <2>4, <2>5 DEF TablaDe, EnCiclo, Manda, Reservada
  <2>7. SegunTabla(c)'
    BY <1>1, <2>1, <2>2, <2>4 DEF SegunTabla, EnCiclo
  <2> QED BY <1>1, <1>2, <1>5, <2>3, <2>4, <2>6, <2>7, CpuPaso
<1>7. CASE /\ m.op = "INTERRUPCION" /\ UNCHANGED <<slot, listo>>
           /\ \/ UNCHANGED <<pend, motivo>>
              \/ /\ pend' = [pend EXCEPT ![c] = TRUE]
                 /\ motivo' = [motivo EXCEPT ![c] = m.motivo]
  <2>1. TipoCpu'
    BY <1>0, <1>1, <1>4, <1>7 DEF TypeOK, TipoCpu
  <2>2. SegunTabla(c)'
    <3>1. ASSUME NEW i \in Enviados(c)', NEW j \in Enviados(c)' PROVE j = i
      <4>1. i + 1 = j + 1 /\ i \in Nat /\ j \in Nat
        BY <1>0, <1>2 DEF SegunTabla
      <4> QED BY <4>1
    <3>2. \A i \in Enviados(c)' :
            /\ canal'[c][i].pid = actual[c] /\ listo[c] = 0 /\ ~EnCiclo(c) /\ vuelta[c] = <<>>
      BY <1>0, <1>2 DEF SegunTabla
    <3> QED BY <1>0, <1>1, <1>7, <3>1, <3>2 DEF SegunTabla, EnCiclo
  <2>3. TablaDe(c)'
    <3>1. Vacia(c) => Vacia(c)'
      BY <1>1, <1>2, <1>7 DEF Vacia, EnCiclo
    <3> QED BY <1>0, <1>1, <1>7, <3>1 DEF TablaDe, EnCiclo, Manda, Reservada
  <2> QED BY <1>1, <1>2, <1>5, <1>7, <2>1, <2>2, <2>3, CpuPaso
<1> QED BY <1>3, <1>6, <1>7 DEF Escucha


\* A step of CPU c alone keeps the types of its state.
LEMMA TipoCiclo ==
  ASSUME TypeOK, NEW c \in Cpus, NEW x \in {"ocioso", "contexto", "corre", "interrumpida", "caida"},
         cpc' = [cpc EXCEPT ![c] = x],
         NEW a \in PidONulo, cpid' = cpid \/ cpid' = [cpid EXCEPT ![c] = a],
         slot' = slot \/ slot' = [slot EXCEPT ![c] = Nulo],
         NEW b \in PidONulo, enEjec' = enEjec \/ enEjec' = [enEjec EXCEPT ![c] = b],
         pend' = pend \/ pend' = [pend EXCEPT ![c] = FALSE],
         listo' = listo \/ listo' = [listo EXCEPT ![c] = 0],
         motivo' = motivo \/ motivo' = [motivo EXCEPT ![c] = "QUANTUM"]
  PROVE  TipoCpu'
<1>0. Nulo \in PidONulo
  BY DEF PidONulo
<1>1. cpc' \in [Cpus -> {"apagada", "ocioso", "contexto", "corre", "interrumpida", "limpia", "caida"}]
  BY DEF TypeOK, TipoCpu
<1>2. cpid' \in [Cpus -> PidONulo]
  BY DEF TypeOK, TipoCpu
<1>3. slot' \in [Cpus -> PidONulo]
  BY <1>0 DEF TypeOK, TipoCpu
<1>4. enEjec' \in [Cpus -> PidONulo]
  BY DEF TypeOK, TipoCpu
<1>5. pend' \in [Cpus -> BOOLEAN]
  BY DEF TypeOK, TipoCpu
<1>6. listo' \in [Cpus -> 0 .. 1]
  BY DEF TypeOK, TipoCpu
<1>7. motivo' \in [Cpus -> {"QUANTUM", "DESALOJO"}]
  BY DEF TypeOK, TipoCpu
<1> QED BY <1>1, <1>2, <1>3, <1>4, <1>5, <1>6, <1>7 DEF TipoCpu

\* esperar_pid_del_scheduler.
LEMMA IToma ==
  ASSUME IInv, NEW c \in Cpus, Toma(c)
  PROVE  IInv'
<1>0. TypeOK /\ TablaDe(c) /\ SegunTabla(c)
  BY DEF IInv, Tabla, CpuSegunTabla
<1>1. /\ cpc[c] = "ocioso" /\ listo[c] > 0 /\ listo' = [listo EXCEPT ![c] = @ - 1]
      /\ cpid' = [cpid EXCEPT ![c] = slot[c]] /\ slot' = [slot EXCEPT ![c] = Nulo]
      /\ cpc' = [cpc EXCEPT ![c] = "contexto"]
      /\ UNCHANGED <<colaVars, semCpu, tablaVars, pcbVars, pcpVars, hiloVars, relojes,
                     canal, vuelta, enEjec, pend, motivo>>
  BY DEF Toma
<1>2. listo[c] = 1 /\ slot[c] = actual[c] /\ vuelta[c] = <<>> /\ slot[c] \in Procs /\ Enviados(c) = {}
  BY <1>0, <1>1 DEF SegunTabla, TablaDe, TypeOK, TipoCpu
<1>3. TipoTabla' /\ TipoCanales' /\ TipoCpu'
  <2>1. TipoTabla' /\ TipoCanales'
    BY <1>0, <1>1 DEF TypeOK, TipoTabla, TipoCanales
  <2>2. slot[c] \in PidONulo /\ listo[c] - 1 = 0
    BY <1>2 DEF PidONulo
  <2>3. TipoCpu'
    BY <1>0, <1>1, <2>2, TipoCiclo
  <2> QED BY <2>1, <2>3
<1>4. /\ listo'[c] = 0 /\ cpid'[c] = slot[c] /\ cpc'[c] = "contexto"
      /\ \A d \in Cpus \ {c} : /\ listo'[d] = listo[d] /\ cpid'[d] = cpid[d]
                               /\ slot'[d] = slot[d] /\ cpc'[d] = cpc[d]
  BY <1>0, <1>1, <1>2 DEF TypeOK, TipoCpu
<1>5. ~Vacia(c) /\ Enviados(c)' = {}
  BY <1>1, <1>2 DEF Vacia, Enviados
<1>6. TablaDe(c)' /\ SegunTabla(c)'
  BY <1>0, <1>1, <1>2, <1>4, <1>5 DEF TablaDe, SegunTabla, EnCiclo, Manda
<1> QED BY <1>1, <1>3, <1>4, <1>6, CpuPaso

\* The context came, check_interrupt, limpiar_estado_cpu: the CPU keeps what it has.
LEMMA ICiclo ==
  ASSUME IInv, NEW c \in Cpus, Contexto(c) \/ Atiende(c) \/ Limpia(c)
  PROVE  IInv'
<1>0. TypeOK /\ TablaDe(c) /\ SegunTabla(c)
  BY DEF IInv, Tabla, CpuSegunTabla
<1>1. UNCHANGED <<colaVars, semCpu, tablaVars, pcbVars, pcpVars, hiloVars, relojes,
                  canal, vuelta, slot, listo>>
  BY DEF Contexto, Atiende, Limpia
<1>2. PICK x \in {"corre", "interrumpida", "ocioso"} :
        /\ cpc' = [cpc EXCEPT ![c] = x] /\ cpc[c] # "apagada"
        /\ \/ x # "ocioso" /\ EnCiclo(c) /\ cpid' = cpid
           \/ x = "ocioso" /\ ~EnCiclo(c) /\ cpid' = [cpid EXCEPT ![c] = Nulo]
  <2>1. CASE Contexto(c)
    BY <2>1 DEF Contexto, EnCiclo
  <2>2. CASE Atiende(c)
    BY <2>2 DEF Atiende, EnCiclo
  <2>3. CASE Limpia(c)
    BY <2>3 DEF Limpia, EnCiclo
  <2> QED BY <2>1, <2>2, <2>3
<1>3. TipoTabla' /\ TipoCanales' /\ TipoCpu'
  <2>0. Nulo \in PidONulo /\ cpid[c] \in PidONulo
    BY <1>0 DEF TypeOK, TipoCpu, PidONulo
  <2>1. TipoTabla' /\ TipoCanales'
    BY <1>0, <1>1 DEF TypeOK, TipoTabla, TipoCanales
  <2>2. CASE Contexto(c)
    <3>1. /\ cpc' = [cpc EXCEPT ![c] = "corre"] /\ enEjec' = [enEjec EXCEPT ![c] = cpid[c]]
          /\ cpid' = cpid /\ slot' = slot /\ listo' = listo /\ pend' = pend /\ motivo' = motivo
      BY <2>2 DEF Contexto
    <3> QED BY <1>0, <2>0, <2>1, <3>1, TipoCiclo
  <2>3. CASE Atiende(c)
    <3>1. /\ cpc' = [cpc EXCEPT ![c] = "interrumpida"] /\ pend' = [pend EXCEPT ![c] = FALSE]
          /\ cpid' = cpid /\ slot' = slot /\ listo' = listo /\ enEjec' = enEjec /\ motivo' = motivo
      BY <2>3 DEF Atiende
    <3> QED BY <1>0, <2>0, <2>1, <3>1, TipoCiclo
  <2>4. CASE Limpia(c)
    <3>1. /\ cpc' = [cpc EXCEPT ![c] = "ocioso"] /\ pend' = [pend EXCEPT ![c] = FALSE]
          /\ cpid' = [cpid EXCEPT ![c] = Nulo] /\ slot' = slot /\ listo' = listo
          /\ enEjec' = [enEjec EXCEPT ![c] = Nulo] /\ motivo' = [motivo EXCEPT ![c] = "QUANTUM"]
      BY <2>4 DEF Limpia
    <3> QED BY <1>0, <2>0, <2>1, <3>1, TipoCiclo
  <2> QED BY <2>1, <2>2, <2>3, <2>4
<1>4. cpc'[c] = x /\ \A d \in Cpus \ {c} : cpc'[d] = cpc[d] /\ cpid'[d] = cpid[d]
  BY <1>0, <1>2 DEF TypeOK, TipoCpu
<1>5. (EnCiclo(c)' <=> EnCiclo(c)) /\ (EnCiclo(c) => cpid'[c] = cpid[c]) /\ Enviados(c)' = Enviados(c)
  BY <1>1, <1>2, <1>4 DEF EnCiclo, Enviados
<1>6. TablaDe(c)' /\ SegunTabla(c)'
  <2>1. Vacia(c)' <=> Vacia(c)
    BY <1>1, <1>5 DEF Vacia
  <2>2. cpc'[c] # "apagada"
    BY <1>2, <1>4
  <2>3. TablaDe(c)'
    BY <1>0, <1>1, <1>5, <2>1, <2>2 DEF TablaDe, Manda
  <2>4. SegunTabla(c)'
    BY <1>0, <1>1, <1>5 DEF SegunTabla
  <2> QED BY <2>3, <2>4
<1> QED BY <1>1, <1>3, <1>4, <1>6, CpuPaso

\* enviar_devolver_proceso, by an instruction or by an interrupt.
LEMMA IRegresa ==
  ASSUME IInv, NEW c \in Cpus, Instruccion(c) \/ Interrumpida(c)
  PROVE  IInv'
<1>0. TypeOK /\ TablaDe(c) /\ SegunTabla(c)
  BY DEF IInv, Tabla, CpuSegunTabla
<1>1. PICK m \in Motivos : Regresa(c, m)
  <2>1. CASE Instruccion(c)
    BY <2>1 DEF Instruccion, Motivos
  <2>2. CASE Interrumpida(c)
    BY <1>0, <2>2 DEF Interrumpida, Motivos, TypeOK, TipoCpu
  <2> QED BY <2>1, <2>2
<1>2. /\ vuelta' = [vuelta EXCEPT ![c] = Append(@, [pid |-> cpid[c], motivo |-> m])]
      /\ cpc' = [cpc EXCEPT ![c] = "limpia"] /\ EnCiclo(c)
      /\ UNCHANGED <<colaVars, semCpu, tablaVars, pcbVars, pcpVars, hiloVars, relojes,
                     canal, cpid, slot, listo, enEjec, pend, motivo>>
  BY <1>1 DEF Regresa, Instruccion, Interrumpida, EnCiclo
<1>3. PICK p \in Procs : p = cpid[c] /\ p = actual[c]
  BY <1>0, <1>2 DEF TablaDe, SegunTabla
<1>4. vuelta[c] = <<>> /\ Enviados(c) = {} /\ listo[c] = 0
  BY <1>0, <1>2 DEF SegunTabla, TypeOK, TipoCpu
<1>5. PICK S : S = [pid : Procs, motivo : Motivos]
  OBVIOUS
<1>6. PICK r \in S : r = [pid |-> p, motivo |-> m] /\ r.pid = p
  <2>1. [pid |-> p, motivo |-> m] \in S /\ [pid |-> p, motivo |-> m].pid = p
    BY <1>5
  <2> QED BY <2>1
<1>7. Append(vuelta[c], r) = <<r>> /\ <<r>> \in Seq(S) /\ Len(<<r>>) = 1 /\ <<r>>[1] = r
  BY <1>4
<1>8. /\ vuelta' \in [Cpus -> Seq(S)] /\ vuelta'[c] = <<r>>
      /\ \A d \in Cpus \ {c} : vuelta'[d] = vuelta[d]
  <2>1. vuelta \in [Cpus -> Seq(S)]
    BY <1>0, <1>5 DEF TypeOK, TipoCanales
  <2> QED BY <1>2, <1>3, <1>6, <1>7, <2>1
<1>9. TipoTabla' /\ TipoCanales' /\ TipoCpu'
  BY <1>0, <1>2, <1>5, <1>8 DEF TypeOK, TipoTabla, TipoCanales, TipoCpu
<1>10. cpc'[c] = "limpia" /\ \A d \in Cpus \ {c} : cpc'[d] = cpc[d]
  BY <1>0, <1>2 DEF TypeOK, TipoCpu
<1>11. ~Vacia(c) /\ Enviados(c)' = {} /\ ~EnCiclo(c)'
  BY <1>2, <1>4, <1>10 DEF Vacia, Enviados, EnCiclo
<1>12. TablaDe(c)'
  BY <1>0, <1>2, <1>4, <1>10, <1>11 DEF TablaDe, Manda
<1>13. SegunTabla(c)'
  BY <1>2, <1>3, <1>4, <1>6, <1>7, <1>8, <1>11 DEF SegunTabla
<1> QED BY <1>2, <1>8, <1>9, <1>10, <1>12, <1>13, CpuPaso

\* The CPU ends.
LEMMA ICae ==
  ASSUME IInv, NEW c \in Cpus, Cae(c)
  PROVE  IInv'
<1>0. TypeOK /\ TablaDe(c) /\ SegunTabla(c)
  BY DEF IInv, Tabla, CpuSegunTabla
<1>1. /\ cpc[c] # "apagada" /\ cpc' = [cpc EXCEPT ![c] = "caida"]
      /\ canal' = [canal EXCEPT ![c] = <<>>]
      /\ cpid' = [cpid EXCEPT ![c] = Nulo] /\ slot' = [slot EXCEPT ![c] = Nulo]
      /\ listo' = [listo EXCEPT ![c] = 0] /\ enEjec' = [enEjec EXCEPT ![c] = Nulo]
      /\ pend' = [pend EXCEPT ![c] = FALSE]
      /\ UNCHANGED <<colaVars, semCpu, tablaVars, pcbVars, pcpVars, hiloVars, relojes,
                     vuelta, motivo>>
  BY DEF Cae
<1>2. canal' \in [Cpus -> Seq(Mensajes)] /\ canal'[c] = <<>>
      /\ \A d \in Cpus \ {c} : canal'[d] = canal[d]
  <2>1. \A S : <<>> \in Seq(S)
    OBVIOUS
  <2> QED BY <1>0, <1>1, <2>1 DEF TypeOK, TipoCanales
<1>3. TipoTabla' /\ TipoCanales' /\ TipoCpu'
  <2>1. TipoTabla' /\ TipoCanales'
    BY <1>0, <1>1, <1>2 DEF TypeOK, TipoTabla, TipoCanales
  <2>2. Nulo \in PidONulo
    BY DEF PidONulo
  <2>3. TipoCpu'
    BY <1>0, <1>1, <2>2, TipoCiclo
  <2> QED BY <2>1, <2>3
<1>4. /\ listo'[c] = 0 /\ cpc'[c] = "caida"
      /\ \A d \in Cpus \ {c} : /\ listo'[d] = listo[d] /\ cpid'[d] = cpid[d]
                               /\ slot'[d] = slot[d] /\ cpc'[d] = cpc[d]
  BY <1>0, <1>1 DEF TypeOK, TipoCpu
<1>5. ~EnCiclo(c)' /\ Enviados(c)' = {}
  BY <1>2, <1>4 DEF EnCiclo, Enviados
<1>6. TablaDe(c)'
  BY <1>0, <1>1, <1>4, <1>5 DEF TablaDe, Manda, Vacia
<1>7. SegunTabla(c)'
  BY <1>0, <1>1, <1>4, <1>5 DEF SegunTabla
<1> QED BY <1>1, <1>2, <1>3, <1>4, <1>6, <1>7, CpuPaso

-----------------------------------------------------------------------------
(* Theorems.                                                               *)

\* A step that changes nothing.
LEMMA Tartamudeo ==
  ASSUME IInv, UNCHANGED vars
  PROVE  IInv'
<1>1. UNCHANGED <<colaVars, semCpu, tablaVars, pcbVars, pcpVars, hiloVars, relojes, canal,
                  vuelta, cpuVars>>
  BY DEF vars
<1>2. TypeOK'
  <2>1. TipoColas' /\ TipoTabla' /\ TipoPcb' /\ TipoPcp'
    BY <1>1 DEF IInv, TypeOK, TipoColas, TipoTabla, TipoPcb, TipoPcp
  <2>2. TipoHilos' /\ TipoRelojes' /\ TipoCanales' /\ TipoCpu'
    BY <1>1 DEF IInv, TypeOK, TipoHilos, TipoRelojes, TipoCanales, TipoCpu
  <2> QED BY <2>1, <2>2 DEF TypeOK
<1>3. Manos'
  BY <1>1 DEF IInv, Manos
<1>4. Tabla' /\ CpuSegunTabla'
  BY <1>1, CpusIguales DEF Manda
<1>5. Colas' /\ Lugares'
  BY <1>1, LugaresIguales DEF ManoPcp, Mano, Tiene
<1> QED BY <1>2, <1>3, <1>4, <1>5 DEF IInv

\* Every step of every thread keeps the invariant.
LEMMA Paso == IInv /\ [Next]_vars => IInv'
<1> SUFFICES ASSUME IInv, [Next]_vars PROVE IInv'
  OBVIOUS
<1>1. CASE Pcp
  BY <1>1, IPcpEsperas, IPcpElige, IPcpEnvia, IPcpFalla, IPcpManda, IPcpMarca DEF Pcp
<1>2. CASE \E k \in DOMAIN relojes : Reloj(k)
  BY <1>2, IReloj
<1>3. CASE \E h \in Hilos : Arriba(h)
  BY <1>3, IEncola, IVerifica, IInterrumpe DEF Arriba
<1>4. CASE \E e \in Externos, p \in Procs : Llega(e, p)
  BY <1>4, ILlega
<1>5. ASSUME NEW c \in Cpus, Receptor(c) PROVE IInv'
  BY <1>5, IRetira, IAvisa, IEntrega, IMemoria, IMemMal, ISuelta, IVuelve, IDevuelve, IMide,
     IDesconecta DEF Receptor
<1>6. ASSUME NEW c \in Cpus, Ciclo(c) PROVE IInv'
  BY <1>6, IToma, ICiclo, IRegresa DEF Ciclo
<1>7. ASSUME NEW c \in Cpus,
             Conecta(c) \/ CompactaInicio(c) \/ Escucha(c) \/ Instruccion(c) \/ Cae(c)
      PROVE  IInv'
  BY <1>7, IConecta, ICompacta, IEscucha, IRegresa, ICae
<1>8. CASE UNCHANGED vars
  BY <1>8, Tartamudeo
<1> QED BY <1>1, <1>2, <1>3, <1>4, <1>5, <1>6, <1>7, <1>8 DEF Next

\* The threads, the table and the CPUs agree in every state of the scheduler, for
\* any number of them: the invariant that the theorems below rest on.
THEOREM DespachoOrdenado == Spec => []IInv
  BY Inicio, Paso, PTL DEF Spec


\* The types of the state; no semaphore goes below zero and pid_a_ejecutar is
\* posted at most once before the CPU takes it (cpu_scheduler.c).
THEOREM TiposDelDespacho == Spec => []TypeOK
<1>1. IInv => TypeOK
  BY DEF IInv
<1> QED BY <1>1, DespachoOrdenado, PTL

\* A CPU has at most one process, the one its entry of the table names
\* (enviar_proceso_a_cpu, devolver_proceso_a_misma_cpu, retirar_proceso_de_cpu).
THEOREM LaCpuSigueLaTabla == Spec => []CpuSegunTabla
<1>1. IInv => CpuSegunTabla
  BY DEF IInv
<1> QED BY <1>1, DespachoOrdenado, PTL

\* The cardinality of a set with one element at most.
LEMMA CuentaUno ==
  ASSUME NEW S, \A x, y \in S : x = y
  PROVE  /\ S = {} => Cardinality(S) = 0
         /\ S # {} => Cardinality(S) = 1
<1>1. ASSUME S # {} PROVE Cardinality(S) = 1
  <2>1. PICK x \in S : TRUE
    BY <1>1
  <2>2. S = {x}
    BY <2>1
  <2> QED BY <2>2, FS_Singleton
<1> QED BY <1>1, FS_EmptySet

\* What the invariant says of the places is what UnSoloLugar counts.
LEMMA LugarContado ==
  ASSUME IInv
  PROVE  UnSoloLugar
<1> SUFFICES ASSUME NEW p \in Procs
             PROVE  /\ Veces(p) = 1
                    /\ \A n \in Nivel : Cardinality({i \in DOMAIN cola[n] : cola[n][i] = p}) <= 1
  BY DEF UnSoloLugar
<1>0. /\ cola \in [Nivel -> Seq(Procs)] /\ Colas /\ Lugar(p) /\ UnaTabla /\ UnaMano
  BY DEF IInv, TypeOK, TipoColas, Lugares
<1>1. \A n \in Nivel : Cardinality({i \in DOMAIN cola[n] : cola[n][i] = p}) <= 1
  <2> SUFFICES ASSUME NEW n \in Nivel
               PROVE  Cardinality({i \in DOMAIN cola[n] : cola[n][i] = p}) <= 1
    OBVIOUS
  <2>1. PICK S : S = {i \in DOMAIN cola[n] : cola[n][i] = p}
    OBVIOUS
  <2>2. DOMAIN cola[n] = 1 .. Len(cola[n])
    BY <1>0
  <2>3. ASSUME NEW i \in S, NEW j \in S PROVE i = j
    <3>1. i \in 1 .. Len(cola[n]) /\ j \in 1 .. Len(cola[n]) /\ cola[n][i] = cola[n][j]
      BY <2>1, <2>2
    <3> QED BY <1>0, <3>1 DEF Colas
  <2>4. Cardinality(S) = 0 \/ Cardinality(S) = 1
    BY <2>3, CuentaUno
  <2> QED BY <2>1, <2>4
<1>2. PICK A : A = {n \in Nivel : p \in Range(cola[n])}
  OBVIOUS
<1>3. (A # {} <=> EnCola(p)) /\ \A x, y \in A : x = y
  <2>1. ASSUME NEW n \in Nivel
        PROVE  p \in Range(cola[n]) <=> \E i \in 1 .. Len(cola[n]) : cola[n][i] = p
    <3>1. DOMAIN cola[n] = 1 .. Len(cola[n])
      BY <1>0
    <3> QED BY <3>1 DEF Range
  <2>2. ASSUME NEW n \in A PROVE Prioridad[p] = n
    <3>1. n \in Nivel /\ \E i \in 1 .. Len(cola[n]) : cola[n][i] = p
      BY <1>2, <2>1
    <3> QED BY <1>0, <3>1 DEF Colas
  <2>3. A # {} <=> EnCola(p)
    BY <1>2, <2>1 DEF EnCola
  <2> QED BY <2>2, <2>3
<1>4. PICK B : B = {c \in Cpus : actual[c] = p}
  OBVIOUS
<1>5. (B # {} <=> EnTabla(p)) /\ \A x, y \in B : x = y
  BY <1>0, <1>4 DEF EnTabla, UnaTabla
<1>6. PICK D : D = {h \in Hilos : Tiene(h) /\ hp[h] = p}
  OBVIOUS
<1>7. (D # {} <=> EnManos(p)) /\ \A x, y \in D : x = y
  <2>1. \A h \in Hilos : Tiene(h) /\ hp[h] = p <=> Mano(h) = p
    BY DEF Mano
  <2> QED BY <1>0, <1>6, <2>1 DEF EnManos, UnaMano
<1>8. /\ Cardinality(A) = IF EnCola(p) THEN 1 ELSE 0
      /\ Cardinality(B) = IF EnTabla(p) THEN 1 ELSE 0
      /\ Cardinality(D) = IF EnManos(p) THEN 1 ELSE 0
  BY <1>3, <1>5, <1>7, CuentaUno
<1>9. pcp = "envia" /\ pp = p <=> ManoPcp = p
  BY DEF ManoPcp
<1>10. Veces(p) = Cardinality(A) + Cardinality(B) + Cardinality(D)
                  + (IF ManoPcp = p THEN 1 ELSE 0)
                  + (IF p \in fuera THEN 1 ELSE 0) + (IF p \in liberado THEN 1 ELSE 0)
  BY <1>2, <1>4, <1>6, <1>9 DEF Veces
<1>11. Veces(p) = 1
  BY <1>0, <1>8, <1>10 DEF Lugar
<1> QED BY <1>1, <1>11

\* Every process is in exactly one place: no dispatch, return, eviction, memory
\* syscall or failed send loses a PCB or leaves it in two places.
THEOREM CadaProcesoEnSuLugar == Spec => []UnSoloLugar
  BY LugarContado, DespachoOrdenado, PTL


-----------------------------------------------------------------------------
(* The two semaphores.                                                     *)

\* A step that does not touch the dispatcher or sem_cpu_disponible, and whose
\* thread leaves a CPU free only on its way to the post.
LEMMA AvisoSigue ==
  ASSUME SinDespertarPerdido, pcp' = pcp, semCpu' = semCpu,
         \A c \in Cpus : Libre(c)' => \/ hpc'[c] = "avisa"
                                      \/ Libre(c) /\ hpc'[c] = hpc[c]
                                      \/ Libre(c) /\ hpc[c] # "avisa"
  PROVE  SinDespertarPerdido'
  BY DEF SinDespertarPerdido

\* The dispatcher goes to sleep after it saw no free CPU.
LEMMA AvisoPcp ==
  ASSUME IInv, SinDespertarPerdido, Pcp
  PROVE  SinDespertarPerdido'
<1>1. CASE PcpEspera \/ PcpSinCpu \/ PcpElige \/ PcpEnvia \/ PcpManda \/ PcpMarca \/ PcpCronometra
  <2>1. pcp' \notin {"sinCpu", "falla"}
    BY <1>1 DEF PcpEspera, PcpSinCpu, PcpElige, PcpEnvia, PcpManda, PcpMarca, PcpCronometra
  <2> QED BY <2>1 DEF SinDespertarPerdido
<1>2. CASE PcpMira \/ PcpFalla \/ PcpReintenta
  <2>1. pcp' \in {"sinCpu", "falla"} => ~HayCpuLibre
    BY <1>2 DEF PcpMira, PcpFalla, PcpReintenta
  <2>2. UNCHANGED <<disponible, conectada>>
    BY <1>2 DEF PcpMira, PcpFalla, PcpReintenta
  <2> QED BY <2>1, <2>2 DEF SinDespertarPerdido, HayCpuLibre, Libre
<1> QED BY <1>1, <1>2 DEF Pcp

\* A receptor frees its CPU, then posts.
LEMMA AvisoReceptor ==
  ASSUME IInv, SinDespertarPerdido, NEW c \in Cpus, Receptor(c) \/ Conecta(c) \/ CompactaInicio(c)
  PROVE  SinDespertarPerdido'
<1>0. /\ DOMAIN hpc = Hilos /\ c \in Hilos /\ semCpu \in 0 .. MaxSem
      /\ disponible \in [Cpus -> BOOLEAN] /\ conectada \in [Cpus -> BOOLEAN]
  BY DEF IInv, TypeOK, TipoHilos, TipoColas, TipoTabla, Hilos
<1>1. CASE Retira(c) \/ Suelta(c) \/ Conecta(c)
  <2>1. /\ pcp' = pcp /\ semCpu' = semCpu /\ hpc' = [hpc EXCEPT ![c] = "avisa"]
        /\ disponible' = [disponible EXCEPT ![c] = TRUE]
        /\ conectada' = conectada \/ conectada' = [conectada EXCEPT ![c] = TRUE]
    BY <1>1 DEF Retira, Suelta, Conecta
  <2>2. hpc'[c] = "avisa" /\ \A d \in Cpus \ {c} : hpc'[d] = hpc[d]
    BY <1>0, <2>1 DEF Hilos
  <2>3. \A d \in Cpus \ {c} : Libre(d)' => Libre(d)
    BY <1>0, <2>1 DEF Libre
  <2> QED BY <2>1, <2>2, <2>3, AvisoSigue
<1>2. CASE Avisa(c)
  <2>1. semCpu' > 0
    BY <1>0, <1>2 DEF Avisa, PostCpu
  <2> QED BY <2>1 DEF SinDespertarPerdido
<1>3. CASE \/ Reserva(c) \/ Fin(c) \/ Bloquea(c) \/ Frente(c) \/ CompactaFin(c) \/ MemBien(c)
           \/ MemMal(c) \/ Vuelve(c) \/ Devuelve(c) \/ Mide(c) \/ CompactaInicio(c)
  <2>1. /\ UNCHANGED <<pcp, semCpu, disponible, conectada>> /\ hpc[c] # "avisa"
        /\ \E x : hpc' = [hpc EXCEPT ![c] = x]
    <3>1. CASE \/ Reserva(c) \/ Fin(c) \/ Bloquea(c) \/ Frente(c) \/ CompactaFin(c) \/ MemBien(c)
      BY <3>1 DEF Reserva, Fin, Bloquea, Frente, CompactaFin, MemBien, EnPedido, Termina
    <3>2. CASE \/ MemMal(c) \/ Vuelve(c) \/ Devuelve(c) \/ Mide(c) \/ CompactaInicio(c)
      BY <3>2 DEF MemMal, Vuelve, Devuelve, Mide, CompactaInicio, EnPedido, Termina
    <3> QED BY <1>3, <3>1, <3>2
  <2>2. \A d \in Cpus \ {c} : hpc'[d] = hpc[d]
    BY <1>0, <2>1 DEF Hilos
  <2> QED BY <2>1, <2>2, AvisoSigue DEF Libre
<1>4. CASE Desconecta(c)
  <2>1. /\ UNCHANGED <<pcp, semCpu, disponible, hpc>>
        /\ conectada' = [conectada EXCEPT ![c] = FALSE]
    BY <1>4 DEF Desconecta
  <2>2. \A d \in Cpus : Libre(d)' => Libre(d)
    BY <1>0, <2>1 DEF Libre
  <2> QED BY <2>1, <2>2, AvisoSigue
<1> QED BY <1>1, <1>2, <1>3, <1>4 DEF Receptor

\* The other threads, the timers and the CPUs free no CPU and post nothing.
LEMMA AvisoOtros ==
  ASSUME IInv, SinDespertarPerdido,
         \/ \E k \in DOMAIN relojes : Reloj(k)
         \/ \E h \in Hilos : Arriba(h)
         \/ \E e \in Externos, p \in Procs : Llega(e, p)
         \/ \E c \in Cpus : Escucha(c) \/ Ciclo(c) \/ Instruccion(c) \/ Cae(c)
         \/ UNCHANGED vars
  PROVE  SinDespertarPerdido'
<1>0. DOMAIN hpc = Hilos
  BY DEF IInv, TypeOK, TipoHilos
<1>1. /\ UNCHANGED <<pcp, semCpu, disponible, conectada>>
      /\ \/ hpc' = hpc
         \/ \E h \in Hilos : \E x \in {"recibe", "verifica", "interrumpe", "encola"} :
              hpc' = [hpc EXCEPT ![h] = x] /\ hpc[h] # "avisa"
  <2>1. CASE \E k \in DOMAIN relojes : Reloj(k)
    BY <2>1 DEF Reloj, Vence, EnviaQuantum
  <2>2. CASE \E h \in Hilos : Arriba(h)
    <3>1. PICK h \in Hilos : Arriba(h)
      BY <2>2
    <3>2. CASE Encola(h)
      BY <3>2 DEF Encola, Termina
    <3>3. CASE Verifica(h)
      BY <3>3 DEF Verifica, Termina
    <3>4. CASE Interrumpe(h)
      BY <3>4 DEF Interrumpe, Termina
    <3> QED BY <3>1, <3>2, <3>3, <3>4 DEF Arriba
  <2>3. CASE \E e \in Externos, p \in Procs : Llega(e, p)
    BY <2>3 DEF Llega, Hilos
  <2>4. CASE \E c \in Cpus : Escucha(c) \/ Ciclo(c) \/ Instruccion(c) \/ Cae(c)
    BY <2>4 DEF Escucha, Ciclo, Toma, Contexto, Atiende, Interrumpida, Limpia, Instruccion, Regresa,
         Cae
  <2>5. CASE UNCHANGED vars
    BY <2>5 DEF vars
  <2> QED BY <2>1, <2>2, <2>3, <2>4, <2>5
<1>2. \A c \in Cpus : hpc'[c] = hpc[c] \/ hpc[c] # "avisa"
  <2>1. \A c \in Cpus : c \in Hilos
    BY DEF Hilos
  <2> QED BY <1>0, <1>1, <2>1
<1> QED BY <1>1, <1>2, AvisoSigue DEF Libre

\* The dispatcher does not sleep on sem_cpu_disponible with a free CPU, unless the
\* post is about to come: the check of hay_cpu_libre before the wait, and the order
\* "free, then post" of the receptors, lose no wake-up.
THEOREM NoSePierdeElDespertar == Spec => []SinDespertarPerdido
<1>1. Init => SinDespertarPerdido
  BY DEF Init, SinDespertarPerdido
<1>2. IInv /\ SinDespertarPerdido /\ [Next]_vars => SinDespertarPerdido'
  BY AvisoPcp, AvisoReceptor, AvisoOtros DEF Next
<1> QED BY <1>1, <1>2, DespachoOrdenado, PTL DEF Spec


\* The processes that sem_ready must cover.
Listos == {p \in Procs : EnCola(p)}

\* EnReady counts them.
LEMMA ListosContados ==
  ASSUME IInv
  PROVE  EnReady = Cardinality(Listos) /\ IsFiniteSet(Listos) /\ EnReady \in Nat
<1>1. \A n \in Nivel : DOMAIN cola[n] = 1 .. Len(cola[n])
  BY DEF IInv, TypeOK, TipoColas
<1>2. {p \in Procs : \E n \in Nivel : p \in Range(cola[n])} = Listos
  BY <1>1 DEF Listos, EnCola, Range
<1>3. Listos \in SUBSET Procs
  BY DEF Listos
<1>4. IsFiniteSet(Listos)
  BY <1>3, FS_Subset
<1> QED BY <1>2, <1>4, FS_CardinalityType DEF EnReady

\* The same, after a step.
LEMMA ListosDespues ==
  ASSUME IInv'
  PROVE  EnReady' = Cardinality(Listos') /\ EnReady' \in Nat
<1>1. \A n \in Nivel : DOMAIN cola'[n] = 1 .. Len(cola'[n])
  BY DEF IInv, TypeOK, TipoColas
<1>2. {p \in Procs : \E n \in Nivel : p \in Range(cola'[n])} = Listos'
  BY <1>1 DEF Listos, EnCola, Range
<1>3. Listos' \in SUBSET Procs
  BY DEF Listos
<1>4. IsFiniteSet(Listos')
  BY <1>3, FS_Subset
<1> QED BY <1>2, <1>4, FS_CardinalityType DEF EnReady

\* A process more, or one less, in the READY queues.
LEMMA ListosCambian ==
  ASSUME IInv, IInv', NEW p \in Procs
  PROVE  /\ (\A q \in Procs : EnCola(q)' <=> EnCola(q) \/ q = p) => EnReady' <= EnReady + 1
         /\ EnCola(p) /\ (\A q \in Procs : EnCola(q)' <=> EnCola(q) /\ q # p)
              => EnReady' = EnReady - 1
<1>1. EnReady = Cardinality(Listos) /\ IsFiniteSet(Listos) /\ EnReady \in Nat
  BY ListosContados
<1>2. EnReady' = Cardinality(Listos')
  BY ListosDespues
<1>3. ASSUME \A q \in Procs : EnCola(q)' <=> EnCola(q) \/ q = p
      PROVE  EnReady' <= EnReady + 1
  <2>1. Listos' = Listos \union {p}
    BY <1>3 DEF Listos
  <2>2. Cardinality(Listos \union {p}) \in {Cardinality(Listos), Cardinality(Listos) + 1}
    BY <1>1, FS_AddElement
  <2> QED BY <1>1, <1>2, <2>1, <2>2
<1>4. ASSUME EnCola(p), \A q \in Procs : EnCola(q)' <=> EnCola(q) /\ q # p
      PROVE  EnReady' = EnReady - 1
  <2>1. Listos' = Listos \ {p} /\ p \in Listos
    BY <1>4 DEF Listos
  <2> QED BY <1>1, <1>2, <2>1, FS_RemoveElement
<1> QED BY <1>3, <1>4

\* The dispatcher takes a wake-up for each process it takes, and gives it back when
\* it does not take one.
LEMMA SenalPcp ==
  ASSUME IInv, IInv', SenalPorListo, Pcp
  PROVE  SenalPorListo'
<1>0. EnReady \in Nat /\ EnReady' \in Nat /\ semReady \in Nat
  BY ListosContados, ListosDespues DEF IInv, TypeOK, TipoColas
<1>1. CASE PcpEspera \/ PcpMira
  <2>1. cola' = cola
    BY <1>1 DEF PcpEspera, PcpMira
  <2>2. EnReady' = EnReady
    BY <2>1 DEF EnReady
  <2>3. \/ pcp = "espera" /\ pcp' = "mira" /\ semReady' = semReady - 1
        \/ pcp = "mira" /\ pcp' = "elige" /\ semReady' = semReady
        \/ pcp = "mira" /\ pcp' = "sinCpu" /\ semReady' = semReady + 1
    BY <1>1 DEF PcpEspera, PcpMira
  <2> QED BY <1>0, <2>2, <2>3 DEF SenalPorListo
<1>2. CASE PcpSinCpu \/ PcpEnvia \/ PcpReintenta \/ PcpManda \/ PcpMarca \/ PcpCronometra
  <2>1. /\ cola' = cola /\ semReady' = semReady
        /\ pcp \notin {"mira", "elige"} /\ pcp' \notin {"mira", "elige"}
    BY <1>2 DEF PcpSinCpu, PcpEnvia, PcpReintenta, PcpManda, PcpMarca, PcpCronometra
  <2>2. EnReady' = EnReady
    BY <2>1 DEF EnReady
  <2> QED BY <2>1, <2>2 DEF SenalPorListo
<1>3. CASE PcpFalla
  <2>1. PICK p \in Procs : p = pp
    BY <1>3 DEF PcpFalla, IInv, Manos
  <2>2. ManoPcp = p /\ Lugar(p)
    BY <1>3, <2>1 DEF PcpFalla, ManoPcp, IInv, Lugares
  <2>3. \A q \in Procs : EnCola(q)' <=> EnCola(q) \/ q = p
    BY <1>3, <2>1, <2>2, Encolado DEF PcpFalla, Lugar
  <2>4. EnReady' <= EnReady + 1
    BY <2>3, ListosCambian
  <2>5. pcp = "envia" /\ pcp' = "falla" /\ semReady' = semReady + 2
    BY <1>3 DEF PcpFalla
  <2> QED BY <1>0, <2>4, <2>5 DEF SenalPorListo
<1>4. CASE PcpElige
  <2>1. CASE (\A n \in Nivel : cola[n] = <<>>) /\ cola' = cola
    <3>1. \A n \in Nivel : cola'[n] = <<>>
      BY <2>1
    <3>2. Listos' = {}
      BY <3>1 DEF Listos, EnCola
    <3>3. EnReady' = 0
      BY <3>2, ListosDespues, FS_EmptySet
    <3>4. semReady' = semReady /\ pcp' \in {"espera", "envia"}
      BY <1>4 DEF PcpElige
    <3> QED BY <1>0, <3>3, <3>4 DEF SenalPorListo
  <2>2. CASE \E n \in Nivel : cola[n] # <<>> /\ cola' = [cola EXCEPT ![n] = Tail(@)]
    <3>1. PICK n \in Nivel : cola[n] # <<>> /\ cola' = [cola EXCEPT ![n] = Tail(@)]
      BY <2>2
    <3>2. PICK p : p = Head(cola[n])
      OBVIOUS
    <3>3. p \in Procs /\ EnCola(p) /\ \A q \in Procs : EnCola(q)' <=> EnCola(q) /\ q # p
      BY <3>1, <3>2, Desencolado
    <3>4. EnReady' = EnReady - 1
      BY <3>3, ListosCambian
    <3>5. semReady' = semReady /\ pcp = "elige" /\ pcp' \in {"espera", "envia"}
      BY <1>4 DEF PcpElige
    <3> QED BY <1>0, <3>4, <3>5 DEF SenalPorListo
  <2> QED BY <1>4, <2>1, <2>2 DEF PcpElige
<1> QED BY <1>1, <1>2, <1>3, <1>4 DEF Pcp

\* A thread that queues a process posts sem_ready in the same critical section.
LEMMA SenalEncola ==
  ASSUME IInv, IInv', SenalPorListo, NEW h \in Hilos, Encola(h) \/ (h \in Cpus /\ Frente(h))
  PROVE  SenalPorListo'
<1>0. EnReady \in Nat /\ EnReady' \in Nat /\ semReady \in Nat
  BY ListosContados, ListosDespues DEF IInv, TypeOK, TipoColas
<1>1. /\ hpc[h] \in {"encola", "frente"} /\ (AlFinal(hp[h]) \/ AlInicio(hp[h]))
      /\ semReady' = semReady + 1 /\ pcp' = pcp
  BY DEF Encola, Frente
<1>2. PICK p \in Procs : p = hp[h]
  BY <1>1 DEF IInv, Manos
<1>3. EnManos(p) /\ Lugar(p)
  BY <1>1, <1>2 DEF EnManos, Mano, Tiene, IInv, Lugares
<1>4. \A q \in Procs : EnCola(q)' <=> EnCola(q) \/ q = p
  BY <1>1, <1>2, <1>3, Encolado DEF Lugar
<1>5. EnReady' <= EnReady + 1
  BY <1>4, ListosCambian
<1> QED BY <1>0, <1>1, <1>5 DEF SenalPorListo

\* The other steps queue nothing and consume no wake-up.
LEMMA SenalOtros ==
  ASSUME IInv, SenalPorListo,
         \/ \E k \in DOMAIN relojes : Reloj(k)
         \/ \E h \in Hilos : Verifica(h) \/ Interrumpe(h)
         \/ \E e \in Externos, p \in Procs : Llega(e, p)
         \/ \E c \in Cpus : Conecta(c) \/ (Receptor(c) /\ ~Frente(c)) \/ CompactaInicio(c)
         \/ \E c \in Cpus : Escucha(c) \/ Ciclo(c) \/ Instruccion(c) \/ Cae(c)
         \/ UNCHANGED vars
  PROVE  SenalPorListo'
<1>0. EnReady \in Nat /\ semReady \in Nat
  BY ListosContados DEF IInv, TypeOK, TipoColas
<1>1. cola' = cola /\ pcp' = pcp /\ (semReady' = semReady \/ semReady' = semReady + 1)
  <2>1. CASE \E k \in DOMAIN relojes : Reloj(k)
    BY <2>1 DEF Reloj, Vence, EnviaQuantum
  <2>2. CASE \E h \in Hilos : Verifica(h) \/ Interrumpe(h)
    BY <2>2 DEF Verifica, Interrumpe
  <2>3. CASE \E e \in Externos, p \in Procs : Llega(e, p)
    BY <2>3 DEF Llega
  <2>4. ASSUME NEW c \in Cpus, Conecta(c) \/ (Receptor(c) /\ ~Frente(c)) \/ CompactaInicio(c)
        PROVE  cola' = cola /\ pcp' = pcp /\ (semReady' = semReady \/ semReady' = semReady + 1)
    <3>1. CASE Conecta(c) \/ Retira(c) \/ Reserva(c) \/ Avisa(c) \/ Fin(c) \/ Bloquea(c)
      BY <3>1 DEF Conecta, Retira, Reserva, Avisa, Fin, Bloquea
    <3>2. CASE CompactaFin(c) \/ MemBien(c) \/ MemMal(c) \/ Suelta(c) \/ Vuelve(c)
      BY <3>2 DEF CompactaFin, MemBien, MemMal, Suelta, Vuelve
    <3>3. CASE Devuelve(c) \/ Mide(c) \/ Desconecta(c) \/ CompactaInicio(c)
      BY <3>3 DEF Devuelve, Mide, Desconecta, CompactaInicio
    <3> QED BY <2>4, <3>1, <3>2, <3>3 DEF Receptor
  <2>5. CASE \E c \in Cpus : Escucha(c) \/ Ciclo(c) \/ Instruccion(c) \/ Cae(c)
    BY <2>5 DEF Escucha, Ciclo, Toma, Contexto, Atiende, Interrumpida, Limpia, Instruccion, Regresa,
         Cae
  <2>6. CASE UNCHANGED vars
    BY <2>6 DEF vars
  <2> QED BY <2>1, <2>2, <2>3, <2>4, <2>5, <2>6
<1>2. EnReady' = EnReady
  BY <1>1 DEF EnReady
<1> QED BY <1>0, <1>1, <1>2 DEF SenalPorListo

\* sem_ready covers the READY queues: the dispatcher never sleeps on it with a
\* process queued, whatever posts it gave back or consumed.
THEOREM CadaListoTieneSenal == Spec => []SenalPorListo
<1>1. Init => SenalPorListo
  <2> SUFFICES ASSUME Init PROVE SenalPorListo
    OBVIOUS
  <2>1. IInv /\ semReady = 0 /\ pcp = "espera" /\ \A n \in Nivel : cola[n] = <<>>
    BY Inicio DEF Init
  <2>2. Listos = {}
    BY <2>1 DEF Listos, EnCola
  <2>3. EnReady = 0
    BY <2>1, <2>2, ListosContados, FS_EmptySet
  <2> QED BY <2>1, <2>3 DEF SenalPorListo
<1>2. IInv /\ IInv' /\ SenalPorListo /\ [Next]_vars => SenalPorListo'
  <2> SUFFICES ASSUME IInv, IInv', SenalPorListo, [Next]_vars PROVE SenalPorListo'
    OBVIOUS
  <2>1. CASE Pcp
    BY <2>1, SenalPcp
  <2>2. CASE \E h \in Hilos : Arriba(h)
    BY <2>2, SenalEncola, SenalOtros DEF Arriba
  <2>3. CASE \E c \in Cpus : Receptor(c)
    <3>1. PICK c \in Cpus : Receptor(c) /\ c \in Hilos
      BY <2>3 DEF Hilos
    <3> QED BY <3>1, SenalEncola, SenalOtros
  <2> QED BY <2>1, <2>2, <2>3, SenalOtros DEF Next
<1> QED BY <1>1, <1>2, DespachoOrdenado, PTL DEF Spec

=============================================================================
