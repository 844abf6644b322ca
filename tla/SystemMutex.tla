---------------------------- MODULE SystemMutex ----------------------------
(***************************************************************************)
(* The mutexes the scheduler offers to programs (MUTEX_CREATE, MUTEX_LOCK, *)
(* MUTEX_UNLOCK), what the end of a process does to them, and the          *)
(* inheritance of priorities between a waiter and the owner.               *)
(*                                                                         *)
(* Every CPU has a receptor thread in the scheduler, which handles the     *)
(* syscalls of that CPU one at a time, and every interface has a worker,   *)
(* which ends a process whose input cannot be written.  mutex_lista_mutexes*)
(* protects the list of mutexes while it is searched, extended or walked;  *)
(* the fields of a mutex are read and written without it, so each of those *)
(* accesses is a step of its own.  candado is the thread that holds        *)
(* mutex_lista_mutexes between two steps, which only the end of a process  *)
(* does.                                                                   *)
(*                                                                         *)
(* The dispatcher is reduced to what decides who runs next: the head of    *)
(* the first queue that is not empty goes to a free CPU (module Dispatch   *)
(* has its steps).  A process is READY exactly while it is in a queue.     *)
(***************************************************************************)
EXTENDS Naturals, Sequences, SequencesExt, FiniteSets

CONSTANTS
  Procs,        \* PIDs
  Cpus,         \* one receptor thread each
  Interfaces,   \* one worker thread each
  Nombres,      \* names of mutexes
  Niveles,      \* cantidad_niveles_prioridad
  Prioridad,    \* the static priority of each process: 0 is served first
  FallaIO,      \* may an interface end a process whose input does not fit?
  Nadie

ASSUME NivelesAssumption == Niveles \in Nat \ {0}
ASSUME PrioridadAssumption == Prioridad \in [Procs -> 0 .. Niveles - 1]
ASSUME NadieAssumption == Nadie \notin Procs \union Cpus \union Interfaces \union Nombres
ASSUME HilosAssumption == Cpus \intersect Interfaces = {}

VARIABLES
  lista,        \* lista_mutexes: in order of creation, never shortened
  dinamica,     \* prioridad_dinamica of every process
  esperando,    \* mutex_esperando: a position of lista, 0 for NULL
  colas,        \* colas_ready_por_prioridad
  nuevos,       \* processes not admitted yet
  cpu,          \* the process each CPU executes
  io,           \* processes blocked for I/O
  fin,          \* processes whose PCB was freed
  r,            \* what each thread is doing
  candado,      \* the thread inside liberar_mutexes_de_proceso
  posee         \* history: the names each program was granted and not asked to release

vars == <<lista, dinamica, esperando, colas, nuevos, cpu, io, fin, r, candado, posee>>

Hilos == Cpus \union Interfaces
Nivel == 0 .. Niveles - 1

\* Mutant: asignado_a_pid left at zero.
NuevoEnCero(n) == [nombre |-> n, dueno |-> 0, cola |-> <<>>]

\* t_mutex_sistema as MUTEX_CREATE leaves it.
Nuevo(n) == [nombre |-> n, dueno |-> Nadie, cola |-> <<>>]

Ocioso == [pc |-> "ocioso", p |-> Nadie, op |-> "-", n |-> Nadie,
           mut |-> 0, x |-> Nadie, val |-> 0]

Etapas == {"ocioso", "busca", "registra", "mira", "toma", "bloquea", "propaga",
           "comprueba", "cede", "despierta", "suelta", "recalcula", "aplica",
           "cierra", "libera", "termina", "encola", "frente"}

Init ==
  /\ lista = <<>>
  /\ dinamica = Prioridad
  /\ esperando = [p \in Procs |-> 0]
  /\ colas = [l \in Nivel |-> <<>>]
  /\ nuevos = Procs
  /\ cpu = [c \in Cpus |-> Nadie]
  /\ io = {}
  /\ fin = {}
  /\ r = [h \in Hilos |-> Ocioso]
  /\ candado = Nadie
  /\ posee = [p \in Procs |-> {}]

-----------------------------------------------------------------------------
(* Ready queues.                                                            *)

EnCola(s, p) == \E i \in DOMAIN s : s[i] = p

\* encolar_en_ready_y_notificar: at the end of the queue of the STATIC priority.
AlFinal(p) == colas' = [colas EXCEPT ![Prioridad[p]] = Append(@, p)]

\* reencolar_proceso_ready_inicio, for an evicted process.
AlInicio(p) == colas' = [colas EXCEPT ![Prioridad[p]] = <<p>> \o @]

\* reubicar_proceso_en_ready: moves p only if it is in the queue of the old
\* dynamic priority.
Reubica(p, antes, ahora) ==
  colas' = IF antes # ahora /\ EnCola(colas[antes], p)
           THEN [colas EXCEPT ![antes] = RemoveFirst(@, p), ![ahora] = Append(@, p)]
           ELSE colas

Admite(p) ==
  /\ p \in nuevos
  /\ nuevos' = nuevos \ {p}
  /\ AlFinal(p)
  /\ UNCHANGED <<lista, dinamica, esperando, cpu, io, fin, r, candado, posee>>

Despacha(c) ==
  /\ cpu[c] = Nadie
  /\ \E l \in Nivel :
       /\ colas[l] # <<>>
       /\ \A k \in Nivel : k < l => colas[k] = <<>>
       /\ cpu' = [cpu EXCEPT ![c] = Head(colas[l])]
       /\ colas' = [colas EXCEPT ![l] = Tail(@)]
  /\ UNCHANGED <<lista, dinamica, esperando, nuevos, io, fin, r, candado, posee>>

-----------------------------------------------------------------------------
(* A process comes back from its CPU: the receptor retires it and handles   *)
(* the reason.                                                              *)

Recibe(c, tarea) ==
  /\ cpu[c] # Nadie
  /\ r[c].pc = "ocioso"
  /\ cpu' = [cpu EXCEPT ![c] = Nadie]
  /\ r' = [r EXCEPT ![c] = tarea]
  /\ UNCHANGED <<lista, dinamica, esperando, colas, nuevos, fin, candado>>

\* Asking to release a mutex, whatever comes of it, ends the program's use of it.
Syscall(c, op, n) ==
  /\ Recibe(c, [Ocioso EXCEPT !.pc = "busca", !.p = cpu[c], !.op = op, !.n = n])
  /\ posee' = IF op = "UNLOCK" THEN [posee EXCEPT ![cpu[c]] = @ \ {n}] ELSE posee
  /\ UNCHANGED io

Sale(c) ==
  /\ Recibe(c, [Ocioso EXCEPT !.pc = "cierra", !.p = cpu[c], !.op = "EXIT"])
  /\ posee' = [posee EXCEPT ![cpu[c]] = {}]
  /\ UNCHANGED io

Quantum(c) ==
  Recibe(c, [Ocioso EXCEPT !.pc = "encola", !.p = cpu[c]]) /\ UNCHANGED <<io, posee>>

Desalojo(c) ==
  Recibe(c, [Ocioso EXCEPT !.pc = "frente", !.p = cpu[c]]) /\ UNCHANGED <<io, posee>>

PideIO(c) ==
  Recibe(c, Ocioso) /\ io' = io \union {cpu[c]} /\ UNCHANGED posee

\* The worker of an interface finishes a request of p.
Finaliza(w, p, tarea) ==
  /\ p \in io
  /\ r[w].pc = "ocioso"
  /\ io' = io \ {p}
  /\ r' = [r EXCEPT ![w] = tarea]
  /\ UNCHANGED <<lista, dinamica, esperando, colas, nuevos, cpu, fin, candado>>

VuelveIO(w, p) ==
  Finaliza(w, p, [Ocioso EXCEPT !.pc = "encola", !.p = p]) /\ UNCHANGED posee

\* finalizar_pcb_por_seg_fault.
FinPorIO(w, p) ==
  /\ FallaIO
  /\ Finaliza(w, p, [Ocioso EXCEPT !.pc = "cierra", !.p = p, !.op = "EXIT"])
  /\ posee' = [posee EXCEPT ![p] = {}]

-----------------------------------------------------------------------------
(* MUTEX_CREATE and the first part of the other two.                        *)

Posiciones(n) == {i \in DOMAIN lista : lista[i].nombre = n}

\* buscar_mutex_por_nombre: the oldest one of that name, 0 for NULL.
Buscar(n) ==
  IF Posiciones(n) = {} THEN 0
  ELSE CHOOSE i \in Posiciones(n) : \A j \in Posiciones(n) : i <= j

Paso(h, etapa) == r[h].pc = etapa
Pasa(h, etapa) == r' = [r EXCEPT ![h].pc = etapa]
Acaba(h) == r' = [r EXCEPT ![h] = Ocioso]

Busca(h) ==
  /\ Paso(h, "busca")
  /\ candado = Nadie
  /\ LET i == Buscar(r[h].n)
     IN  r' = [r EXCEPT
           ![h].mut = i,
           ![h].pc  = CASE r[h].op = "CREATE" -> IF i = 0 THEN "registra" ELSE "encola"
                        [] r[h].op = "LOCK"   -> IF i = 0 THEN "registra" ELSE "mira"
                        [] r[h].op = "UNLOCK" -> IF i = 0 THEN "encola" ELSE "comprueba"]
  /\ UNCHANGED <<lista, dinamica, esperando, colas, nuevos, cpu, io, fin, candado, posee>>

Registra(h) ==
  /\ Paso(h, "registra")
  /\ candado = Nadie
  /\ lista' = Append(lista, Nuevo(r[h].n))
  /\ r' = [r EXCEPT ![h].mut = Len(lista) + 1,
                    ![h].pc  = IF r[h].op = "CREATE" THEN "encola" ELSE "mira"]
  /\ UNCHANGED <<dinamica, esperando, colas, nuevos, cpu, io, fin, candado, posee>>

-----------------------------------------------------------------------------
(* MUTEX_LOCK.                                                              *)

\* Line 560: the test, without a lock; what follows it is another step.
Mira(h) ==
  /\ Paso(h, "mira")
  /\ Pasa(h, IF lista[r[h].mut].dueno = Nadie THEN "toma" ELSE "bloquea")
  /\ UNCHANGED <<lista, dinamica, esperando, colas, nuevos, cpu, io, fin, candado, posee>>

Toma(h) ==
  /\ Paso(h, "toma")
  /\ lista' = [lista EXCEPT ![r[h].mut].dueno = r[h].p]
  /\ posee' = [posee EXCEPT ![r[h].p] = @ \union {r[h].n}]
  /\ Pasa(h, "encola")
  /\ UNCHANGED <<dinamica, esperando, colas, nuevos, cpu, io, fin, candado>>

\* Mutant: the waiter is queued, and lock answers that it did not block.
BloqueaYEncola(h) ==
  /\ Paso(h, "bloquea")
  /\ esperando' = [esperando EXCEPT ![r[h].p] = r[h].mut]
  /\ lista' = [lista EXCEPT ![r[h].mut].cola = Append(@, r[h].p)]
  /\ Pasa(h, "encola")
  /\ UNCHANGED <<dinamica, colas, nuevos, cpu, io, fin, candado, posee>>

\* Mutant: the newest waiter goes first.
BloqueaDelante(h) ==
  /\ Paso(h, "bloquea")
  /\ esperando' = [esperando EXCEPT ![r[h].p] = r[h].mut]
  /\ lista' = [lista EXCEPT ![r[h].mut].cola = <<r[h].p>> \o @]
  /\ r' = [r EXCEPT ![h].pc = "propaga", ![h].x = r[h].p, ![h].val = dinamica[r[h].p]]
  /\ UNCHANGED <<dinamica, colas, nuevos, cpu, io, fin, candado, posee>>

\* The suspension timer that the code also starts finds nothing: it only looks
\* in cola_procesos_block (module Suspension).
Bloquea(h) ==
  /\ Paso(h, "bloquea")
  /\ esperando' = [esperando EXCEPT ![r[h].p] = r[h].mut]
  /\ lista' = [lista EXCEPT ![r[h].mut].cola = Append(@, r[h].p)]
  /\ r' = [r EXCEPT ![h].pc = "propaga", ![h].x = r[h].p, ![h].val = dinamica[r[h].p]]
  /\ UNCHANGED <<dinamica, colas, nuevos, cpu, io, fin, candado, posee>>

\* The tests of propagar_herencia_prioridad: x waits for a mutex whose owner has
\* less priority than valor.
Hereda(x, valor) ==
  /\ esperando[x] # 0
  /\ lista[esperando[x]].dueno \notin {Nadie} \union fin
  /\ valor < dinamica[lista[esperando[x]].dueno]

\* One call: the owner of the mutex x waits for inherits, and becomes the next x.
Propaga(h) ==
  /\ Paso(h, "propaga")
  /\ Hereda(r[h].x, r[h].val)
  /\ LET o == lista[esperando[r[h].x]].dueno
     IN  /\ dinamica' = [dinamica EXCEPT ![o] = r[h].val]
         /\ Reubica(o, dinamica[o], r[h].val)
         /\ r' = [r EXCEPT ![h].x = o]
  /\ UNCHANGED <<lista, esperando, nuevos, cpu, io, fin, candado, posee>>

PropagaFin(h) ==
  /\ Paso(h, "propaga")
  /\ ~ Hereda(r[h].x, r[h].val)
  /\ Acaba(h)
  /\ UNCHANGED <<lista, dinamica, esperando, colas, nuevos, cpu, io, fin, candado, posee>>

-----------------------------------------------------------------------------
(* MUTEX_UNLOCK.                                                            *)

Comprueba(h) ==
  /\ Paso(h, "comprueba")
  /\ LET m == lista[r[h].mut]
     IN  Pasa(h, IF m.dueno # r[h].p THEN "encola"
                 ELSE IF m.cola = <<>> THEN "suelta" ELSE "cede")
  /\ UNCHANGED <<lista, dinamica, esperando, colas, nuevos, cpu, io, fin, candado, posee>>

\* The mutex passes to the first waiter.  With an empty queue the code would
\* use a null pointer; a crashed scheduler takes no more steps.
Cede(h) ==
  /\ Paso(h, "cede") \/ /\ Paso(h, "libera")
                        /\ r[h].mut <= Len(lista)
                        /\ lista[r[h].mut].dueno = r[h].p
  /\ lista[r[h].mut].cola # <<>>
  /\ LET s == Head(lista[r[h].mut].cola)
     IN  /\ lista' = [lista EXCEPT ![r[h].mut].dueno = s, ![r[h].mut].cola = Tail(@)]
         /\ esperando' = [esperando EXCEPT ![s] = 0]
         /\ posee' = [posee EXCEPT ![s] = @ \union {lista[r[h].mut].nombre}]
         /\ r' = [r EXCEPT ![h].pc = "despierta", ![h].x = s]
  /\ UNCHANGED <<dinamica, colas, nuevos, cpu, io, fin, candado>>

Despierta(h) ==
  /\ Paso(h, "despierta")
  /\ AlFinal(r[h].x)
  /\ Pasa(h, "recalcula")
  /\ UNCHANGED <<lista, dinamica, esperando, nuevos, cpu, io, fin, candado, posee>>

Suelta(h) ==
  /\ Paso(h, "suelta")
  /\ lista' = [lista EXCEPT ![r[h].mut].dueno = Nadie]
  /\ r' = [r EXCEPT ![h].pc = "recalcula", ![h].x = r[h].p]
  /\ UNCHANGED <<dinamica, esperando, colas, nuevos, cpu, io, fin, candado, posee>>

\* The priorities a process is entitled to: its own and those of the waiters
\* of its mutexes.
Alcanza(p) ==
  {Prioridad[p]} \union
    {dinamica[q] : q \in {q \in Procs : \E i \in DOMAIN lista :
                            lista[i].dueno = p /\ EnCola(lista[i].cola, q)}}

Maxima(p) == CHOOSE v \in Alcanza(p) : \A u \in Alcanza(p) : v <= u

\* recalcular_prioridad_dinamica: the critical section; in the end of a process
\* its own thread holds the lock it asks for.
Recalcula(h) ==
  /\ Paso(h, "recalcula")
  /\ candado = Nadie
  /\ r' = [r EXCEPT ![h].pc = "aplica", ![h].val = Maxima(r[h].x)]
  /\ UNCHANGED <<lista, dinamica, esperando, colas, nuevos, cpu, io, fin, candado, posee>>

\* Mutant: the process that released the mutex keeps what it inherited.
AplicaUna(h) ==
  /\ Paso(h, "aplica")
  /\ dinamica' = [dinamica EXCEPT ![r[h].x] = r[h].val]
  /\ Reubica(r[h].x, dinamica[r[h].x], r[h].val)
  /\ Pasa(h, "encola")
  /\ UNCHANGED <<lista, esperando, nuevos, cpu, io, fin, candado, posee>>

\* The rest of recalcular_prioridad_dinamica; UNLOCK calls it for the process
\* that got the mutex and then for the one that released it.
Aplica(h) ==
  /\ Paso(h, "aplica")
  /\ LET x == r[h].x
     IN  /\ dinamica' = [dinamica EXCEPT ![x] = r[h].val]
         /\ Reubica(x, dinamica[x], r[h].val)
         /\ r' = [r EXCEPT ![h].pc = IF x = r[h].p THEN "encola" ELSE "recalcula",
                           ![h].x = r[h].p]
  /\ UNCHANGED <<lista, esperando, nuevos, cpu, io, fin, candado, posee>>

-----------------------------------------------------------------------------
(* The end of a process: liberar_mutexes_de_proceso, under the lock of the  *)
(* list, and then the PCB.  Cede is the case of a mutex with waiters.       *)

Cierra(h) ==
  /\ Paso(h, "cierra")
  /\ candado = Nadie
  /\ candado' = h
  /\ r' = [r EXCEPT ![h].pc = "libera", ![h].mut = 1]
  /\ UNCHANGED <<lista, dinamica, esperando, colas, nuevos, cpu, io, fin, posee>>

\* A queue rebuilt without p; as it was when p is not in it.
Sin(s, p) == IF EnCola(s, p) THEN Remove(s, p) ELSE s

Libera(h) ==
  /\ Paso(h, "libera")
  /\ r[h].mut <= Len(lista)
  /\ LET m == lista[r[h].mut]
     IN  \/ /\ m.dueno = r[h].p
            /\ m.cola = <<>>
            /\ lista' = [lista EXCEPT ![r[h].mut].dueno = Nadie]
         \/ /\ m.dueno # r[h].p
            /\ lista' = [lista EXCEPT ![r[h].mut].cola = Sin(@, r[h].p)]
  /\ r' = [r EXCEPT ![h].mut = @ + 1]
  /\ UNCHANGED <<dinamica, esperando, colas, nuevos, cpu, io, fin, candado, posee>>

\* Mutant: the lock is not given back.
LiberaFinSinSoltar(h) ==
  /\ Paso(h, "libera")
  /\ r[h].mut > Len(lista)
  /\ Pasa(h, "termina")
  /\ UNCHANGED <<lista, dinamica, esperando, colas, nuevos, cpu, io, fin, candado, posee>>

LiberaFin(h) ==
  /\ Paso(h, "libera")
  /\ r[h].mut > Len(lista)
  /\ candado' = Nadie
  /\ Pasa(h, "termina")
  /\ UNCHANGED <<lista, dinamica, esperando, colas, nuevos, cpu, io, fin, posee>>

Termina(h) ==
  /\ Paso(h, "termina")
  /\ fin' = fin \union {r[h].p}
  /\ Acaba(h)
  /\ UNCHANGED <<lista, dinamica, esperando, colas, nuevos, cpu, io, candado, posee>>

-----------------------------------------------------------------------------
(* Back to READY.                                                           *)

Encola(h) ==
  /\ Paso(h, "encola")
  /\ AlFinal(r[h].p)
  /\ Acaba(h)
  /\ UNCHANGED <<lista, dinamica, esperando, nuevos, cpu, io, fin, candado, posee>>

Frente(h) ==
  /\ Paso(h, "frente")
  /\ AlInicio(r[h].p)
  /\ Acaba(h)
  /\ UNCHANGED <<lista, dinamica, esperando, nuevos, cpu, io, fin, candado, posee>>

Hilo(h) ==
  \/ Busca(h) \/ Registra(h)
  \/ Mira(h) \/ Toma(h) \/ Bloquea(h) \/ Propaga(h) \/ PropagaFin(h)
  \/ Comprueba(h) \/ Cede(h) \/ Despierta(h) \/ Suelta(h)
  \/ Recalcula(h) \/ Aplica(h)
  \/ Cierra(h) \/ Libera(h) \/ LiberaFin(h) \/ Termina(h)
  \/ Encola(h) \/ Frente(h)

\* What a program does next is its own choice.
Programa(c) ==
  \/ \E op \in {"CREATE", "LOCK", "UNLOCK"}, n \in Nombres : Syscall(c, op, n)
  \/ Sale(c) \/ Quantum(c) \/ Desalojo(c) \/ PideIO(c)

Next ==
  \/ \E p \in Procs : Admite(p)
  \/ \E c \in Cpus : Despacha(c) \/ Programa(c)
  \/ \E w \in Interfaces, p \in Procs : VuelveIO(w, p) \/ FinPorIO(w, p)
  \/ \E h \in Hilos : Hilo(h)

\* The threads of the scheduler keep running; programs may do anything.
Fairness ==
  /\ \A h \in Hilos : WF_vars(Hilo(h))
  /\ \A c \in Cpus : WF_vars(Despacha(c))

Spec == Init /\ [][Next]_vars /\ Fairness
-----------------------------------------------------------------------------
(* Properties.                                                              *)

\* Every variable has its type; an owner is a PID or the -1 the code compares with.
TypeOK ==
  /\ lista \in Seq([nombre : Nombres, dueno : Procs \union {Nadie}, cola : Seq(Procs)])
  /\ dinamica \in [Procs -> Nivel]
  /\ esperando \in [Procs -> 0 .. Len(lista)]
  /\ colas \in [Nivel -> Seq(Procs)]
  /\ nuevos \subseteq Procs /\ io \subseteq Procs /\ fin \subseteq Procs
  /\ cpu \in [Cpus -> Procs \union {Nadie}]
  /\ r \in [Hilos -> [pc : Etapas, p : Procs \union {Nadie},
                      op : {"-", "CREATE", "LOCK", "UNLOCK", "EXIT"},
                      n : Nombres \union {Nadie}, mut : 0 .. Len(lista) + 1,
                      x : Procs \union {Nadie}, val : Nivel]]
  /\ candado \in Hilos \union {Nadie}
  /\ posee \in [Procs -> SUBSET Nombres]

\* Where process p is: one witness per place.
Lugares(p) ==
  {<<"nuevo">> : z \in {p} \intersect nuevos} \union
  {<<"fin">> : z \in {p} \intersect fin} \union
  {<<"io">> : z \in {p} \intersect io} \union
  {<<"cpu", c>> : c \in {c \in Cpus : cpu[c] = p}} \union
  {<<"hilo", h>> : h \in {h \in Hilos : r[h].p = p /\ r[h].pc # "propaga"}} \union
  {<<"despierta", h>> : h \in {h \in Hilos : r[h].x = p /\ r[h].pc = "despierta"}} \union
  (UNION {{<<"ready", l, i>> : i \in {i \in DOMAIN colas[l] : colas[l][i] = p}} : l \in Nivel}) \union
  (UNION {{<<"mutex", m, i>> : i \in {i \in DOMAIN lista[m].cola : lista[m].cola[i] = p}} : m \in DOMAIN lista})

\* A process is in exactly one place, with any number of receptors: the races on
\* the fields of a mutex may give it to two processes or strand a waiter, but
\* LOCK, UNLOCK and the end of a process never lose a PCB, queue it twice or wake
\* one that runs.
UnLugar == \A p \in Procs : Cardinality(Lugares(p)) = 1

\* Mutual exclusion, which asignado_a_pid ("PID del proceso poseedor") promises:
\* no two programs were told they have the same mutex.  This is not what the code
\* does with two CPUs: the owner is tested at line 560 and written at line 561
\* without a lock, so two receptors may both find the mutex free.
Exclusion == \A p, q \in Procs : p # q => posee[p] \intersect posee[q] = {}

\* A process waits in the queue of the mutex that mutex_esperando names and in no
\* other, and that mutex has an owner who will hand it over: nobody sleeps for a
\* free mutex.  This is not what the code does with two CPUs: LOCK finds the owner
\* in one step and queues the waiter in another, and the owner may see the queue
\* empty and release in between.
EsperaConDueno ==
  \A p \in Procs :
    /\ \A m \in DOMAIN lista : EnCola(lista[m].cola, p) <=> esperando[p] = m
    /\ esperando[p] # 0 => lista[esperando[p]].dueno # Nadie

Quieto == \A h \in Hilos : r[h].pc = "ocioso"

\* Between syscalls the dynamic priority of every process is the best of its own
\* and those of the processes that wait for its mutexes, along chains of waiters
\* and cycles too: what LOCK propagates step by step and UNLOCK recalculates for
\* two processes only agrees with the definition for all of them.
HerenciaExacta == Quieto => \A p \in Procs \ fin : dinamica[p] = Maxima(p)

\* If every program releases its mutexes again and again, every waiter gets the
\* mutex it waits for: the queue of a mutex is served in order and no hand-over
\* is lost.
EsperaTermina ==
  (\A p \in Procs : []<>(posee[p] = {})) =>
     \A p \in Procs : (esperando[p] # 0) ~> (esperando[p] = 0)

\* A process that ends while nobody waits for its mutexes is freed, and leaves
\* mutex_lista_mutexes unlocked for the next one.  (With a waiter it is not:
\* liberar_mutexes_de_proceso then calls recalcular_prioridad_dinamica, which
\* asks for the lock its own thread holds.)
FinSinEspera ==
  \A h \in Hilos, p \in Procs :
    (/\ Paso(h, "cierra") /\ r[h].p = p
     /\ \A m \in DOMAIN lista : lista[m].dueno = p => lista[m].cola = <<>>)
       ~> (p \in fin)
=============================================================================
