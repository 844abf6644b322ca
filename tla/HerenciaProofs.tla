--------------------------- MODULE HerenciaProofs ---------------------------
(***************************************************************************)
(* The mutexes of SystemMutex with one CPU and interfaces that end nobody: *)
(* for any number of processes, mutexes and levels priorities are          *)
(* inherited exactly.  (With two CPUs a mutex may have two holders, and a  *)
(* waiter no owner to inherit to: Exclusion and EsperaConDueno fail.)      *)
(*                                                                         *)
(* To what MutexProofs says of the places of a PCB, JInv adds what a       *)
(* single receptor may rely on: what it read of a mutex in one step still  *)
(* holds in the next (Turno), and from there the names, the owners and the *)
(* waiters agree (Tenencia, EsperaConDueno) and every process has the      *)
(* priority it is entitled to but the one or two the current syscall has   *)
(* still to visit (Herencia).                                              *)
(*                                                                         *)
(* Inheritance is argued on a graph: Duenos[p] is the owner of the mutex p *)
(* waits for.  LOCK adds an edge, UNLOCK takes one out and turns others to *)
(* the new owner, and no other step changes it.                            *)
(***************************************************************************)
EXTENDS MutexProofs

-----------------------------------------------------------------------------
(* With one receptor and no worker that ends a process.                     *)

UnaCpu == ~ FallaIO /\ \E c \in Cpus : Cpus = {c}

\* What a thread in state t read of a mutex still holds.
Vigente(t) ==
  /\ t.pc = "registra" => \A m \in 1 .. Len(lista) : lista[m].nombre # t.n
  /\ t.pc = "toma" => lista[t.mut].dueno = Nadie
  /\ t.pc = "bloquea" => lista[t.mut].dueno # Nadie
  /\ t.pc \in {"cede", "suelta"} => lista[t.mut].dueno = t.p
  /\ t.pc = "suelta" => lista[t.mut].cola = <<>>
  /\ t.pc = "busca" /\ t.op = "UNLOCK" => t.n \notin posee[t.p]
  /\ t.pc \in {"comprueba", "cede", "suelta"} => t.n \notin posee[t.p]
  /\ t.pc \in {"cierra", "libera"} => posee[t.p] = {}

Turno ==
  /\ \A w \in Interfaces : r[w].pc \in {"ocioso", "encola"}
  /\ \A c \in Cpus : Vigente(r[c])

\* Names are unique, and who was granted a name owns the mutex of that name.
NombresUnicos == \A m, k \in 1 .. Len(lista) : lista[m].nombre = lista[k].nombre => m = k

Tenencia ==
  \A p \in Procs : \A n \in posee[p] :
    \E m \in 1 .. Len(lista) : lista[m].nombre = n /\ lista[m].dueno = p

\* The owner of the mutex each process waits for.
Duenos == [p \in Procs |-> IF esperando[p] = 0 THEN Nadie ELSE lista[esperando[p]].dueno]

\* v is the best of the priority of q and those of the processes that wait for it,
\* with the dynamic priorities d and the owners D.
Justo(d, D, q, v) ==
  /\ v <= Prioridad[q]
  /\ \A p \in Procs : D[p] = q => v <= d[p]
  /\ v = Prioridad[q] \/ \E p \in Procs : D[p] = q /\ d[p] = v

\* The processes whose priority a thread in state t has still to visit.
Pendientes(t, D) ==
  CASE t.pc = "propaga" -> {D[t.x]}
    [] t.pc \in {"despierta", "recalcula", "aplica"} -> {t.x, t.p}
    [] OTHER -> {}

\* What a thread in state t has done and still has to do to the priorities d.
Hereditario(t, d, D, muertos) ==
  /\ \A q \in Procs \ (muertos \union Pendientes(t, D)) : Justo(d, D, q, d[q])
  /\ t.pc = "propaga" =>
       /\ t.val = d[t.x]
       /\ D[t.x] \in Procs \ muertos =>
            \/ Justo(d, D, D[t.x], d[D[t.x]])
            \/ t.val < d[D[t.x]] /\ Justo(d, D, D[t.x], t.val)
  /\ t.pc \in {"despierta", "recalcula", "aplica"} => D[t.x] = Nadie /\ D[t.p] = Nadie
  /\ t.pc = "aplica" => Justo(d, D, t.x, t.val)

Herencia == \A c \in Cpus : Hereditario(r[c], dinamica, Duenos, fin)

JInv == IInv /\ Turno /\ NombresUnicos /\ Tenencia /\ EsperaConDueno /\ Herencia

-----------------------------------------------------------------------------
(* Priorities on the graph of owners.  Here d and D are any functions.     *)

\* A process is entitled to the same while the same processes wait for it with the
\* same priorities.
LEMMA JustoIgual ==
  ASSUME NEW d, NEW D, NEW e, NEW E, NEW q, NEW v, Justo(d, D, q, v),
         \A p \in Procs : (E[p] = q <=> D[p] = q) /\ (D[p] = q => e[p] = d[p])
  PROVE  Justo(e, E, q, v)
BY DEF Justo

Tranquilo(t) == t.pc \notin {"propaga", "despierta", "recalcula", "aplica"}

\* Outside LOCK and UNLOCK every live process is entitled to what it has.
LEMMA TranquiloTodos ==
  ASSUME NEW t, NEW d, NEW D, NEW F, Tranquilo(t)
  PROVE  Hereditario(t, d, D, F) <=> \A q \in Procs \ F : Justo(d, D, q, d[q])
BY DEF Hereditario, Pendientes, Tranquilo

\* LOCK queues x behind the mutex of o: only o may have to inherit.
LEMMA HeredaBloquea ==
  ASSUME NEW t, NEW u, NEW d \in [Procs -> Nat], NEW D, NEW E, NEW F, NEW x \in Procs, NEW o,
         Prioridad \in [Procs -> Nat], Tranquilo(t), Hereditario(t, d, D, F),
         D[x] = Nadie, E[x] = o, \A p \in Procs \ {x} : E[p] = D[p],
         u.pc = "propaga", u.x = x, u.val = d[x]
  PROVE  Hereditario(u, d, E, F)
<1>1. \A q \in Procs \ F : Justo(d, D, q, d[q])
  BY TranquiloTodos
<1>2. Pendientes(u, E) = {o}
  BY DEF Pendientes
<1>3. ASSUME NEW q \in Procs \ (F \union {o}) PROVE Justo(d, E, q, d[q])
  <2>1. \A p \in Procs : (E[p] = q <=> D[p] = q) /\ (D[p] = q => d[p] = d[p])
    BY NadieAssumption
  <2>2. Justo(d, D, q, d[q])
    BY <1>1
  <2> QED BY <2>1, <2>2, JustoIgual
<1>4. ASSUME o \in Procs \ F
      PROVE  Justo(d, E, o, d[o]) \/ (d[x] < d[o] /\ Justo(d, E, o, d[x]))
  <2>1. Justo(d, D, o, d[o]) /\ d[o] \in Nat /\ d[x] \in Nat /\ Prioridad[o] \in Nat
    BY <1>1, <1>4
  <2>2. \A p \in Procs : d[p] \in Nat
    OBVIOUS
  <2>3. \A p \in Procs : E[p] = o <=> D[p] = o \/ p = x
    OBVIOUS
  <2>4. o # Nadie
    BY <1>4, NadieAssumption
  <2>5. CASE d[x] < d[o]
    BY <2>1, <2>2, <2>3, <2>4, <2>5 DEF Justo
  <2>6. CASE d[o] <= d[x]
    BY <2>1, <2>2, <2>3, <2>4, <2>6 DEF Justo
  <2> QED BY <2>1, <2>5, <2>6
<1> QED BY <1>2, <1>3, <1>4 DEF Hereditario

\* One call of propagar_herencia_prioridad: o inherits, and only the owner of the
\* mutex o waits for may have to inherit next, o itself in a cycle of one.
LEMMA HeredaPropaga ==
  ASSUME NEW t, NEW u, NEW d \in [Procs -> Nat], NEW e \in [Procs -> Nat], NEW D, NEW F,
         NEW x \in Procs, NEW o \in Procs \ F,
         Prioridad \in [Procs -> Nat], Hereditario(t, d, D, F),
         t.pc = "propaga", t.x = x, D[x] = o, t.val < d[o],
         e[o] = t.val, \A p \in Procs \ {o} : e[p] = d[p],
         u.pc = "propaga", u.x = o, u.val = t.val
  PROVE  Hereditario(u, e, D, F)
<1>1. t.val = d[x] /\ t.val \in Nat /\ d[o] \in Nat
  BY DEF Hereditario
<1>2. Justo(d, D, o, t.val)
  <2>1. ~ Justo(d, D, o, d[o])
    BY <1>1 DEF Justo
  <2> QED BY <2>1 DEF Hereditario
<1>3. \A q \in Procs \ F : q # o => Justo(d, D, q, d[q])
  BY DEF Hereditario, Pendientes
<1>4. Pendientes(u, D) = {D[o]}
  BY DEF Pendientes
<1>5. Justo(e, D, o, t.val)
  <2>1. \A p \in Procs : d[p] \in Nat /\ e[p] \in Nat
    OBVIOUS
  <2> QED BY <1>1, <1>2, <2>1 DEF Justo
<1>6. ASSUME NEW q \in Procs \ (F \union {D[o]}) PROVE Justo(e, D, q, e[q])
  <2>1. CASE q = o
    BY <1>5, <2>1
  <2>2. CASE q # o
    <3>1. \A p \in Procs : (D[p] = q <=> D[p] = q) /\ (D[p] = q => e[p] = d[p])
      BY <2>2
    <3>2. Justo(d, D, q, d[q]) /\ e[q] = d[q]
      BY <1>3, <2>2
    <3>3. Justo(e, D, q, d[q])
      BY <3>1, <3>2, JustoIgual
    <3> QED BY <3>2, <3>3
  <2> QED BY <2>1, <2>2
<1>7. ASSUME D[o] \in Procs \ F
      PROVE  Justo(e, D, D[o], e[D[o]]) \/ (t.val < e[D[o]] /\ Justo(e, D, D[o], t.val))
  <2>1. PICK q \in Procs \ F : q = D[o]
    BY <1>7
  <2>2. CASE q = o
    BY <1>5, <2>1, <2>2
  <2>3. CASE q # o
    <3>1. Justo(d, D, q, d[q]) /\ e[q] = d[q] /\ d[q] \in Nat /\ Prioridad[q] \in Nat
      BY <1>3, <2>3
    <3>2. \A p \in Procs : d[p] \in Nat /\ (p # o => e[p] = d[p])
      OBVIOUS
    <3>3. CASE t.val < d[q]
      BY <1>1, <2>1, <3>1, <3>2, <3>3 DEF Justo
    <3>4. CASE d[q] <= t.val
      BY <1>1, <2>1, <3>1, <3>2, <3>4 DEF Justo
    <3> QED BY <1>1, <2>1, <3>1, <3>3, <3>4
  <2> QED BY <2>2, <2>3
<1> QED BY <1>4, <1>6, <1>7 DEF Hereditario

\* The end of the chain: nobody is left to inherit.
LEMMA HeredaFin ==
  ASSUME NEW t, NEW u, NEW d \in [Procs -> Nat], NEW D, NEW F, Hereditario(t, d, D, F),
         t.pc = "propaga", t.x \in Procs, Tranquilo(u),
         D[t.x] \notin Procs \/ D[t.x] \in F \/ ~ (t.val < d[D[t.x]])
  PROVE  Hereditario(u, d, D, F)
<1>1. ASSUME NEW q \in Procs \ F PROVE Justo(d, D, q, d[q])
  <2>1. CASE q = D[t.x]
    BY <2>1 DEF Hereditario
  <2>2. CASE q # D[t.x]
    BY <2>2 DEF Hereditario, Pendientes
  <2> QED BY <2>1, <2>2
<1> QED BY <1>1, TranquiloTodos

\* UNLOCK hands a mutex of p to s: nobody but s and p gains or loses a waiter.
LEMMA HeredaCede ==
  ASSUME NEW t, NEW u, NEW d \in [Procs -> Nat], NEW D, NEW E, NEW F, NEW s \in Procs, NEW p \in Procs,
         Tranquilo(t), Hereditario(t, d, D, F),
         E[s] = Nadie, E[p] = Nadie, D[s] = p,
         \A q \in Procs \ {s} : E[q] = D[q] \/ (D[q] = p /\ E[q] = s),
         u.pc = "despierta", u.x = s, u.p = p
  PROVE  Hereditario(u, d, E, F)
<1>1. \A q \in Procs \ F : Justo(d, D, q, d[q])
  BY TranquiloTodos
<1>2. Pendientes(u, E) = {s, p}
  BY DEF Pendientes
<1>3. ASSUME NEW q \in Procs \ (F \union {s, p}) PROVE Justo(d, E, q, d[q])
  <2>1. \A z \in Procs : (E[z] = q <=> D[z] = q) /\ (D[z] = q => d[z] = d[z])
    BY NadieAssumption
  <2>2. Justo(d, D, q, d[q])
    BY <1>1
  <2> QED BY <2>1, <2>2, JustoIgual
<1> QED BY <1>2, <1>3 DEF Hereditario

\* UNLOCK frees a mutex nobody waits for: only p is to be recalculated.
LEMMA HeredaSuelta ==
  ASSUME NEW t, NEW u, NEW d, NEW D, NEW F, NEW p \in Procs,
         Tranquilo(t), Hereditario(t, d, D, F), D[p] = Nadie,
         u.pc = "recalcula", u.x = p, u.p = p
  PROVE  Hereditario(u, d, D, F)
<1>1. \A q \in Procs \ F : Justo(d, D, q, d[q])
  BY TranquiloTodos
<1> QED BY <1>1 DEF Hereditario

\* The waiter is woken, or its priority calculated: the same two are to be visited.
LEMMA HeredaSigue ==
  ASSUME NEW t, NEW u, NEW d, NEW D, NEW F, Hereditario(t, d, D, F), u.x = t.x, u.p = t.p,
         \/ t.pc = "despierta" /\ u.pc = "recalcula"
         \/ t.pc = "recalcula" /\ u.pc = "aplica" /\ Justo(d, D, u.x, u.val)
  PROVE  Hereditario(u, d, D, F)
<1>1. Pendientes(u, D) = {t.x, t.p} /\ Pendientes(t, D) = {t.x, t.p}
  BY DEF Pendientes
<1> QED BY <1>1 DEF Hereditario

\* The priority of x is written; p, who released the mutex, is the last.
LEMMA HeredaAplica ==
  ASSUME NEW t, NEW u, NEW d \in [Procs -> Nat], NEW e \in [Procs -> Nat], NEW D, NEW F,
         NEW x \in Procs, NEW p \in Procs, Hereditario(t, d, D, F),
         t.pc = "aplica", t.x = x, t.p = p,
         e[x] = t.val, \A q \in Procs \ {x} : e[q] = d[q],
         u.pc = (IF x = p THEN "encola" ELSE "recalcula"), u.x = p, u.p = p
  PROVE  Hereditario(u, e, D, F)
<1>1. D[x] = Nadie /\ D[p] = Nadie /\ Justo(d, D, x, t.val)
  BY DEF Hereditario
<1>2. ASSUME NEW q \in Procs, NEW v, Justo(d, D, q, v) PROVE Justo(e, D, q, v)
  <2>1. \A z \in Procs : (D[z] = q <=> D[z] = q) /\ (D[z] = q => e[z] = d[z])
    BY <1>1, NadieAssumption
  <2> QED BY <1>2, <2>1, JustoIgual
<1>3. Pendientes(t, D) = {x, p}
  BY DEF Pendientes
<1>4. ASSUME NEW q \in Procs \ F, q = p => x = p PROVE Justo(e, D, q, e[q])
  <2>1. CASE q = x
    BY <1>1, <1>2, <2>1
  <2>2. CASE q # x
    <3>1. Justo(d, D, q, d[q]) /\ e[q] = d[q]
      BY <1>3, <1>4, <2>2 DEF Hereditario
    <3>2. Justo(e, D, q, d[q])
      BY <1>2, <3>1
    <3> QED BY <3>1, <3>2
  <2> QED BY <2>1, <2>2
<1>5. Pendientes(u, D) = IF x = p THEN {} ELSE {p}
  BY DEF Pendientes
<1> QED BY <1>1, <1>4, <1>5 DEF Hereditario

-----------------------------------------------------------------------------
(* The parts of the invariant.                                             *)

\* Constants and positions as the arithmetic of the proofs wants them.
LEMMA Basicos ==
  ASSUME IInv
  PROVE  /\ Prioridad \in [Procs -> Nat] /\ dinamica \in [Procs -> Nat]
         /\ Len(lista) \in Nat /\ DOMAIN lista = 1 .. Len(lista)
         /\ esperando \in [Procs -> 0 .. Len(lista)]
         /\ \A m \in 1 .. Len(lista) : lista[m] \in Mutexes
<1>1. TypeOK /\ TipoLista /\ TipoEspera
  BY TipoPorPartes DEF IInv
<1>2. Nivel \subseteq Nat
  BY NivelesAssumption DEF Nivel
<1>3. Prioridad \in [Procs -> Nivel]
  BY PrioridadAssumption DEF Nivel
<1>4. dinamica \in [Procs -> Nivel]
  BY <1>1 DEF TypeOK
<1>5. \A f \in [Procs -> Nivel] : f \in [Procs -> Nat]
  BY <1>2
<1>6. Len(lista) \in Nat /\ DOMAIN lista = 1 .. Len(lista) /\ \A m \in 1 .. Len(lista) : lista[m] \in Mutexes
  BY <1>1 DEF TipoLista
<1> QED BY <1>1, <1>3, <1>4, <1>5, <1>6 DEF TipoEspera

\* One thread of a CPU moves, and what it knows holds.
LEMMA TurnoHilo ==
  ASSUME UnaCpu, Turno, NEW c \in Cpus, \A k \in Hilos \ {c} : r'[k] = r[k], Vigente(r[c])'
  PROVE  Turno'
<1>1. Cpus = {c}
  BY DEF UnaCpu
<1>2. \A w \in Interfaces : r'[w] = r[w]
  BY HilosAssumption DEF Hilos
<1>3. \A w \in Interfaces : r'[w].pc \in {"ocioso", "encola"}
  BY <1>2 DEF Turno
<1> QED BY <1>1, <1>3 DEF Turno

\* The priorities, seen from the only thread that works on them.
LEMMA HerenciaHilo ==
  ASSUME UnaCpu, NEW c \in Cpus, NEW t, NEW d, NEW D, NEW F, Hereditario(t, d, D, F),
         r'[c] = t, dinamica' = d, Duenos' = D, fin' = F
  PROVE  Herencia'
<1>1. Cpus = {c}
  BY DEF UnaCpu
<1>2. Hereditario(r'[c], dinamica', Duenos', fin')
  OBVIOUS
<1>3. Hereditario(r[c], dinamica, Duenos, fin)'
  BY <1>2 DEF Hereditario, Justo, Pendientes
<1> QED BY <1>1, <1>3 DEF Herencia

\* A process in the hands of a thread waits for nobody.
LEMMA SinEspera ==
  ASSUME IInv, EsperaConDueno, NEW h \in Hilos, NEW p \in Procs, EnMano(r[h]) = p
  PROVE  esperando[p] = 0 /\ Duenos[p] = Nadie
<1>1. \A m \in 1 .. Len(lista) : ~ EnCola(lista[m].cola, p)
  BY EnManoSolo
<1>2. esperando[p] \in 0 .. Len(lista) /\ DOMAIN lista = 1 .. Len(lista) /\ Len(lista) \in Nat
  BY Basicos
<1>3. esperando[p] = 0
  BY <1>1, <1>2 DEF EsperaConDueno
<1> QED BY <1>3 DEF Duenos

\* The graph of owners is the same when nobody's mutex changes hands.
LEMMA DuenosIgual ==
  ASSUME esperando' = esperando,
         \A p \in Procs : esperando[p] # 0 => lista'[esperando[p]].dueno = lista[esperando[p]].dueno
  PROVE  Duenos' = Duenos
BY DEF Duenos

\* Exacta: what JInv says of a process is the definition of HerenciaExacta.
LEMMA JustoMaxima ==
  ASSUME IInv, EsperaConDueno, NEW q \in Procs
  PROVE  \A v \in Nat : Justo(dinamica, Duenos, q, v) <=> v = Maxima(q)
<1>1. /\ Prioridad[q] \in Nat /\ \A p \in Procs : dinamica[p] \in Nat
      /\ DOMAIN lista = 1 .. Len(lista) /\ Len(lista) \in Nat
      /\ \A p \in Procs : esperando[p] \in 0 .. Len(lista)
  BY Basicos
<1>2. ASSUME NEW p \in Procs
      PROVE  (\E i \in DOMAIN lista : lista[i].dueno = q /\ EnCola(lista[i].cola, p)) <=> Duenos[p] = q
  <2>1. \A m \in DOMAIN lista : EnCola(lista[m].cola, p) <=> esperando[p] = m
    BY DEF EsperaConDueno
  <2>2. q # Nadie
    BY NadieAssumption
  <2>3. esperando[p] \in DOMAIN lista <=> esperando[p] # 0
    BY <1>1
  <2> QED BY <2>1, <2>2, <2>3 DEF Duenos
<1>3. Alcanza(q) = {Prioridad[q]} \union {dinamica[p] : p \in {p \in Procs : Duenos[p] = q}}
  BY <1>2 DEF Alcanza
<1>4. /\ Alcanza(q) \subseteq Nat /\ Maxima(q) \in Alcanza(q) /\ \A u \in Alcanza(q) : Maxima(q) <= u
  <2>1. Alcanza(q) \subseteq Nat
    BY <1>1, <1>3
  <2> QED BY <2>1, MaximaTipo DEF IInv
<1>5. ASSUME NEW v \in Nat
      PROVE  Justo(dinamica, Duenos, q, v) <=> v \in Alcanza(q) /\ \A u \in Alcanza(q) : v <= u
  BY <1>1, <1>3 DEF Justo
<1>6. \A v \in Nat : (v \in Alcanza(q) /\ \A u \in Alcanza(q) : v <= u) <=> v = Maxima(q)
  BY <1>4
<1> QED BY <1>5, <1>6

-----------------------------------------------------------------------------
(* Steps that leave the mutexes and the priorities alone.                   *)

\* The list, the waiters and the owners stay.
LEMMA ListaQuieta ==
  ASSUME JInv, UNCHANGED <<lista, esperando>>
  PROVE  NombresUnicos' /\ EsperaConDueno' /\ Duenos' = Duenos
<1>1. NombresUnicos'
  BY DEF JInv, NombresUnicos
<1>2. EsperaConDueno'
  BY DEF JInv, EsperaConDueno, EnCola
<1>3. Duenos' = Duenos
  BY DuenosIgual
<1> QED BY <1>1, <1>2, <1>3

\* A program gives up some of the names it was granted.
LEMMA TenenciaMengua ==
  ASSUME JInv, lista' = lista, \A p \in Procs : posee'[p] \subseteq posee[p]
  PROVE  Tenencia'
BY DEF JInv, Tenencia

\* A step of the dispatcher, of a creator of processes or of an interface.
LEMMA Ajeno ==
  ASSUME UnaCpu, JInv, IInv', \A c \in Cpus : r'[c] = r[c],
         \A w \in Interfaces : r'[w].pc \in {"ocioso", "encola"},
         UNCHANGED <<lista, dinamica, esperando, posee, fin>>
  PROVE  JInv'
<1>1. NombresUnicos' /\ EsperaConDueno' /\ Duenos' = Duenos
  BY ListaQuieta
<1>2. Tenencia'
  BY TenenciaMengua
<1>3. ASSUME NEW c \in Cpus PROVE Vigente(r[c])'
  <2>1. Vigente(r[c]) /\ r'[c] = r[c]
    BY DEF JInv, Turno
  <2> QED BY <2>1 DEF Vigente
<1>4. Turno'
  BY <1>3 DEF Turno
<1>5. PICK c \in Cpus : Cpus = {c}
  BY DEF UnaCpu
<1>6. Hereditario(r[c], dinamica, Duenos, fin)
  BY <1>5 DEF JInv, Herencia
<1>7. Herencia'
  BY <1>1, <1>5, <1>6, HerenciaHilo
<1> QED BY <1>1, <1>2, <1>4, <1>7 DEF JInv

\* A step of the receptor that leaves the list and the priorities.
LEMMA SoloElHilo ==
  ASSUME UnaCpu, JInv, IInv', NEW c \in Cpus, \A k \in Hilos \ {c} : r'[k] = r[k],
         Vigente(r[c])', Hereditario(r'[c], dinamica, Duenos, fin'),
         \A p \in Procs : posee'[p] \subseteq posee[p],
         UNCHANGED <<lista, dinamica, esperando>>
  PROVE  JInv'
<1>1. NombresUnicos' /\ EsperaConDueno' /\ Duenos' = Duenos
  BY ListaQuieta
<1>2. Tenencia'
  BY TenenciaMengua
<1>3. Turno'
  BY TurnoHilo DEF JInv
<1>4. Herencia'
  BY <1>1, HerenciaHilo
<1> QED BY <1>1, <1>2, <1>3, <1>4 DEF JInv

\* The same, between two stages in which no priority is being changed.
LEMMA PasoTranquilo ==
  ASSUME UnaCpu, JInv, IInv', NEW c \in Cpus, \A k \in Hilos \ {c} : r'[k] = r[k],
         Vigente(r[c])', Tranquilo(r[c]), Tranquilo(r'[c]), fin \subseteq fin',
         \A p \in Procs : posee'[p] \subseteq posee[p],
         UNCHANGED <<lista, dinamica, esperando>>
  PROVE  JInv'
<1>1. Hereditario(r[c], dinamica, Duenos, fin)
  BY DEF JInv, Herencia
<1>2. \A q \in Procs \ fin : Justo(dinamica, Duenos, q, dinamica[q])
  BY <1>1, TranquiloTodos
<1>3. \A q \in Procs \ fin' : Justo(dinamica, Duenos, q, dinamica[q])
  BY <1>2
<1>4. Hereditario(r'[c], dinamica, Duenos, fin')
  BY <1>3, TranquiloTodos
<1> QED BY <1>4, SoloElHilo

\* The dispatcher and admission.
LEMMA JDespacho ==
  ASSUME UnaCpu, JInv, IInv',
         \/ \E p \in Procs : Admite(p)
         \/ \E c \in Cpus : Despacha(c)
  PROVE  JInv'
<1>1. UNCHANGED <<r, lista, dinamica, esperando, posee, fin>>
  BY DEF Admite, Despacha
<1>2. \A w \in Interfaces : r'[w].pc \in {"ocioso", "encola"}
  BY <1>1 DEF JInv, Turno
<1> QED BY <1>1, <1>2, Ajeno

\* A worker takes a process out of its queue of I/O.
LEMMA JVuelve ==
  ASSUME UnaCpu, JInv, IInv', NEW w \in Interfaces, NEW p \in Procs, VuelveIO(w, p)
  PROVE  JInv'
<1>1. /\ r' = [r EXCEPT ![w] = [Ocioso EXCEPT !.pc = "encola", !.p = p]]
      /\ UNCHANGED <<lista, dinamica, esperando, posee, fin>>
  BY DEF VuelveIO, Finaliza
<1>2. r \in [Hilos -> Registro(Len(lista))] /\ w \in Hilos
  BY UnHilo DEF JInv, TipoHilos, Hilos
<1>3. \A c \in Cpus : r'[c] = r[c]
  BY <1>1, <1>2, HilosAssumption DEF Hilos
<1>4. ASSUME NEW k \in Interfaces PROVE r'[k].pc \in {"ocioso", "encola"}
  <2>1. r'[k] = IF k = w THEN [Ocioso EXCEPT !.pc = "encola", !.p = p] ELSE r[k]
    BY <1>1, <1>2 DEF Hilos
  <2>2. [Ocioso EXCEPT !.pc = "encola", !.p = p].pc = "encola"
    BY DEF Ocioso
  <2> QED BY <2>1, <2>2 DEF JInv, Turno
<1> QED BY <1>1, <1>3, <1>4, Ajeno

\* A worker queues it.
LEMMA JDevuelve ==
  ASSUME UnaCpu, JInv, IInv', NEW w \in Interfaces, Hilo(w)
  PROVE  JInv'
<1>1. r[w].pc \in {"ocioso", "encola"}
  BY DEF JInv, Turno
<1>2. Encola(w)
  BY <1>1 DEF Hilo, Paso, Busca, Registra, Mira, Toma, Bloquea, Propaga, PropagaFin, Comprueba,
              Cede, Despierta, Suelta, Recalcula, Aplica, Cierra, Libera, LiberaFin, Termina, Frente
<1>3. r' = [r EXCEPT ![w] = Ocioso] /\ UNCHANGED <<lista, dinamica, esperando, posee, fin>>
  BY <1>2 DEF Encola, Acaba
<1>4. r \in [Hilos -> Registro(Len(lista))] /\ w \in Hilos
  BY UnHilo DEF JInv, TipoHilos, Hilos
<1>5. \A c \in Cpus : r'[c] = r[c]
  BY <1>3, <1>4, HilosAssumption DEF Hilos
<1>6. ASSUME NEW k \in Interfaces PROVE r'[k].pc \in {"ocioso", "encola"}
  <2>1. r'[k] = IF k = w THEN Ocioso ELSE r[k]
    BY <1>3, <1>4 DEF Hilos
  <2> QED BY <2>1 DEF JInv, Turno, Ocioso
<1> QED BY <1>3, <1>5, <1>6, Ajeno

-----------------------------------------------------------------------------
(* Steps of the receptor outside LOCK and UNLOCK.                           *)

\* The record of a thread after a step that writes all of it.
LEMMA HiloNuevo ==
  ASSUME IInv, NEW c \in Cpus, NEW t, r' = [r EXCEPT ![c] = t]
  PROVE  r'[c] = t /\ \A k \in Hilos \ {c} : r'[k] = r[k]
<1>1. r \in [Hilos -> Registro(Len(lista))] /\ c \in Hilos
  BY UnHilo DEF TipoHilos, Hilos
<1> QED BY <1>1

\* The record of a thread after a step that writes its stage.
LEMMA HiloPasa ==
  ASSUME IInv, NEW c \in Cpus, NEW e, Pasa(c, e)
  PROVE  /\ r'[c].pc = e /\ r'[c].p = r[c].p /\ r'[c].n = r[c].n /\ r'[c].op = r[c].op
         /\ r'[c].mut = r[c].mut /\ r'[c].x = r[c].x /\ r'[c].val = r[c].val
         /\ \A k \in Hilos \ {c} : r'[k] = r[k]
<1>1. r[c] \in Registro(Len(lista))
  BY UnHilo DEF Hilos
<1>2. r' = [r EXCEPT ![c] = [r[c] EXCEPT !.pc = e]]
  BY DEF Pasa
<1>3. r'[c] = [r[c] EXCEPT !.pc = e] /\ \A k \in Hilos \ {c} : r'[k] = r[k]
  BY <1>2, HiloNuevo
<1> QED BY <1>1, <1>3 DEF Registro

\* A process comes back from the CPU.
LEMMA JRecibe ==
  ASSUME UnaCpu, JInv, IInv', NEW c \in Cpus, NEW t, Recibe(c, t), Tranquilo(t), Vigente(r[c])',
         \A p \in Procs : posee'[p] \subseteq posee[p]
  PROVE  JInv'
<1>1. r[c].pc = "ocioso" /\ r' = [r EXCEPT ![c] = t] /\ UNCHANGED <<lista, dinamica, esperando, fin>>
  BY DEF Recibe
<1>2. r'[c] = t /\ \A k \in Hilos \ {c} : r'[k] = r[k]
  BY <1>1, HiloNuevo DEF JInv
<1>3. Tranquilo(r[c]) /\ Tranquilo(r'[c])
  BY <1>1, <1>2 DEF Tranquilo
<1> QED BY <1>1, <1>2, <1>3, PasoTranquilo

\* What a program asks for.
LEMMA JPrograma ==
  ASSUME UnaCpu, JInv, IInv', NEW c \in Cpus, Programa(c)
  PROVE  JInv'
<1>1. posee \in [Procs -> SUBSET Nombres] /\ cpu \in [Cpus -> Procs \union {Nadie}]
  BY TipoPorPartes DEF JInv, IInv, TipoPosee, TipoCpu
<1>2. ASSUME NEW op \in {"CREATE", "LOCK", "UNLOCK"}, NEW n \in Nombres, Syscall(c, op, n)
      PROVE  JInv'
  <2>0. PICK t : t = [Ocioso EXCEPT !.pc = "busca", !.p = cpu[c], !.op = op, !.n = n]
    OBVIOUS
  <2>1. t.pc = "busca" /\ t.p = cpu[c] /\ t.op = op /\ t.n = n
    BY <2>0 DEF Ocioso
  <2>2. Recibe(c, t) /\ posee' = IF op = "UNLOCK" THEN [posee EXCEPT ![cpu[c]] = @ \ {n}] ELSE posee
    BY <1>2, <2>0 DEF Syscall
  <2>3. r'[c] = t
    BY <2>2, HiloNuevo DEF Recibe, JInv
  <2>4. cpu[c] \in Procs
    BY <1>1, <2>2 DEF Recibe
  <2>5. Vigente(r[c])'
    BY <1>1, <2>1, <2>2, <2>3, <2>4 DEF Vigente
  <2>6. \A p \in Procs : posee'[p] \subseteq posee[p]
    BY <1>1, <2>2, <2>4
  <2>7. Tranquilo(t)
    BY <2>1 DEF Tranquilo
  <2> QED BY <2>2, <2>5, <2>6, <2>7, JRecibe
<1>3. ASSUME Sale(c) PROVE JInv'
  <2>0. PICK t : t = [Ocioso EXCEPT !.pc = "cierra", !.p = cpu[c], !.op = "EXIT"]
    OBVIOUS
  <2>1. t.pc = "cierra" /\ t.p = cpu[c]
    BY <2>0 DEF Ocioso
  <2>2. Recibe(c, t) /\ posee' = [posee EXCEPT ![cpu[c]] = {}]
    BY <1>3, <2>0 DEF Sale
  <2>3. r'[c] = t
    BY <2>2, HiloNuevo DEF Recibe, JInv
  <2>4. cpu[c] \in Procs
    BY <1>1, <2>2 DEF Recibe
  <2>5. Vigente(r[c])'
    BY <1>1, <2>1, <2>2, <2>3, <2>4 DEF Vigente
  <2>6. \A p \in Procs : posee'[p] \subseteq posee[p]
    BY <1>1, <2>2, <2>4
  <2>7. Tranquilo(t)
    BY <2>1 DEF Tranquilo
  <2> QED BY <2>2, <2>5, <2>6, <2>7, JRecibe
<1>4. ASSUME Quantum(c) \/ Desalojo(c) \/ PideIO(c) PROVE JInv'
  <2>1. PICK t : /\ t.pc \in {"encola", "frente", "ocioso"}
                 /\ Recibe(c, t) /\ posee' = posee
    <3>1. PICK u : u = [Ocioso EXCEPT !.pc = "encola", !.p = cpu[c]]
      OBVIOUS
    <3>2. PICK v : v = [Ocioso EXCEPT !.pc = "frente", !.p = cpu[c]]
      OBVIOUS
    <3>3. u.pc = "encola" /\ v.pc = "frente" /\ Ocioso.pc = "ocioso"
      BY <3>1, <3>2 DEF Ocioso
    <3>4. CASE Quantum(c)
      <4>1. Recibe(c, u) /\ posee' = posee
        BY <3>1, <3>4 DEF Quantum
      <4> QED BY <3>3, <4>1
    <3>5. CASE Desalojo(c)
      <4>1. Recibe(c, v) /\ posee' = posee
        BY <3>2, <3>5 DEF Desalojo
      <4> QED BY <3>3, <4>1
    <3>6. CASE PideIO(c)
      BY <3>3, <3>6 DEF PideIO
    <3> QED BY <1>4, <3>4, <3>5, <3>6
  <2>2. r'[c] = t
    BY <2>1, HiloNuevo DEF Recibe, JInv
  <2>3. Vigente(r[c])'
    BY <2>1, <2>2 DEF Vigente
  <2>4. Tranquilo(t)
    BY <2>1 DEF Tranquilo
  <2> QED BY <2>1, <2>3, <2>4, JRecibe
<1> QED BY <1>2, <1>3, <1>4 DEF Programa

\* What the receptor knows when it works.
LEMMA DelReceptor ==
  ASSUME JInv, NEW c \in Cpus
  PROVE  /\ c \in Hilos /\ Vigente(r[c]) /\ Hereditario(r[c], dinamica, Duenos, fin)
         /\ r[c] \in Registro(Len(lista)) /\ Etapa(c) /\ TipoLista /\ TipoPosee
         /\ r[c].pc # "ocioso" => r[c].p \in Procs
<1>1. c \in Hilos
  BY DEF Hilos
<1>2. r[c] \in Registro(Len(lista)) /\ Etapa(c) /\ TipoLista /\ TipoPosee
  BY <1>1, UnHilo DEF JInv
<1>3. r[c].pc # "ocioso" => r[c].p \in Procs
  BY <1>2 DEF Etapa, Registro
<1> QED BY <1>1, <1>2, <1>3 DEF JInv, Turno, Herencia

\* The search for the mutex.
LEMMA JBusca ==
  ASSUME UnaCpu, JInv, IInv', NEW c \in Cpus, Busca(c)
  PROVE  JInv'
<1>1. /\ Vigente(r[c]) /\ r[c] \in Registro(Len(lista)) /\ Etapa(c) /\ TipoLista
  BY DelReceptor
<1>2. r[c].pc = "busca" /\ UNCHANGED <<lista, dinamica, esperando, posee, fin>>
  BY DEF Busca, Paso
<1>3. r[c].op \in {"CREATE", "LOCK", "UNLOCK"}
  BY <1>1, <1>2 DEF Etapa
<1>4. PICK i : i = Buscar(r[c].n)
  OBVIOUS
<1>5. PICK e : e = CASE r[c].op = "CREATE" -> IF i = 0 THEN "registra" ELSE "encola"
                     [] r[c].op = "LOCK"   -> IF i = 0 THEN "registra" ELSE "mira"
                     [] r[c].op = "UNLOCK" -> IF i = 0 THEN "encola" ELSE "comprueba"
  OBVIOUS
<1>6. /\ e \in {"registra", "encola", "mira", "comprueba"}
      /\ e = "registra" => i = 0
      /\ e = "comprueba" => r[c].op = "UNLOCK"
  BY <1>3, <1>5
<1>7. r' = [r EXCEPT ![c] = [r[c] EXCEPT !.mut = i, !.pc = e]]
  <2>1. TipoHilos /\ c \in Hilos
    BY UnHilo DEF JInv, Hilos
  <2>2. r' = [r EXCEPT ![c].mut = i, ![c].pc = e]
    BY <1>4, <1>5, Zenon DEF Busca
  <2> QED BY <1>1, <2>1, <2>2 DEF Registro, TipoHilos
<1>8. /\ r'[c] = [r[c] EXCEPT !.mut = i, !.pc = e] /\ \A k \in Hilos \ {c} : r'[k] = r[k]
  BY <1>7, HiloNuevo DEF JInv
<1>9. r'[c].pc = e /\ r'[c].p = r[c].p /\ r'[c].n = r[c].n
  BY <1>1, <1>8 DEF Registro
<1>10. e = "registra" => \A m \in 1 .. Len(lista) : lista[m].nombre # r[c].n
  BY <1>1, <1>4, <1>6, BuscarTipo
<1>11. e = "comprueba" => r[c].n \notin posee[r[c].p]
  BY <1>1, <1>2, <1>6 DEF Vigente
<1>12. Vigente(r[c])'
  BY <1>2, <1>6, <1>9, <1>10, <1>11 DEF Vigente
<1>13. Tranquilo(r[c]) /\ Tranquilo(r'[c])
  BY <1>2, <1>6, <1>9 DEF Tranquilo
<1> QED BY <1>2, <1>8, <1>12, <1>13, PasoTranquilo

\* The steps that only change the stage of the thread.
LEMMA JPasa ==
  ASSUME UnaCpu, JInv, IInv', NEW c \in Cpus, NEW e, Pasa(c, e), Vigente(r[c])',
         Tranquilo(r[c]), e \notin {"propaga", "despierta", "recalcula", "aplica"},
         UNCHANGED <<lista, dinamica, esperando, posee, fin>>
  PROVE  JInv'
<1>1. r'[c].pc = e /\ \A k \in Hilos \ {c} : r'[k] = r[k]
  BY HiloPasa DEF JInv
<1>2. Tranquilo(r'[c])
  BY <1>1 DEF Tranquilo
<1> QED BY <1>1, <1>2, PasoTranquilo

\* The tests of LOCK and of UNLOCK, and the end of the walk of a process that ends.
LEMMA JMira ==
  ASSUME UnaCpu, JInv, IInv', NEW c \in Cpus, Mira(c) \/ Comprueba(c) \/ LiberaFin(c)
  PROVE  JInv'
<1>1. Vigente(r[c])
  BY DelReceptor
<1>2. CASE Mira(c)
  <2>1. PICK e : /\ e = IF lista[r[c].mut].dueno = Nadie THEN "toma" ELSE "bloquea"
    OBVIOUS
  <2>2. Pasa(c, e) /\ r[c].pc = "mira" /\ UNCHANGED <<lista, dinamica, esperando, posee, fin>>
    BY <1>2, <2>1 DEF Mira, Paso
  <2>3. r'[c].pc = e /\ r'[c].mut = r[c].mut
    BY <2>2, HiloPasa DEF JInv
  <2>4. Vigente(r[c])'
    BY <2>1, <2>2, <2>3 DEF Vigente
  <2>5. Tranquilo(r[c]) /\ e \notin {"propaga", "despierta", "recalcula", "aplica"}
    BY <2>1, <2>2 DEF Tranquilo
  <2> QED BY <2>2, <2>4, <2>5, JPasa
<1>3. CASE Comprueba(c)
  <2>1. PICK e : e = IF lista[r[c].mut].dueno # r[c].p THEN "encola"
                     ELSE IF lista[r[c].mut].cola = <<>> THEN "suelta" ELSE "cede"
    OBVIOUS
  <2>2. Pasa(c, e) /\ r[c].pc = "comprueba" /\ UNCHANGED <<lista, dinamica, esperando, posee, fin>>
    BY <1>3, <2>1 DEF Comprueba, Paso
  <2>3. r'[c].pc = e /\ r'[c].mut = r[c].mut /\ r'[c].p = r[c].p /\ r'[c].n = r[c].n
    BY <2>2, HiloPasa DEF JInv
  <2>4. r[c].n \notin posee[r[c].p]
    BY <1>1, <2>2 DEF Vigente
  <2>5. Vigente(r[c])'
    BY <2>1, <2>2, <2>3, <2>4 DEF Vigente
  <2>6. Tranquilo(r[c]) /\ e \notin {"propaga", "despierta", "recalcula", "aplica"}
    BY <2>1, <2>2 DEF Tranquilo
  <2> QED BY <2>2, <2>5, <2>6, JPasa
<1>4. CASE LiberaFin(c)
  <2>1. Pasa(c, "termina") /\ r[c].pc = "libera" /\ UNCHANGED <<lista, dinamica, esperando, posee, fin>>
    BY <1>4 DEF LiberaFin, Paso
  <2>2. r'[c].pc = "termina"
    BY <2>1, HiloPasa DEF JInv
  <2>3. Vigente(r[c])'
    BY <2>2 DEF Vigente
  <2>4. Tranquilo(r[c])
    BY <2>1 DEF Tranquilo
  <2> QED BY <2>1, <2>3, <2>4, JPasa
<1> QED BY <1>2, <1>3, <1>4

\* A process starts to end.
LEMMA JCierra ==
  ASSUME UnaCpu, JInv, IInv', NEW c \in Cpus, Cierra(c)
  PROVE  JInv'
<1>1. Vigente(r[c]) /\ r[c] \in Registro(Len(lista))
  BY DelReceptor
<1>2. /\ r[c].pc = "cierra" /\ UNCHANGED <<lista, dinamica, esperando, posee, fin>>
      /\ r' = [r EXCEPT ![c] = [r[c] EXCEPT !.pc = "libera", !.mut = 1]]
  BY DEF Cierra, Paso
<1>3. /\ r'[c] = [r[c] EXCEPT !.pc = "libera", !.mut = 1] /\ \A k \in Hilos \ {c} : r'[k] = r[k]
  BY <1>2, HiloNuevo DEF JInv
<1>4. r'[c].pc = "libera" /\ r'[c].p = r[c].p
  BY <1>1, <1>3 DEF Registro
<1>5. Vigente(r[c])'
  BY <1>1, <1>2, <1>4 DEF Vigente
<1>6. Tranquilo(r[c]) /\ Tranquilo(r'[c])
  BY <1>2, <1>4 DEF Tranquilo
<1> QED BY <1>2, <1>3, <1>5, <1>6, PasoTranquilo

\* The receptor is done with its process.
LEMMA JAcaba ==
  ASSUME UnaCpu, JInv, IInv', NEW c \in Cpus, Termina(c) \/ Encola(c) \/ Frente(c)
  PROVE  JInv'
<1>1. /\ r[c].pc \in {"termina", "encola", "frente"} /\ fin \subseteq fin'
      /\ UNCHANGED <<lista, dinamica, esperando, posee>>
      /\ r' = [r EXCEPT ![c] = Ocioso]
  BY DEF Termina, Encola, Frente, Paso, Acaba
<1>2. r'[c] = Ocioso /\ \A k \in Hilos \ {c} : r'[k] = r[k]
  BY <1>1, HiloNuevo DEF JInv
<1>3. r'[c].pc = "ocioso"
  BY <1>2 DEF Ocioso
<1>4. Vigente(r[c])'
  BY <1>3 DEF Vigente
<1>5. Tranquilo(r[c]) /\ Tranquilo(r'[c])
  BY <1>1, <1>3 DEF Tranquilo
<1> QED BY <1>1, <1>2, <1>4, <1>5, PasoTranquilo

-----------------------------------------------------------------------------
(* Steps on the priorities.                                                 *)

\* One process inherits.
LEMMA JPropaga ==
  ASSUME UnaCpu, JInv, IInv', NEW c \in Cpus, Propaga(c)
  PROVE  JInv'
<1>1. c \in Hilos /\ r[c] \in Registro(Len(lista)) /\ Hereditario(r[c], dinamica, Duenos, fin)
  BY DelReceptor
<1>2. PICK x \in Procs : /\ x = r[c].x /\ r[c].pc = "propaga" /\ esperando[x] \in 1 .. Len(lista)
                         /\ lista[esperando[x]].dueno \in Procs \ fin
  BY <1>1, PropagaA DEF JInv
<1>3. PICK o \in Procs \ fin : o = lista[esperando[x]].dueno
  BY <1>2
<1>4. esperando[x] # 0
  BY <1>2
<1>5. Duenos[x] = o
  BY <1>3, <1>4 DEF Duenos
<1>6. /\ r[c].val < dinamica[o]
      /\ dinamica' = [dinamica EXCEPT ![o] = r[c].val]
      /\ r' = [r EXCEPT ![c] = [r[c] EXCEPT !.x = o]]
      /\ UNCHANGED <<lista, esperando, posee, fin>>
  BY <1>2, <1>3 DEF Propaga, Hereda
<1>7. PICK u : u = r'[c] /\ u = [r[c] EXCEPT !.x = o]
  BY <1>6, HiloNuevo DEF JInv
<1>8. u.pc = "propaga" /\ u.x = o /\ u.val = r[c].val
  BY <1>1, <1>2, <1>7 DEF Registro
<1>9. \A k \in Hilos \ {c} : r'[k] = r[k]
  BY <1>6, HiloNuevo DEF JInv
<1>10. /\ Prioridad \in [Procs -> Nat] /\ dinamica \in [Procs -> Nat]
       /\ dinamica' \in [Procs -> Nat]
  <2>1. dinamica' \in [Procs -> Nivel] /\ Nivel \subseteq Nat
    BY NivelesAssumption DEF IInv, TypeOK, Nivel
  <2> QED BY <2>1, Basicos DEF JInv
<1>11. PICK e \in [Procs -> Nat] : /\ e = dinamica' /\ e[o] = r[c].val
                                   /\ \A p \in Procs \ {o} : e[p] = dinamica[p]
  BY <1>6, <1>10
<1>12. Hereditario(u, e, Duenos, fin)
  <2>0. PICK d \in [Procs -> Nat] : d = dinamica
    BY <1>10
  <2>1. PICK t, D, F : t = r[c] /\ D = Duenos /\ F = fin
    OBVIOUS
  <2>2. /\ Prioridad \in [Procs -> Nat] /\ Hereditario(t, d, D, F) /\ o \in Procs \ F
        /\ t.pc = "propaga" /\ t.x = x /\ D[x] = o /\ t.val < d[o]
        /\ e[o] = t.val /\ \A p \in Procs \ {o} : e[p] = d[p]
        /\ u.pc = "propaga" /\ u.x = o /\ u.val = t.val
    BY <1>1, <1>2, <1>5, <1>6, <1>8, <1>10, <1>11, <2>0, <2>1
  <2>3. Hereditario(u, e, D, F)
    BY <2>2, HeredaPropaga
  <2> QED BY <2>1, <2>3
<1>13. NombresUnicos' /\ EsperaConDueno' /\ Duenos' = Duenos
  BY <1>6, ListaQuieta
<1>14. Tenencia'
  BY <1>6, TenenciaMengua
<1>15. Vigente(r[c])'
  BY <1>7, <1>8 DEF Vigente
<1>16. Turno'
  BY <1>9, <1>15, TurnoHilo DEF JInv
<1>17. Herencia'
  BY <1>6, <1>7, <1>11, <1>12, <1>13, HerenciaHilo
<1> QED BY <1>13, <1>14, <1>16, <1>17 DEF JInv

\* The chain of owners ends.
LEMMA JPropagaFin ==
  ASSUME UnaCpu, JInv, IInv', NEW c \in Cpus, PropagaFin(c)
  PROVE  JInv'
<1>1. c \in Hilos /\ Etapa(c) /\ Hereditario(r[c], dinamica, Duenos, fin)
  BY DelReceptor
<1>2. /\ r[c].pc = "propaga" /\ ~ Hereda(r[c].x, r[c].val) /\ r' = [r EXCEPT ![c] = Ocioso]
      /\ UNCHANGED <<lista, dinamica, esperando, posee, fin>>
  BY DEF PropagaFin, Paso, Acaba
<1>3. PICK x \in Procs : x = r[c].x
  BY <1>1, <1>2 DEF Etapa
<1>4. r'[c] = Ocioso /\ \A k \in Hilos \ {c} : r'[k] = r[k]
  BY <1>2, HiloNuevo DEF JInv
<1>5. r'[c].pc = "ocioso" /\ Ocioso.pc = "ocioso"
  BY <1>4 DEF Ocioso
<1>6. Duenos[x] \notin Procs \/ Duenos[x] \in fin \/ ~ (r[c].val < dinamica[Duenos[x]])
  <2>1. CASE esperando[x] = 0
    BY <2>1, NadieAssumption DEF Duenos
  <2>2. CASE esperando[x] # 0
    <3>1. Duenos[x] = lista[esperando[x]].dueno
      BY <2>2 DEF Duenos
    <3> QED BY <1>2, <1>3, <2>2, <3>1, NadieAssumption DEF Hereda
  <2> QED BY <2>1, <2>2
<1>7. dinamica \in [Procs -> Nat]
  BY Basicos DEF JInv
<1>8. Tranquilo(Ocioso)
  BY <1>5 DEF Tranquilo
<1>9. Hereditario(Ocioso, dinamica, Duenos, fin)
  BY <1>1, <1>2, <1>3, <1>6, <1>7, <1>8, HeredaFin
<1>10. Vigente(r[c])'
  BY <1>5 DEF Vigente
<1> QED BY <1>2, <1>4, <1>9, <1>10, SoloElHilo

\* The waiter that got the mutex is queued.
LEMMA JDespierta ==
  ASSUME UnaCpu, JInv, IInv', NEW c \in Cpus, Despierta(c)
  PROVE  JInv'
<1>1. Hereditario(r[c], dinamica, Duenos, fin)
  BY DelReceptor
<1>2. /\ r[c].pc = "despierta" /\ Pasa(c, "recalcula")
      /\ UNCHANGED <<lista, dinamica, esperando, posee, fin>>
  BY DEF Despierta, Paso
<1>3. /\ r'[c].pc = "recalcula" /\ r'[c].p = r[c].p /\ r'[c].x = r[c].x
      /\ \A k \in Hilos \ {c} : r'[k] = r[k]
  BY <1>2, HiloPasa DEF JInv
<1>4. PICK u : u = r'[c]
  OBVIOUS
<1>5. Hereditario(u, dinamica, Duenos, fin)
  BY <1>1, <1>2, <1>3, <1>4, HeredaSigue
<1>6. Vigente(r[c])'
  BY <1>3 DEF Vigente
<1> QED BY <1>2, <1>3, <1>4, <1>5, <1>6, SoloElHilo

\* The best priority a process is entitled to.
LEMMA JRecalcula ==
  ASSUME UnaCpu, JInv, IInv', NEW c \in Cpus, Recalcula(c)
  PROVE  JInv'
<1>1. /\ Etapa(c) /\ r[c] \in Registro(Len(lista)) /\ Hereditario(r[c], dinamica, Duenos, fin)
  BY DelReceptor
<1>2. /\ r[c].pc = "recalcula" /\ UNCHANGED <<lista, dinamica, esperando, posee, fin>>
  BY DEF Recalcula, Paso
<1>3. PICK x \in Procs : x = r[c].x
  BY <1>1, <1>2 DEF Etapa
<1>4. PICK v \in Nat : v = Maxima(x) /\ Justo(dinamica, Duenos, x, v)
  <2>1. Maxima(x) \in Nat
    <3>1. Maxima(x) \in Nivel
      BY MaximaTipo DEF JInv, IInv
    <3> QED BY <3>1, NivelesAssumption DEF Nivel
  <2> QED BY <2>1, JustoMaxima DEF JInv
<1>5. r' = [r EXCEPT ![c] = [r[c] EXCEPT !.pc = "aplica", !.val = v]]
  <2>1. TipoHilos /\ c \in Hilos
    BY UnHilo DEF JInv, Hilos
  <2> QED BY <1>1, <1>3, <1>4, <2>1 DEF Recalcula, Registro, TipoHilos
<1>6. /\ r'[c] = [r[c] EXCEPT !.pc = "aplica", !.val = v] /\ \A k \in Hilos \ {c} : r'[k] = r[k]
  BY <1>5, HiloNuevo DEF JInv
<1>7. r'[c].pc = "aplica" /\ r'[c].val = v /\ r'[c].x = r[c].x /\ r'[c].p = r[c].p
  BY <1>1, <1>6 DEF Registro
<1>8. PICK u : u = r'[c]
  OBVIOUS
<1>9. Hereditario(u, dinamica, Duenos, fin)
  BY <1>1, <1>2, <1>3, <1>4, <1>7, <1>8, HeredaSigue
<1>10. Vigente(r[c])'
  BY <1>7 DEF Vigente
<1> QED BY <1>2, <1>6, <1>8, <1>9, <1>10, SoloElHilo

\* The priority of one of the two is written.
LEMMA JAplica ==
  ASSUME UnaCpu, JInv, IInv', NEW c \in Cpus, Aplica(c)
  PROVE  JInv'
<1>1. /\ Etapa(c) /\ r[c] \in Registro(Len(lista)) /\ Hereditario(r[c], dinamica, Duenos, fin)
      /\ c \in Hilos
      /\ r[c].pc # "ocioso" => r[c].p \in Procs
  BY DelReceptor
<1>2. r[c].pc = "aplica"
  BY DEF Aplica, Paso
<1>3. PICK x \in Procs : x = r[c].x
  BY <1>1, <1>2 DEF Etapa
<1>4. PICK p \in Procs : p = r[c].p
  BY <1>1, <1>2
<1>5. PICK a : a = IF x = p THEN "encola" ELSE "recalcula"
  OBVIOUS
<1>6. /\ dinamica' = [dinamica EXCEPT ![x] = r[c].val]
      /\ UNCHANGED <<lista, esperando, posee, fin>>
  BY <1>3 DEF Aplica
<1>7. r' = [r EXCEPT ![c] = [r[c] EXCEPT !.pc = a, !.x = p]]
  <2>1. TipoHilos
    BY <1>1, UnHilo DEF JInv
  <2>2. r' = [r EXCEPT ![c].pc = a, ![c].x = p]
    BY <1>3, <1>4, <1>5 DEF Aplica
  <2> QED BY <1>1, <2>1, <2>2 DEF Registro, TipoHilos
<1>8. PICK u : u = r'[c] /\ u = [r[c] EXCEPT !.pc = a, !.x = p]
  BY <1>7, HiloNuevo DEF JInv
<1>9. u.pc = a /\ u.x = p /\ u.p = p
  BY <1>1, <1>4, <1>8 DEF Registro
<1>10. \A k \in Hilos \ {c} : r'[k] = r[k]
  BY <1>7, HiloNuevo DEF JInv
<1>11. PICK d \in [Procs -> Nat], e \in [Procs -> Nat] :
         /\ d = dinamica /\ e = dinamica' /\ e[x] = r[c].val
         /\ \A q \in Procs \ {x} : e[q] = d[q]
  <2>1. dinamica' \in [Procs -> Nivel] /\ Nivel \subseteq Nat
    BY NivelesAssumption DEF IInv, TypeOK, Nivel
  <2>2. dinamica \in [Procs -> Nat] /\ dinamica' \in [Procs -> Nat]
    BY <2>1, Basicos DEF JInv
  <2> QED BY <1>6, <2>2
<1>12. Hereditario(u, e, Duenos, fin)
  <2>1. PICK t, D, F : t = r[c] /\ D = Duenos /\ F = fin
    OBVIOUS
  <2>2. /\ Hereditario(t, d, D, F) /\ t.pc = "aplica" /\ t.x = x /\ t.p = p
        /\ e[x] = t.val /\ \A q \in Procs \ {x} : e[q] = d[q]
        /\ u.pc = (IF x = p THEN "encola" ELSE "recalcula") /\ u.x = p /\ u.p = p
    BY <1>1, <1>2, <1>3, <1>4, <1>5, <1>9, <1>11, <2>1
  <2>3. Hereditario(u, e, D, F)
    BY <2>2, HeredaAplica
  <2> QED BY <2>1, <2>3
<1>13. NombresUnicos' /\ EsperaConDueno' /\ Duenos' = Duenos
  BY <1>6, ListaQuieta
<1>14. Tenencia'
  BY <1>6, TenenciaMengua
<1>15. Vigente(r[c])'
  BY <1>5, <1>8, <1>9 DEF Vigente
<1>16. Turno'
  BY <1>10, <1>15, TurnoHilo DEF JInv
<1>17. Herencia'
  BY <1>6, <1>8, <1>11, <1>12, <1>13, HerenciaHilo
<1> QED BY <1>13, <1>14, <1>16, <1>17 DEF JInv

-----------------------------------------------------------------------------
(* Steps on the mutexes.                                                    *)

\* Nobody waits for a mutex whose queue is empty, or which has no owner.
LEMMA NadieEspera ==
  ASSUME JInv, NEW m \in 1 .. Len(lista), lista[m].cola = <<>> \/ lista[m].dueno = Nadie
  PROVE  /\ \A p \in Procs : esperando[p] # m
         /\ \A p \in Procs : ~ EnCola(lista[m].cola, p)
<1>1. DOMAIN lista = 1 .. Len(lista) /\ m # 0
  BY Basicos DEF JInv
<1>2. \A p \in Procs : EnCola(lista[m].cola, p) <=> esperando[p] = m
  BY <1>1 DEF JInv, EsperaConDueno
<1>3. \A p \in Procs : esperando[p] = m => lista[m].dueno # Nadie
  BY <1>1 DEF JInv, EsperaConDueno
<1>4. lista[m].cola = <<>> => \A p \in Procs : ~ EnCola(lista[m].cola, p)
  BY DEF EnCola
<1> QED BY <1>2, <1>3, <1>4

\* Only mutexes without waiters change their owner.
LEMMA CambiaSinEspera ==
  ASSUME JInv, Len(lista') = Len(lista), DOMAIN lista' = DOMAIN lista,
         \A k \in 1 .. Len(lista) :
           /\ lista'[k].nombre = lista[k].nombre
           /\ lista'[k].cola = lista[k].cola
           /\ lista'[k].dueno # lista[k].dueno => lista[k].cola = <<>> \/ lista[k].dueno = Nadie,
         esperando' = esperando
  PROVE  NombresUnicos' /\ EsperaConDueno' /\ Duenos' = Duenos
<1>1. \A k \in 1 .. Len(lista) : \A p \in Procs : esperando[p] = k => lista'[k].dueno = lista[k].dueno
  BY NadieEspera
<1>2. DOMAIN lista = 1 .. Len(lista) /\ \A p \in Procs : esperando[p] # 0 => esperando[p] \in 1 .. Len(lista)
  <2>1. DOMAIN lista = 1 .. Len(lista) /\ Len(lista) \in Nat /\ \A p \in Procs : esperando[p] \in 0 .. Len(lista)
    BY Basicos DEF JInv
  <2> QED BY <2>1
<1>3. \A p \in Procs : esperando[p] # 0 => lista'[esperando[p]].dueno = lista[esperando[p]].dueno
  BY <1>1, <1>2
<1>4. NombresUnicos'
  BY DEF JInv, NombresUnicos
<1>5. EsperaConDueno'
  <2> SUFFICES ASSUME NEW p \in Procs
               PROVE  /\ \A k \in DOMAIN lista' : EnCola(lista'[k].cola, p) <=> esperando'[p] = k
                      /\ esperando'[p] # 0 => lista'[esperando'[p]].dueno # Nadie
    BY DEF EsperaConDueno, EnCola
  <2> QED BY <1>2, <1>3 DEF JInv, EsperaConDueno
<1>6. Duenos' = Duenos
  BY <1>3, DuenosIgual
<1> QED BY <1>4, <1>5, <1>6

\* The assembly of a step of the receptor on a mutex.
LEMMA Reune ==
  ASSUME UnaCpu, JInv, IInv', NEW c \in Cpus, \A k \in Hilos \ {c} : r'[k] = r[k],
         Vigente(r[c])', Hereditario(r'[c], dinamica', Duenos', fin'),
         NombresUnicos', Tenencia', EsperaConDueno'
  PROVE  JInv'
<1>1. Turno'
  BY TurnoHilo DEF JInv
<1>2. PICK t, d, D, F : t = r'[c] /\ d = dinamica' /\ D = Duenos' /\ F = fin'
  OBVIOUS
<1>3. Hereditario(t, d, D, F)
  BY <1>2
<1>4. Herencia'
  BY <1>2, <1>3, HerenciaHilo
<1> QED BY <1>1, <1>4 DEF JInv

\* LOCK takes a free mutex.
LEMMA JToma ==
  ASSUME UnaCpu, JInv, IInv', NEW c \in Cpus, Toma(c)
  PROVE  JInv'
<1>1. /\ Etapa(c) /\ r[c] \in Registro(Len(lista)) /\ Hereditario(r[c], dinamica, Duenos, fin)
      /\ Vigente(r[c]) /\ TipoLista /\ TipoPosee
      /\ r[c].pc # "ocioso" => r[c].p \in Procs
  BY DelReceptor
<1>2. /\ r[c].pc = "toma" /\ Pasa(c, "encola")
      /\ UNCHANGED <<dinamica, esperando, fin>>
  BY DEF Toma, Paso
<1>3. PICK p \in Procs : p = r[c].p
  BY <1>1, <1>2
<1>4. PICK m \in 1 .. Len(lista) : m = r[c].mut /\ r[c].n = lista[m].nombre
  BY <1>1, <1>2 DEF Etapa
<1>5. lista[m].dueno = Nadie
  BY <1>1, <1>2, <1>4 DEF Vigente
<1>6. /\ TipoLista' /\ Len(lista') = Len(lista)
      /\ lista'[m].dueno = p /\ lista'[m].nombre = lista[m].nombre /\ lista'[m].cola = lista[m].cola
      /\ \A k \in 1 .. Len(lista) : k # m => lista'[k] = lista[k]
  BY <1>1, <1>3, <1>4, CambiaDueno DEF Toma
<1>7. DOMAIN lista' = DOMAIN lista
  BY <1>1, <1>6 DEF TipoLista
<1>8. \A k \in 1 .. Len(lista) :
        /\ lista'[k].nombre = lista[k].nombre
        /\ lista'[k].cola = lista[k].cola
        /\ lista'[k].dueno # lista[k].dueno => lista[k].cola = <<>> \/ lista[k].dueno = Nadie
  BY <1>5, <1>6
<1>9. NombresUnicos' /\ EsperaConDueno' /\ Duenos' = Duenos
  BY <1>2, <1>6, <1>7, <1>8, CambiaSinEspera
<1>10. Tenencia'
  <2> SUFFICES ASSUME NEW q \in Procs, NEW n \in posee'[q]
               PROVE  \E k \in 1 .. Len(lista') : lista'[k].nombre = n /\ lista'[k].dueno = q
    BY DEF Tenencia
  <2>1. posee' = [posee EXCEPT ![p] = @ \union {lista[m].nombre}]
    BY <1>3, <1>4 DEF Toma
  <2>2. CASE q = p /\ n = lista[m].nombre
    BY <1>6, <2>2
  <2>3. CASE n \in posee[q]
    <3>1. PICK k \in 1 .. Len(lista) : lista[k].nombre = n /\ lista[k].dueno = q
      BY <2>3 DEF JInv, Tenencia
    <3>2. k # m
      BY <1>5, <3>1, NadieAssumption
    <3> QED BY <1>6, <1>8, <3>1, <3>2
  <2> QED BY <1>1, <2>1, <2>2, <2>3 DEF TipoPosee
<1>11. r'[c].pc = "encola" /\ \A k \in Hilos \ {c} : r'[k] = r[k]
  BY <1>2, HiloPasa DEF JInv
<1>12. Vigente(r[c])'
  BY <1>11 DEF Vigente
<1>13. Tranquilo(r[c]) /\ Tranquilo(r'[c])
  BY <1>2, <1>11 DEF Tranquilo
<1>14. Hereditario(r'[c], dinamica', Duenos', fin')
  BY <1>1, <1>2, <1>9, <1>13, TranquiloTodos
<1> QED BY <1>9, <1>10, <1>11, <1>12, <1>14, Reune

\* UNLOCK frees a mutex nobody waits for.
LEMMA JSuelta ==
  ASSUME UnaCpu, JInv, IInv', NEW c \in Cpus, Suelta(c)
  PROVE  JInv'
<1>1. /\ Etapa(c) /\ r[c] \in Registro(Len(lista)) /\ Hereditario(r[c], dinamica, Duenos, fin)
      /\ Vigente(r[c]) /\ TipoLista /\ TipoPosee /\ c \in Hilos
      /\ r[c].pc # "ocioso" => r[c].p \in Procs
  BY DelReceptor
<1>2. /\ r[c].pc = "suelta"
      /\ UNCHANGED <<dinamica, esperando, posee, fin>>
  BY DEF Suelta, Paso
<1>3. PICK p \in Procs : p = r[c].p
  BY <1>1, <1>2
<1>4. PICK m \in 1 .. Len(lista) : m = r[c].mut /\ r[c].n = lista[m].nombre
  BY <1>1, <1>2 DEF Etapa
<1>5. lista[m].dueno = p /\ lista[m].cola = <<>> /\ lista[m].nombre \notin posee[p]
  BY <1>1, <1>2, <1>3, <1>4 DEF Vigente
<1>6. /\ TipoLista' /\ Len(lista') = Len(lista)
      /\ lista'[m].dueno = Nadie /\ lista'[m].nombre = lista[m].nombre /\ lista'[m].cola = lista[m].cola
      /\ \A k \in 1 .. Len(lista) : k # m => lista'[k] = lista[k]
  BY <1>1, <1>4, CambiaDueno DEF Suelta
<1>7. DOMAIN lista' = DOMAIN lista
  BY <1>1, <1>6 DEF TipoLista
<1>8. \A k \in 1 .. Len(lista) :
        /\ lista'[k].nombre = lista[k].nombre
        /\ lista'[k].cola = lista[k].cola
        /\ lista'[k].dueno # lista[k].dueno => lista[k].cola = <<>> \/ lista[k].dueno = Nadie
  BY <1>5, <1>6
<1>9. NombresUnicos' /\ EsperaConDueno' /\ Duenos' = Duenos
  BY <1>2, <1>6, <1>7, <1>8, CambiaSinEspera
<1>10. Tenencia'
  <2> SUFFICES ASSUME NEW q \in Procs, NEW n \in posee'[q]
               PROVE  \E k \in 1 .. Len(lista') : lista'[k].nombre = n /\ lista'[k].dueno = q
    BY DEF Tenencia
  <2>1. PICK k \in 1 .. Len(lista) : lista[k].nombre = n /\ lista[k].dueno = q
    BY <1>2 DEF JInv, Tenencia
  <2>2. k # m
    BY <1>2, <1>5, <2>1
  <2> QED BY <1>6, <1>8, <2>1, <2>2
<1>11. r' = [r EXCEPT ![c] = [r[c] EXCEPT !.pc = "recalcula", !.x = p]]
  BY <1>3 DEF Suelta
<1>12. /\ r'[c] = [r[c] EXCEPT !.pc = "recalcula", !.x = p] /\ \A k \in Hilos \ {c} : r'[k] = r[k]
  BY <1>11, HiloNuevo DEF JInv
<1>13. r'[c].pc = "recalcula" /\ r'[c].x = p /\ r'[c].p = p
  BY <1>1, <1>3, <1>12 DEF Registro
<1>14. Vigente(r[c])'
  BY <1>13 DEF Vigente
<1>15. Duenos[p] = Nadie
  <2>1. EnMano(r[c]) = p
    BY <1>2, <1>3 DEF EnMano
  <2> QED BY <1>1, <2>1, SinEspera DEF JInv
<1>16. Tranquilo(r[c])
  BY <1>2 DEF Tranquilo
<1>17. Hereditario(r'[c], dinamica, Duenos, fin)
  BY <1>1, <1>13, <1>15, <1>16, HeredaSuelta
<1> QED BY <1>2, <1>9, <1>10, <1>12, <1>14, <1>17, Reune

\* The end of a process: one of its mutexes that has no waiter, or one of another.
LEMMA JLibera ==
  ASSUME UnaCpu, JInv, IInv', NEW c \in Cpus, Libera(c)
  PROVE  JInv'
<1>1. /\ r[c] \in Registro(Len(lista)) /\ Hereditario(r[c], dinamica, Duenos, fin)
      /\ Vigente(r[c]) /\ TipoLista /\ c \in Hilos
  BY DelReceptor
<1>2. /\ r[c].pc = "libera" /\ r[c].p \in Procs
      /\ TipoLista' /\ Len(lista') = Len(lista)
      /\ \A k \in 1 .. Len(lista) :
           /\ lista'[k].nombre = lista[k].nombre /\ lista'[k].cola = lista[k].cola
           /\ lista'[k].dueno # lista[k].dueno => lista[k].dueno = r[c].p /\ lista[k].cola = <<>>
  BY <1>1, LiberaLista DEF JInv
<1>3. /\ r' = [r EXCEPT ![c] = [r[c] EXCEPT !.mut = @ + 1]]
      /\ UNCHANGED <<dinamica, esperando, posee, fin>>
  BY DEF Libera
<1>4. DOMAIN lista' = DOMAIN lista
  BY <1>1, <1>2 DEF TipoLista
<1>5. NombresUnicos' /\ EsperaConDueno' /\ Duenos' = Duenos
  BY <1>2, <1>3, <1>4, CambiaSinEspera
<1>6. posee[r[c].p] = {}
  BY <1>1, <1>2 DEF Vigente
<1>7. Tenencia'
  <2> SUFFICES ASSUME NEW q \in Procs, NEW n \in posee'[q]
               PROVE  \E k \in 1 .. Len(lista') : lista'[k].nombre = n /\ lista'[k].dueno = q
    BY DEF Tenencia
  <2>1. PICK k \in 1 .. Len(lista) : lista[k].nombre = n /\ lista[k].dueno = q
    BY <1>3 DEF JInv, Tenencia
  <2>2. q # r[c].p
    BY <1>3, <1>6
  <2>3. lista'[k].dueno = q
    BY <1>2, <2>1, <2>2
  <2> QED BY <1>2, <2>1, <2>3
<1>8. /\ r'[c] = [r[c] EXCEPT !.mut = @ + 1] /\ \A k \in Hilos \ {c} : r'[k] = r[k]
  BY <1>3, HiloNuevo DEF JInv
<1>9. r'[c].pc = "libera" /\ r'[c].p = r[c].p
  BY <1>1, <1>2, <1>8 DEF Registro
<1>10. Vigente(r[c])'
  BY <1>3, <1>6, <1>9 DEF Vigente
<1>11. Tranquilo(r[c]) /\ Tranquilo(r'[c])
  BY <1>2, <1>9 DEF Tranquilo
<1>12. Hereditario(r'[c], dinamica', Duenos', fin')
  BY <1>1, <1>3, <1>5, <1>11, TranquiloTodos
<1> QED BY <1>5, <1>7, <1>8, <1>10, <1>12, Reune

\* A new mutex.
LEMMA JRegistra ==
  ASSUME UnaCpu, JInv, IInv', NEW c \in Cpus, Registra(c)
  PROVE  JInv'
<1>1. /\ r[c] \in Registro(Len(lista)) /\ Etapa(c) /\ Hereditario(r[c], dinamica, Duenos, fin)
      /\ Vigente(r[c]) /\ TipoLista /\ c \in Hilos
  BY DelReceptor
<1>2. /\ r[c].pc = "registra" /\ lista' = Append(lista, Nuevo(r[c].n))
      /\ UNCHANGED <<dinamica, esperando, posee, fin>>
  BY DEF Registra, Paso
<1>3. PICK n \in Nombres : n = r[c].n /\ \A m \in 1 .. Len(lista) : lista[m].nombre # n
  BY <1>1, <1>2 DEF Etapa, Vigente
<1>4. PICK l \in Nat : l = Len(lista) /\ DOMAIN lista = 1 .. l
  BY Basicos DEF JInv
<1>5. /\ TipoLista' /\ Len(lista') = l + 1 /\ lista'[l + 1] = Nuevo(n)
      /\ \A k \in 1 .. l : lista'[k] = lista[k]
  BY <1>1, <1>2, <1>3, <1>4, ListaCrece
<1>6. DOMAIN lista' = 1 .. l + 1
  BY <1>5 DEF TipoLista
<1>7. Nuevo(n).nombre = n /\ Nuevo(n).cola = <<>>
  BY DEF Nuevo
<1>8. \A p \in Procs : esperando[p] \in 0 .. l
  BY <1>4, Basicos DEF JInv
<1>9. \A p \in Procs : esperando[p] # 0 => esperando[p] \in 1 .. l
  BY <1>8
<1>10. Duenos' = Duenos
  <2>1. \A p \in Procs : esperando[p] # 0 => lista'[esperando[p]].dueno = lista[esperando[p]].dueno
    BY <1>5, <1>9
  <2> QED BY <1>2, <2>1, DuenosIgual
<1>11. NombresUnicos'
  <2> SUFFICES ASSUME NEW m \in 1 .. l + 1, NEW k \in 1 .. l + 1, lista'[m].nombre = lista'[k].nombre
               PROVE  m = k
    BY <1>5 DEF NombresUnicos
  <2>1. \A i \in 1 .. l + 1 : i = l + 1 \/ i \in 1 .. l
    OBVIOUS
  <2>2. \A i \in 1 .. l : lista'[i].nombre = lista[i].nombre /\ lista'[i].nombre # n
    BY <1>3, <1>4, <1>5
  <2>3. lista'[l + 1].nombre = n
    BY <1>5, <1>7
  <2>4. CASE m \in 1 .. l /\ k \in 1 .. l
    BY <1>4, <2>2, <2>4 DEF JInv, NombresUnicos
  <2> QED BY <2>1, <2>2, <2>3, <2>4
<1>12. EsperaConDueno'
  <2>0. esperando' = esperando
    BY <1>2
  <2> SUFFICES ASSUME NEW p \in Procs
               PROVE  /\ \A k \in 1 .. l + 1 : EnCola(lista'[k].cola, p) <=> esperando[p] = k
                      /\ esperando[p] # 0 => lista'[esperando[p]].dueno # Nadie
    BY <1>6, <2>0 DEF EsperaConDueno, EnCola
  <2>1. ASSUME NEW k \in 1 .. l PROVE EnCola(lista'[k].cola, p) <=> esperando[p] = k
    BY <1>4, <1>5 DEF JInv, EsperaConDueno
  <2>2. ~ EnCola(lista'[l + 1].cola, p) /\ esperando[p] # l + 1
    <3>1. ~ EnCola(<<>>, p)
      BY DEF EnCola
    <3>2. esperando[p] # l + 1
      BY <1>8
    <3> QED BY <1>5, <1>7, <3>1, <3>2
  <2>3. esperando[p] # 0 => lista'[esperando[p]].dueno # Nadie
    BY <1>5, <1>9 DEF JInv, EsperaConDueno
  <2>4. \A i \in 1 .. l + 1 : i = l + 1 \/ i \in 1 .. l
    OBVIOUS
  <2> QED BY <2>1, <2>2, <2>3, <2>4
<1>13. Tenencia'
  <2> SUFFICES ASSUME NEW q \in Procs, NEW z \in posee'[q]
               PROVE  \E k \in 1 .. Len(lista') : lista'[k].nombre = z /\ lista'[k].dueno = q
    BY DEF Tenencia
  <2>1. PICK k \in 1 .. l : lista[k].nombre = z /\ lista[k].dueno = q
    BY <1>2, <1>4 DEF JInv, Tenencia
  <2>2. k \in 1 .. Len(lista')
    BY <1>5
  <2> QED BY <1>5, <2>1, <2>2
<1>14. PICK e \in {"encola", "mira"} : e = IF r[c].op = "CREATE" THEN "encola" ELSE "mira"
  OBVIOUS
<1>15. r' = [r EXCEPT ![c] = [r[c] EXCEPT !.mut = l + 1, !.pc = e]]
  <2>1. TipoHilos
    BY <1>1, UnHilo DEF JInv
  <2>2. r' = [r EXCEPT ![c].mut = l + 1, ![c].pc = e]
    BY <1>4, <1>14 DEF Registra
  <2> QED BY <1>1, <2>1, <2>2 DEF Registro, TipoHilos
<1>16. /\ r'[c] = [r[c] EXCEPT !.mut = l + 1, !.pc = e] /\ \A k \in Hilos \ {c} : r'[k] = r[k]
  BY <1>15, HiloNuevo DEF JInv
<1>17. r'[c].pc = e
  BY <1>1, <1>16 DEF Registro
<1>18. Vigente(r[c])'
  BY <1>17 DEF Vigente
<1>19. Tranquilo(r[c]) /\ Tranquilo(r'[c])
  BY <1>2, <1>17 DEF Tranquilo
<1>20. Hereditario(r'[c], dinamica', Duenos', fin')
  BY <1>1, <1>2, <1>10, <1>19, TranquiloTodos
<1> QED BY <1>11, <1>12, <1>13, <1>16, <1>18, <1>20, Reune

\* LOCK queues the process behind the owner.
LEMMA JBloquea ==
  ASSUME UnaCpu, JInv, IInv', NEW c \in Cpus, Bloquea(c)
  PROVE  JInv'
<1>1. /\ r[c] \in Registro(Len(lista)) /\ Etapa(c) /\ Hereditario(r[c], dinamica, Duenos, fin)
      /\ Vigente(r[c]) /\ TipoLista /\ c \in Hilos
      /\ r[c].pc # "ocioso" => r[c].p \in Procs
  BY DelReceptor
<1>2. r[c].pc = "bloquea" /\ UNCHANGED <<dinamica, posee, fin>>
  BY DEF Bloquea, Paso
<1>3. PICK p \in Procs : p = r[c].p
  BY <1>1, <1>2
<1>4. PICK m \in 1 .. Len(lista) : m = r[c].mut /\ lista[m].dueno # Nadie
  BY <1>1, <1>2 DEF Etapa, Vigente
<1>5. PICK l \in Nat : l = Len(lista) /\ DOMAIN lista = 1 .. l
  BY Basicos DEF JInv
<1>6. EnMano(r[c]) = p
  BY <1>2, <1>3 DEF EnMano
<1>7. esperando[p] = 0 /\ Duenos[p] = Nadie /\ \A k \in 1 .. l : ~ EnCola(lista[k].cola, p)
  BY <1>1, <1>5, <1>6, SinEspera, EnManoSolo DEF JInv
<1>8. lista[m] \in Mutexes
  BY <1>1 DEF TipoLista
<1>9. PICK s \in Seq(Procs) : s = lista[m].cola
  BY <1>8 DEF Mutexes
<1>10. PICK v \in Mutexes : /\ v = [lista[m] EXCEPT !.cola = Append(s, p)]
                            /\ v.dueno = lista[m].dueno /\ v.nombre = lista[m].nombre
                            /\ v.cola = Append(s, p)
  <2>1. Append(s, p) \in Seq(Procs)
    OBVIOUS
  <2>2. [lista[m] EXCEPT !.cola = Append(s, p)] \in Mutexes
    BY <1>8, <2>1 DEF Mutexes
  <2> QED BY <1>8, <2>2 DEF Mutexes
<1>11. lista' = [lista EXCEPT ![m] = v]
  BY <1>3, <1>4, <1>9, <1>10 DEF Bloquea
<1>12. /\ TipoLista' /\ Len(lista') = l /\ lista'[m] = v
       /\ \A k \in 1 .. l : k # m => lista'[k] = lista[k]
  BY <1>1, <1>5, <1>11, ListaCambia
<1>13. DOMAIN lista' = 1 .. l
  BY <1>12 DEF TipoLista
<1>14. \A k \in 1 .. l : lista'[k].nombre = lista[k].nombre /\ lista'[k].dueno = lista[k].dueno
  BY <1>10, <1>12
<1>15. esperando' = [esperando EXCEPT ![p] = m] /\ esperando \in [Procs -> 0 .. l]
  <2>1. esperando \in [Procs -> 0 .. l]
    BY <1>5, Basicos DEF JInv
  <2> QED BY <1>3, <1>4, <2>1 DEF Bloquea
<1>16. esperando'[p] = m /\ \A q \in Procs \ {p} : esperando'[q] = esperando[q]
  BY <1>15
<1>17. NombresUnicos'
  BY <1>5, <1>12, <1>14 DEF JInv, NombresUnicos
<1>18. Tenencia'
  BY <1>2, <1>5, <1>12, <1>14 DEF JInv, Tenencia
<1>19. \A q \in Procs : esperando[q] # 0 => esperando[q] \in 1 .. l
  BY <1>15
<1>20. EsperaConDueno'
  <2> SUFFICES ASSUME NEW q \in Procs
               PROVE  /\ \A k \in 1 .. l : EnCola(lista'[k].cola, q) <=> esperando'[q] = k
                      /\ esperando'[q] # 0 => lista'[esperando'[q]].dueno # Nadie
    BY <1>13 DEF EsperaConDueno, EnCola
  <2>1. EnCola(Append(s, p), q) <=> EnCola(s, q) \/ q = p
    <3>1. /\ DOMAIN Append(s, p) = 1 .. Len(s) + 1 /\ DOMAIN s = 1 .. Len(s) /\ Len(s) \in Nat
          /\ Append(s, p)[Len(s) + 1] = p
          /\ \A i \in 1 .. Len(s) : Append(s, p)[i] = s[i]
      OBVIOUS
    <3>2. \A i \in 1 .. Len(s) + 1 : i = Len(s) + 1 \/ i \in 1 .. Len(s)
      BY <3>1
    <3>3. Len(s) + 1 \in 1 .. Len(s) + 1 /\ \A i \in 1 .. Len(s) : i \in 1 .. Len(s) + 1
      BY <3>1
    <3> QED BY <3>1, <3>2, <3>3 DEF EnCola
  <2>2. \A k \in 1 .. l : EnCola(lista[k].cola, q) <=> esperando[q] = k
    BY <1>5 DEF JInv, EsperaConDueno
  <2>3. esperando[q] # 0 => lista[esperando[q]].dueno # Nadie
    BY DEF JInv, EsperaConDueno
  <2>4. lista'[m].cola = Append(s, p) /\ \A k \in 1 .. l : k # m => lista'[k].cola = lista[k].cola
    BY <1>10, <1>12
  <2>5. CASE q = p
    <3>1. \A k \in 1 .. l : EnCola(lista'[k].cola, q) <=> k = m
      BY <1>7, <2>1, <2>4, <2>5
    <3> QED BY <1>4, <1>5, <1>14, <1>16, <2>5, <3>1
  <2>6. CASE q # p
    <3>1. \A k \in 1 .. l : EnCola(lista'[k].cola, q) <=> esperando[q] = k
      BY <1>9, <2>1, <2>2, <2>4, <2>6
    <3> QED BY <1>14, <1>16, <1>19, <2>3, <2>6, <3>1
  <2> QED BY <2>5, <2>6
<1>21. /\ Duenos'[p] = lista[m].dueno /\ \A q \in Procs \ {p} : Duenos'[q] = Duenos[q]
  <2>1. m \in 1 .. l /\ m # 0
    BY <1>5
  <2>2. Duenos'[p] = lista[m].dueno
    BY <1>14, <1>16, <2>1 DEF Duenos
  <2>3. ASSUME NEW q \in Procs \ {p} PROVE Duenos'[q] = Duenos[q]
    BY <1>14, <1>16, <1>19 DEF Duenos
  <2> QED BY <2>2, <2>3
<1>22. r' = [r EXCEPT ![c] = [r[c] EXCEPT !.pc = "propaga", !.x = p, !.val = dinamica[p]]]
  <2>1. TipoHilos
    BY <1>1, UnHilo DEF JInv
  <2>2. r' = [r EXCEPT ![c].pc = "propaga", ![c].x = p, ![c].val = dinamica[p]]
    BY <1>3 DEF Bloquea
  <2> QED BY <1>1, <2>1, <2>2 DEF Registro, TipoHilos
<1>23. /\ r'[c] = [r[c] EXCEPT !.pc = "propaga", !.x = p, !.val = dinamica[p]]
       /\ \A k \in Hilos \ {c} : r'[k] = r[k]
  BY <1>22, HiloNuevo DEF JInv
<1>24. r'[c].pc = "propaga" /\ r'[c].x = p /\ r'[c].val = dinamica[p]
  BY <1>1, <1>23 DEF Registro
<1>25. Vigente(r[c])'
  BY <1>24 DEF Vigente
<1>26. Hereditario(r'[c], dinamica', Duenos', fin')
  <2>1. PICK d \in [Procs -> Nat] : d = dinamica
    BY Basicos DEF JInv
  <2>2. PICK t, u, D, E, F, o : /\ t = r[c] /\ u = r'[c] /\ D = Duenos /\ E = Duenos'
                                /\ F = fin /\ o = lista[m].dueno
    OBVIOUS
  <2>3. Tranquilo(t)
    BY <1>2, <2>2 DEF Tranquilo
  <2>4. /\ Prioridad \in [Procs -> Nat] /\ Hereditario(t, d, D, F)
        /\ D[p] = Nadie /\ E[p] = o /\ \A q \in Procs \ {p} : E[q] = D[q]
        /\ u.pc = "propaga" /\ u.x = p /\ u.val = d[p]
    BY <1>1, <1>7, <1>21, <1>24, <2>1, <2>2, Basicos DEF JInv
  <2>5. Hereditario(u, d, E, F)
    BY <2>3, <2>4, HeredaBloquea
  <2> QED BY <1>2, <2>1, <2>2, <2>5
<1> QED BY <1>17, <1>18, <1>20, <1>23, <1>25, <1>26, Reune

\* UNLOCK, or the end of the owner, hands the mutex to the first waiter.
LEMMA JCede ==
  ASSUME UnaCpu, JInv, IInv', NEW c \in Cpus, Cede(c)
  PROVE  JInv'
<1>1. /\ r[c] \in Registro(Len(lista)) /\ Etapa(c) /\ Hereditario(r[c], dinamica, Duenos, fin)
      /\ Vigente(r[c]) /\ TipoLista /\ TipoPosee /\ c \in Hilos
  BY DelReceptor
<1>2. /\ r[c].pc \in {"cede", "libera"} /\ r[c].p \in Procs
      /\ r[c].pc = "libera" => lista[r[c].mut].dueno = r[c].p
  BY <1>1, CedeLista DEF JInv
<1>3. PICK m \in 1 .. Len(lista), s \in Procs :
        /\ m = r[c].mut /\ s = Head(lista[m].cola) /\ lista[m].cola # <<>>
        /\ TipoLista' /\ Len(lista') = Len(lista)
        /\ lista'[m].dueno = s /\ lista'[m].nombre = lista[m].nombre
        /\ lista'[m].cola = Tail(lista[m].cola)
        /\ \A k \in 1 .. Len(lista) : k # m => lista'[k] = lista[k]
  BY <1>1, CedeLista DEF JInv
<1>4. PICK p \in Procs : p = r[c].p
  BY <1>2
<1>5. lista[m].dueno = p /\ lista[m].nombre \notin posee[p]
  <2>1. CASE r[c].pc = "cede"
    BY <1>1, <1>3, <1>4, <2>1 DEF Vigente, Etapa
  <2>2. CASE r[c].pc = "libera"
    BY <1>1, <1>2, <1>3, <1>4, <2>2 DEF Vigente
  <2> QED BY <1>2, <2>1, <2>2
<1>6. PICK l \in Nat : l = Len(lista) /\ DOMAIN lista = 1 .. l
  BY Basicos DEF JInv
<1>7. DOMAIN lista' = 1 .. l
  BY <1>3, <1>6 DEF TipoLista
<1>8. /\ esperando' = [esperando EXCEPT ![s] = 0] /\ UNCHANGED <<dinamica, fin>>
      /\ posee' = [posee EXCEPT ![s] = @ \union {lista[m].nombre}]
      /\ r' = [r EXCEPT ![c] = [r[c] EXCEPT !.pc = "despierta", !.x = s]]
  BY <1>3 DEF Cede
<1>9. esperando \in [Procs -> 0 .. l] /\ esperando'[s] = 0 /\ \A q \in Procs \ {s} : esperando'[q] = esperando[q]
  <2>1. esperando \in [Procs -> 0 .. l]
    BY <1>6, Basicos DEF JInv
  <2> QED BY <1>8, <2>1
<1>10. lista[m] \in Mutexes
  BY <1>1 DEF TipoLista
<1>11. PICK f \in Seq(Procs) : f = lista[m].cola /\ f # <<>> /\ s = Head(f) /\ lista'[m].cola = Tail(f)
  BY <1>3, <1>10 DEF Mutexes
<1>12. \A i, j \in 1 .. Len(f) : f[i] = f[j] => i = j
  <2>1. Esperas[m] = f
    BY <1>11 DEF Esperas
  <2>2. Distintos(Esperas, 1 .. Len(lista))
    BY DEF JInv, IInv, Unicos
  <2> QED BY <2>1, <2>2 DEF Distintos
<1>13. ASSUME NEW q \in Procs
       PROVE  EnCola(Tail(f), q) <=> EnCola(f, q) /\ q # s
  <2>1. /\ DOMAIN f = 1 .. Len(f) /\ Len(f) \in Nat \ {0} /\ s = f[1]
        /\ DOMAIN Tail(f) = 1 .. Len(f) - 1
        /\ \A i \in 1 .. Len(f) - 1 : Tail(f)[i] = f[i + 1]
    BY <1>11
  <2>2. ASSUME NEW i \in 1 .. Len(f) - 1, Tail(f)[i] = q PROVE EnCola(f, q) /\ q # s
    <3>1. i + 1 \in 1 .. Len(f) /\ 1 \in 1 .. Len(f) /\ i + 1 # 1
      BY <2>1
    <3> QED BY <1>12, <2>1, <2>2, <3>1 DEF EnCola
  <2>3. ASSUME NEW i \in 1 .. Len(f), f[i] = q, q # s PROVE EnCola(Tail(f), q)
    <3>1. i - 1 \in 1 .. Len(f) - 1 /\ (i - 1) + 1 = i
      BY <2>1, <2>3
    <3>2. Tail(f)[i - 1] = q
      BY <2>1, <2>3, <3>1
    <3> QED BY <2>1, <3>1, <3>2 DEF EnCola
  <2> QED BY <2>1, <2>2, <2>3 DEF EnCola
<1>14. \A q \in Procs : \A k \in 1 .. l : EnCola(lista[k].cola, q) <=> esperando[q] = k
  BY <1>6 DEF JInv, EsperaConDueno
<1>15. esperando[s] = m
  <2>1. f[1] = s /\ 1 \in DOMAIN f
    BY <1>11
  <2>2. EnCola(lista[m].cola, s)
    BY <1>11, <2>1 DEF EnCola
  <2> QED BY <1>6, <1>14, <2>2
<1>16. EnMano(r[c]) = p
  BY <1>2, <1>4 DEF EnMano
<1>17. esperando[p] = 0 /\ p # s
  <2>1. esperando[p] = 0
    BY <1>1, <1>16, SinEspera DEF JInv
  <2> QED BY <1>6, <1>15, <2>1
<1>18. \A q \in Procs : esperando[q] # 0 => esperando[q] \in 1 .. l /\ lista[esperando[q]].dueno # Nadie
  BY <1>9 DEF JInv, EsperaConDueno
<1>19. NombresUnicos'
  BY <1>3 DEF JInv, NombresUnicos
<1>20. Tenencia'
  <2> SUFFICES ASSUME NEW q \in Procs, NEW n \in posee'[q]
               PROVE  \E k \in 1 .. Len(lista') : lista'[k].nombre = n /\ lista'[k].dueno = q
    BY DEF Tenencia
  <2>1. CASE q = s /\ n = lista[m].nombre
    BY <1>3, <2>1
  <2>2. CASE n \in posee[q]
    <3>1. PICK k \in 1 .. Len(lista) : lista[k].nombre = n /\ lista[k].dueno = q
      BY <2>2 DEF JInv, Tenencia
    <3>2. k # m
      BY <1>5, <2>2, <3>1
    <3> QED BY <1>3, <3>1, <3>2
  <2> QED BY <1>1, <1>8, <2>1, <2>2 DEF TipoPosee
<1>21. EsperaConDueno'
  <2> SUFFICES ASSUME NEW q \in Procs
               PROVE  /\ \A k \in 1 .. l : EnCola(lista'[k].cola, q) <=> esperando'[q] = k
                      /\ esperando'[q] # 0 => lista'[esperando'[q]].dueno # Nadie
    BY <1>7 DEF EsperaConDueno, EnCola
  <2>1. \A k \in 1 .. l : EnCola(lista'[k].cola, q) <=> EnCola(lista[k].cola, q) /\ ~ (k = m /\ q = s)
    BY <1>3, <1>6, <1>11, <1>13
  <2>2. CASE q = s
    <3>1. \A k \in 1 .. l : k # 0
      OBVIOUS
    <3> QED BY <1>9, <1>14, <1>15, <2>1, <2>2, <3>1
  <2>3. CASE q # s
    <3>1. \A k \in 1 .. l : EnCola(lista'[k].cola, q) <=> esperando'[q] = k
      BY <1>9, <1>14, <2>1, <2>3
    <3>2. \A k \in 1 .. l : lista[k].dueno # Nadie => lista'[k].dueno # Nadie
      BY <1>3, <1>6, NadieAssumption
    <3> QED BY <1>9, <1>18, <2>3, <3>1, <3>2
  <2> QED BY <2>2, <2>3
<1>22. /\ Duenos'[s] = Nadie /\ Duenos'[p] = Nadie /\ Duenos[s] = p
       /\ \A q \in Procs \ {s} : Duenos'[q] = Duenos[q] \/ (Duenos[q] = p /\ Duenos'[q] = s)
  <2>1. Duenos'[s] = Nadie
    BY <1>9 DEF Duenos
  <2>2. Duenos'[p] = Nadie
    BY <1>9, <1>17 DEF Duenos
  <2>3. Duenos[s] = p
    <3>1. m # 0
      BY <1>6
    <3> QED BY <1>5, <1>15, <3>1 DEF Duenos
  <2>4. ASSUME NEW q \in Procs \ {s}
        PROVE  Duenos'[q] = Duenos[q] \/ (Duenos[q] = p /\ Duenos'[q] = s)
    <3>1. CASE esperando[q] = 0
      BY <1>9, <3>1 DEF Duenos
    <3>2. CASE esperando[q] = m
      BY <1>3, <1>5, <1>9, <3>2 DEF Duenos
    <3>3. CASE esperando[q] # 0 /\ esperando[q] # m
      <4>1. lista'[esperando[q]] = lista[esperando[q]]
        BY <1>3, <1>6, <1>18, <3>3
      <4> QED BY <1>9, <3>3, <4>1 DEF Duenos
    <3> QED BY <3>1, <3>2, <3>3
  <2> QED BY <2>1, <2>2, <2>3, <2>4
<1>23. /\ r'[c] = [r[c] EXCEPT !.pc = "despierta", !.x = s] /\ \A k \in Hilos \ {c} : r'[k] = r[k]
  BY <1>8, HiloNuevo DEF JInv
<1>24. r'[c].pc = "despierta" /\ r'[c].x = s /\ r'[c].p = p
  BY <1>1, <1>4, <1>23 DEF Registro
<1>25. Vigente(r[c])'
  BY <1>24 DEF Vigente
<1>26. Hereditario(r'[c], dinamica', Duenos', fin')
  <2>1. PICK d \in [Procs -> Nat] : d = dinamica
    BY Basicos DEF JInv
  <2>2. PICK t, u, D, E, F : t = r[c] /\ u = r'[c] /\ D = Duenos /\ E = Duenos' /\ F = fin
    OBVIOUS
  <2>3. Tranquilo(t)
    BY <1>2, <2>2 DEF Tranquilo
  <2>4. /\ Hereditario(t, d, D, F) /\ E[s] = Nadie /\ E[p] = Nadie /\ D[s] = p
        /\ \A q \in Procs \ {s} : E[q] = D[q] \/ (D[q] = p /\ E[q] = s)
        /\ u.pc = "despierta" /\ u.x = s /\ u.p = p
    BY <1>1, <1>22, <1>24, <2>1, <2>2
  <2>5. Hereditario(u, d, E, F)
    BY <2>3, <2>4, HeredaCede
  <2> QED BY <1>8, <2>1, <2>2, <2>5
<1> QED BY <1>19, <1>20, <1>21, <1>23, <1>25, <1>26, Reune

-----------------------------------------------------------------------------
(* The theorems.                                                            *)

\* There are no mutexes yet, and every process has its own priority.
LEMMA InicioJInv == UnaCpu /\ Init => JInv
<1> SUFFICES ASSUME UnaCpu, Init PROVE JInv
  OBVIOUS
<1>1. IInv
  BY InicioIInv
<1>2. Len(lista) = 0 /\ DOMAIN lista = {} /\ \A m \in 1 .. Len(lista) : FALSE
  BY DEF Init
<1>3. \A h \in Hilos : r[h].pc = "ocioso"
  BY DEF Init, Ocioso
<1>4. Turno
  BY <1>3 DEF Turno, Vigente, Hilos
<1>5. NombresUnicos /\ Tenencia
  BY <1>2 DEF NombresUnicos, Tenencia, Init
<1>6. EsperaConDueno
  BY <1>2 DEF EsperaConDueno, Init
<1>7. Herencia
  <2> SUFFICES ASSUME NEW c \in Cpus PROVE Hereditario(r[c], dinamica, Duenos, fin)
    BY DEF Herencia
  <2>1. \A p \in Procs : Duenos[p] = Nadie
    BY DEF Duenos, Init
  <2>2. ASSUME NEW q \in Procs PROVE Justo(dinamica, Duenos, q, dinamica[q])
    <3>1. dinamica[q] = Prioridad[q] /\ Prioridad[q] \in Nat
      BY <1>1, Basicos DEF Init
    <3> QED BY <2>1, <3>1, NadieAssumption DEF Justo
  <2>3. Tranquilo(r[c])
    BY <1>3 DEF Tranquilo, Hilos
  <2> QED BY <2>2, <2>3, TranquiloTodos
<1> QED BY <1>1, <1>4, <1>5, <1>6, <1>7 DEF JInv

\* Every step keeps the invariant.
LEMMA PasoJInv == UnaCpu /\ JInv /\ [Next]_vars => JInv'
<1> SUFFICES ASSUME UnaCpu, JInv, [Next]_vars PROVE JInv'
  OBVIOUS
<1>1. IInv'
  BY PasoIInv DEF JInv
<1>2. CASE UNCHANGED vars
  <2>1. UNCHANGED <<r, lista, dinamica, esperando, posee, fin>>
    BY <1>2 DEF vars
  <2>2. \A w \in Interfaces : r'[w].pc \in {"ocioso", "encola"}
    BY <2>1 DEF JInv, Turno
  <2> QED BY <1>1, <2>1, <2>2, Ajeno
<1>3. ASSUME NEW p \in Procs, Admite(p) PROVE JInv'
  BY <1>1, <1>3, JDespacho
<1>4. ASSUME NEW c \in Cpus, Despacha(c) \/ Programa(c) PROVE JInv'
  BY <1>1, <1>4, JDespacho, JPrograma
<1>5. ASSUME NEW w \in Interfaces, NEW p \in Procs, VuelveIO(w, p) \/ FinPorIO(w, p) PROVE JInv'
  <2>1. ~ FinPorIO(w, p)
    BY DEF UnaCpu, FinPorIO
  <2> QED BY <1>1, <1>5, <2>1, JVuelve
<1>6. ASSUME NEW c \in Cpus, Hilo(c) PROVE JInv'
  <2>1. CASE Busca(c) \/ Mira(c) \/ Comprueba(c) \/ LiberaFin(c) \/ Cierra(c)
    BY <1>1, <2>1, JBusca, JMira, JCierra
  <2>2. CASE Termina(c) \/ Encola(c) \/ Frente(c)
    BY <1>1, <2>2, JAcaba
  <2>3. CASE Registra(c) \/ Toma(c) \/ Suelta(c) \/ Libera(c)
    BY <1>1, <2>3, JRegistra, JToma, JSuelta, JLibera
  <2>4. CASE Bloquea(c) \/ Cede(c)
    BY <1>1, <2>4, JBloquea, JCede
  <2>5. CASE Propaga(c) \/ PropagaFin(c) \/ Despierta(c) \/ Recalcula(c) \/ Aplica(c)
    BY <1>1, <2>5, JPropaga, JPropagaFin, JDespierta, JRecalcula, JAplica
  <2> QED BY <1>6, <2>1, <2>2, <2>3, <2>4, <2>5 DEF Hilo
<1>7. ASSUME NEW h \in Hilos, Hilo(h) PROVE JInv'
  BY <1>1, <1>6, <1>7, JDevuelve DEF Hilos
<1> QED BY <1>2, <1>3, <1>4, <1>5, <1>7 DEF Next

\* With one CPU the invariant holds in every state.
THEOREM UnReceptor == UnaCpu /\ Spec => []JInv
<1>1. UnaCpu /\ Init => JInv
  BY InicioJInv
<1>2. UnaCpu /\ JInv /\ [Next]_vars => JInv'
  BY PasoJInv
<1>3. UnaCpu => []UnaCpu
  BY DEF UnaCpu
<1> QED BY <1>1, <1>2, <1>3, PTL DEF Spec

\* With one CPU what LOCK propagates along a chain of owners, and UNLOCK
\* recalculates for two processes, gives every process the best priority of those
\* that wait for it, for chains and cycles of any length.
THEOREM SeHeredaLoJusto == UnaCpu /\ Spec => []HerenciaExacta
<1>1. UnaCpu /\ JInv => HerenciaExacta
  <2> SUFFICES ASSUME UnaCpu, JInv, Quieto, NEW p \in Procs \ fin
               PROVE  dinamica[p] = Maxima(p)
    BY DEF HerenciaExacta
  <2>1. PICK c \in Cpus : Cpus = {c}
    BY DEF UnaCpu
  <2>2. Hereditario(r[c], dinamica, Duenos, fin)
    BY DelReceptor
  <2>3. Tranquilo(r[c])
    BY DEF Quieto, Hilos, Tranquilo
  <2>4. Justo(dinamica, Duenos, p, dinamica[p])
    BY <2>2, <2>3, TranquiloTodos
  <2>5. dinamica[p] \in Nat
    BY Basicos DEF JInv
  <2> QED BY <2>4, <2>5, JustoMaxima DEF JInv
<1>2. UnaCpu => []UnaCpu
  BY DEF UnaCpu
<1> QED BY <1>1, <1>2, UnReceptor, PTL

=============================================================================
