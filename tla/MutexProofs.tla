---------------------------- MODULE MutexProofs ----------------------------
(***************************************************************************)
(* The mutexes of SystemMutex: no PCB is lost or put in two places by      *)
(* LOCK, UNLOCK, the end of a process or the inheritance of priorities,    *)
(* with any number of CPUs, interfaces, processes and mutexes.             *)
(*                                                                         *)
(* IInv says where every PCB is (Uno), that the queues and the hands of    *)
(* the threads hold it once (Unicos), and what a thread knows at each      *)
(* stage (Etapa); it holds whatever the races on the fields of a mutex do. *)
(* HerenciaProofs adds what a single receptor may rely on.                 *)
(***************************************************************************)
EXTENDS SystemMutex, WellFoundedInduction, FiniteSetTheorems, TLAPS

-----------------------------------------------------------------------------
(* Where a process is.                                                     *)

\* The process a thread has in its hands: in PROPAGA it is in a queue already.
EnMano(t) == IF t.pc \in {"ocioso", "propaga"} THEN Nadie ELSE t.p

\* The waiter a thread took out of the queue of a mutex and has yet to queue.
Sacado(t) == IF t.pc = "despierta" THEN t.x ELSE Nadie

Manos == [h \in Hilos |-> EnMano(r[h])]
Sacados == [h \in Hilos |-> Sacado(r[h])]
Esperas == [m \in 1 .. Len(lista) |-> lista[m].cola]

Hay(f, S, p) == \E k \in S : f[k] = p
Esta(F, S, p) == \E l \in S : \E i \in 1 .. Len(F[l]) : F[l][i] = p

\* Distinct slots of f hold distinct processes.
Inyecta(f, S) == \A k, j \in S : f[k] = f[j] /\ f[k] # Nadie => k = j

\* The queues of F hold each process once.
Distintos(F, S) ==
  \A l, k \in S : \A i \in 1 .. Len(F[l]), j \in 1 .. Len(F[k]) :
    F[l][i] = F[k][j] => l = k /\ i = j

EnCpu(p) == Hay(cpu, Cpus, p)
EnManos(p) == Hay(Manos, Hilos, p)
EnSacados(p) == Hay(Sacados, Hilos, p)
EnReady(p) == Esta(colas, Nivel, p)
EnEspera(p) == Esta(Esperas, 1 .. Len(lista), p)

Unicos ==
  /\ Inyecta(cpu, Cpus)
  /\ Inyecta(Manos, Hilos)
  /\ Inyecta(Sacados, Hilos)
  /\ Distintos(colas, Nivel)
  /\ Distintos(Esperas, 1 .. Len(lista))

\* Exactly one of eight.
SoloUno(a, b, c, d, e, f, g, k) ==
  /\ a \/ b \/ c \/ d \/ e \/ f \/ g \/ k
  /\ a => ~ (b \/ c \/ d \/ e \/ f \/ g \/ k)
  /\ b => ~ (c \/ d \/ e \/ f \/ g \/ k)
  /\ c => ~ (d \/ e \/ f \/ g \/ k)
  /\ d => ~ (e \/ f \/ g \/ k)
  /\ e => ~ (f \/ g \/ k)
  /\ f => ~ (g \/ k)
  /\ g => ~ k

Uno ==
  \A p \in Procs : SoloUno(p \in nuevos, p \in fin, p \in io, EnCpu(p), EnManos(p),
                           EnSacados(p), EnReady(p), EnEspera(p))

\* What a thread knows at each stage.
Etapa(h) ==
  /\ r[h].pc = "ocioso" <=> r[h].p = Nadie
  /\ r[h].pc \in {"busca", "registra"} =>
       r[h].n \in Nombres /\ r[h].op \in {"CREATE", "LOCK", "UNLOCK"}
  /\ r[h].pc \in {"mira", "toma", "bloquea", "comprueba", "cede", "suelta"} =>
       r[h].mut \in 1 .. Len(lista) /\ r[h].n = lista[r[h].mut].nombre
  /\ r[h].pc = "libera" => r[h].mut # 0
  /\ r[h].pc \in {"propaga", "despierta", "recalcula", "aplica"} => r[h].x \in Procs

EtapasOK == \A h \in Hilos : Etapa(h)

IInv == TypeOK /\ EtapasOK /\ Unicos /\ Uno

-----------------------------------------------------------------------------
(* Slots and queues.                                                       *)

\* A set of numbers that is not empty has a least one.
LEMMA MinimoDe ==
  ASSUME NEW T \in SUBSET Nat, T # {}
  PROVE  \E x \in T : \A y \in T : x <= y
<1> DEFINE R == OpToRel(<, Nat)
<1>1. IsWellFoundedOn(R, Nat)
  BY NatLessThanWellFounded
<1>2. \A x, y \in Nat : <<y, x>> \in R <=> y < x
  BY DEF OpToRel
<1> HIDE DEF R
<1>3. PICK x \in T : \A y \in T : ~ (<<y, x>> \in R)
  BY <1>1, WFMin
<1>4. x \in Nat /\ \A y \in T : y \in Nat /\ ~ (y < x)
  BY <1>2, <1>3
<1> QED BY <1>4

\* A slot that is emptied: its process leaves, the others stay.
LEMMA Vacia ==
  ASSUME NEW S, NEW f, NEW g, NEW h \in S, Inyecta(f, S),
         \A k \in S \ {h} : g[k] = f[k], g[h] = Nadie
  PROVE  /\ Inyecta(g, S)
         /\ \A q \in Procs : Hay(g, S, q) <=> Hay(f, S, q) /\ q # f[h]
<1>1. Inyecta(g, S)
  BY DEF Inyecta
<1>2. \A q \in Procs : q # Nadie
  BY NadieAssumption
<1> QED BY <1>1, <1>2 DEF Inyecta, Hay

\* An empty slot that takes a process no slot had.
LEMMA Ocupa ==
  ASSUME NEW S, NEW f, NEW g, NEW h \in S, NEW p \in Procs, Inyecta(f, S),
         \A k \in S \ {h} : g[k] = f[k], f[h] = Nadie, g[h] = p, ~ Hay(f, S, p)
  PROVE  /\ Inyecta(g, S)
         /\ \A q \in Procs : Hay(g, S, q) <=> Hay(f, S, q) \/ q = p
<1>1. Inyecta(g, S)
  BY DEF Inyecta, Hay
<1>2. \A q \in Procs : q # Nadie
  BY NadieAssumption
<1> QED BY <1>1, <1>2 DEF Hay

\* Slots that keep what they hold.
LEMMA Quedan ==
  ASSUME NEW S, NEW f, NEW g, Inyecta(f, S), \A k \in S : g[k] = f[k]
  PROVE  /\ Inyecta(g, S)
         /\ \A q \in Procs : Hay(g, S, q) <=> Hay(f, S, q)
BY DEF Inyecta, Hay

\* From the queues F to the queues G, p was added at an end of queue l.
Agregado(F, G, S, l, p) ==
  /\ F[l] \in Seq(Procs) /\ Distintos(F, S) /\ ~ Esta(F, S, p)
  /\ \A k \in S \ {l} : G[k] = F[k]
  /\ G[l] = Append(F[l], p) \/ G[l] = <<p>> \o F[l]

\* From the queues F to the queues G, p was taken out of place c of queue l.
Quitado(F, G, S, l, c, p) ==
  /\ F[l][c] = p
  /\ F[l] \in Seq(Procs) /\ G[l] \in Seq(Procs) /\ Distintos(F, S)
  /\ \A k \in S \ {l} : G[k] = F[k]
  /\ c \in 1 .. Len(F[l]) /\ Len(G[l]) = Len(F[l]) - 1
  /\ \A i \in 1 .. Len(G[l]) : G[l][i] = F[l][IF i < c THEN i ELSE i + 1]

\* A process no queue has, added at either end of one.
LEMMA Agrega ==
  ASSUME NEW S, NEW F, NEW G, NEW l \in S, NEW p \in Procs, Agregado(F, G, S, l, p)
  PROVE  /\ Distintos(G, S)
         /\ \A q \in Procs : Esta(G, S, q) <=> Esta(F, S, q) \/ q = p
<1> USE DEF Agregado
<1>1. PICK s \in Seq(Procs) : s = F[l]
  OBVIOUS
<1>2. PICK n \in Nat : n = Len(s)
  OBVIOUS
<1>3. PICK a \in {0, 1} : /\ Len(G[l]) = n + 1
                          /\ \A i \in 1 .. n : G[l][i + a] = s[i]
                          /\ G[l][IF a = 0 THEN n + 1 ELSE 1] = p
  <2>1. CASE G[l] = Append(s, p)
    <3>1. /\ Len(G[l]) = n + 1
          /\ \A i \in 1 .. n : G[l][i + 0] = s[i]
          /\ G[l][n + 1] = p
      BY <2>1, <1>2
    <3> QED BY <3>1
  <2>2. CASE G[l] = <<p>> \o s
    <3>1. /\ Len(G[l]) = n + 1
          /\ \A i \in 1 .. n : G[l][i + 1] = s[i]
          /\ G[l][1] = p
      BY <2>2, <1>2
    <3>2. G[l][IF 1 = 0 THEN n + 1 ELSE 1] = p
      BY <3>1
    <3> QED BY <3>1, <3>2
  <2> QED BY <1>1, <2>1, <2>2
<1> DEFINE c == IF a = 0 THEN n + 1 ELSE 1
           De(i) == IF i = c THEN 0 ELSE i - a
<1>4. \A i \in 1 .. n + 1 : i = c \/ (i - a \in 1 .. n /\ G[l][i] = s[i - a])
  <2> SUFFICES ASSUME NEW i \in 1 .. n + 1, i # c PROVE i - a \in 1 .. n /\ G[l][i] = s[i - a]
    OBVIOUS
  <2>1. i - a \in 1 .. n /\ (i - a) + a = i
    OBVIOUS
  <2> QED BY <2>1, <1>3
<1>5. /\ c \in 1 .. n + 1 /\ G[l][c] = p
      /\ \A i \in 1 .. n : i + a \in 1 .. n + 1 /\ i + a # c /\ G[l][i + a] = s[i]
  BY <1>3
<1> HIDE DEF c
<1>6. \A i \in 1 .. n : s[i] # p
  BY <1>1, <1>2 DEF Esta
<1>7. \A k \in S \ {l} : \A j \in 1 .. Len(F[k]) : F[k][j] # p
  BY DEF Esta
<1>8. ASSUME NEW i \in 1 .. n + 1, NEW j \in 1 .. n + 1, G[l][i] = G[l][j]
      PROVE  i = j
  <2>1. CASE i = c \/ j = c
    BY <2>1, <1>4, <1>5, <1>6, <1>8, SMTT(30)
  <2>2. CASE i # c /\ j # c
    <3>1. s[i - a] = s[j - a] /\ i - a \in 1 .. n /\ j - a \in 1 .. n
      BY <2>2, <1>4, <1>8
    <3>2. i - a = j - a
      BY <3>1, <1>1, <1>2 DEF Distintos
    <3> QED BY <3>2
  <2> QED BY <2>1, <2>2
<1>9. ASSUME NEW i \in 1 .. n + 1, NEW k \in S \ {l}, NEW j \in 1 .. Len(F[k])
      PROVE  G[l][i] # F[k][j]
  <2>1. CASE i = c
    BY <2>1, <1>5, <1>7
  <2>2. CASE i # c
    <3>1. G[l][i] = s[i - a] /\ i - a \in 1 .. n
      BY <2>2, <1>4
    <3> QED BY <3>1, <1>1, <1>2 DEF Distintos
  <2> QED BY <2>1, <2>2
<1>10. Distintos(G, S)
  <2> SUFFICES ASSUME NEW m \in S, NEW k \in S, NEW i \in 1 .. Len(G[m]),
                      NEW j \in 1 .. Len(G[k]), G[m][i] = G[k][j]
               PROVE  m = k /\ i = j
    BY DEF Distintos
  <2>1. CASE m = l /\ k = l
    BY <2>1, <1>3, <1>8
  <2>2. CASE m = l /\ k # l
    <3>1. k \in S \ {l} /\ j \in 1 .. Len(F[k]) /\ G[k][j] = F[k][j] /\ i \in 1 .. n + 1
      BY <2>2, <1>3
    <3>2. G[l][i] # F[k][j]
      BY <3>1, <1>9
    <3> QED BY <3>1, <3>2, <2>2
  <2>3. CASE m # l /\ k = l
    <3>1. m \in S \ {l} /\ i \in 1 .. Len(F[m]) /\ G[m][i] = F[m][i] /\ j \in 1 .. n + 1
      BY <2>3, <1>3
    <3>2. G[l][j] # F[m][i]
      BY <3>1, <1>9
    <3> QED BY <3>1, <3>2, <2>3
  <2>4. CASE m # l /\ k # l
    BY <2>4 DEF Distintos
  <2> QED BY <2>1, <2>2, <2>3, <2>4
<1>11. ASSUME NEW q \in Procs
       PROVE  Esta(G, S, q) <=> Esta(F, S, q) \/ q = p
  <2>1. Esta(G, S, q) => Esta(F, S, q) \/ q = p
    <3> SUFFICES ASSUME NEW k \in S, NEW i \in 1 .. Len(G[k]), G[k][i] = q, q # p
                 PROVE  Esta(F, S, q)
      BY DEF Esta
    <3>1. CASE k = l
      <4>1. i - a \in 1 .. n /\ s[i - a] = q
        BY <3>1, <1>3, <1>4, <1>5
      <4> QED BY <4>1, <1>1, <1>2 DEF Esta
    <3>2. CASE k # l
      BY <3>2 DEF Esta
    <3> QED BY <3>1, <3>2
  <2>2. q = p => Esta(G, S, q)
    BY <1>3, <1>5 DEF Esta
  <2>3. ASSUME NEW k \in S, NEW i \in 1 .. Len(F[k]), F[k][i] = q
        PROVE  Esta(G, S, q)
    <3>1. CASE k = l
      BY <2>3, <3>1, <1>1, <1>2, <1>3, <1>5 DEF Esta
    <3>2. CASE k # l
      BY <2>3, <3>2 DEF Esta
    <3> QED BY <3>1, <3>2
  <2> QED BY <2>1, <2>2, <2>3 DEF Esta
<1> QED BY <1>10, <1>11

\* A process taken out of the place it had in a queue.
LEMMA Saca ==
  ASSUME NEW S, NEW F, NEW G, NEW l \in S, NEW c \in Nat, NEW p \in Procs,
         Quitado(F, G, S, l, c, p)
  PROVE  /\ Distintos(G, S)
         /\ \A q \in Procs : Esta(G, S, q) <=> Esta(F, S, q) /\ q # p
<1> USE DEF Quitado
<1>1. PICK n \in Nat : n = Len(G[l])
  OBVIOUS
<1> DEFINE De(i) == IF i < c THEN i ELSE i + 1
<1>2. \A i \in 1 .. n : De(i) \in 1 .. Len(F[l]) /\ De(i) # c /\ G[l][i] = F[l][De(i)]
  BY <1>1
<1>3. \A i, j \in 1 .. n : De(i) = De(j) => i = j
  BY <1>1
<1>4. \A j \in 1 .. Len(F[l]) : j # c => \E i \in 1 .. n : De(i) = j
  <2> SUFFICES ASSUME NEW j \in 1 .. Len(F[l]), j # c PROVE \E i \in 1 .. n : De(i) = j
    OBVIOUS
  <2>1. CASE j < c
    <3>1. j \in 1 .. n /\ De(j) = j
      BY <2>1, <1>1
    <3> QED BY <3>1
  <2>2. CASE j > c
    <3>1. j - 1 \in 1 .. n /\ De(j - 1) = j
      BY <2>2, <1>1
    <3> QED BY <3>1
  <2> QED BY <2>1, <2>2
<1> HIDE DEF De
<1>5. Distintos(G, S)
  <2> SUFFICES ASSUME NEW m \in S, NEW k \in S, NEW i \in 1 .. Len(G[m]),
                      NEW j \in 1 .. Len(G[k]), G[m][i] = G[k][j]
               PROVE  m = k /\ i = j
    BY DEF Distintos
  <2>1. CASE m = l /\ k = l
    <3>1. De(i) = De(j)
      <4>1. De(i) \in 1 .. Len(F[l]) /\ De(j) \in 1 .. Len(F[l]) /\ F[l][De(i)] = F[l][De(j)]
        BY <2>1, <1>1, <1>2
      <4> QED BY <4>1 DEF Distintos
    <3> QED BY <3>1, <2>1, <1>1, <1>3
  <2>2. CASE m = l /\ k # l
    <3>1. /\ De(i) \in 1 .. Len(F[l]) /\ j \in 1 .. Len(F[k])
          /\ F[l][De(i)] = F[k][j]
      BY <2>2, <1>1, <1>2
    <3> QED BY <3>1, <2>2 DEF Distintos
  <2>3. CASE m # l /\ k = l
    <3>1. /\ i \in 1 .. Len(F[m]) /\ De(j) \in 1 .. Len(F[l])
          /\ F[m][i] = F[l][De(j)]
      BY <2>3, <1>1, <1>2
    <3> QED BY <3>1, <2>3 DEF Distintos
  <2>4. CASE m # l /\ k # l
    BY <2>4 DEF Distintos
  <2> QED BY <2>1, <2>2, <2>3, <2>4
<1>6. ASSUME NEW q \in Procs
      PROVE  Esta(G, S, q) <=> Esta(F, S, q) /\ q # p
  <2>0. F[l][c] = p
    OBVIOUS
  <2>1. ASSUME NEW k \in S, NEW i \in 1 .. Len(G[k]), G[k][i] = q
        PROVE  Esta(F, S, q) /\ q # F[l][c]
    <3>1. CASE k = l
      <4>1. De(i) \in 1 .. Len(F[l]) /\ De(i) # c /\ F[l][De(i)] = q
        BY <2>1, <3>1, <1>1, <1>2
      <4>2. q # F[l][c]
        BY <4>1 DEF Distintos
      <4> QED BY <4>1, <4>2 DEF Esta
    <3>2. CASE k # l
      BY <2>1, <3>2 DEF Esta, Distintos
    <3> QED BY <3>1, <3>2
  <2>2. ASSUME NEW k \in S, NEW i \in 1 .. Len(F[k]), F[k][i] = q, q # F[l][c]
        PROVE  Esta(G, S, q)
    <3>1. CASE k = l
      <4>1. PICK j \in 1 .. n : De(j) = i
        BY <3>1, <2>2, <1>4
      <4> QED BY <4>1, <3>1, <2>2, <1>1, <1>2 DEF Esta
    <3>2. CASE k # l
      BY <2>2, <3>2 DEF Esta
    <3> QED BY <3>1, <3>2
  <2> QED BY <2>0, <2>1, <2>2 DEF Esta
<1> QED BY <1>5, <1>6

\* RemoveFirst takes out one element, one that is equal to the one asked for.
LEMMA QuitaPrimero ==
  ASSUME NEW s \in Seq(Procs), NEW p \in Procs, EnCola(s, p)
  PROVE  \E c \in 1 .. Len(s) :
           /\ s[c] = p
           /\ RemoveFirst(s, p) \in Seq(Procs)
           /\ Len(RemoveFirst(s, p)) = Len(s) - 1
           /\ \A i \in 1 .. Len(RemoveFirst(s, p)) :
                RemoveFirst(s, p)[i] = s[IF i < c THEN i ELSE i + 1]
<1> DEFINE I == {i \in 1 .. Len(s) : s[i] = p}
<1>1. I \in SUBSET Nat /\ I # {}
  BY DEF EnCola
<1>2. \E x \in I : \A y \in I : x <= y
  BY <1>1, MinimoDe
<1>3. Min(I) \in I
  BY <1>2 DEF Min
<1>4. PICK c \in 1 .. Len(s) : c = Min(I) /\ s[c] = p
  BY <1>3
<1>5. RemoveFirst(s, p) = RemoveAt(s, c)
  BY <1>1, <1>4 DEF RemoveFirst, SelectInSeq
<1>6. PICK a \in Seq(Procs), b \in Seq(Procs) :
        /\ a = SubSeq(s, 1, c - 1) /\ Len(a) = c - 1
        /\ \A i \in 1 .. c - 1 : a[i] = s[i]
        /\ b = SubSeq(s, c + 1, Len(s)) /\ Len(b) = Len(s) - c
        /\ \A i \in 1 .. Len(s) - c : b[i] = s[i + c]
  <2>1. /\ SubSeq(s, 1, c - 1) \in Seq(Procs) /\ Len(SubSeq(s, 1, c - 1)) = c - 1
        /\ \A i \in 1 .. c - 1 : SubSeq(s, 1, c - 1)[i] = s[i]
    OBVIOUS
  <2>2. /\ SubSeq(s, c + 1, Len(s)) \in Seq(Procs) /\ Len(SubSeq(s, c + 1, Len(s))) = Len(s) - c
        /\ \A i \in 1 .. Len(s) - c : SubSeq(s, c + 1, Len(s))[i] = s[i + c]
    OBVIOUS
  <2> QED BY <2>1, <2>2
<1>7. RemoveFirst(s, p) = a \o b
  BY <1>5, <1>6 DEF RemoveAt
<1>8. /\ a \o b \in Seq(Procs) /\ Len(a \o b) = Len(s) - 1
      /\ \A i \in 1 .. c - 1 : (a \o b)[i] = a[i]
      /\ \A i \in c .. Len(s) - 1 : (a \o b)[i] = b[i - (c - 1)]
  <2>1. \A u, v \in Seq(Procs) :
          /\ u \o v \in Seq(Procs) /\ Len(u \o v) = Len(u) + Len(v)
          /\ \A i \in 1 .. Len(u) : (u \o v)[i] = u[i]
          /\ \A i \in Len(u) + 1 .. Len(u) + Len(v) : (u \o v)[i] = v[i - Len(u)]
    OBVIOUS
  <2>2. /\ a \o b \in Seq(Procs) /\ Len(a \o b) = Len(a) + Len(b)
        /\ \A i \in 1 .. Len(a) : (a \o b)[i] = a[i]
        /\ \A i \in Len(a) + 1 .. Len(a) + Len(b) : (a \o b)[i] = b[i - Len(a)]
    BY <2>1
  <2>3. Len(a) + Len(b) = Len(s) - 1 /\ Len(a) + 1 = c /\ Len(a) = c - 1
    <3>1. Len(a) = c - 1 /\ Len(b) = Len(s) - c
      BY <1>6
    <3>2. c \in Nat /\ Len(s) \in Nat
      OBVIOUS
    <3> QED BY ONLY <3>1, <3>2
  <2> QED BY <2>2, <2>3
<1>9. \A i \in 1 .. Len(s) - 1 : (a \o b)[i] = s[IF i < c THEN i ELSE i + 1]
  <2> SUFFICES ASSUME NEW i \in 1 .. Len(s) - 1
               PROVE  (a \o b)[i] = s[IF i < c THEN i ELSE i + 1]
    OBVIOUS
  <2>1. CASE i < c
    <3>1. i \in 1 .. c - 1
      BY <2>1
    <3> QED BY <3>1, <2>1, <1>6, <1>8
  <2>2. CASE i >= c
    <3>1. /\ i \in c .. Len(s) - 1 /\ i - (c - 1) \in 1 .. Len(s) - c
          /\ (i - (c - 1)) + c = i + 1 /\ ~ (i < c)
      BY <2>2
    <3>2. b[i - (c - 1)] = s[(i - (c - 1)) + c]
      BY <3>1, <1>6
    <3>3. (a \o b)[i] = s[i + 1]
      BY <3>1, <3>2, <1>8
    <3> QED BY <3>1, <3>3
  <2>3. i < c \/ i >= c
    OBVIOUS
  <2> QED BY <2>1, <2>2, <2>3
<1>10. /\ s[c] = p
       /\ RemoveFirst(s, p) \in Seq(Procs)
       /\ Len(RemoveFirst(s, p)) = Len(s) - 1
       /\ \A i \in 1 .. Len(RemoveFirst(s, p)) :
            RemoveFirst(s, p)[i] = s[IF i < c THEN i ELSE i + 1]
  <2>1. Len(a \o b) = Len(s) - 1
    BY <1>8
  <2>2. \A i \in 1 .. Len(a \o b) : (a \o b)[i] = s[IF i < c THEN i ELSE i + 1]
    BY <1>9, <2>1, Zenon
  <2> QED BY <1>4, <1>7, <1>8, <2>2, Zenon
<1> QED BY <1>10, Zenon


-----------------------------------------------------------------------------
(* The parts of the state and the next state of each.                       *)

Mutexes == [nombre : Nombres, dueno : Procs \union {Nadie}, cola : Seq(Procs)]
Ops == {"-", "CREATE", "LOCK", "UNLOCK", "EXIT"}
Registro(n) == [pc : Etapas, p : Procs \union {Nadie}, op : Ops,
                n : Nombres \union {Nadie}, mut : 0 .. n + 1,
                x : Procs \union {Nadie}, val : Nivel]

TipoLista == lista \in Seq(Mutexes)
TipoEspera == esperando \in [Procs -> 0 .. Len(lista)]
TipoHilos == r \in [Hilos -> Registro(Len(lista))]
TipoColas == colas \in [Nivel -> Seq(Procs)]
TipoCpu == cpu \in [Cpus -> Procs \union {Nadie}]
TipoPosee == posee \in [Procs -> SUBSET Nombres]
TipoResto ==
  /\ dinamica \in [Procs -> Nivel]
  /\ nuevos \subseteq Procs /\ io \subseteq Procs /\ fin \subseteq Procs
  /\ candado \in Hilos \union {Nadie}

\* The type invariant, in parts.
LEMMA TipoPorPartes ==
  TypeOK <=> /\ TipoLista /\ TipoEspera /\ TipoHilos /\ TipoColas
             /\ TipoCpu /\ TipoPosee /\ TipoResto
BY DEF TypeOK, TipoLista, TipoEspera, TipoHilos, TipoColas, TipoCpu, TipoPosee, TipoResto,
       Mutexes, Registro, Ops

\* The same in the next state.
LEMMA TipoPorPartesP ==
  TypeOK' <=> /\ TipoLista' /\ TipoEspera' /\ TipoHilos' /\ TipoColas'
              /\ TipoCpu' /\ TipoPosee' /\ TipoResto'
BY DEF TypeOK, TipoLista, TipoEspera, TipoHilos, TipoColas, TipoCpu, TipoPosee, TipoResto,
       Mutexes, Registro, Ops

\* The places of the next state are those of the functions of the next state.
LEMMA Primas ==
  /\ Inyecta(cpu, Cpus)' <=> Inyecta(cpu', Cpus)
  /\ Inyecta(Manos, Hilos)' <=> Inyecta(Manos', Hilos)
  /\ Inyecta(Sacados, Hilos)' <=> Inyecta(Sacados', Hilos)
  /\ Distintos(colas, Nivel)' <=> Distintos(colas', Nivel)
  /\ Distintos(Esperas, 1 .. Len(lista))' <=> Distintos(Esperas', 1 .. Len(lista'))
  /\ \A q : EnCpu(q)' <=> Hay(cpu', Cpus, q)
  /\ \A q : EnManos(q)' <=> Hay(Manos', Hilos, q)
  /\ \A q : EnSacados(q)' <=> Hay(Sacados', Hilos, q)
  /\ \A q : EnReady(q)' <=> Esta(colas', Nivel, q)
  /\ \A q : EnEspera(q)' <=> Esta(Esperas', 1 .. Len(lista'), q)
<1>1. Inyecta(cpu, Cpus)' <=> Inyecta(cpu', Cpus)
  BY DEF Inyecta
<1>2. Inyecta(Manos, Hilos)' <=> Inyecta(Manos', Hilos)
  BY DEF Inyecta, Hilos
<1>3. Inyecta(Sacados, Hilos)' <=> Inyecta(Sacados', Hilos)
  BY DEF Inyecta, Hilos
<1>4. Distintos(colas, Nivel)' <=> Distintos(colas', Nivel)
  BY DEF Distintos, Nivel
<1>5. Distintos(Esperas, 1 .. Len(lista))' <=> Distintos(Esperas', 1 .. Len(lista'))
  BY DEF Distintos
<1>6. /\ \A q : EnCpu(q)' <=> Hay(cpu', Cpus, q)
      /\ \A q : EnManos(q)' <=> Hay(Manos', Hilos, q)
      /\ \A q : EnSacados(q)' <=> Hay(Sacados', Hilos, q)
      /\ \A q : EnReady(q)' <=> Esta(colas', Nivel, q)
      /\ \A q : EnEspera(q)' <=> Esta(Esperas', 1 .. Len(lista'), q)
  BY DEF EnCpu, EnManos, EnSacados, EnReady, EnEspera, Hay, Esta, Hilos, Nivel
<1> QED BY <1>1, <1>2, <1>3, <1>4, <1>5, <1>6

\* CPUs that keep their processes.
LEMMA CpuIgual ==
  ASSUME IInv, cpu' = cpu
  PROVE  /\ TipoCpu' /\ Inyecta(cpu, Cpus)'
         /\ \A q \in Procs : EnCpu(q)' <=> EnCpu(q)
<1>1. TipoCpu'
  BY TipoPorPartes DEF IInv, TipoCpu
<1> QED BY <1>1, Primas DEF IInv, Unicos, EnCpu

\* Ready queues that do not change.
LEMMA ColasIgual ==
  ASSUME IInv, colas' = colas
  PROVE  /\ TipoColas' /\ Distintos(colas, Nivel)'
         /\ \A q \in Procs : EnReady(q)' <=> EnReady(q)
<1>1. TipoColas'
  BY TipoPorPartes DEF IInv, TipoColas, Nivel
<1> QED BY <1>1, Primas DEF IInv, Unicos, EnReady

\* Mutexes whose queues do not change.
LEMMA EsperasIgual ==
  ASSUME IInv, Len(lista') = Len(lista), \A m \in 1 .. Len(lista) : lista'[m].cola = lista[m].cola
  PROVE  /\ Distintos(Esperas, 1 .. Len(lista))'
         /\ \A q \in Procs : EnEspera(q)' <=> EnEspera(q)
<1>1. Esperas' = Esperas
  BY DEF Esperas
<1> QED BY <1>1, Primas DEF IInv, Unicos, EnEspera

\* Threads whose hands do not change.
LEMMA ManosIgual ==
  ASSUME IInv, \A k \in Hilos : EnMano(r'[k]) = EnMano(r[k])
  PROVE  /\ Inyecta(Manos, Hilos)'
         /\ \A q \in Procs : EnManos(q)' <=> EnManos(q)
<1>1. Manos' = Manos
  BY DEF Manos, Hilos
<1> QED BY <1>1, Primas DEF IInv, Unicos, EnManos

\* Threads that keep the waiters they took out.
LEMMA SacadosIgual ==
  ASSUME IInv, \A k \in Hilos : Sacado(r'[k]) = Sacado(r[k])
  PROVE  /\ Inyecta(Sacados, Hilos)'
         /\ \A q \in Procs : EnSacados(q)' <=> EnSacados(q)
<1>1. Sacados' = Sacados
  BY DEF Sacados, Hilos
<1> QED BY <1>1, Primas DEF IInv, Unicos, EnSacados


\* A thread takes a process in its hands.
LEMMA ManosToma ==
  ASSUME IInv, NEW h \in Hilos, NEW p \in Procs, \A k \in Hilos \ {h} : r'[k] = r[k],
         EnMano(r[h]) = Nadie, EnMano(r'[h]) = p, ~ EnManos(p)
  PROVE  /\ Inyecta(Manos, Hilos)'
         /\ \A q \in Procs : EnManos(q)' <=> EnManos(q) \/ q = p
<1>1. /\ \A k \in Hilos \ {h} : Manos'[k] = Manos[k]
      /\ Manos[h] = Nadie /\ Manos'[h] = p
  BY DEF Manos, Hilos
<1>2. Inyecta(Manos, Hilos) /\ ~ Hay(Manos, Hilos, p)
  BY DEF IInv, Unicos, EnManos
<1>3. /\ Inyecta(Manos', Hilos)
      /\ \A q \in Procs : Hay(Manos', Hilos, q) <=> Hay(Manos, Hilos, q) \/ q = p
  BY <1>1, <1>2, Ocupa
<1> QED BY <1>3, Primas DEF EnManos

\* A thread leaves the process it has.
LEMMA ManosDeja ==
  ASSUME IInv, NEW h \in Hilos, \A k \in Hilos \ {h} : r'[k] = r[k],
         EnMano(r'[h]) = Nadie
  PROVE  /\ Inyecta(Manos, Hilos)'
         /\ \A q \in Procs : EnManos(q)' <=> EnManos(q) /\ q # EnMano(r[h])
<1>1. /\ \A k \in Hilos \ {h} : Manos'[k] = Manos[k]
      /\ Manos[h] = EnMano(r[h]) /\ Manos'[h] = Nadie
  BY DEF Manos, Hilos
<1>2. Inyecta(Manos, Hilos)
  BY DEF IInv, Unicos
<1>3. /\ Inyecta(Manos', Hilos)
      /\ \A q \in Procs : Hay(Manos', Hilos, q) <=> Hay(Manos, Hilos, q) /\ q # Manos[h]
  BY <1>1, <1>2, Vacia
<1> QED BY <1>1, <1>3, Primas DEF EnManos

\* A thread takes a waiter out of the queue of a mutex.
LEMMA SacadosToma ==
  ASSUME IInv, NEW h \in Hilos, NEW p \in Procs, \A k \in Hilos \ {h} : r'[k] = r[k],
         Sacado(r[h]) = Nadie, Sacado(r'[h]) = p, ~ EnSacados(p)
  PROVE  /\ Inyecta(Sacados, Hilos)'
         /\ \A q \in Procs : EnSacados(q)' <=> EnSacados(q) \/ q = p
<1>1. /\ \A k \in Hilos \ {h} : Sacados'[k] = Sacados[k]
      /\ Sacados[h] = Nadie /\ Sacados'[h] = p
  BY DEF Sacados, Hilos
<1>2. Inyecta(Sacados, Hilos) /\ ~ Hay(Sacados, Hilos, p)
  BY DEF IInv, Unicos, EnSacados
<1>3. /\ Inyecta(Sacados', Hilos)
      /\ \A q \in Procs : Hay(Sacados', Hilos, q) <=> Hay(Sacados, Hilos, q) \/ q = p
  BY <1>1, <1>2, Ocupa
<1> QED BY <1>3, Primas DEF EnSacados

\* A thread queues the waiter it took out.
LEMMA SacadosDeja ==
  ASSUME IInv, NEW h \in Hilos, \A k \in Hilos \ {h} : r'[k] = r[k],
         Sacado(r'[h]) = Nadie
  PROVE  /\ Inyecta(Sacados, Hilos)'
         /\ \A q \in Procs : EnSacados(q)' <=> EnSacados(q) /\ q # Sacado(r[h])
<1>1. /\ \A k \in Hilos \ {h} : Sacados'[k] = Sacados[k]
      /\ Sacados[h] = Sacado(r[h]) /\ Sacados'[h] = Nadie
  BY DEF Sacados, Hilos
<1>2. Inyecta(Sacados, Hilos)
  BY DEF IInv, Unicos
<1>3. /\ Inyecta(Sacados', Hilos)
      /\ \A q \in Procs : Hay(Sacados', Hilos, q) <=> Hay(Sacados, Hilos, q) /\ q # Sacados[h]
  BY <1>1, <1>2, Vacia
<1> QED BY <1>1, <1>3, Primas DEF EnSacados

\* A CPU receives a process.
LEMMA CpuToma ==
  ASSUME IInv, NEW c \in Cpus, NEW p \in Procs, cpu' = [cpu EXCEPT ![c] = p],
         cpu[c] = Nadie, ~ EnCpu(p)
  PROVE  /\ TipoCpu' /\ Inyecta(cpu, Cpus)'
         /\ \A q \in Procs : EnCpu(q)' <=> EnCpu(q) \/ q = p
<1>1. cpu \in [Cpus -> Procs \union {Nadie}]
  BY TipoPorPartes DEF IInv, TipoCpu
<1>2. TipoCpu' /\ cpu'[c] = p /\ \A k \in Cpus \ {c} : cpu'[k] = cpu[k]
  BY <1>1 DEF TipoCpu
<1>3. Inyecta(cpu, Cpus) /\ ~ Hay(cpu, Cpus, p)
  BY DEF IInv, Unicos, EnCpu
<1>4. /\ Inyecta(cpu', Cpus)
      /\ \A q \in Procs : Hay(cpu', Cpus, q) <=> Hay(cpu, Cpus, q) \/ q = p
  BY <1>2, <1>3, Ocupa
<1> QED BY <1>2, <1>4, Primas DEF EnCpu

\* A CPU gives its process back.
LEMMA CpuDeja ==
  ASSUME IInv, NEW c \in Cpus, cpu' = [cpu EXCEPT ![c] = Nadie]
  PROVE  /\ TipoCpu' /\ Inyecta(cpu, Cpus)'
         /\ \A q \in Procs : EnCpu(q)' <=> EnCpu(q) /\ q # cpu[c]
<1>1. cpu \in [Cpus -> Procs \union {Nadie}]
  BY TipoPorPartes DEF IInv, TipoCpu
<1>2. TipoCpu' /\ cpu'[c] = Nadie /\ \A k \in Cpus \ {c} : cpu'[k] = cpu[k]
  BY <1>1 DEF TipoCpu
<1>3. Inyecta(cpu, Cpus)
  BY DEF IInv, Unicos
<1>4. /\ Inyecta(cpu', Cpus)
      /\ \A q \in Procs : Hay(cpu', Cpus, q) <=> Hay(cpu, Cpus, q) /\ q # cpu[c]
  <2> HIDE DEF IInv
  <2>1. PICK f, g : f = cpu /\ g = cpu'
    OBVIOUS
  <2>2. Inyecta(f, Cpus) /\ g[c] = Nadie /\ \A k \in Cpus \ {c} : g[k] = f[k]
    BY <1>2, <1>3, <2>1
  <2>3. /\ Inyecta(g, Cpus)
        /\ \A q \in Procs : Hay(g, Cpus, q) <=> Hay(f, Cpus, q) /\ q # f[c]
    BY <2>2, Vacia
  <2> QED BY <2>1, <2>3
<1> QED BY <1>2, <1>4, Primas DEF EnCpu

\* A process enters a ready queue.
LEMMA ColasAgrega ==
  ASSUME IInv, NEW p \in Procs, AlFinal(p) \/ AlInicio(p), ~ EnReady(p)
  PROVE  /\ TipoColas' /\ Distintos(colas, Nivel)'
         /\ \A q \in Procs : EnReady(q)' <=> EnReady(q) \/ q = p
<1>1. colas \in [Nivel -> Seq(Procs)] /\ Prioridad[p] \in Nivel
  BY TipoPorPartes, PrioridadAssumption DEF IInv, TipoColas, Nivel
<1>2. PICK l \in Nivel : l = Prioridad[p]
  BY <1>1
<1>3. PICK s \in Seq(Procs) : /\ s = Append(colas[l], p) \/ s = <<p>> \o colas[l]
                              /\ colas' = [colas EXCEPT ![l] = s]
  <2>1. \A u \in Seq(Procs) : Append(u, p) \in Seq(Procs) /\ <<p>> \o u \in Seq(Procs)
    OBVIOUS
  <2>2. Append(colas[l], p) \in Seq(Procs) /\ <<p>> \o colas[l] \in Seq(Procs)
    BY <1>1, <2>1
  <2> QED BY <1>1, <1>2, <2>2 DEF AlFinal, AlInicio
<1>4. TipoColas' /\ colas'[l] = s /\ \A k \in Nivel \ {l} : colas'[k] = colas[k]
  BY <1>1, <1>3 DEF TipoColas, Nivel
<1>5. Distintos(colas, Nivel) /\ ~ Esta(colas, Nivel, p) /\ colas[l] \in Seq(Procs)
  BY <1>1 DEF IInv, Unicos, EnReady
<1>6. /\ Distintos(colas', Nivel)
      /\ \A q \in Procs : Esta(colas', Nivel, q) <=> Esta(colas, Nivel, q) \/ q = p
  <2>1. Agregado(colas, colas', Nivel, l, p)
    BY <1>3, <1>4, <1>5 DEF Agregado
  <2> QED BY <2>1, Agrega
<1> QED BY <1>4, <1>6, Primas DEF EnReady

Retira(l) == colas[l] # <<>> /\ colas' = [colas EXCEPT ![l] = Tail(colas[l])]

\* The head of a ready queue leaves it.
LEMMA ColasSaca ==
  ASSUME IInv, NEW l \in Nivel, Retira(l)
  PROVE  /\ TipoColas' /\ Distintos(colas, Nivel)'
         /\ Head(colas[l]) \in Procs /\ EnReady(Head(colas[l]))
         /\ \A q \in Procs : EnReady(q)' <=> EnReady(q) /\ q # Head(colas[l])
<1>1. colas \in [Nivel -> Seq(Procs)]
  BY TipoPorPartes DEF IInv, TipoColas
<1>2. PICK s \in Seq(Procs) : s = colas[l]
  BY <1>1
<1>3. s # <<>> /\ Tail(s) \in Seq(Procs)
  BY <1>2 DEF Retira
<1>4. /\ 1 \in 1 .. Len(s) /\ Head(s) = s[1] /\ Head(s) \in Procs
      /\ Len(Tail(s)) = Len(s) - 1
      /\ \A i \in 1 .. Len(Tail(s)) : Tail(s)[i] = s[IF i < 1 THEN i ELSE i + 1]
  BY <1>3
<1>5. TipoColas' /\ colas'[l] = Tail(s) /\ \A k \in Nivel \ {l} : colas'[k] = colas[k]
  BY <1>1, <1>2, <1>3 DEF TipoColas, Nivel, Retira
<1>6. Distintos(colas, Nivel)
  BY DEF IInv, Unicos
<1>7. /\ Distintos(colas', Nivel)
      /\ \A q \in Procs : Esta(colas', Nivel, q) <=> Esta(colas, Nivel, q) /\ q # Head(s)
  <2>1. Quitado(colas, colas', Nivel, l, 1, Head(s))
    BY <1>2, <1>3, <1>4, <1>5, <1>6 DEF Quitado
  <2>2. Distintos(colas', Nivel)
    BY <2>1, <1>4, Saca
  <2>3. ASSUME NEW q \in Procs
        PROVE  Esta(colas', Nivel, q) <=> Esta(colas, Nivel, q) /\ q # Head(s)
    BY <2>1, <1>4, Saca
  <2> QED BY <2>2, <2>3
<1>8. EnReady(Head(colas[l]))
  BY <1>2, <1>4 DEF EnReady, Esta
<1> QED BY <1>2, <1>4, <1>5, <1>7, <1>8, Primas DEF EnReady


\* A process that changes queue stays READY.
LEMMA ColasReubica ==
  ASSUME IInv, NEW p \in Procs, NEW antes \in Nivel, NEW ahora \in Nivel, Reubica(p, antes, ahora)
  PROVE  /\ TipoColas' /\ Distintos(colas, Nivel)'
         /\ \A q \in Procs : EnReady(q)' <=> EnReady(q)
<1>1. CASE ~ (antes # ahora /\ EnCola(colas[antes], p))
  <2>1. colas' = colas
    BY <1>1 DEF Reubica
  <2> QED BY <2>1, ColasIgual
<1>2. CASE antes # ahora /\ EnCola(colas[antes], p)
  <2>1. colas \in [Nivel -> Seq(Procs)]
    BY TipoPorPartes DEF IInv, TipoColas
  <2>2. PICK s \in Seq(Procs), u \in Seq(Procs) : s = colas[antes] /\ u = colas[ahora]
    BY <2>1
  <2>3. PICK c \in 1 .. Len(s) :
           /\ s[c] = p
           /\ RemoveFirst(s, p) \in Seq(Procs)
           /\ Len(RemoveFirst(s, p)) = Len(s) - 1
           /\ \A i \in 1 .. Len(RemoveFirst(s, p)) :
                RemoveFirst(s, p)[i] = s[IF i < c THEN i ELSE i + 1]
    <3>1. EnCola(s, p)
      BY <1>2, <2>2
    <3> QED BY <3>1, QuitaPrimero, Zenon
  <2>4. PICK t \in Seq(Procs) : t = RemoveFirst(s, p)
    BY <2>3
  <2>5. PICK G \in [Nivel -> Seq(Procs)] : G = [colas EXCEPT ![antes] = t]
    BY <2>1
  <2>6. G[antes] = t /\ \A k \in Nivel \ {antes} : G[k] = colas[k]
    BY <2>1, <2>5
  <2>7. Append(u, p) \in Seq(Procs)
    OBVIOUS
  <2>8. colas' = [G EXCEPT ![ahora] = Append(u, p)]
    BY <1>2, <2>1, <2>2, <2>4, <2>5 DEF Reubica
  <2>9. TipoColas' /\ colas'[ahora] = Append(u, p) /\ \A k \in Nivel \ {ahora} : colas'[k] = G[k]
    BY <2>5, <2>7, <2>8 DEF TipoColas, Nivel
  <2>10. c \in Nat /\ Quitado(colas, G, Nivel, antes, c, p)
    <3>1. c \in Nat
      OBVIOUS
    <3>2. Distintos(colas, Nivel)
      BY DEF IInv, Unicos
    <3>3. /\ Len(t) = Len(s) - 1
          /\ \A i \in 1 .. Len(t) : t[i] = s[IF i < c THEN i ELSE i + 1]
      BY <2>3, <2>4
    <3> QED BY <3>1, <3>2, <3>3, <2>2, <2>3, <2>6 DEF Quitado
  <2>11. Distintos(G, Nivel)
    BY <2>10, Saca
  <2>12. ASSUME NEW q \in Procs
         PROVE  Esta(G, Nivel, q) <=> Esta(colas, Nivel, q) /\ q # p
    BY <2>10, Saca
  <2>13. colas[antes][c] = p /\ Esta(colas, Nivel, p) /\ ~ Esta(G, Nivel, p)
    <3>1. colas[antes][c] = p /\ c \in 1 .. Len(colas[antes])
      BY <2>2, <2>3
    <3> QED BY <3>1, <2>12 DEF Esta
  <2>14. Agregado(G, colas', Nivel, ahora, p)
    BY <1>2, <2>2, <2>6, <2>9, <2>11, <2>13 DEF Agregado
  <2>15. Distintos(colas', Nivel)
    BY <2>14, Agrega
  <2>16. ASSUME NEW q \in Procs
         PROVE  Esta(colas', Nivel, q) <=> Esta(G, Nivel, q) \/ q = p
    BY <2>14, Agrega
  <2> QED BY <2>9, <2>12, <2>13, <2>15, <2>16, Primas DEF EnReady
<1> QED BY <1>1, <1>2

\* A change of one mutex.
LEMMA ListaCambia ==
  ASSUME TipoLista, NEW m \in 1 .. Len(lista), NEW v \in Mutexes,
         lista' = [lista EXCEPT ![m] = v]
  PROVE  /\ TipoLista' /\ Len(lista') = Len(lista) /\ lista'[m] = v
         /\ \A k \in 1 .. Len(lista) : k # m => lista'[k] = lista[k]
<1>1. \A S : \A s \in Seq(S) : \A i \in 1 .. Len(s) : \A x \in S :
        /\ [s EXCEPT ![i] = x] \in Seq(S) /\ Len([s EXCEPT ![i] = x]) = Len(s)
        /\ [s EXCEPT ![i] = x][i] = x
        /\ \A k \in 1 .. Len(s) : k # i => [s EXCEPT ![i] = x][k] = s[k]
  OBVIOUS
<1> QED BY <1>1 DEF TipoLista, Mutexes

\* A process enters the queue of a mutex.
LEMMA EsperasAgrega ==
  ASSUME IInv, NEW m \in 1 .. Len(lista), NEW p \in Procs, ~ EnEspera(p),
         Len(lista') = Len(lista), lista'[m].cola = Append(lista[m].cola, p),
         \A k \in 1 .. Len(lista) : k # m => lista'[k].cola = lista[k].cola
  PROVE  /\ Distintos(Esperas, 1 .. Len(lista))'
         /\ \A q \in Procs : EnEspera(q)' <=> EnEspera(q) \/ q = p
<1>1. lista \in Seq(Mutexes)
  BY TipoPorPartes DEF IInv, TipoLista
<1>2. lista[m].cola \in Seq(Procs)
  <2>1. lista[m] \in Mutexes
    BY <1>1
  <2> QED BY <2>1 DEF Mutexes
<1> DEFINE S == 1 .. Len(lista)
<1>3. /\ \A k \in S : Esperas[k] = lista[k].cola
      /\ \A k \in S : Esperas'[k] = lista'[k].cola
  BY DEF Esperas
<1>4. Agregado(Esperas, Esperas', S, m, p)
  BY <1>2, <1>3 DEF Agregado, IInv, Unicos, EnEspera
<1>5. m \in S
  OBVIOUS
<1>6. 1 .. Len(lista') = S
  OBVIOUS
<1> HIDE DEF S
<1>7. Distintos(Esperas', S)
  BY <1>4, <1>5, Agrega
<1>8. ASSUME NEW q \in Procs
      PROVE  Esta(Esperas', S, q) <=> Esta(Esperas, S, q) \/ q = p
  BY <1>4, <1>5, Agrega
<1> QED BY <1>6, <1>7, <1>8, Primas DEF EnEspera, S

\* The head of the queue of a mutex leaves it.
LEMMA EsperasSaca ==
  ASSUME IInv, NEW m \in 1 .. Len(lista), lista[m].cola # <<>>,
         Len(lista') = Len(lista), lista'[m].cola = Tail(lista[m].cola),
         \A k \in 1 .. Len(lista) : k # m => lista'[k].cola = lista[k].cola
  PROVE  /\ Distintos(Esperas, 1 .. Len(lista))'
         /\ Head(lista[m].cola) \in Procs /\ EnEspera(Head(lista[m].cola))
         /\ \A q \in Procs : EnEspera(q)' <=> EnEspera(q) /\ q # Head(lista[m].cola)
<1>1. lista \in Seq(Mutexes)
  BY TipoPorPartes DEF IInv, TipoLista
<1>2. PICK s \in Seq(Procs) : s = lista[m].cola
  <2>1. lista[m] \in Mutexes
    BY <1>1
  <2> QED BY <2>1 DEF Mutexes
<1>3. s # <<>> /\ Tail(s) \in Seq(Procs)
  BY <1>2
<1>4. /\ 1 \in 1 .. Len(s) /\ Head(s) = s[1] /\ Head(s) \in Procs
      /\ Len(Tail(s)) = Len(s) - 1
      /\ \A i \in 1 .. Len(Tail(s)) : Tail(s)[i] = s[IF i < 1 THEN i ELSE i + 1]
  BY <1>3
<1> DEFINE S == 1 .. Len(lista)
<1>5. /\ \A k \in S : Esperas[k] = lista[k].cola
      /\ \A k \in S : Esperas'[k] = lista'[k].cola
  BY DEF Esperas
<1>6. /\ Esperas[m] = s /\ Esperas'[m] = Tail(s)
      /\ \A k \in S \ {m} : Esperas'[k] = Esperas[k]
  BY <1>2, <1>5
<1>7. Distintos(Esperas, S)
  BY DEF IInv, Unicos
<1>8. m \in S /\ 1 .. Len(lista') = S
  OBVIOUS
<1>9. EnEspera(Head(s))
  BY <1>4, <1>6 DEF EnEspera, Esta
<1> HIDE DEF S
<1>10. Quitado(Esperas, Esperas', S, m, 1, Head(s))
  BY <1>3, <1>4, <1>6, <1>7 DEF Quitado
<1>11. Distintos(Esperas', S)
  BY <1>4, <1>8, <1>10, Saca
<1>12. ASSUME NEW q \in Procs
       PROVE  Esta(Esperas', S, q) <=> Esta(Esperas, S, q) /\ q # Head(s)
  BY <1>4, <1>8, <1>10, Saca
<1> QED BY <1>2, <1>4, <1>6, <1>8, <1>9, <1>11, <1>12, Primas DEF EnEspera, S

\* A new mutex has nobody in its queue.
LEMMA EsperasNueva ==
  ASSUME IInv, Len(lista') = Len(lista) + 1, lista'[Len(lista) + 1].cola = <<>>,
         \A k \in 1 .. Len(lista) : lista'[k].cola = lista[k].cola
  PROVE  /\ Distintos(Esperas, 1 .. Len(lista))'
         /\ \A q \in Procs : EnEspera(q)' <=> EnEspera(q)
<1>1. PICK n \in Nat : n = Len(lista)
  BY TipoPorPartes DEF IInv, TipoLista
<1>2. /\ \A k \in 1 .. n : Esperas[k] = lista[k].cola
      /\ \A k \in 1 .. n + 1 : Esperas'[k] = lista'[k].cola
  BY <1>1 DEF Esperas
<1>3. Esperas'[n + 1] = <<>> /\ \A k \in 1 .. n : Esperas'[k] = Esperas[k]
  BY <1>1, <1>2
<1>4. Distintos(Esperas, 1 .. n)
  BY <1>1 DEF IInv, Unicos
<1>5. \A k \in 1 .. n + 1 : k \in 1 .. n \/ k = n + 1
  OBVIOUS
<1>6. 1 .. Len(Esperas'[n + 1]) = {}
  BY <1>3
<1>7. Distintos(Esperas', 1 .. n + 1)
  <2> SUFFICES ASSUME NEW l \in 1 .. n + 1, NEW k \in 1 .. n + 1, NEW i \in 1 .. Len(Esperas'[l]),
                      NEW j \in 1 .. Len(Esperas'[k]), Esperas'[l][i] = Esperas'[k][j]
               PROVE  l = k /\ i = j
    BY DEF Distintos
  <2>1. l \in 1 .. n /\ k \in 1 .. n
    BY <1>5, <1>6
  <2>2. /\ i \in 1 .. Len(Esperas[l]) /\ j \in 1 .. Len(Esperas[k])
        /\ Esperas[l][i] = Esperas[k][j]
    BY <2>1, <1>3
  <2> QED BY <2>1, <2>2, <1>4 DEF Distintos
<1>8. ASSUME NEW q \in Procs
      PROVE  Esta(Esperas', 1 .. n + 1, q) <=> Esta(Esperas, 1 .. n, q)
  <2>1. \A k \in 1 .. n : k \in 1 .. n + 1
    OBVIOUS
  <2> QED BY <2>1, <1>3, <1>5, <1>6 DEF Esta
<1> QED BY <1>1, <1>7, <1>8, Primas DEF EnEspera


-----------------------------------------------------------------------------
(* Steps of a thread.                                                       *)

\* The record of a thread after a step.
LEMMA HiloCambia ==
  ASSUME TipoHilos, NEW h \in Hilos, NEW t \in Registro(Len(lista)), r' = [r EXCEPT ![h] = t]
  PROVE  /\ r'[h] = t /\ \A k \in Hilos \ {h} : r'[k] = r[k]
         /\ Len(lista') = Len(lista) => TipoHilos'
<1>1. r' \in [Hilos -> Registro(Len(lista))]
  BY DEF TipoHilos
<1>2. Len(lista') = Len(lista) => TipoHilos'
  BY <1>1 DEF TipoHilos, Hilos, Registro, Nivel, Etapas, Ops
<1> QED BY <1>2 DEF TipoHilos

\* A step that only moves the thread to another stage.
LEMMA PasaTipo ==
  ASSUME TipoHilos, NEW h \in Hilos, NEW e \in Etapas, Pasa(h, e)
  PROVE  \E t \in Registro(Len(lista)) :
           /\ r' = [r EXCEPT ![h] = t] /\ t.pc = e /\ t.p = r[h].p /\ t.n = r[h].n
           /\ t.op = r[h].op /\ t.mut = r[h].mut /\ t.x = r[h].x /\ t.val = r[h].val
<1>1. r[h] \in Registro(Len(lista))
  BY DEF TipoHilos
<1>2. [r[h] EXCEPT !.pc = e] \in Registro(Len(lista))
  BY <1>1 DEF Registro
<1>3. r' = [r EXCEPT ![h] = [r[h] EXCEPT !.pc = e]]
  BY DEF Pasa
<1> QED BY <1>1, <1>2, <1>3 DEF Registro

\* A step that ends the work of the thread.
LEMMA AcabaTipo ==
  ASSUME TipoHilos, NEW h \in Hilos, Acaba(h)
  PROVE  \E t \in Registro(Len(lista)) : t = Ocioso /\ r' = [r EXCEPT ![h] = t]
<1>1. 0 \in Nivel /\ 0 \in 0 .. Len(lista) + 1
  <2>1. Niveles \in Nat /\ Niveles > 0
    BY NivelesAssumption
  <2>2. 0 \in Nivel
    BY <2>1 DEF Nivel
  <2>3. PICK t \in Registro(Len(lista)) : t = r[h]
    BY DEF TipoHilos
  <2>4. t.mut \in 0 .. Len(lista) + 1
    BY DEF Registro
  <2>5. 0 \in 0 .. Len(lista) + 1
    BY <2>4
  <2> QED BY <2>2, <2>5
<1>2. Ocioso \in Registro(Len(lista))
  BY <1>1 DEF Ocioso, Registro, Etapas, Ops
<1> QED BY <1>2 DEF Acaba

\* The other threads keep what they know.
LEMMA OtrosHilos ==
  ASSUME IInv, NEW h \in Hilos, \A k \in Hilos \ {h} : r'[k] = r[k],
         Len(lista') \in {Len(lista), Len(lista) + 1},
         \A m \in 1 .. Len(lista) : lista'[m].nombre = lista[m].nombre,
         Etapa(h)'
  PROVE  EtapasOK'
<1>1. Len(lista) \in Nat
  BY TipoPorPartes DEF IInv, TipoLista
<1>2. \A m \in 1 .. Len(lista) : m \in 1 .. Len(lista')
  BY <1>1
<1>3. ASSUME NEW k \in Hilos \ {h} PROVE Etapa(k)'
  <2>1. Etapa(k) /\ r'[k] = r[k]
    BY DEF IInv, EtapasOK
  <2> QED BY <2>1, <1>2 DEF Etapa
<1> QED BY <1>3 DEF EtapasOK, Hilos

\* Nobody changes place.
LEMMA NadieSeMuda ==
  ASSUME IInv, nuevos' = nuevos, fin' = fin, io' = io,
         \A q \in Procs : /\ EnCpu(q)' <=> EnCpu(q)
                          /\ EnManos(q)' <=> EnManos(q)
                          /\ EnSacados(q)' <=> EnSacados(q)
                          /\ EnReady(q)' <=> EnReady(q)
                          /\ EnEspera(q)' <=> EnEspera(q)
  PROVE  Uno'
BY DEF IInv, Uno, SoloUno

\* A thread that keeps the process it has, and the queues as they are.
LEMMA HiloQuieto ==
  ASSUME IInv, NEW h \in Hilos, NEW t \in Registro(Len(lista)), r' = [r EXCEPT ![h] = t],
         EnMano(t) = EnMano(r[h]), Sacado(t) = Sacado(r[h]), Etapa(h)',
         TipoLista', Len(lista') = Len(lista),
         \A m \in 1 .. Len(lista) : /\ lista'[m].nombre = lista[m].nombre
                                    /\ lista'[m].cola = lista[m].cola,
         TipoPosee', candado' \in Hilos \union {Nadie},
         UNCHANGED <<dinamica, esperando, colas, nuevos, cpu, io, fin>>
  PROVE  IInv'
<1>1. TipoHilos /\ TipoEspera /\ TipoResto
  BY TipoPorPartes DEF IInv
<1>2. TipoHilos' /\ r'[h] = t /\ \A k \in Hilos \ {h} : r'[k] = r[k]
  BY <1>1, HiloCambia
<1>3. TipoEspera' /\ TipoResto'
  BY <1>1 DEF TipoEspera, TipoResto, Nivel, Hilos
<1>4. \A k \in Hilos : EnMano(r'[k]) = EnMano(r[k]) /\ Sacado(r'[k]) = Sacado(r[k])
  BY <1>2
<1>5. EtapasOK'
  BY <1>2, OtrosHilos
<1>6. /\ TipoCpu' /\ Inyecta(cpu, Cpus)' /\ \A q \in Procs : EnCpu(q)' <=> EnCpu(q)
  BY CpuIgual
<1>7. /\ TipoColas' /\ Distintos(colas, Nivel)' /\ \A q \in Procs : EnReady(q)' <=> EnReady(q)
  BY ColasIgual
<1>8. /\ Distintos(Esperas, 1 .. Len(lista))' /\ \A q \in Procs : EnEspera(q)' <=> EnEspera(q)
  BY EsperasIgual
<1>9. /\ Inyecta(Manos, Hilos)' /\ \A q \in Procs : EnManos(q)' <=> EnManos(q)
  BY <1>4, ManosIgual
<1>10. /\ Inyecta(Sacados, Hilos)' /\ \A q \in Procs : EnSacados(q)' <=> EnSacados(q)
  BY <1>4, SacadosIgual
<1>11. Uno'
  BY <1>6, <1>7, <1>8, <1>9, <1>10, NadieSeMuda
<1>12. TypeOK'
  BY <1>2, <1>3, <1>6, <1>7, TipoPorPartesP
<1> QED BY <1>5, <1>6, <1>7, <1>8, <1>9, <1>10, <1>11, <1>12 DEF IInv, Unicos


\* What the invariant says of one thread.
LEMMA UnHilo ==
  ASSUME IInv, NEW h \in Hilos
  PROVE  /\ TipoHilos /\ TipoLista /\ TipoPosee /\ TipoResto /\ TipoEspera /\ TipoColas
         /\ r[h] \in Registro(Len(lista)) /\ Etapa(h)
         /\ Len(lista) \in Nat
<1>1. /\ TipoHilos /\ TipoLista /\ TipoPosee /\ TipoResto /\ TipoEspera /\ TipoColas
  BY TipoPorPartes DEF IInv
<1>2. r[h] \in Registro(Len(lista)) /\ Len(lista) \in Nat
  BY <1>1 DEF TipoHilos, TipoLista
<1> QED BY <1>1, <1>2 DEF IInv, EtapasOK

Firmes == Etapas \ {"ocioso", "propaga", "despierta"}

\* A stage that leaves the process in the hands of the thread.
LEMMA ManoFirme ==
  ASSUME NEW s, NEW t, s.pc \in Firmes, t.pc \in Firmes, t.p = s.p
  PROVE  EnMano(t) = EnMano(s) /\ Sacado(t) = Sacado(s) /\ EnMano(s) = s.p /\ Sacado(s) = Nadie
BY DEF EnMano, Sacado, Firmes

\* A thread that only goes on to another stage.
LEMMA PasaQuieto ==
  ASSUME IInv, NEW h \in Hilos, NEW e \in {"toma", "bloquea", "encola", "suelta", "cede", "termina"},
         Pasa(h, e), r[h].pc \in Firmes,
         e \in {"toma", "bloquea", "suelta", "cede"} =>
           r[h].mut \in 1 .. Len(lista) /\ r[h].n = lista[r[h].mut].nombre,
         candado' \in Hilos \union {Nadie},
         UNCHANGED <<lista, dinamica, esperando, colas, nuevos, cpu, io, fin, posee>>
  PROVE  IInv'
<1>1. /\ TipoHilos /\ TipoLista /\ TipoPosee /\ r[h] \in Registro(Len(lista)) /\ Etapa(h)
  BY UnHilo
<1>2. e \in Etapas /\ e \in Firmes
  BY DEF Etapas, Firmes
<1>3. PICK t \in Registro(Len(lista)) :
           /\ r' = [r EXCEPT ![h] = t] /\ t.pc = e /\ t.p = r[h].p /\ t.n = r[h].n
           /\ t.op = r[h].op /\ t.mut = r[h].mut /\ t.x = r[h].x /\ t.val = r[h].val
  BY <1>1, <1>2, PasaTipo
<1>4. EnMano(t) = EnMano(r[h]) /\ Sacado(t) = Sacado(r[h])
  BY <1>2, <1>3, ManoFirme
<1>5. r'[h] = t
  BY <1>1, <1>3, HiloCambia
<1>6. r[h].p # Nadie
  BY <1>1 DEF Etapa, Firmes
<1>7. Etapa(h)'
  BY <1>3, <1>5, <1>6 DEF Etapa
<1>8. TipoLista' /\ TipoPosee' /\ Len(lista') = Len(lista)
  BY <1>1 DEF TipoLista, TipoPosee, Mutexes
<1> QED BY <1>3, <1>4, <1>7, <1>8, HiloQuieto

\* LOCK looks at the owner.
LEMMA PasoMira ==
  ASSUME IInv, NEW h \in Hilos, Mira(h)
  PROVE  IInv'
<1>1. r[h].pc = "mira" /\ r[h].pc \in Firmes
  BY DEF Mira, Paso, Firmes, Etapas
<1>2. PICK e \in {"toma", "bloquea"} : Pasa(h, e)
  BY DEF Mira
<1>3. r[h].mut \in 1 .. Len(lista) /\ r[h].n = lista[r[h].mut].nombre
  BY <1>1, UnHilo DEF Etapa
<1>4. candado' \in Hilos \union {Nadie}
  BY UnHilo DEF Mira, TipoResto
<1> QED BY <1>1, <1>2, <1>3, <1>4, PasaQuieto DEF Mira

\* UNLOCK looks at the owner and at the queue.
LEMMA PasoComprueba ==
  ASSUME IInv, NEW h \in Hilos, Comprueba(h)
  PROVE  IInv'
<1>1. r[h].pc = "comprueba" /\ r[h].pc \in Firmes
  BY DEF Comprueba, Paso, Firmes, Etapas
<1>2. PICK e \in {"encola", "suelta", "cede"} : Pasa(h, e)
  BY DEF Comprueba
<1>3. r[h].mut \in 1 .. Len(lista) /\ r[h].n = lista[r[h].mut].nombre
  BY <1>1, UnHilo DEF Etapa
<1>4. candado' \in Hilos \union {Nadie}
  BY UnHilo DEF Comprueba, TipoResto
<1> QED BY <1>1, <1>2, <1>3, <1>4, PasaQuieto DEF Comprueba

\* The end of a process gives the lock of the list back.
LEMMA PasoLiberaFin ==
  ASSUME IInv, NEW h \in Hilos, LiberaFin(h)
  PROVE  IInv'
<1>1. r[h].pc = "libera" /\ r[h].pc \in Firmes
  BY DEF LiberaFin, Paso, Firmes, Etapas
<1> QED BY <1>1, PasaQuieto DEF LiberaFin

\* The search gives the position of a mutex, or zero.
LEMMA BuscarTipo ==
  ASSUME TipoLista, NEW n
  PROVE  /\ Buscar(n) \in 0 .. Len(lista)
         /\ Buscar(n) # 0 => Buscar(n) \in 1 .. Len(lista) /\ lista[Buscar(n)].nombre = n
         /\ Buscar(n) = 0 => \A m \in 1 .. Len(lista) : lista[m].nombre # n
<1> DEFINE T == Posiciones(n)
<1>1. /\ Len(lista) \in Nat /\ DOMAIN lista = 1 .. Len(lista)
      /\ T = {i \in 1 .. Len(lista) : lista[i].nombre = n}
  BY DEF TipoLista, Posiciones
<1>2. CASE T = {}
  <2>1. Buscar(n) = 0
    BY <1>2 DEF Buscar
  <2> QED BY <2>1, <1>1, <1>2
<1>3. CASE T # {}
  <2>1. T \in SUBSET Nat
    BY <1>1
  <2>2. \E i \in T : \A j \in T : i <= j
    BY <1>3, <2>1, MinimoDe
  <2>3. Buscar(n) \in T
    BY <1>3, <2>2 DEF Buscar
  <2> QED BY <2>3, <1>1
<1> QED BY <1>2, <1>3

\* The search of a syscall.
LEMMA PasoBusca ==
  ASSUME IInv, NEW h \in Hilos, Busca(h)
  PROVE  IInv'
<1>1. /\ TipoHilos /\ TipoLista /\ TipoPosee /\ TipoResto
      /\ r[h] \in Registro(Len(lista)) /\ Etapa(h) /\ Len(lista) \in Nat
  BY UnHilo
<1>2. r[h].pc = "busca" /\ r[h].pc \in Firmes
  BY DEF Busca, Paso, Firmes, Etapas
<1>3. r[h].n \in Nombres /\ r[h].op \in {"CREATE", "LOCK", "UNLOCK"} /\ r[h].p # Nadie
  BY <1>1, <1>2 DEF Etapa
<1>4. PICK i \in 0 .. Len(lista) :
        /\ i = Buscar(r[h].n)
        /\ i # 0 => i \in 1 .. Len(lista) /\ lista[i].nombre = r[h].n
  BY <1>1, BuscarTipo
<1>5. PICK e \in {"registra", "encola", "mira", "comprueba"} :
        /\ e = CASE r[h].op = "CREATE" -> IF i = 0 THEN "registra" ELSE "encola"
                 [] r[h].op = "LOCK"   -> IF i = 0 THEN "registra" ELSE "mira"
                 [] r[h].op = "UNLOCK" -> IF i = 0 THEN "encola" ELSE "comprueba"
        /\ e \in {"mira", "comprueba"} => i # 0
  BY <1>3
<1>6. r' = [r EXCEPT ![h] = [r[h] EXCEPT !.mut = i, !.pc = e]]
  BY <1>1, <1>4, <1>5 DEF Busca, Registro
<1>7. PICK t \in Registro(Len(lista)) :
        /\ r' = [r EXCEPT ![h] = t] /\ t.pc = e /\ t.p = r[h].p /\ t.n = r[h].n
        /\ t.op = r[h].op /\ t.mut = i
  <2>1. e \in Etapas /\ i \in 0 .. Len(lista) + 1
    BY <1>1 DEF Etapas
  <2>2. [r[h] EXCEPT !.mut = i, !.pc = e] \in Registro(Len(lista))
    BY <1>1, <2>1 DEF Registro
  <2> QED BY <1>1, <1>6, <2>2 DEF Registro
<1>8. EnMano(t) = EnMano(r[h]) /\ Sacado(t) = Sacado(r[h])
  <2>1. t.pc \in Firmes
    BY <1>7 DEF Firmes, Etapas
  <2> QED BY <1>2, <1>7, <2>1, ManoFirme
<1>9. r'[h] = t
  BY <1>1, <1>7, HiloCambia
<1>10. UNCHANGED <<lista, dinamica, esperando, colas, nuevos, cpu, io, fin, candado, posee>>
  BY DEF Busca
<1>11. Etapa(h)'
  BY <1>3, <1>4, <1>5, <1>7, <1>9, <1>10 DEF Etapa
<1>12. TipoLista' /\ TipoPosee' /\ Len(lista') = Len(lista) /\ candado' \in Hilos \union {Nadie}
  BY <1>1, <1>10 DEF TipoLista, TipoPosee, TipoResto, Mutexes
<1> QED BY <1>7, <1>8, <1>10, <1>11, <1>12, HiloQuieto


\* The priority a process is entitled to exists, and is one of the levels.
LEMMA MaximaTipo ==
  ASSUME TypeOK, NEW p \in Procs
  PROVE  /\ Alcanza(p) \subseteq Nivel
         /\ Maxima(p) \in Alcanza(p) /\ \A u \in Alcanza(p) : Maxima(p) <= u
<1>1. Alcanza(p) \subseteq Nivel /\ Alcanza(p) # {}
  BY PrioridadAssumption DEF Alcanza, TypeOK, Nivel
<1>2. Alcanza(p) \in SUBSET Nat
  BY <1>1, NivelesAssumption DEF Nivel
<1>3. \E v \in Alcanza(p) : \A u \in Alcanza(p) : v <= u
  BY <1>1, <1>2, MinimoDe
<1>4. Maxima(p) \in Alcanza(p) /\ \A u \in Alcanza(p) : Maxima(p) <= u
  BY <1>3 DEF Maxima
<1> QED BY <1>1, <1>4

\* The priority is read under the lock of the list.
LEMMA PasoRecalcula ==
  ASSUME IInv, NEW h \in Hilos, Recalcula(h)
  PROVE  IInv'
<1>1. /\ TipoHilos /\ TipoLista /\ TipoPosee /\ TipoResto
      /\ r[h] \in Registro(Len(lista)) /\ Etapa(h) /\ Len(lista) \in Nat
  BY UnHilo
<1>2. r[h].pc = "recalcula" /\ r[h].pc \in Firmes
  BY DEF Recalcula, Paso, Firmes, Etapas
<1>3. r[h].x \in Procs /\ r[h].p # Nadie
  BY <1>1, <1>2 DEF Etapa
<1>4. PICK v \in Nivel : v = Maxima(r[h].x)
  BY <1>3, MaximaTipo DEF IInv
<1>5. PICK t \in Registro(Len(lista)) :
        /\ r' = [r EXCEPT ![h] = t] /\ t.pc = "aplica" /\ t.p = r[h].p /\ t.x = r[h].x
  <2>1. [r[h] EXCEPT !.pc = "aplica", !.val = v] \in Registro(Len(lista))
    BY <1>1 DEF Registro, Etapas
  <2>2. r' = [r EXCEPT ![h] = [r[h] EXCEPT !.pc = "aplica", !.val = v]]
    BY <1>4 DEF Recalcula
  <2> QED BY <1>1, <2>1, <2>2 DEF Registro
<1>6. EnMano(t) = EnMano(r[h]) /\ Sacado(t) = Sacado(r[h])
  <2>1. t.pc \in Firmes
    BY <1>5 DEF Firmes, Etapas
  <2> QED BY <1>2, <1>5, <2>1, ManoFirme
<1>7. r'[h] = t
  BY <1>1, <1>5, HiloCambia
<1>8. UNCHANGED <<lista, dinamica, esperando, colas, nuevos, cpu, io, fin, candado, posee>>
  BY DEF Recalcula
<1>9. Etapa(h)'
  BY <1>3, <1>5, <1>7, <1>8 DEF Etapa
<1>10. TipoLista' /\ TipoPosee' /\ Len(lista') = Len(lista) /\ candado' \in Hilos \union {Nadie}
  BY <1>1, <1>8 DEF TipoLista, TipoPosee, TipoResto, Mutexes
<1> QED BY <1>5, <1>6, <1>8, <1>9, <1>10, HiloQuieto

\* The end of a process takes the lock of the list.
LEMMA PasoCierra ==
  ASSUME IInv, NEW h \in Hilos, Cierra(h)
  PROVE  IInv'
<1>1. /\ TipoHilos /\ TipoLista /\ TipoPosee
      /\ r[h] \in Registro(Len(lista)) /\ Etapa(h) /\ Len(lista) \in Nat
  BY UnHilo
<1>2. r[h].pc = "cierra" /\ r[h].pc \in Firmes
  BY DEF Cierra, Paso, Firmes, Etapas
<1>3. r[h].p # Nadie
  BY <1>1, <1>2 DEF Etapa
<1>4. PICK t \in Registro(Len(lista)) :
        /\ r' = [r EXCEPT ![h] = t] /\ t.pc = "libera" /\ t.p = r[h].p /\ t.mut = 1
  <2>1. 1 \in 0 .. Len(lista) + 1
    BY <1>1
  <2>2. [r[h] EXCEPT !.pc = "libera", !.mut = 1] \in Registro(Len(lista))
    BY <1>1, <2>1 DEF Registro, Etapas
  <2>3. r' = [r EXCEPT ![h] = [r[h] EXCEPT !.pc = "libera", !.mut = 1]]
    BY DEF Cierra
  <2> QED BY <1>1, <2>2, <2>3 DEF Registro
<1>5. EnMano(t) = EnMano(r[h]) /\ Sacado(t) = Sacado(r[h])
  <2>1. t.pc \in Firmes
    BY <1>4 DEF Firmes, Etapas
  <2> QED BY <1>2, <1>4, <2>1, ManoFirme
<1>6. r'[h] = t
  BY <1>1, <1>4, HiloCambia
<1>7. UNCHANGED <<lista, dinamica, esperando, colas, nuevos, cpu, io, fin, posee>> /\ candado' = h
  BY DEF Cierra
<1>8. Etapa(h)'
  BY <1>3, <1>4, <1>6, <1>7 DEF Etapa
<1>9. TipoLista' /\ TipoPosee' /\ Len(lista') = Len(lista)
  BY <1>1, <1>7 DEF TipoLista, TipoPosee, Mutexes
<1> QED BY <1>4, <1>5, <1>7, <1>8, <1>9, HiloQuieto

\* A mutex of the list, and what changing its owner leaves.
LEMMA CambiaDueno ==
  ASSUME TipoLista, NEW m \in 1 .. Len(lista), NEW o \in Procs \union {Nadie},
         lista' = [lista EXCEPT ![m].dueno = o]
  PROVE  /\ TipoLista' /\ Len(lista') = Len(lista)
         /\ lista'[m].dueno = o /\ lista'[m].nombre = lista[m].nombre /\ lista'[m].cola = lista[m].cola
         /\ \A k \in 1 .. Len(lista) : k # m => lista'[k] = lista[k]
<1>1. lista[m] \in Mutexes
  BY DEF TipoLista
<1>2. PICK v \in Mutexes : /\ v = [lista[m] EXCEPT !.dueno = o]
                           /\ v.dueno = o /\ v.nombre = lista[m].nombre /\ v.cola = lista[m].cola
  <2>1. [lista[m] EXCEPT !.dueno = o] \in Mutexes
    BY <1>1 DEF Mutexes
  <2> QED BY <1>1, <2>1 DEF Mutexes
<1>3. lista' = [lista EXCEPT ![m] = v]
  BY <1>2
<1> QED BY <1>2, <1>3, ListaCambia

\* LOCK takes a free mutex.
LEMMA PasoToma ==
  ASSUME IInv, NEW h \in Hilos, Toma(h)
  PROVE  IInv'
<1>1. /\ TipoHilos /\ TipoLista /\ TipoPosee /\ TipoResto
      /\ r[h] \in Registro(Len(lista)) /\ Etapa(h) /\ Len(lista) \in Nat
  BY UnHilo
<1>2. r[h].pc = "toma" /\ r[h].pc \in Firmes
  BY DEF Toma, Paso, Firmes, Etapas
<1>3. /\ r[h].p # Nadie /\ r[h].p \in Procs
      /\ r[h].mut \in 1 .. Len(lista) /\ r[h].n = lista[r[h].mut].nombre
  BY <1>1, <1>2 DEF Etapa, Registro
<1>4. /\ TipoLista' /\ Len(lista') = Len(lista)
      /\ \A k \in 1 .. Len(lista) : lista'[k].nombre = lista[k].nombre /\ lista'[k].cola = lista[k].cola
  BY <1>1, <1>3, CambiaDueno DEF Toma
<1>5. TipoPosee'
  <2>1. lista[r[h].mut] \in Mutexes
    BY <1>1, <1>3 DEF TipoLista
  <2>2. r[h].n \in Nombres
    BY <1>3, <2>1 DEF Mutexes
  <2> QED BY <1>1, <1>3, <2>2 DEF TipoPosee, Toma
<1>6. PICK t \in Registro(Len(lista)) :
           /\ r' = [r EXCEPT ![h] = t] /\ t.pc = "encola" /\ t.p = r[h].p
  BY <1>1, PasaTipo DEF Toma, Etapas
<1>7. EnMano(t) = EnMano(r[h]) /\ Sacado(t) = Sacado(r[h])
  <2>1. t.pc \in Firmes
    BY <1>6 DEF Firmes, Etapas
  <2> QED BY <1>2, <1>6, <2>1, ManoFirme
<1>8. r'[h] = t
  BY <1>1, <1>6, HiloCambia
<1>9. Etapa(h)'
  BY <1>3, <1>6, <1>8 DEF Etapa
<1>10. /\ UNCHANGED <<dinamica, esperando, colas, nuevos, cpu, io, fin>>
       /\ candado' \in Hilos \union {Nadie}
  BY <1>1 DEF Toma, TipoResto
<1> QED BY <1>4, <1>5, <1>6, <1>7, <1>9, <1>10, HiloQuieto

\* UNLOCK frees a mutex nobody waits for.
LEMMA PasoSuelta ==
  ASSUME IInv, NEW h \in Hilos, Suelta(h)
  PROVE  IInv'
<1>1. /\ TipoHilos /\ TipoLista /\ TipoPosee /\ TipoResto
      /\ r[h] \in Registro(Len(lista)) /\ Etapa(h) /\ Len(lista) \in Nat
  BY UnHilo
<1>2. r[h].pc = "suelta" /\ r[h].pc \in Firmes
  BY DEF Suelta, Paso, Firmes, Etapas
<1>3. /\ r[h].p # Nadie /\ r[h].p \in Procs /\ r[h].mut \in 1 .. Len(lista)
  BY <1>1, <1>2 DEF Etapa, Registro
<1>4. /\ TipoLista' /\ Len(lista') = Len(lista)
      /\ \A k \in 1 .. Len(lista) : lista'[k].nombre = lista[k].nombre /\ lista'[k].cola = lista[k].cola
  BY <1>1, <1>3, CambiaDueno DEF Suelta
<1>5. PICK t \in Registro(Len(lista)) :
        /\ r' = [r EXCEPT ![h] = t] /\ t.pc = "recalcula" /\ t.p = r[h].p /\ t.x = r[h].p
  <2>1. [r[h] EXCEPT !.pc = "recalcula", !.x = r[h].p] \in Registro(Len(lista))
    BY <1>1, <1>3 DEF Registro, Etapas
  <2>2. r' = [r EXCEPT ![h] = [r[h] EXCEPT !.pc = "recalcula", !.x = r[h].p]]
    BY DEF Suelta
  <2> QED BY <1>1, <2>1, <2>2 DEF Registro
<1>6. EnMano(t) = EnMano(r[h]) /\ Sacado(t) = Sacado(r[h])
  <2>1. t.pc \in Firmes
    BY <1>5 DEF Firmes, Etapas
  <2> QED BY <1>2, <1>5, <2>1, ManoFirme
<1>7. r'[h] = t
  BY <1>1, <1>5, HiloCambia
<1>8. Etapa(h)'
  BY <1>3, <1>5, <1>7 DEF Etapa
<1>9. /\ UNCHANGED <<dinamica, esperando, colas, nuevos, cpu, io, fin>>
      /\ TipoPosee' /\ candado' \in Hilos \union {Nadie}
  BY <1>1 DEF Suelta, TipoResto, TipoPosee
<1> QED BY <1>4, <1>5, <1>6, <1>8, <1>9, HiloQuieto


\* A process in the hands of a thread is in no other place.
LEMMA EnManoSolo ==
  ASSUME IInv, NEW h \in Hilos, NEW p \in Procs, EnMano(r[h]) = p
  PROVE  /\ p \notin nuevos /\ p \notin fin /\ p \notin io
         /\ ~ EnCpu(p) /\ EnManos(p) /\ ~ EnSacados(p) /\ ~ EnReady(p) /\ ~ EnEspera(p)
         /\ \A m \in 1 .. Len(lista) : ~ EnCola(lista[m].cola, p)
<1>1. EnManos(p)
  BY DEF EnManos, Hay, Manos
<1>2. ~ EnEspera(p)
  BY <1>1 DEF IInv, Uno, SoloUno
<1>3. ASSUME NEW m \in 1 .. Len(lista) PROVE ~ EnCola(lista[m].cola, p)
  <2>1. TipoLista
    BY UnHilo
  <2>2. lista[m] \in Mutexes
    BY <2>1 DEF TipoLista
  <2>3. PICK s \in Seq(Procs) : s = lista[m].cola
    BY <2>2 DEF Mutexes
  <2>4. Esperas[m] = s
    BY <2>3 DEF Esperas
  <2>5. \A i \in 1 .. Len(s) : s[i] # p
    BY <1>2, <2>4 DEF EnEspera, Esta
  <2> QED BY <2>3, <2>5 DEF EnCola
<1> QED BY <1>1, <1>2, <1>3 DEF IInv, Uno, SoloUno

\* The end of a process: one mutex that has no waiter, or that it does not own.
LEMMA LiberaLista ==
  ASSUME IInv, NEW h \in Hilos, Libera(h)
  PROVE  /\ r[h].pc = "libera" /\ r[h].p \in Procs /\ r[h].mut \in 1 .. Len(lista)
         /\ TipoLista' /\ Len(lista') = Len(lista)
         /\ \A k \in 1 .. Len(lista) :
              /\ lista'[k].nombre = lista[k].nombre /\ lista'[k].cola = lista[k].cola
              /\ lista'[k].dueno # lista[k].dueno =>
                   /\ lista'[k].dueno = Nadie /\ lista[k].dueno = r[h].p /\ lista[k].cola = <<>>
<1>1. /\ TipoLista /\ r[h] \in Registro(Len(lista)) /\ Etapa(h) /\ Len(lista) \in Nat
  BY UnHilo
<1>2. r[h].pc = "libera" /\ r[h].mut <= Len(lista)
  BY DEF Libera, Paso
<1>3. r[h].p # Nadie /\ r[h].p \in Procs /\ r[h].mut # 0 /\ r[h].mut \in 0 .. Len(lista) + 1
  BY <1>1, <1>2 DEF Etapa, Registro
<1>4. PICK m \in 1 .. Len(lista) : m = r[h].mut
  BY <1>1, <1>2, <1>3
<1>5. lista[m] \in Mutexes
  BY <1>1 DEF TipoLista
<1>6. CASE /\ lista[m].dueno = r[h].p /\ lista[m].cola = <<>>
           /\ lista' = [lista EXCEPT ![m].dueno = Nadie]
  <2>1. /\ TipoLista' /\ Len(lista') = Len(lista)
        /\ lista'[m].dueno = Nadie /\ lista'[m].nombre = lista[m].nombre /\ lista'[m].cola = lista[m].cola
        /\ \A k \in 1 .. Len(lista) : k # m => lista'[k] = lista[k]
    BY <1>1, <1>6, CambiaDueno
  <2>2. \A k \in 1 .. Len(lista) :
          /\ lista'[k].nombre = lista[k].nombre /\ lista'[k].cola = lista[k].cola
          /\ lista'[k].dueno # lista[k].dueno =>
               /\ lista'[k].dueno = Nadie /\ lista[k].dueno = r[h].p /\ lista[k].cola = <<>>
    BY ONLY <1>6, <2>1
  <2> QED BY <1>2, <1>3, <1>4, <2>1, <2>2
<1>7. CASE lista' = [lista EXCEPT ![m].cola = Sin(@, r[h].p)]
  <2>1. EnMano(r[h]) = r[h].p
    BY <1>2 DEF EnMano
  <2>2. Sin(lista[m].cola, r[h].p) = lista[m].cola
    BY <1>3, <2>1, EnManoSolo DEF Sin
  <2>3. [lista[m] EXCEPT !.cola = lista[m].cola] = lista[m]
    BY <1>5 DEF Mutexes
  <2>4. lista' = [lista EXCEPT ![m] = lista[m]]
    BY <1>7, <2>2, <2>3
  <2>5. /\ TipoLista' /\ Len(lista') = Len(lista)
        /\ \A k \in 1 .. Len(lista) : lista'[k] = lista[k]
    BY <1>1, <1>5, <2>4, ListaCambia
  <2> QED BY <1>2, <1>3, <1>4, <2>5
<1> QED BY <1>4, <1>6, <1>7 DEF Libera

\* The same step keeps the invariant.
LEMMA PasoLibera ==
  ASSUME IInv, NEW h \in Hilos, Libera(h)
  PROVE  IInv'
<1>1. /\ TipoHilos /\ TipoPosee /\ TipoResto
      /\ r[h] \in Registro(Len(lista)) /\ Etapa(h) /\ Len(lista) \in Nat
  BY UnHilo
<1>2. /\ r[h].pc = "libera" /\ r[h].p \in Procs /\ r[h].mut \in 1 .. Len(lista)
      /\ TipoLista' /\ Len(lista') = Len(lista)
      /\ \A k \in 1 .. Len(lista) : lista'[k].nombre = lista[k].nombre /\ lista'[k].cola = lista[k].cola
  BY LiberaLista
<1>3. PICK t \in Registro(Len(lista)) :
        /\ r' = [r EXCEPT ![h] = t] /\ t.pc = "libera" /\ t.p = r[h].p /\ t.mut = r[h].mut + 1
  <2>1. r[h].mut + 1 \in 0 .. Len(lista) + 1
    BY <1>1, <1>2
  <2>2. [r[h] EXCEPT !.mut = r[h].mut + 1] \in Registro(Len(lista))
    BY <1>1, <2>1 DEF Registro
  <2>3. r' = [r EXCEPT ![h] = [r[h] EXCEPT !.mut = r[h].mut + 1]]
    BY DEF Libera
  <2> QED BY <1>1, <1>2, <2>2, <2>3 DEF Registro
<1>4. EnMano(t) = EnMano(r[h]) /\ Sacado(t) = Sacado(r[h])
  BY <1>2, <1>3 DEF EnMano, Sacado
<1>5. r'[h] = t
  BY <1>1, <1>3, HiloCambia
<1>6. Etapa(h)'
  <2>1. r[h].p # Nadie /\ r[h].mut + 1 # 0
    BY <1>1, <1>2 DEF Etapa
  <2> QED BY <2>1, <1>3, <1>5 DEF Etapa
<1>7. /\ UNCHANGED <<dinamica, esperando, colas, nuevos, cpu, io, fin>>
      /\ TipoPosee' /\ candado' \in Hilos \union {Nadie}
  BY <1>1 DEF Libera, TipoResto, TipoPosee
<1> QED BY <1>2, <1>3, <1>4, <1>6, <1>7, HiloQuieto

\* A new mutex in the list.
LEMMA ListaCrece ==
  ASSUME TipoLista, NEW n \in Nombres, lista' = Append(lista, Nuevo(n))
  PROVE  /\ TipoLista' /\ Len(lista') = Len(lista) + 1
         /\ lista'[Len(lista) + 1] = Nuevo(n)
         /\ \A k \in 1 .. Len(lista) : lista'[k] = lista[k]
<1>1. Nuevo(n) \in Mutexes
  BY DEF Nuevo, Mutexes
<1>2. \A S : \A s \in Seq(S) : \A x \in S :
        /\ Append(s, x) \in Seq(S) /\ Len(Append(s, x)) = Len(s) + 1
        /\ Append(s, x)[Len(s) + 1] = x
        /\ \A k \in 1 .. Len(s) : Append(s, x)[k] = s[k]
  OBVIOUS
<1>3. Append(lista, Nuevo(n)) \in Seq(Mutexes)
  BY <1>1, <1>2 DEF TipoLista
<1>4. TipoLista'
  BY <1>3 DEF TipoLista, Mutexes
<1> QED BY <1>1, <1>2, <1>4 DEF TipoLista

\* MUTEX_CREATE, and LOCK of a name nobody created.
LEMMA PasoRegistra ==
  ASSUME IInv, NEW h \in Hilos, Registra(h)
  PROVE  IInv'
<1>1. /\ TipoHilos /\ TipoLista /\ TipoPosee /\ TipoResto /\ TipoEspera
      /\ r[h] \in Registro(Len(lista)) /\ Etapa(h) /\ Len(lista) \in Nat
  BY UnHilo
<1>2. r[h].pc = "registra" /\ r[h].pc \in Firmes
  BY DEF Registra, Paso, Firmes, Etapas
<1>3. r[h].p # Nadie /\ r[h].n \in Nombres
  BY <1>1, <1>2 DEF Etapa
<1>4. /\ TipoLista' /\ Len(lista') = Len(lista) + 1
      /\ lista'[Len(lista) + 1] = Nuevo(r[h].n)
      /\ \A k \in 1 .. Len(lista) : lista'[k] = lista[k]
  BY <1>1, <1>3, ListaCrece DEF Registra
<1>5. lista'[Len(lista) + 1].cola = <<>> /\ lista'[Len(lista) + 1].nombre = r[h].n
  BY <1>4 DEF Nuevo
<1>6. PICK e \in {"encola", "mira"} : e = IF r[h].op = "CREATE" THEN "encola" ELSE "mira"
  OBVIOUS
<1>7. PICK t \in Registro(Len(lista)) :
        /\ r' = [r EXCEPT ![h] = t] /\ t.pc = e /\ t.p = r[h].p
        /\ t.mut = Len(lista) + 1 /\ t.n = r[h].n
  <2>1. Len(lista) + 1 \in 0 .. Len(lista) + 1
    BY <1>1
  <2>2. [r[h] EXCEPT !.mut = Len(lista) + 1, !.pc = e] \in Registro(Len(lista))
    BY <1>1, <2>1 DEF Registro, Etapas
  <2>3. r' = [r EXCEPT ![h] = [r[h] EXCEPT !.mut = Len(lista) + 1, !.pc = e]]
    BY <1>6 DEF Registra
  <2> QED BY <1>1, <2>2, <2>3 DEF Registro
<1>8. r'[h] = t /\ \A k \in Hilos \ {h} : r'[k] = r[k]
  BY <1>1, <1>7, HiloCambia
<1>9. TipoHilos'
  <2>1. r' \in [Hilos -> Registro(Len(lista))]
    BY <1>1, <1>7 DEF TipoHilos
  <2>2. \A i \in 0 .. Len(lista) + 1 : i \in 0 .. Len(lista') + 1
    BY <1>1, <1>4
  <2>3. Registro(Len(lista)) \subseteq Registro(Len(lista'))
    BY <2>2 DEF Registro
  <2>4. r' \in [Hilos -> Registro(Len(lista'))]
    BY <2>1, <2>3
  <2> QED BY <2>4 DEF TipoHilos, Hilos, Registro, Nivel, Etapas, Ops
<1>10. EnMano(t) = EnMano(r[h]) /\ Sacado(t) = Sacado(r[h])
  <2>1. t.pc \in Firmes
    BY <1>7 DEF Firmes, Etapas
  <2> QED BY <1>2, <1>7, <2>1, ManoFirme
<1>11. \A k \in Hilos : EnMano(r'[k]) = EnMano(r[k]) /\ Sacado(r'[k]) = Sacado(r[k])
  BY <1>8, <1>10
<1>12. Etapa(h)'
  <2>1. Len(lista) + 1 \in 1 .. Len(lista')
    BY <1>1, <1>4
  <2> QED BY <2>1, <1>3, <1>5, <1>7, <1>8 DEF Etapa
<1>13. EtapasOK'
  BY <1>4, <1>8, <1>12, OtrosHilos
<1>14. UNCHANGED <<dinamica, esperando, colas, nuevos, cpu, io, fin, candado, posee>>
  BY DEF Registra
<1>15. TipoPosee' /\ TipoResto'
  BY <1>1, <1>14 DEF TipoPosee, TipoResto, Nivel, Hilos
<1>16. TipoEspera'
  <2>1. \A i \in 0 .. Len(lista) : i \in 0 .. Len(lista')
    BY <1>1, <1>4
  <2> QED BY <2>1, <1>1, <1>14 DEF TipoEspera
<1>17. /\ TipoCpu' /\ Inyecta(cpu, Cpus)' /\ \A q \in Procs : EnCpu(q)' <=> EnCpu(q)
  BY <1>14, CpuIgual
<1>18. /\ TipoColas' /\ Distintos(colas, Nivel)' /\ \A q \in Procs : EnReady(q)' <=> EnReady(q)
  BY <1>14, ColasIgual
<1>19. /\ Distintos(Esperas, 1 .. Len(lista))' /\ \A q \in Procs : EnEspera(q)' <=> EnEspera(q)
  BY <1>4, <1>5, EsperasNueva
<1>20. /\ Inyecta(Manos, Hilos)' /\ \A q \in Procs : EnManos(q)' <=> EnManos(q)
  BY <1>11, ManosIgual
<1>21. /\ Inyecta(Sacados, Hilos)' /\ \A q \in Procs : EnSacados(q)' <=> EnSacados(q)
  BY <1>11, SacadosIgual
<1>22. Uno'
  BY <1>14, <1>17, <1>18, <1>19, <1>20, <1>21, NadieSeMuda
<1>23. TypeOK'
  BY <1>4, <1>9, <1>15, <1>16, <1>17, <1>18, TipoPorPartesP
<1> QED BY <1>13, <1>17, <1>18, <1>19, <1>20, <1>21, <1>22, <1>23 DEF IInv, Unicos


-----------------------------------------------------------------------------
(* Steps that move a process from one place to another.                     *)

\* The mutexes and their queues when the list does not change.
LEMMA ListaIgual ==
  ASSUME IInv, lista' = lista
  PROVE  /\ TipoLista' /\ Len(lista') = Len(lista) /\ Len(lista) \in Nat
         /\ Distintos(Esperas, 1 .. Len(lista))'
         /\ \A q \in Procs : EnEspera(q)' <=> EnEspera(q)
<1>1. TipoLista
  BY TipoPorPartes DEF IInv
<1> QED BY <1>1, EsperasIgual DEF TipoLista, Mutexes

\* The threads when none of them moves.
LEMMA HilosIgual ==
  ASSUME IInv, r' = r, lista' = lista
  PROVE  /\ TipoHilos' /\ EtapasOK'
         /\ Inyecta(Manos, Hilos)' /\ Inyecta(Sacados, Hilos)'
         /\ \A q \in Procs : (EnManos(q)' <=> EnManos(q)) /\ (EnSacados(q)' <=> EnSacados(q))
<1>1. TipoHilos'
  BY TipoPorPartes DEF IInv, TipoHilos, Hilos, Registro, Nivel, Etapas, Ops
<1>2. EtapasOK'
  BY DEF IInv, EtapasOK, Etapa, Hilos
<1> QED BY <1>1, <1>2, ManosIgual, SacadosIgual

\* A process is admitted.
LEMMA PasoAdmite ==
  ASSUME IInv, NEW p \in Procs, Admite(p)
  PROVE  IInv'
<1>1. p \in nuevos /\ nuevos' = nuevos \ {p} /\ AlFinal(p)
      /\ UNCHANGED <<lista, dinamica, esperando, cpu, io, fin, r, candado, posee>>
  BY DEF Admite
<1>2. ~ EnReady(p)
  BY <1>1 DEF IInv, Uno, SoloUno
<1>3. /\ TipoColas' /\ Distintos(colas, Nivel)'
      /\ \A q \in Procs : EnReady(q)' <=> EnReady(q) \/ q = p
  BY <1>1, <1>2, ColasAgrega
<1>4. /\ TipoLista' /\ Len(lista') = Len(lista)
      /\ Distintos(Esperas, 1 .. Len(lista))' /\ \A q \in Procs : EnEspera(q)' <=> EnEspera(q)
  BY <1>1, ListaIgual
<1>5. /\ TipoHilos' /\ EtapasOK' /\ Inyecta(Manos, Hilos)' /\ Inyecta(Sacados, Hilos)'
      /\ \A q \in Procs : (EnManos(q)' <=> EnManos(q)) /\ (EnSacados(q)' <=> EnSacados(q))
  BY <1>1, HilosIgual
<1>6. /\ TipoCpu' /\ Inyecta(cpu, Cpus)' /\ \A q \in Procs : EnCpu(q)' <=> EnCpu(q)
  BY <1>1, CpuIgual
<1>7. TipoEspera' /\ TipoPosee' /\ TipoResto'
  BY <1>1, TipoPorPartes DEF IInv, TipoEspera, TipoPosee, TipoResto, Nivel, Hilos
<1>8. Uno'
  BY <1>1, <1>3, <1>4, <1>5, <1>6 DEF IInv, Uno, SoloUno
<1>9. TypeOK'
  BY <1>3, <1>4, <1>5, <1>6, <1>7, TipoPorPartesP
<1> QED BY <1>3, <1>4, <1>5, <1>6, <1>8, <1>9 DEF IInv, Unicos

\* A process is sent to a CPU.
LEMMA PasoDespacha ==
  ASSUME IInv, NEW c \in Cpus, Despacha(c)
  PROVE  IInv'
<1>1. PICK l \in Nivel : /\ colas[l] # <<>> /\ cpu' = [cpu EXCEPT ![c] = Head(colas[l])]
                         /\ colas' = [colas EXCEPT ![l] = Tail(colas[l])]
  BY DEF Despacha
<1>2. /\ cpu[c] = Nadie
      /\ UNCHANGED <<lista, dinamica, esperando, nuevos, io, fin, r, candado, posee>>
  BY DEF Despacha
<1>3. Retira(l)
  BY <1>1 DEF Retira
<1>4. PICK p \in Procs : p = Head(colas[l])
  BY <1>3, ColasSaca
<1>5. /\ TipoColas' /\ Distintos(colas, Nivel)' /\ EnReady(p)
      /\ \A q \in Procs : EnReady(q)' <=> EnReady(q) /\ q # p
  BY <1>3, <1>4, ColasSaca
<1>6. ~ EnCpu(p)
  BY <1>5 DEF IInv, Uno, SoloUno
<1>7. cpu' = [cpu EXCEPT ![c] = p]
  BY <1>1, <1>4
<1>8. /\ TipoCpu' /\ Inyecta(cpu, Cpus)'
      /\ \A q \in Procs : EnCpu(q)' <=> EnCpu(q) \/ q = p
  BY <1>2, <1>6, <1>7, CpuToma
<1>9. /\ TipoLista' /\ Len(lista') = Len(lista)
      /\ Distintos(Esperas, 1 .. Len(lista))' /\ \A q \in Procs : EnEspera(q)' <=> EnEspera(q)
  BY <1>2, ListaIgual
<1>10. /\ TipoHilos' /\ EtapasOK' /\ Inyecta(Manos, Hilos)' /\ Inyecta(Sacados, Hilos)'
       /\ \A q \in Procs : (EnManos(q)' <=> EnManos(q)) /\ (EnSacados(q)' <=> EnSacados(q))
  BY <1>2, HilosIgual
<1>11. TipoEspera' /\ TipoPosee' /\ TipoResto'
  BY <1>2, TipoPorPartes DEF IInv, TipoEspera, TipoPosee, TipoResto, Nivel, Hilos
<1>12. Uno'
  BY <1>2, <1>5, <1>8, <1>9, <1>10 DEF IInv, Uno, SoloUno
<1>13. TypeOK'
  BY <1>5, <1>8, <1>9, <1>10, <1>11, TipoPorPartesP
<1> QED BY <1>5, <1>8, <1>9, <1>10, <1>12, <1>13 DEF IInv, Unicos

\* A task a thread may begin with process p.
Tarea(t, p) ==
  /\ t \in Registro(Len(lista)) /\ t.p = p /\ t.pc \in {"busca", "cierra", "encola", "frente"}
  /\ t.pc = "busca" => t.n \in Nombres /\ t.op \in {"CREATE", "LOCK", "UNLOCK"}

\* The record of a thread that begins a task.
LEMMA EmpiezaTarea ==
  ASSUME IInv, NEW h \in Hilos, NEW p \in Procs, NEW t, Tarea(t, p), r[h].pc = "ocioso",
         r' = [r EXCEPT ![h] = t], lista' = lista, ~ EnManos(p)
  PROVE  /\ TipoHilos' /\ EtapasOK' /\ Inyecta(Manos, Hilos)' /\ Inyecta(Sacados, Hilos)'
         /\ \A q \in Procs : /\ EnManos(q)' <=> EnManos(q) \/ q = p
                             /\ EnSacados(q)' <=> EnSacados(q)
<1>1. TipoHilos /\ Len(lista) \in Nat
  BY UnHilo
<1>2. t \in Registro(Len(lista)) /\ p # Nadie
  BY NadieAssumption DEF Tarea
<1>3. TipoHilos' /\ r'[h] = t /\ \A k \in Hilos \ {h} : r'[k] = r[k]
  BY <1>1, <1>2, HiloCambia
<1>4. Etapa(h)'
  BY <1>2, <1>3 DEF Etapa, Tarea
<1>5. EtapasOK'
  BY <1>3, <1>4, OtrosHilos
<1>6. /\ EnMano(r[h]) = Nadie /\ EnMano(r'[h]) = p
      /\ Sacado(r[h]) = Nadie /\ Sacado(r'[h]) = Nadie
  BY <1>3 DEF EnMano, Sacado, Tarea
<1>7. /\ Inyecta(Manos, Hilos)' /\ \A q \in Procs : EnManos(q)' <=> EnManos(q) \/ q = p
  BY <1>3, <1>6, ManosToma
<1>8. \A k \in Hilos : Sacado(r'[k]) = Sacado(r[k])
  BY <1>3, <1>6
<1>9. /\ Inyecta(Sacados, Hilos)' /\ \A q \in Procs : EnSacados(q)' <=> EnSacados(q)
  BY <1>8, SacadosIgual
<1> QED BY <1>3, <1>5, <1>7, <1>9

\* A process comes back from its CPU, to the hands of the receptor.
LEMMA PasoRecibe ==
  ASSUME IInv, NEW c \in Cpus, NEW t, Recibe(c, t), Tarea(t, cpu[c]), io' = io, TipoPosee'
  PROVE  IInv'
<1>1. /\ cpu[c] # Nadie /\ r[c].pc = "ocioso" /\ cpu' = [cpu EXCEPT ![c] = Nadie]
      /\ r' = [r EXCEPT ![c] = t] /\ c \in Hilos
      /\ UNCHANGED <<lista, dinamica, esperando, colas, nuevos, fin, candado>>
  BY DEF Recibe, Hilos
<1>2. PICK p \in Procs : p = cpu[c]
  BY <1>1, TipoPorPartes DEF IInv, TipoCpu
<1>3. EnCpu(p)
  BY <1>2 DEF EnCpu, Hay
<1>4. ~ EnManos(p)
  BY <1>3 DEF IInv, Uno, SoloUno
<1>5. /\ TipoHilos' /\ EtapasOK' /\ Inyecta(Manos, Hilos)' /\ Inyecta(Sacados, Hilos)'
      /\ \A q \in Procs : (EnManos(q)' <=> EnManos(q) \/ q = p) /\ (EnSacados(q)' <=> EnSacados(q))
  BY <1>1, <1>2, <1>4, EmpiezaTarea
<1>6. /\ TipoCpu' /\ Inyecta(cpu, Cpus)' /\ \A q \in Procs : EnCpu(q)' <=> EnCpu(q) /\ q # p
  BY <1>1, <1>2, CpuDeja
<1>7. /\ TipoLista' /\ Len(lista') = Len(lista)
      /\ Distintos(Esperas, 1 .. Len(lista))' /\ \A q \in Procs : EnEspera(q)' <=> EnEspera(q)
  BY <1>1, ListaIgual
<1>8. /\ TipoColas' /\ Distintos(colas, Nivel)' /\ \A q \in Procs : EnReady(q)' <=> EnReady(q)
  BY <1>1, ColasIgual
<1>9. TipoEspera' /\ TipoResto'
  BY <1>1, TipoPorPartes DEF IInv, TipoEspera, TipoResto, Nivel, Hilos
<1>10. Uno'
  BY <1>1, <1>3, <1>5, <1>6, <1>7, <1>8 DEF IInv, Uno, SoloUno
<1>11. TypeOK'
  BY <1>5, <1>6, <1>7, <1>8, <1>9, TipoPorPartesP
<1> QED BY <1>5, <1>6, <1>7, <1>8, <1>10, <1>11 DEF IInv, Unicos

\* A process comes back from its interface, to the hands of the worker.
LEMMA PasoFinaliza ==
  ASSUME IInv, NEW w \in Interfaces, NEW p \in Procs, NEW t, Finaliza(w, p, t), Tarea(t, p), TipoPosee'
  PROVE  IInv'
<1>1. /\ p \in io /\ r[w].pc = "ocioso" /\ io' = io \ {p}
      /\ r' = [r EXCEPT ![w] = t] /\ w \in Hilos
      /\ UNCHANGED <<lista, dinamica, esperando, colas, nuevos, cpu, fin, candado>>
  BY DEF Finaliza, Hilos
<1>2. ~ EnManos(p)
  BY <1>1 DEF IInv, Uno, SoloUno
<1>3. /\ TipoHilos' /\ EtapasOK' /\ Inyecta(Manos, Hilos)' /\ Inyecta(Sacados, Hilos)'
      /\ \A q \in Procs : (EnManos(q)' <=> EnManos(q) \/ q = p) /\ (EnSacados(q)' <=> EnSacados(q))
  BY <1>1, <1>2, EmpiezaTarea
<1>4. /\ TipoCpu' /\ Inyecta(cpu, Cpus)' /\ \A q \in Procs : EnCpu(q)' <=> EnCpu(q)
  BY <1>1, CpuIgual
<1>5. /\ TipoLista' /\ Len(lista') = Len(lista)
      /\ Distintos(Esperas, 1 .. Len(lista))' /\ \A q \in Procs : EnEspera(q)' <=> EnEspera(q)
  BY <1>1, ListaIgual
<1>6. /\ TipoColas' /\ Distintos(colas, Nivel)' /\ \A q \in Procs : EnReady(q)' <=> EnReady(q)
  BY <1>1, ColasIgual
<1>7. TipoEspera' /\ TipoResto'
  BY <1>1, TipoPorPartes DEF IInv, TipoEspera, TipoResto, Nivel, Hilos
<1>8. Uno'
  BY <1>1, <1>3, <1>4, <1>5, <1>6 DEF IInv, Uno, SoloUno
<1>9. TypeOK'
  BY <1>3, <1>4, <1>5, <1>6, <1>7, TipoPorPartesP
<1> QED BY <1>3, <1>4, <1>5, <1>6, <1>8, <1>9 DEF IInv, Unicos


\* The tasks the code begins with.
LEMMA Tareas ==
  ASSUME IInv, NEW p \in Procs
  PROVE  /\ \A op \in {"CREATE", "LOCK", "UNLOCK"}, n \in Nombres :
              Tarea([Ocioso EXCEPT !.pc = "busca", !.p = p, !.op = op, !.n = n], p)
         /\ Tarea([Ocioso EXCEPT !.pc = "cierra", !.p = p, !.op = "EXIT"], p)
         /\ Tarea([Ocioso EXCEPT !.pc = "encola", !.p = p], p)
         /\ Tarea([Ocioso EXCEPT !.pc = "frente", !.p = p], p)
<1>1. Len(lista) \in Nat
  BY TipoPorPartes DEF IInv, TipoLista
<1>2. 0 \in 0 .. Len(lista) + 1 /\ 0 \in Nivel
  BY <1>1, NivelesAssumption DEF Nivel
<1>3. ASSUME NEW op \in {"CREATE", "LOCK", "UNLOCK"}, NEW n \in Nombres
      PROVE  Tarea([Ocioso EXCEPT !.pc = "busca", !.p = p, !.op = op, !.n = n], p)
  BY <1>2 DEF Tarea, Ocioso, Registro, Etapas, Ops
<1>4. Tarea([Ocioso EXCEPT !.pc = "cierra", !.p = p, !.op = "EXIT"], p)
  BY <1>2 DEF Tarea, Ocioso, Registro, Etapas, Ops
<1>5. Tarea([Ocioso EXCEPT !.pc = "encola", !.p = p], p)
  BY <1>2 DEF Tarea, Ocioso, Registro, Etapas, Ops
<1>6. Tarea([Ocioso EXCEPT !.pc = "frente", !.p = p], p)
  BY <1>2 DEF Tarea, Ocioso, Registro, Etapas, Ops
<1> QED BY <1>3, <1>4, <1>5, <1>6

\* A CPU that gives a process back had one.
LEMMA RecibeDe ==
  ASSUME IInv, NEW c \in Cpus, NEW t, Recibe(c, t)
  PROVE  cpu[c] \in Procs /\ TipoPosee
BY TipoPorPartes DEF IInv, TipoCpu, Recibe

\* A syscall about a mutex.
LEMMA PasoSyscall ==
  ASSUME IInv, NEW c \in Cpus, NEW op \in {"CREATE", "LOCK", "UNLOCK"}, NEW n \in Nombres,
         Syscall(c, op, n)
  PROVE  IInv'
<1>1. PICK t : /\ t = [Ocioso EXCEPT !.pc = "busca", !.p = cpu[c], !.op = op, !.n = n]
               /\ Recibe(c, t) /\ io' = io
  BY DEF Syscall
<1>2. cpu[c] \in Procs /\ TipoPosee
  BY <1>1, RecibeDe
<1>3. Tarea(t, cpu[c])
  BY <1>1, <1>2, Tareas
<1>4. TipoPosee'
  BY <1>2 DEF TipoPosee, Syscall
<1> QED BY <1>1, <1>3, <1>4, PasoRecibe

\* A program ends.
LEMMA PasoSale ==
  ASSUME IInv, NEW c \in Cpus, Sale(c)
  PROVE  IInv'
<1>1. PICK t : /\ t = [Ocioso EXCEPT !.pc = "cierra", !.p = cpu[c], !.op = "EXIT"]
               /\ Recibe(c, t) /\ io' = io
  BY DEF Sale
<1>2. cpu[c] \in Procs /\ TipoPosee
  BY <1>1, RecibeDe
<1>3. Tarea(t, cpu[c])
  BY <1>1, <1>2, Tareas
<1>4. TipoPosee'
  BY <1>2 DEF TipoPosee, Sale
<1> QED BY <1>1, <1>3, <1>4, PasoRecibe

\* A process is evicted, to the end or to the front of its queue.
LEMMA PasoDesaloja ==
  ASSUME IInv, NEW c \in Cpus, Quantum(c) \/ Desalojo(c)
  PROVE  IInv'
<1>1. PICK t : /\ \/ t = [Ocioso EXCEPT !.pc = "encola", !.p = cpu[c]]
                  \/ t = [Ocioso EXCEPT !.pc = "frente", !.p = cpu[c]]
               /\ Recibe(c, t) /\ io' = io /\ posee' = posee
  BY DEF Quantum, Desalojo
<1>2. cpu[c] \in Procs /\ TipoPosee
  BY <1>1, RecibeDe
<1>3. Tarea(t, cpu[c])
  BY <1>1, <1>2, Tareas
<1>4. TipoPosee'
  BY <1>1, <1>2 DEF TipoPosee
<1> QED BY <1>1, <1>3, <1>4, PasoRecibe

\* A process asks for I/O.
LEMMA PasoPideIO ==
  ASSUME IInv, NEW c \in Cpus, PideIO(c)
  PROVE  IInv'
<1>1. /\ cpu[c] # Nadie /\ r[c].pc = "ocioso" /\ cpu' = [cpu EXCEPT ![c] = Nadie]
      /\ Acaba(c) /\ c \in Hilos /\ io' = io \union {cpu[c]}
      /\ UNCHANGED <<lista, dinamica, esperando, colas, nuevos, fin, candado, posee>>
  BY DEF PideIO, Recibe, Hilos, Acaba
<1>2. PICK p \in Procs : p = cpu[c]
  BY <1>1, TipoPorPartes DEF IInv, TipoCpu
<1>3. EnCpu(p)
  BY <1>2 DEF EnCpu, Hay
<1>4. TipoHilos /\ Etapa(c)
  BY <1>1, UnHilo
<1>5. PICK t \in Registro(Len(lista)) : t = Ocioso /\ r' = [r EXCEPT ![c] = t]
  BY <1>1, <1>4, AcabaTipo
<1>6. TipoHilos' /\ r'[c] = t /\ \A k \in Hilos \ {c} : r'[k] = r[k]
  BY <1>1, <1>4, <1>5, HiloCambia
<1>7. Etapa(c)'
  BY <1>5, <1>6 DEF Etapa, Ocioso
<1>8. EtapasOK'
  BY <1>1, <1>6, <1>7, OtrosHilos
<1>9. \A k \in Hilos : EnMano(r'[k]) = EnMano(r[k]) /\ Sacado(r'[k]) = Sacado(r[k])
  <2>1. EnMano(t) = EnMano(r[c]) /\ Sacado(t) = Sacado(r[c])
    BY <1>1, <1>5 DEF EnMano, Sacado, Ocioso
  <2> QED BY <2>1, <1>6
<1>10. /\ Inyecta(Manos, Hilos)' /\ \A q \in Procs : EnManos(q)' <=> EnManos(q)
  BY <1>9, ManosIgual
<1>11. /\ Inyecta(Sacados, Hilos)' /\ \A q \in Procs : EnSacados(q)' <=> EnSacados(q)
  BY <1>9, SacadosIgual
<1>12. /\ TipoCpu' /\ Inyecta(cpu, Cpus)' /\ \A q \in Procs : EnCpu(q)' <=> EnCpu(q) /\ q # p
  BY <1>1, <1>2, CpuDeja
<1>13. /\ TipoLista' /\ Len(lista') = Len(lista)
       /\ Distintos(Esperas, 1 .. Len(lista))' /\ \A q \in Procs : EnEspera(q)' <=> EnEspera(q)
  BY <1>1, ListaIgual
<1>14. /\ TipoColas' /\ Distintos(colas, Nivel)' /\ \A q \in Procs : EnReady(q)' <=> EnReady(q)
  BY <1>1, ColasIgual
<1>15. TipoEspera' /\ TipoResto' /\ TipoPosee'
  BY <1>1, <1>2, TipoPorPartes DEF IInv, TipoEspera, TipoResto, TipoPosee, Nivel, Hilos
<1>16. Uno'
  BY <1>1, <1>2, <1>3, <1>10, <1>11, <1>12, <1>13, <1>14 DEF IInv, Uno, SoloUno
<1>17. TypeOK'
  BY <1>6, <1>12, <1>13, <1>14, <1>15, TipoPorPartesP
<1> QED BY <1>8, <1>10, <1>11, <1>12, <1>13, <1>14, <1>16, <1>17 DEF IInv, Unicos

\* The worker of an interface gives a process back, or ends it.
LEMMA PasoIO ==
  ASSUME IInv, NEW w \in Interfaces, NEW p \in Procs, VuelveIO(w, p) \/ FinPorIO(w, p)
  PROVE  IInv'
<1>1. TipoPosee
  BY TipoPorPartes DEF IInv
<1>2. CASE VuelveIO(w, p)
  <2>1. PICK t : t = [Ocioso EXCEPT !.pc = "encola", !.p = p] /\ Finaliza(w, p, t) /\ posee' = posee
    BY <1>2 DEF VuelveIO
  <2>2. Tarea(t, p)
    BY <2>1, Tareas
  <2>3. TipoPosee'
    BY <1>1, <2>1 DEF TipoPosee
  <2> QED BY <2>1, <2>2, <2>3, PasoFinaliza
<1>3. CASE FinPorIO(w, p)
  <2>1. PICK t : t = [Ocioso EXCEPT !.pc = "cierra", !.p = p, !.op = "EXIT"] /\ Finaliza(w, p, t)
    BY <1>3 DEF FinPorIO
  <2>2. Tarea(t, p)
    BY <2>1, Tareas
  <2>3. TipoPosee'
    BY <1>1, <1>3 DEF TipoPosee, FinPorIO
  <2> QED BY <2>1, <2>2, <2>3, PasoFinaliza
<1> QED BY <1>2, <1>3


\* LOCK queues the process in the mutex.
LEMMA PasoBloquea ==
  ASSUME IInv, NEW h \in Hilos, Bloquea(h)
  PROVE  IInv'
<1>1. /\ TipoHilos /\ TipoLista /\ TipoPosee /\ TipoResto /\ TipoEspera
      /\ r[h] \in Registro(Len(lista)) /\ Etapa(h) /\ Len(lista) \in Nat
  BY UnHilo
<1>2. r[h].pc = "bloquea"
  BY DEF Bloquea, Paso
<1>3. PICK p \in Procs : p = r[h].p
  BY <1>1, <1>2 DEF Etapa, Registro
<1>4. PICK m \in 1 .. Len(lista) : m = r[h].mut
  BY <1>1, <1>2 DEF Etapa
<1>5. EnMano(r[h]) = p /\ Sacado(r[h]) = Nadie
  BY <1>2, <1>3 DEF EnMano, Sacado
<1>6. ~ EnEspera(p) /\ EnManos(p)
  BY <1>5, EnManoSolo
<1>7. lista[m] \in Mutexes
  BY <1>1 DEF TipoLista
<1>8. PICK v \in Mutexes : /\ v = [lista[m] EXCEPT !.cola = Append(lista[m].cola, p)]
                           /\ v.dueno = lista[m].dueno /\ v.nombre = lista[m].nombre
                           /\ v.cola = Append(lista[m].cola, p)
  <2>1. PICK s \in Seq(Procs) : s = lista[m].cola
    BY <1>7 DEF Mutexes
  <2>2. Append(s, p) \in Seq(Procs)
    OBVIOUS
  <2>3. [lista[m] EXCEPT !.cola = Append(lista[m].cola, p)] \in Mutexes
    BY <1>7, <2>1, <2>2 DEF Mutexes
  <2> QED BY <1>7, <2>3 DEF Mutexes
<1>9. lista' = [lista EXCEPT ![m] = v]
  BY <1>3, <1>4, <1>8 DEF Bloquea
<1>10. /\ TipoLista' /\ Len(lista') = Len(lista) /\ lista'[m] = v
       /\ \A k \in 1 .. Len(lista) : k # m => lista'[k] = lista[k]
  BY <1>1, <1>9, ListaCambia
<1>11. \A k \in 1 .. Len(lista) : lista'[k].nombre = lista[k].nombre
  BY <1>8, <1>10
<1>12. /\ Distintos(Esperas, 1 .. Len(lista))'
       /\ \A q \in Procs : EnEspera(q)' <=> EnEspera(q) \/ q = p
  <2>1. lista'[m].cola = Append(lista[m].cola, p)
    BY <1>8, <1>10
  <2>2. \A k \in 1 .. Len(lista) : k # m => lista'[k].cola = lista[k].cola
    BY <1>10
  <2> QED BY <1>6, <1>10, <2>1, <2>2, EsperasAgrega
<1>13. PICK t \in Registro(Len(lista)) :
         /\ r' = [r EXCEPT ![h] = t] /\ t.pc = "propaga" /\ t.p = p /\ t.x = p
  <2>1. dinamica[p] \in Nivel
    BY <1>1 DEF TipoResto
  <2>2. [r[h] EXCEPT !.pc = "propaga", !.x = p, !.val = dinamica[p]] \in Registro(Len(lista))
    BY <1>1, <2>1 DEF Registro, Etapas
  <2>3. r' = [r EXCEPT ![h] = [r[h] EXCEPT !.pc = "propaga", !.x = p, !.val = dinamica[p]]]
    BY <1>3 DEF Bloquea
  <2> QED BY <1>1, <1>3, <2>2, <2>3 DEF Registro
<1>14. TipoHilos' /\ r'[h] = t /\ \A k \in Hilos \ {h} : r'[k] = r[k]
  BY <1>1, <1>10, <1>13, HiloCambia
<1>15. Etapa(h)'
  BY <1>13, <1>14, NadieAssumption DEF Etapa
<1>16. EtapasOK'
  BY <1>10, <1>11, <1>14, <1>15, OtrosHilos
<1>17. EnMano(r'[h]) = Nadie /\ Sacado(r'[h]) = Nadie
  BY <1>13, <1>14 DEF EnMano, Sacado
<1>18. /\ Inyecta(Manos, Hilos)' /\ \A q \in Procs : EnManos(q)' <=> EnManos(q) /\ q # p
  BY <1>5, <1>14, <1>17, ManosDeja
<1>19. /\ Inyecta(Sacados, Hilos)' /\ \A q \in Procs : EnSacados(q)' <=> EnSacados(q)
  <2>1. \A k \in Hilos : Sacado(r'[k]) = Sacado(r[k])
    BY <1>5, <1>14, <1>17
  <2> QED BY <2>1, SacadosIgual
<1>20. UNCHANGED <<dinamica, colas, nuevos, cpu, io, fin, candado, posee>>
       /\ esperando' = [esperando EXCEPT ![p] = m]
  BY <1>3, <1>4 DEF Bloquea
<1>21. TipoEspera'
  <2>1. m \in 0 .. Len(lista)
    BY <1>1
  <2>2. esperando' \in [Procs -> 0 .. Len(lista)]
    BY <1>1, <1>20, <2>1 DEF TipoEspera
  <2> QED BY <2>2, <1>10 DEF TipoEspera
<1>22. TipoPosee' /\ TipoResto'
  BY <1>1, <1>20 DEF TipoPosee, TipoResto, Nivel, Hilos
<1>23. /\ TipoCpu' /\ Inyecta(cpu, Cpus)' /\ \A q \in Procs : EnCpu(q)' <=> EnCpu(q)
  BY <1>20, CpuIgual
<1>24. /\ TipoColas' /\ Distintos(colas, Nivel)' /\ \A q \in Procs : EnReady(q)' <=> EnReady(q)
  BY <1>20, ColasIgual
<1>25. Uno'
  BY <1>6, <1>12, <1>18, <1>19, <1>20, <1>23, <1>24 DEF IInv, Uno, SoloUno
<1>26. TypeOK'
  BY <1>10, <1>14, <1>21, <1>22, <1>23, <1>24, TipoPorPartesP
<1> QED BY <1>12, <1>16, <1>18, <1>19, <1>23, <1>24, <1>25, <1>26 DEF IInv, Unicos

\* What Cede does to the list: the head of a queue becomes the owner.
LEMMA CedeLista ==
  ASSUME IInv, NEW h \in Hilos, Cede(h)
  PROVE  /\ r[h].pc \in {"cede", "libera"} /\ r[h].p \in Procs
         /\ r[h].pc = "libera" => lista[r[h].mut].dueno = r[h].p
         /\ \E m \in 1 .. Len(lista), p \in Procs :
              /\ m = r[h].mut /\ p = Head(lista[m].cola) /\ lista[m].cola # <<>>
              /\ TipoLista' /\ Len(lista') = Len(lista)
              /\ lista'[m].dueno = p /\ lista'[m].nombre = lista[m].nombre
              /\ lista'[m].cola = Tail(lista[m].cola)
              /\ \A k \in 1 .. Len(lista) : k # m => lista'[k] = lista[k]
<1>1. /\ TipoLista /\ r[h] \in Registro(Len(lista)) /\ Etapa(h) /\ Len(lista) \in Nat
  BY UnHilo
<1>2. /\ r[h].pc \in {"cede", "libera"}
      /\ r[h].pc = "libera" => r[h].mut <= Len(lista) /\ lista[r[h].mut].dueno = r[h].p
  BY DEF Cede, Paso
<1>3. r[h].p \in Procs
  BY <1>1, <1>2 DEF Etapa, Registro
<1>4. PICK m \in 1 .. Len(lista) : m = r[h].mut
  <2>1. r[h].mut \in 0 .. Len(lista) + 1
    BY <1>1 DEF Registro
  <2>2. CASE r[h].pc = "cede"
    BY <1>1, <2>2 DEF Etapa
  <2>3. CASE r[h].pc = "libera"
    <3>1. r[h].mut # 0
      BY <1>1, <2>3 DEF Etapa
    <3> QED BY <1>1, <1>2, <2>1, <2>3, <3>1
  <2> QED BY <1>2, <2>2, <2>3
<1>5. lista[m] \in Mutexes
  BY <1>1 DEF TipoLista
<1>6. PICK s \in Seq(Procs) : s = lista[m].cola /\ s # <<>>
  BY <1>4, <1>5 DEF Mutexes, Cede
<1>7. PICK p \in Procs : p = Head(s)
  BY <1>6
<1>8. Tail(s) \in Seq(Procs)
  BY <1>6
<1>9. PICK v \in Mutexes : /\ v = [lista[m] EXCEPT !.dueno = p, !.cola = Tail(s)]
                           /\ v.dueno = p /\ v.nombre = lista[m].nombre /\ v.cola = Tail(s)
  <2>1. [lista[m] EXCEPT !.dueno = p, !.cola = Tail(s)] \in Mutexes
    BY <1>5, <1>8 DEF Mutexes
  <2> QED BY <1>5, <2>1 DEF Mutexes
<1>10. lista' = [lista EXCEPT ![m] = v]
  <2>1. lista' = [lista EXCEPT ![m].dueno = p, ![m].cola = Tail(@)]
    BY <1>4, <1>6, <1>7 DEF Cede
  <2>2. m \in DOMAIN lista
    BY <1>1 DEF TipoLista
  <2> QED BY <1>5, <1>6, <1>9, <2>1, <2>2 DEF Mutexes
<1>11. /\ TipoLista' /\ Len(lista') = Len(lista) /\ lista'[m] = v
       /\ \A k \in 1 .. Len(lista) : k # m => lista'[k] = lista[k]
  BY <1>1, <1>10, ListaCambia
<1>12. /\ m = r[h].mut /\ p = Head(lista[m].cola) /\ lista[m].cola # <<>>
       /\ TipoLista' /\ Len(lista') = Len(lista)
       /\ lista'[m].dueno = p /\ lista'[m].nombre = lista[m].nombre
       /\ lista'[m].cola = Tail(lista[m].cola)
       /\ \A k \in 1 .. Len(lista) : k # m => lista'[k] = lista[k]
  <2>1. lista[m].cola = s
    BY <1>6
  <2> QED BY <1>4, <1>6, <1>7, <1>9, <1>11, <2>1, Zenon
<1>13. r[h].pc = "libera" => lista[r[h].mut].dueno = r[h].p
  BY <1>2
<1> QED BY <1>2, <1>3, <1>12, <1>13, Zenon


\* The mutex passes to its first waiter, which the thread has yet to queue.
LEMMA PasoCede ==
  ASSUME IInv, NEW h \in Hilos, Cede(h)
  PROVE  IInv'
<1>1. /\ TipoHilos /\ TipoLista /\ TipoPosee /\ TipoResto /\ TipoEspera
      /\ r[h] \in Registro(Len(lista)) /\ Etapa(h) /\ Len(lista) \in Nat
  BY UnHilo
<1>2. r[h].pc \in {"cede", "libera"} /\ r[h].p \in Procs
  BY CedeLista
<1>3. PICK m \in 1 .. Len(lista), p \in Procs :
        /\ m = r[h].mut /\ p = Head(lista[m].cola) /\ lista[m].cola # <<>>
        /\ TipoLista' /\ Len(lista') = Len(lista)
        /\ lista'[m].dueno = p /\ lista'[m].nombre = lista[m].nombre
        /\ lista'[m].cola = Tail(lista[m].cola)
        /\ \A k \in 1 .. Len(lista) : k # m => lista'[k] = lista[k]
  BY CedeLista
<1>4. \A k \in 1 .. Len(lista) : lista'[k].nombre = lista[k].nombre
  BY <1>3
<1>5. /\ Distintos(Esperas, 1 .. Len(lista))' /\ EnEspera(p)
      /\ \A q \in Procs : EnEspera(q)' <=> EnEspera(q) /\ q # p
  <2>1. \A k \in 1 .. Len(lista) : k # m => lista'[k].cola = lista[k].cola
    BY <1>3
  <2> QED BY <1>3, <2>1, EsperasSaca
<1>6. ~ EnSacados(p)
  BY <1>5 DEF IInv, Uno, SoloUno
<1>7. /\ UNCHANGED <<dinamica, colas, nuevos, cpu, io, fin, candado>>
      /\ esperando' = [esperando EXCEPT ![p] = 0]
      /\ posee' = [posee EXCEPT ![p] = @ \union {lista[m].nombre}]
      /\ r' = [r EXCEPT ![h].pc = "despierta", ![h].x = p]
  BY <1>3 DEF Cede
<1>8. PICK t \in Registro(Len(lista)) :
         /\ r' = [r EXCEPT ![h] = t] /\ t.pc = "despierta" /\ t.p = r[h].p /\ t.x = p
  <2>1. [r[h] EXCEPT !.pc = "despierta", !.x = p] \in Registro(Len(lista))
    BY <1>1 DEF Registro, Etapas
  <2>2. r' = [r EXCEPT ![h] = [r[h] EXCEPT !.pc = "despierta", !.x = p]]
    BY <1>7
  <2> QED BY <1>1, <2>1, <2>2 DEF Registro
<1>9. TipoHilos' /\ r'[h] = t /\ \A k \in Hilos \ {h} : r'[k] = r[k]
  BY <1>1, <1>3, <1>8, HiloCambia
<1>10. Etapa(h)'
  <2>1. r[h].p # Nadie
    BY <1>1, <1>2 DEF Etapa
  <2> QED BY <2>1, <1>8, <1>9 DEF Etapa
<1>11. EtapasOK'
  BY <1>3, <1>4, <1>9, <1>10, OtrosHilos
<1>12. /\ EnMano(r'[h]) = EnMano(r[h]) /\ Sacado(r'[h]) = p /\ Sacado(r[h]) = Nadie
  BY <1>2, <1>8, <1>9 DEF EnMano, Sacado
<1>13. /\ Inyecta(Manos, Hilos)' /\ \A q \in Procs : EnManos(q)' <=> EnManos(q)
  <2>1. \A k \in Hilos : EnMano(r'[k]) = EnMano(r[k])
    BY <1>9, <1>12
  <2> QED BY <2>1, ManosIgual
<1>14. /\ Inyecta(Sacados, Hilos)' /\ \A q \in Procs : EnSacados(q)' <=> EnSacados(q) \/ q = p
  BY <1>6, <1>9, <1>12, SacadosToma
<1>15. TipoEspera' /\ TipoPosee' /\ TipoResto'
  <2>1. 0 \in 0 .. Len(lista)
    BY <1>1
  <2>2. esperando' \in [Procs -> 0 .. Len(lista)]
    BY <1>1, <1>7, <2>1 DEF TipoEspera
  <2>3. TipoEspera'
    BY <2>2, <1>3 DEF TipoEspera
  <2>4. lista[m] \in Mutexes
    BY <1>1 DEF TipoLista
  <2>5. lista[m].nombre \in Nombres
    BY <2>4 DEF Mutexes
  <2>6. TipoPosee'
    BY <1>1, <1>7, <2>5 DEF TipoPosee
  <2> QED BY <1>1, <1>7, <2>3, <2>6 DEF TipoResto, Nivel, Hilos
<1>16. /\ TipoCpu' /\ Inyecta(cpu, Cpus)' /\ \A q \in Procs : EnCpu(q)' <=> EnCpu(q)
  BY <1>7, CpuIgual
<1>17. /\ TipoColas' /\ Distintos(colas, Nivel)' /\ \A q \in Procs : EnReady(q)' <=> EnReady(q)
  BY <1>7, ColasIgual
<1>18. Uno'
  BY <1>5, <1>7, <1>13, <1>14, <1>16, <1>17 DEF IInv, Uno, SoloUno
<1>19. TypeOK'
  BY <1>3, <1>9, <1>15, <1>16, <1>17, TipoPorPartesP
<1> QED BY <1>5, <1>11, <1>13, <1>14, <1>16, <1>17, <1>18, <1>19 DEF IInv, Unicos

\* The waiter that got the mutex goes to its ready queue.
LEMMA PasoDespierta ==
  ASSUME IInv, NEW h \in Hilos, Despierta(h)
  PROVE  IInv'
<1>1. /\ TipoHilos /\ TipoPosee /\ TipoResto /\ TipoEspera
      /\ r[h] \in Registro(Len(lista)) /\ Etapa(h) /\ Len(lista) \in Nat
  BY UnHilo
<1>2. /\ r[h].pc = "despierta" /\ AlFinal(r[h].x) /\ Pasa(h, "recalcula")
      /\ UNCHANGED <<lista, dinamica, esperando, nuevos, cpu, io, fin, candado, posee>>
  BY DEF Despierta, Paso
<1>3. PICK p \in Procs : p = r[h].x
  BY <1>1, <1>2 DEF Etapa
<1>4. EnSacados(p)
  BY <1>2, <1>3 DEF EnSacados, Hay, Sacados, Sacado
<1>5. ~ EnReady(p)
  BY <1>4 DEF IInv, Uno, SoloUno
<1>6. /\ TipoColas' /\ Distintos(colas, Nivel)'
      /\ \A q \in Procs : EnReady(q)' <=> EnReady(q) \/ q = p
  BY <1>2, <1>3, <1>5, ColasAgrega
<1>7. PICK t \in Registro(Len(lista)) :
        /\ r' = [r EXCEPT ![h] = t] /\ t.pc = "recalcula" /\ t.p = r[h].p /\ t.x = r[h].x
  BY <1>1, <1>2, PasaTipo DEF Etapas
<1>8. r'[h] = t /\ \A k \in Hilos \ {h} : r'[k] = r[k]
  BY <1>1, <1>7, HiloCambia
<1>9. /\ TipoLista' /\ Len(lista') = Len(lista)
      /\ Distintos(Esperas, 1 .. Len(lista))' /\ \A q \in Procs : EnEspera(q)' <=> EnEspera(q)
  BY <1>2, ListaIgual
<1>10. TipoHilos'
  BY <1>1, <1>7, <1>9, HiloCambia
<1>11. Etapa(h)'
  <2>1. r[h].p # Nadie
    BY <1>1, <1>2 DEF Etapa
  <2> QED BY <2>1, <1>3, <1>7, <1>8 DEF Etapa
<1>12. EtapasOK'
  BY <1>2, <1>8, <1>9, <1>11, OtrosHilos
<1>13. /\ EnMano(r'[h]) = EnMano(r[h]) /\ Sacado(r'[h]) = Nadie /\ Sacado(r[h]) = p
  BY <1>2, <1>3, <1>7, <1>8 DEF EnMano, Sacado
<1>14. /\ Inyecta(Manos, Hilos)' /\ \A q \in Procs : EnManos(q)' <=> EnManos(q)
  <2>1. \A k \in Hilos : EnMano(r'[k]) = EnMano(r[k])
    BY <1>8, <1>13
  <2> QED BY <2>1, ManosIgual
<1>15. /\ Inyecta(Sacados, Hilos)' /\ \A q \in Procs : EnSacados(q)' <=> EnSacados(q) /\ q # p
  BY <1>8, <1>13, SacadosDeja
<1>16. TipoEspera' /\ TipoPosee' /\ TipoResto'
  BY <1>1, <1>2 DEF TipoEspera, TipoPosee, TipoResto, Nivel, Hilos
<1>17. /\ TipoCpu' /\ Inyecta(cpu, Cpus)' /\ \A q \in Procs : EnCpu(q)' <=> EnCpu(q)
  BY <1>2, CpuIgual
<1>18. Uno'
  BY <1>2, <1>4, <1>6, <1>9, <1>14, <1>15, <1>17 DEF IInv, Uno, SoloUno
<1>19. TypeOK'
  BY <1>6, <1>9, <1>10, <1>16, <1>17, TipoPorPartesP
<1> QED BY <1>6, <1>9, <1>12, <1>14, <1>15, <1>17, <1>18, <1>19 DEF IInv, Unicos

\* The thread ends its work: it leaves the process it has.
LEMMA AcabaHilo ==
  ASSUME IInv, NEW h \in Hilos, Acaba(h), Sacado(r[h]) = Nadie, lista' = lista
  PROVE  /\ TipoHilos' /\ EtapasOK' /\ Inyecta(Manos, Hilos)' /\ Inyecta(Sacados, Hilos)'
         /\ \A q \in Procs : /\ EnManos(q)' <=> EnManos(q) /\ q # EnMano(r[h])
                             /\ EnSacados(q)' <=> EnSacados(q)
<1>1. TipoHilos /\ Len(lista) \in Nat
  BY UnHilo
<1>2. PICK t \in Registro(Len(lista)) : t = Ocioso /\ r' = [r EXCEPT ![h] = t]
  BY <1>1, AcabaTipo
<1>3. TipoHilos' /\ r'[h] = t /\ \A k \in Hilos \ {h} : r'[k] = r[k]
  BY <1>1, <1>2, HiloCambia
<1>4. Etapa(h)'
  BY <1>2, <1>3 DEF Etapa, Ocioso
<1>5. EtapasOK'
  BY <1>3, <1>4, OtrosHilos
<1>6. EnMano(r'[h]) = Nadie /\ Sacado(r'[h]) = Nadie
  BY <1>2, <1>3 DEF EnMano, Sacado, Ocioso
<1>7. /\ Inyecta(Manos, Hilos)' /\ \A q \in Procs : EnManos(q)' <=> EnManos(q) /\ q # EnMano(r[h])
  BY <1>3, <1>6, ManosDeja
<1>8. \A k \in Hilos : Sacado(r'[k]) = Sacado(r[k])
  BY <1>3, <1>6
<1>9. /\ Inyecta(Sacados, Hilos)' /\ \A q \in Procs : EnSacados(q)' <=> EnSacados(q)
  BY <1>8, SacadosIgual
<1> QED BY <1>3, <1>5, <1>7, <1>9

\* The PCB is freed.
LEMMA PasoTermina ==
  ASSUME IInv, NEW h \in Hilos, Termina(h)
  PROVE  IInv'
<1>1. /\ r[h] \in Registro(Len(lista)) /\ Etapa(h) /\ TipoPosee /\ TipoResto /\ TipoEspera
  BY UnHilo
<1>2. /\ r[h].pc = "termina" /\ fin' = fin \union {r[h].p} /\ Acaba(h)
      /\ UNCHANGED <<lista, dinamica, esperando, colas, nuevos, cpu, io, candado, posee>>
  BY DEF Termina, Paso
<1>3. PICK p \in Procs : p = r[h].p
  BY <1>1, <1>2 DEF Etapa, Registro
<1>4. EnMano(r[h]) = p /\ Sacado(r[h]) = Nadie
  BY <1>2, <1>3 DEF EnMano, Sacado
<1>5. EnManos(p)
  BY <1>4, EnManoSolo
<1>6. /\ TipoHilos' /\ EtapasOK' /\ Inyecta(Manos, Hilos)' /\ Inyecta(Sacados, Hilos)'
      /\ \A q \in Procs : /\ EnManos(q)' <=> EnManos(q) /\ q # p
                          /\ EnSacados(q)' <=> EnSacados(q)
  BY <1>2, <1>4, AcabaHilo
<1>7. /\ TipoCpu' /\ Inyecta(cpu, Cpus)' /\ \A q \in Procs : EnCpu(q)' <=> EnCpu(q)
  BY <1>2, CpuIgual
<1>8. /\ TipoLista' /\ Len(lista') = Len(lista)
      /\ Distintos(Esperas, 1 .. Len(lista))' /\ \A q \in Procs : EnEspera(q)' <=> EnEspera(q)
  BY <1>2, ListaIgual
<1>9. /\ TipoColas' /\ Distintos(colas, Nivel)' /\ \A q \in Procs : EnReady(q)' <=> EnReady(q)
  BY <1>2, ColasIgual
<1>10. TipoEspera' /\ TipoPosee' /\ TipoResto'
  BY <1>1, <1>2, <1>3 DEF TipoEspera, TipoPosee, TipoResto, Nivel, Hilos
<1>11. Uno'
  BY <1>2, <1>3, <1>5, <1>6, <1>7, <1>8, <1>9 DEF IInv, Uno, SoloUno
<1>12. TypeOK'
  BY <1>6, <1>7, <1>8, <1>9, <1>10, TipoPorPartesP
<1> QED BY <1>6, <1>7, <1>8, <1>9, <1>11, <1>12 DEF IInv, Unicos

\* A process goes back to its ready queue, to the end or to the front.
LEMMA PasoEncola ==
  ASSUME IInv, NEW h \in Hilos, Encola(h) \/ Frente(h)
  PROVE  IInv'
<1>1. /\ r[h] \in Registro(Len(lista)) /\ Etapa(h) /\ TipoPosee /\ TipoResto /\ TipoEspera
  BY UnHilo
<1>2. AlFinal(r[h].p) \/ AlInicio(r[h].p)
  BY DEF Encola, Frente, Paso
<1>3. /\ r[h].pc \in {"encola", "frente"} /\ Acaba(h)
      /\ UNCHANGED <<lista, dinamica, esperando, nuevos, cpu, io, fin, candado, posee>>
  BY DEF Encola, Frente, Paso
<1>4. PICK p \in Procs : p = r[h].p
  BY <1>1, <1>3 DEF Etapa, Registro
<1>5. EnMano(r[h]) = p /\ Sacado(r[h]) = Nadie
  BY <1>3, <1>4 DEF EnMano, Sacado
<1>6. EnManos(p) /\ ~ EnReady(p)
  BY <1>5, EnManoSolo
<1>7. /\ TipoHilos' /\ EtapasOK' /\ Inyecta(Manos, Hilos)' /\ Inyecta(Sacados, Hilos)'
      /\ \A q \in Procs : /\ EnManos(q)' <=> EnManos(q) /\ q # p
                          /\ EnSacados(q)' <=> EnSacados(q)
  BY <1>3, <1>5, AcabaHilo
<1>8. /\ TipoColas' /\ Distintos(colas, Nivel)'
      /\ \A q \in Procs : EnReady(q)' <=> EnReady(q) \/ q = p
  BY <1>2, <1>4, <1>6, ColasAgrega
<1>9. /\ TipoCpu' /\ Inyecta(cpu, Cpus)' /\ \A q \in Procs : EnCpu(q)' <=> EnCpu(q)
  BY <1>3, CpuIgual
<1>10. /\ TipoLista' /\ Len(lista') = Len(lista)
       /\ Distintos(Esperas, 1 .. Len(lista))' /\ \A q \in Procs : EnEspera(q)' <=> EnEspera(q)
  BY <1>3, ListaIgual
<1>11. TipoEspera' /\ TipoPosee' /\ TipoResto'
  BY <1>1, <1>3 DEF TipoEspera, TipoPosee, TipoResto, Nivel, Hilos
<1>12. Uno'
  BY <1>3, <1>6, <1>7, <1>8, <1>9, <1>10 DEF IInv, Uno, SoloUno
<1>13. TypeOK'
  BY <1>7, <1>8, <1>9, <1>10, <1>11, TipoPorPartesP
<1> QED BY <1>7, <1>8, <1>9, <1>10, <1>12, <1>13 DEF IInv, Unicos


\* A process gets a new dynamic priority, and another ready queue if it has one.
LEMMA CambiaPrioridad ==
  ASSUME IInv, NEW h \in Hilos, NEW t \in Registro(Len(lista)), NEW o \in Procs, NEW v \in Nivel,
         r' = [r EXCEPT ![h] = t], EnMano(t) = EnMano(r[h]), Sacado(t) = Sacado(r[h]), Etapa(h)',
         dinamica' = [dinamica EXCEPT ![o] = v], Reubica(o, dinamica[o], v),
         UNCHANGED <<lista, esperando, nuevos, cpu, io, fin, candado, posee>>
  PROVE  IInv'
<1>1. /\ TipoHilos /\ TipoPosee /\ TipoResto /\ TipoEspera /\ Len(lista) \in Nat
  BY UnHilo
<1>2. TipoHilos' /\ r'[h] = t /\ \A k \in Hilos \ {h} : r'[k] = r[k]
  BY <1>1, HiloCambia
<1>3. EtapasOK'
  BY <1>2, OtrosHilos
<1>4. \A k \in Hilos : EnMano(r'[k]) = EnMano(r[k]) /\ Sacado(r'[k]) = Sacado(r[k])
  BY <1>2
<1>5. /\ Inyecta(Manos, Hilos)' /\ \A q \in Procs : EnManos(q)' <=> EnManos(q)
  BY <1>4, ManosIgual
<1>6. /\ Inyecta(Sacados, Hilos)' /\ \A q \in Procs : EnSacados(q)' <=> EnSacados(q)
  BY <1>4, SacadosIgual
<1>7. dinamica[o] \in Nivel
  BY <1>1 DEF TipoResto
<1>8. /\ TipoColas' /\ Distintos(colas, Nivel)' /\ \A q \in Procs : EnReady(q)' <=> EnReady(q)
  BY <1>7, ColasReubica
<1>9. /\ TipoCpu' /\ Inyecta(cpu, Cpus)' /\ \A q \in Procs : EnCpu(q)' <=> EnCpu(q)
  BY CpuIgual
<1>10. /\ TipoLista' /\ Len(lista') = Len(lista)
       /\ Distintos(Esperas, 1 .. Len(lista))' /\ \A q \in Procs : EnEspera(q)' <=> EnEspera(q)
  BY ListaIgual
<1>11. dinamica' \in [Procs -> Nivel]
  BY <1>1 DEF TipoResto
<1>12. TipoEspera' /\ TipoPosee' /\ TipoResto'
  BY <1>1, <1>11 DEF TipoEspera, TipoPosee, TipoResto, Nivel, Hilos
<1>13. Uno'
  BY <1>5, <1>6, <1>8, <1>9, <1>10, NadieSeMuda
<1>14. TypeOK'
  BY <1>2, <1>8, <1>9, <1>10, <1>12, TipoPorPartesP
<1> QED BY <1>3, <1>5, <1>6, <1>8, <1>9, <1>10, <1>13, <1>14 DEF IInv, Unicos

\* The owner that inherits is a process that was not freed.
LEMMA PropagaA ==
  ASSUME IInv, NEW h \in Hilos, Propaga(h)
  PROVE  /\ r[h].pc = "propaga" /\ r[h].x \in Procs /\ esperando[r[h].x] \in 1 .. Len(lista)
         /\ \E o \in Procs \ fin : o = lista[esperando[r[h].x]].dueno
<1>1. /\ TipoLista /\ TipoEspera /\ Etapa(h) /\ Len(lista) \in Nat
  BY UnHilo
<1>2. r[h].pc = "propaga" /\ Hereda(r[h].x, r[h].val)
  BY DEF Propaga, Paso
<1>3. PICK y \in Procs : y = r[h].x
  BY <1>1, <1>2 DEF Etapa
<1>4. PICK m \in 1 .. Len(lista) : m = esperando[y]
  <2>1. esperando[y] \in 0 .. Len(lista) /\ esperando[y] # 0
    BY <1>1, <1>2, <1>3 DEF TipoEspera, Hereda
  <2> QED BY <1>1, <2>1
<1>5. lista[m] \in Mutexes
  BY <1>1 DEF TipoLista
<1>6. lista[m].dueno \in Procs \ fin
  BY <1>2, <1>3, <1>4, <1>5 DEF Mutexes, Hereda
<1> QED BY <1>2, <1>3, <1>4, <1>6

\* Inheritance, one owner further.
LEMMA PasoPropaga ==
  ASSUME IInv, NEW h \in Hilos, Propaga(h)
  PROVE  IInv'
<1>1. /\ TipoHilos /\ r[h] \in Registro(Len(lista)) /\ Etapa(h)
  BY UnHilo
<1>2. r[h].pc = "propaga" /\ r[h].p # Nadie
  BY <1>1, PropagaA DEF Etapa
<1>3. PICK o \in Procs \ fin : o = lista[esperando[r[h].x]].dueno
  BY PropagaA
<1>4. PICK v \in Nivel : v = r[h].val
  BY <1>1 DEF Registro
<1>5. /\ dinamica' = [dinamica EXCEPT ![o] = v] /\ Reubica(o, dinamica[o], v)
      /\ r' = [r EXCEPT ![h].x = o]
      /\ UNCHANGED <<lista, esperando, nuevos, cpu, io, fin, candado, posee>>
  BY <1>3, <1>4 DEF Propaga
<1>6. PICK t \in Registro(Len(lista)) :
         /\ r' = [r EXCEPT ![h] = t] /\ t.pc = "propaga" /\ t.p = r[h].p /\ t.x = o
  <2>1. [r[h] EXCEPT !.x = o] \in Registro(Len(lista))
    BY <1>1 DEF Registro
  <2>2. r' = [r EXCEPT ![h] = [r[h] EXCEPT !.x = o]]
    BY <1>5
  <2> QED BY <1>1, <1>2, <2>1, <2>2 DEF Registro
<1>7. EnMano(t) = EnMano(r[h]) /\ Sacado(t) = Sacado(r[h])
  BY <1>2, <1>6 DEF EnMano, Sacado
<1>8. r'[h] = t
  BY <1>1, <1>6, HiloCambia
<1>9. Etapa(h)'
  BY <1>2, <1>6, <1>8 DEF Etapa
<1> QED BY <1>5, <1>6, <1>7, <1>9, CambiaPrioridad

\* Inheritance ends.
LEMMA PasoPropagaFin ==
  ASSUME IInv, NEW h \in Hilos, PropagaFin(h)
  PROVE  IInv'
<1>1. TipoPosee /\ TipoResto /\ TipoEspera
  BY UnHilo
<1>2. /\ r[h].pc = "propaga" /\ Acaba(h)
      /\ UNCHANGED <<lista, dinamica, esperando, colas, nuevos, cpu, io, fin, candado, posee>>
  BY DEF PropagaFin, Paso
<1>3. EnMano(r[h]) = Nadie /\ Sacado(r[h]) = Nadie
  BY <1>2 DEF EnMano, Sacado
<1>4. /\ TipoHilos' /\ EtapasOK' /\ Inyecta(Manos, Hilos)' /\ Inyecta(Sacados, Hilos)'
      /\ \A q \in Procs : /\ EnManos(q)' <=> EnManos(q) /\ q # Nadie
                          /\ EnSacados(q)' <=> EnSacados(q)
  BY <1>2, <1>3, AcabaHilo
<1>5. \A q \in Procs : EnManos(q)' <=> EnManos(q)
  BY <1>4, NadieAssumption
<1>6. /\ TipoCpu' /\ Inyecta(cpu, Cpus)' /\ \A q \in Procs : EnCpu(q)' <=> EnCpu(q)
  BY <1>2, CpuIgual
<1>7. /\ TipoLista' /\ Len(lista') = Len(lista)
      /\ Distintos(Esperas, 1 .. Len(lista))' /\ \A q \in Procs : EnEspera(q)' <=> EnEspera(q)
  BY <1>2, ListaIgual
<1>8. /\ TipoColas' /\ Distintos(colas, Nivel)' /\ \A q \in Procs : EnReady(q)' <=> EnReady(q)
  BY <1>2, ColasIgual
<1>9. TipoEspera' /\ TipoPosee' /\ TipoResto'
  BY <1>1, <1>2 DEF TipoEspera, TipoPosee, TipoResto, Nivel, Hilos
<1>10. Uno'
  BY <1>2, <1>4, <1>5, <1>6, <1>7, <1>8, NadieSeMuda
<1>11. TypeOK'
  BY <1>4, <1>6, <1>7, <1>8, <1>9, TipoPorPartesP
<1> QED BY <1>4, <1>6, <1>7, <1>8, <1>10, <1>11 DEF IInv, Unicos

\* The recalculated priority is applied.
LEMMA PasoAplica ==
  ASSUME IInv, NEW h \in Hilos, Aplica(h)
  PROVE  IInv'
<1>1. /\ TipoHilos /\ r[h] \in Registro(Len(lista)) /\ Etapa(h)
  BY UnHilo
<1>2. r[h].pc = "aplica"
  BY DEF Aplica, Paso
<1>3. PICK y \in Procs : y = r[h].x
  BY <1>1, <1>2 DEF Etapa
<1>4. PICK p \in Procs : p = r[h].p
  BY <1>1, <1>2 DEF Etapa, Registro
<1>5. PICK v \in Nivel : v = r[h].val
  BY <1>1 DEF Registro
<1>6. PICK e \in {"encola", "recalcula"} : e = IF y = p THEN "encola" ELSE "recalcula"
  OBVIOUS
<1>7. /\ dinamica' = [dinamica EXCEPT ![y] = v] /\ Reubica(y, dinamica[y], v)
      /\ r' = [r EXCEPT ![h].pc = e, ![h].x = p]
      /\ UNCHANGED <<lista, esperando, nuevos, cpu, io, fin, candado, posee>>
  BY <1>3, <1>4, <1>5, <1>6 DEF Aplica
<1>8. PICK t \in Registro(Len(lista)) :
         /\ r' = [r EXCEPT ![h] = t] /\ t.pc = e /\ t.p = p /\ t.x = p
  <2>1. [r[h] EXCEPT !.pc = e, !.x = p] \in Registro(Len(lista))
    BY <1>1 DEF Registro, Etapas
  <2>2. r' = [r EXCEPT ![h] = [r[h] EXCEPT !.pc = e, !.x = p]]
    BY <1>7
  <2> QED BY <1>1, <1>4, <2>1, <2>2 DEF Registro
<1>9. EnMano(t) = EnMano(r[h]) /\ Sacado(t) = Sacado(r[h])
  BY <1>2, <1>4, <1>8 DEF EnMano, Sacado
<1>10. r'[h] = t
  BY <1>1, <1>8, HiloCambia
<1>11. Etapa(h)'
  BY <1>8, <1>10, NadieAssumption DEF Etapa
<1> QED BY <1>7, <1>8, <1>9, <1>11, CambiaPrioridad

-----------------------------------------------------------------------------
(* The first layer.                                                         *)

\* The scheduler starts with every process in its place.
LEMMA InicioIInv == Init => IInv
<1> SUFFICES ASSUME Init PROVE IInv
  OBVIOUS
<1>1. /\ lista = <<>> /\ r = [h \in Hilos |-> Ocioso] /\ colas = [l \in Nivel |-> <<>>]
      /\ nuevos = Procs /\ cpu = [c \in Cpus |-> Nadie] /\ io = {} /\ fin = {}
      /\ esperando = [p \in Procs |-> 0] /\ dinamica = Prioridad
      /\ candado = Nadie /\ posee = [p \in Procs |-> {}]
  BY DEF Init
<1>2. 0 \in Nivel
  BY NivelesAssumption DEF Nivel
<1>3. TipoLista /\ Len(lista) = 0
  BY <1>1 DEF TipoLista
<1>4. TipoHilos
  BY <1>1, <1>2, <1>3 DEF TipoHilos, Ocioso, Registro, Etapas, Ops
<1>5. TipoEspera /\ TipoColas /\ TipoCpu /\ TipoPosee
  BY <1>1, <1>3 DEF TipoEspera, TipoColas, TipoCpu, TipoPosee
<1>6. TipoResto
  BY <1>1, PrioridadAssumption DEF TipoResto, Nivel
<1>7. TypeOK
  BY <1>3, <1>4, <1>5, <1>6, TipoPorPartes
<1>8. EtapasOK
  BY <1>1 DEF EtapasOK, Etapa, Ocioso
<1>9. \A h \in Hilos : Manos[h] = Nadie /\ Sacados[h] = Nadie
  BY <1>1 DEF Manos, Sacados, EnMano, Sacado, Ocioso
<1>10. \A p \in Procs : ~ EnCpu(p) /\ ~ EnManos(p) /\ ~ EnSacados(p) /\ p \notin io /\ p \notin fin
  BY <1>1, <1>9, NadieAssumption DEF EnCpu, EnManos, EnSacados, Hay
<1>11. \A l \in Nivel : 1 .. Len(colas[l]) = {}
  BY <1>1
<1>12. 1 .. Len(lista) = {}
  BY <1>3
<1>13. \A p \in Procs : ~ EnReady(p) /\ ~ EnEspera(p)
  BY <1>11, <1>12 DEF EnReady, EnEspera, Esta
<1>14. Uno
  BY <1>1, <1>10, <1>13 DEF Uno, SoloUno
<1>15. Inyecta(cpu, Cpus) /\ Inyecta(Manos, Hilos) /\ Inyecta(Sacados, Hilos)
  BY <1>1, <1>9 DEF Inyecta
<1>16. Distintos(colas, Nivel) /\ Distintos(Esperas, 1 .. Len(lista))
  BY <1>11, <1>12 DEF Distintos
<1> QED BY <1>7, <1>8, <1>14, <1>15, <1>16 DEF IInv, Unicos

\* A step that changes nothing.
LEMMA QuietoIInv ==
  ASSUME IInv, UNCHANGED vars
  PROVE  IInv'
<1>1. UNCHANGED <<lista, dinamica, esperando, colas, nuevos, cpu, io, fin, r, candado, posee>>
  BY DEF vars
<1>2. /\ TipoLista' /\ Distintos(Esperas, 1 .. Len(lista))' /\ \A q \in Procs : EnEspera(q)' <=> EnEspera(q)
  BY <1>1, ListaIgual
<1>3. /\ TipoHilos' /\ EtapasOK' /\ Inyecta(Manos, Hilos)' /\ Inyecta(Sacados, Hilos)'
      /\ \A q \in Procs : (EnManos(q)' <=> EnManos(q)) /\ (EnSacados(q)' <=> EnSacados(q))
  BY <1>1, HilosIgual
<1>4. /\ TipoCpu' /\ Inyecta(cpu, Cpus)' /\ \A q \in Procs : EnCpu(q)' <=> EnCpu(q)
  BY <1>1, CpuIgual
<1>5. /\ TipoColas' /\ Distintos(colas, Nivel)' /\ \A q \in Procs : EnReady(q)' <=> EnReady(q)
  BY <1>1, ColasIgual
<1>6. TipoEspera' /\ TipoPosee' /\ TipoResto'
  BY <1>1, TipoPorPartes DEF IInv, TipoEspera, TipoPosee, TipoResto, Nivel, Hilos
<1>7. Uno'
  BY <1>1, <1>2, <1>3, <1>4, <1>5, NadieSeMuda
<1>8. TypeOK'
  BY <1>2, <1>3, <1>4, <1>5, <1>6, TipoPorPartesP
<1> QED BY <1>2, <1>3, <1>4, <1>5, <1>7, <1>8 DEF IInv, Unicos

\* Every step keeps the first layer.
LEMMA PasoIInv == IInv /\ [Next]_vars => IInv'
<1> SUFFICES ASSUME IInv, [Next]_vars PROVE IInv'
  OBVIOUS
<1>1. ASSUME NEW p \in Procs, Admite(p) PROVE IInv'
  BY <1>1, PasoAdmite
<1>2. ASSUME NEW c \in Cpus, Despacha(c) \/ Programa(c) PROVE IInv'
  BY <1>2, PasoDespacha, PasoSyscall, PasoSale, PasoDesaloja, PasoPideIO DEF Programa
<1>3. ASSUME NEW w \in Interfaces, NEW p \in Procs, VuelveIO(w, p) \/ FinPorIO(w, p) PROVE IInv'
  BY <1>3, PasoIO
<1>4. ASSUME NEW h \in Hilos, Hilo(h) PROVE IInv'
  <2>1. CASE Busca(h) \/ Registra(h) \/ Mira(h) \/ Toma(h) \/ Bloquea(h)
    BY <2>1, PasoBusca, PasoRegistra, PasoMira, PasoToma, PasoBloquea
  <2>2. CASE Propaga(h) \/ PropagaFin(h) \/ Comprueba(h) \/ Cede(h) \/ Despierta(h) \/ Suelta(h)
    BY <2>2, PasoPropaga, PasoPropagaFin, PasoComprueba, PasoCede, PasoDespierta, PasoSuelta
  <2>3. CASE Recalcula(h) \/ Aplica(h) \/ Cierra(h) \/ Libera(h) \/ LiberaFin(h) \/ Termina(h)
    BY <2>3, PasoRecalcula, PasoAplica, PasoCierra, PasoLibera, PasoLiberaFin, PasoTermina
  <2>4. CASE Encola(h) \/ Frente(h)
    BY <2>4, PasoEncola
  <2> QED BY <1>4, <2>1, <2>2, <2>3, <2>4 DEF Hilo
<1>5. CASE UNCHANGED vars
  BY <1>5, QuietoIInv
<1> QED BY <1>1, <1>2, <1>3, <1>4, <1>5 DEF Next


\* With any number of CPUs, interfaces, processes and mutexes, and whatever the
\* races on the fields of a mutex do, every thread knows what its stage needs and
\* every process is in one place.
THEOREM MutexOrdenado == Spec => []IInv
<1>1. Init => IInv
  BY InicioIInv
<1>2. IInv /\ [Next]_vars => IInv'
  BY PasoIInv
<1> QED BY <1>1, <1>2, PTL DEF Spec

\* The variables keep their types: an owner is a PID or the -1 the code compares
\* with, and no position of the list of mutexes is out of it.
THEOREM TiposDeLosMutex == Spec => []TypeOK
<1>1. IInv => TypeOK
  BY DEF IInv
<1> QED BY <1>1, MutexOrdenado, PTL

\* A place in the set of places, from the predicates of the invariant.
LEMMA UnSoloLugar ==
  ASSUME IInv, NEW p \in Procs
  PROVE  Cardinality(Lugares(p)) = 1
<1> DEFINE N == {<<"nuevo">> : z \in {p} \intersect nuevos}
           F == {<<"fin">> : z \in {p} \intersect fin}
           I == {<<"io">> : z \in {p} \intersect io}
           C == {<<"cpu", c>> : c \in {c \in Cpus : cpu[c] = p}}
           H == {<<"hilo", h>> : h \in {h \in Hilos : r[h].p = p /\ r[h].pc # "propaga"}}
           D == {<<"despierta", h>> : h \in {h \in Hilos : r[h].x = p /\ r[h].pc = "despierta"}}
           R == UNION {{<<"ready", l, i>> : i \in {i \in DOMAIN colas[l] : colas[l][i] = p}} : l \in Nivel}
           M == UNION {{<<"mutex", m, i>> : i \in {i \in DOMAIN lista[m].cola : lista[m].cola[i] = p}} :
                         m \in DOMAIN lista}
<1>1. Lugares(p) = N \union F \union I \union C \union H \union D \union R \union M
  BY Zenon DEF Lugares
<1>2. TypeOK /\ EtapasOK /\ Unicos
  BY DEF IInv
<1>3. p # Nadie
  BY NadieAssumption
<1>4. /\ p \notin nuevos => N = {}
      /\ p \in nuevos => N = {<<"nuevo">>}
  OBVIOUS
<1>5. /\ p \notin fin => F = {}
      /\ p \in fin => F = {<<"fin">>}
  OBVIOUS
<1>6. /\ p \notin io => I = {}
      /\ p \in io => I = {<<"io">>}
  OBVIOUS
<1>7. /\ ~ EnCpu(p) => C = {}
      /\ EnCpu(p) => \E z : C = {z}
  <2>1. ~ EnCpu(p) => C = {}
    BY DEF EnCpu, Hay
  <2>2. ASSUME EnCpu(p) PROVE \E z : C = {z}
    <3>1. PICK c \in Cpus : cpu[c] = p
      BY <2>2 DEF EnCpu, Hay
    <3>2. {k \in Cpus : cpu[k] = p} = {c}
      BY <1>2, <1>3, <3>1 DEF Unicos, Inyecta
    <3>3. C = {<<"cpu", c>>}
      BY <3>2
    <3> QED BY <3>3
  <2> QED BY <2>1, <2>2
<1>8. \A h \in Hilos : Manos[h] = p <=> r[h].p = p /\ r[h].pc # "propaga"
  BY <1>2, <1>3 DEF EtapasOK, Etapa, Manos, EnMano
<1>9. /\ ~ EnManos(p) => H = {}
      /\ EnManos(p) => \E z : H = {z}
  <2>1. ~ EnManos(p) => H = {}
    BY <1>8 DEF EnManos, Hay
  <2>2. ASSUME EnManos(p) PROVE \E z : H = {z}
    <3>1. PICK h \in Hilos : Manos[h] = p
      BY <2>2 DEF EnManos, Hay
    <3>2. {k \in Hilos : r[k].p = p /\ r[k].pc # "propaga"} = {h}
      BY <1>2, <1>3, <1>8, <3>1 DEF Unicos, Inyecta
    <3>3. H = {<<"hilo", h>>}
      BY <3>2
    <3> QED BY <3>3
  <2> QED BY <2>1, <2>2
<1>10. \A h \in Hilos : Sacados[h] = p <=> r[h].x = p /\ r[h].pc = "despierta"
  BY <1>3 DEF Sacados, Sacado
<1>11. /\ ~ EnSacados(p) => D = {}
       /\ EnSacados(p) => \E z : D = {z}
  <2>1. ~ EnSacados(p) => D = {}
    BY <1>10 DEF EnSacados, Hay
  <2>2. ASSUME EnSacados(p) PROVE \E z : D = {z}
    <3>1. PICK h \in Hilos : Sacados[h] = p
      BY <2>2 DEF EnSacados, Hay
    <3>2. {k \in Hilos : r[k].x = p /\ r[k].pc = "despierta"} = {h}
      BY <1>2, <1>3, <1>10, <3>1 DEF Unicos, Inyecta
    <3>3. D = {<<"despierta", h>>}
      BY <3>2
    <3> QED BY <3>3
  <2> QED BY <2>1, <2>2
<1>12. \A l \in Nivel : DOMAIN colas[l] = 1 .. Len(colas[l])
  BY <1>2 DEF TypeOK
<1>13. /\ ~ EnReady(p) => R = {}
       /\ EnReady(p) => \E z : R = {z}
  <2>1. ~ EnReady(p) => R = {}
    BY <1>12 DEF EnReady, Esta
  <2>2. ASSUME EnReady(p) PROVE \E z : R = {z}
    <3>1. PICK l \in Nivel : \E i \in 1 .. Len(colas[l]) : colas[l][i] = p
      BY <2>2 DEF EnReady, Esta
    <3>2. PICK i \in 1 .. Len(colas[l]) : colas[l][i] = p
      BY <3>1
    <3>3. \A k \in Nivel : \A j \in DOMAIN colas[k] : colas[k][j] = p => k = l /\ j = i
      BY <1>2, <1>12, <3>2 DEF Unicos, Distintos
    <3>4. R = {<<"ready", l, i>>}
      BY <1>12, <3>2, <3>3
    <3> QED BY <3>4
  <2> QED BY <2>1, <2>2
<1>14. /\ DOMAIN lista = 1 .. Len(lista)
       /\ \A m \in 1 .. Len(lista) : Esperas[m] = lista[m].cola /\ DOMAIN lista[m].cola = 1 .. Len(lista[m].cola)
  <2>1. lista \in Seq(Mutexes)
    BY <1>2, TipoPorPartes DEF TipoLista
  <2>2. ASSUME NEW m \in 1 .. Len(lista)
        PROVE  Esperas[m] = lista[m].cola /\ DOMAIN lista[m].cola = 1 .. Len(lista[m].cola)
    <3>1. lista[m] \in Mutexes
      BY <2>1
    <3>2. lista[m].cola \in Seq(Procs)
      BY <3>1 DEF Mutexes
    <3> QED BY <3>2 DEF Esperas
  <2> QED BY <2>1, <2>2
<1>15. /\ ~ EnEspera(p) => M = {}
       /\ EnEspera(p) => \E z : M = {z}
  <2>1. ~ EnEspera(p) => M = {}
    BY <1>14 DEF EnEspera, Esta
  <2>2. ASSUME EnEspera(p) PROVE \E z : M = {z}
    <3>1. PICK l \in 1 .. Len(lista) : \E i \in 1 .. Len(Esperas[l]) : Esperas[l][i] = p
      BY <2>2 DEF EnEspera, Esta
    <3>2. PICK i \in 1 .. Len(Esperas[l]) : Esperas[l][i] = p
      BY <3>1
    <3>3. \A k \in 1 .. Len(lista) : \A j \in 1 .. Len(Esperas[k]) : Esperas[k][j] = p => k = l /\ j = i
      BY <1>2, <3>2 DEF Unicos, Distintos
    <3>4. M = {<<"mutex", l, i>>}
      BY <1>14, <3>2, <3>3
    <3> QED BY <3>4
  <2> QED BY <2>1, <2>2
<1>16. SoloUno(p \in nuevos, p \in fin, p \in io, EnCpu(p), EnManos(p),
               EnSacados(p), EnReady(p), EnEspera(p))
  BY DEF IInv, Uno
<1> HIDE DEF N, F, I, C, H, D, R, M
<1>17. \E z : Lugares(p) = {z}
  BY <1>1, <1>4, <1>5, <1>6, <1>7, <1>9, <1>11, <1>13, <1>15, <1>16 DEF SoloUno
<1>18. PICK z : Lugares(p) = {z}
  BY <1>17
<1> QED BY <1>18, FS_Singleton

\* LOCK, UNLOCK, the end of a process and the changes of priority never lose a
\* PCB, queue it twice or wake one that runs.
THEOREM CadaPcbEnSuLugar == Spec => []UnLugar
<1>1. IInv => UnLugar
  BY UnSoloLugar DEF UnLugar
<1> QED BY <1>1, MutexOrdenado, PTL

=============================================================================
