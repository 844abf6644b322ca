------------------------------ MODULE CpuProofs ------------------------------
(***************************************************************************)
(* Proof that no CPU runs ahead of the news about sticks (SticksConocidos  *)
(* of Cpu), and that registers keep their widths and accesses their sticks *)
(* (TypeOK).                                                               *)
(*                                                                         *)
(* The first invariant, IInv, follows a stick from the table of            *)
(* kernel_memory to each CPU: it is announced by the thread that registers *)
(* the CPU or by the one that registers the stick, at times by both, and   *)
(* until one of them has done so no process is given its bytes.  The       *)
(* second, TInv, follows an access from the MMU to the sticks.             *)
(***************************************************************************)
EXTENDS Cpu, FiniteSetTheorems, SequenceTheorems, WellFoundedInduction, TLAPS

\* The table of a CPU has room for every stick, and for every second notice but
\* that of the last one.
Sobran == 2 * Cardinality(Sticks) - 1 <= MaxSticks

-----------------------------------------------------------------------------
(* The invariant.                                                          *)

\* q is a sequence, of whatever.
Sucesion(q) == q \in Seq(Range(q))

EsTabla(f, D) == f = [x \in D |-> f[x]]

EsContexto(x) ==
  /\ DOMAIN x = {"pid", "regs", "pc", "segs"} /\ Sucesion(x.segs)
  /\ \A g \in Range(x.segs) : DOMAIN g = {"id", "base", "lim"}

EnEntrada(a, e) == a \in Rango(e.base, e.tam)

\* An address that has been in bloques_libres, for a list of sticks l and their
\* threads at sp.
Publicada(a, l, sp) == \E e \in Range(l) : sp[e.id] = "fin" /\ EnEntrada(a, e)

\* A context whose segments are where processes may be.
Publico(x, l, sp) ==
  EsContexto(x) /\
  \A g \in Range(x.segs) : \A a \in Rango(g.base, g.lim) : Publicada(a, l, sp)

\* A CPU with table q and stream r knows the stick, or learns of it before it
\* reads message k, or its table may be too small for that.
Sabe(q, r, e, k) ==
  \/ ~Sobran
  \/ e \in Range(q)
  \/ \E j \in 1 .. Len(r) : j < k /\ r[j].t = "STICK" /\ r[j].stick = e

\* It knows the sticks of the segments of x, once it reads message k.
Alcanza(x, l, q, r, k) ==
  \A g \in Range(x.segs) : \A a \in Rango(g.base, g.lim) :
    \E e \in Range(l) : EnEntrada(a, e) /\ Sabe(q, r, e, k)

Forma ==
  /\ fase \in [Cpus -> Fases]
  /\ hpc \in [Cpus -> {"no", "config", "cuenta", "avisa", "sirve"}]
  /\ spc \in [Sticks -> {"no", "cuenta", "avisa", "fin"}]
  /\ proximo \in [Cpus -> Procs \union {Nulo}]
  /\ EsTabla(rx, Cpus) /\ EsTabla(conoce, Cpus) /\ EsTabla(hpend, Cpus)
  /\ EsTabla(resp, Cpus) /\ EsTabla(pedido, Cpus) /\ EsTabla(ctx, Cpus)
  /\ EsTabla(spend, Sticks) /\ EsTabla(tabla, Procs)
  /\ \A c \in Cpus : Sucesion(rx[c]) /\ Sucesion(conoce[c]) /\ Sucesion(hpend[c])
  /\ \A s \in Sticks : Sucesion(spend[s])
  /\ Sucesion(sticks) /\ Sucesion(registradas)

\* active.sticks has one entry for each stick that has been added.
Lista ==
  /\ \A i, j \in 1 .. Len(sticks) : sticks[i].id = sticks[j].id => i = j
  /\ \A e \in Range(sticks) :
       e.id \in Sticks /\ spc[e.id] # "no" /\ e.tam = TamStick[e.id]
  /\ \A s \in Sticks : spc[s] # "no" => \E e \in Range(sticks) : e.id = s

\* What the threads that register have still to send.
Registro ==
  /\ \A i, j \in 1 .. Len(registradas) : registradas[i] = registradas[j] => i = j
  /\ Range(registradas) = {c \in Cpus : hpc[c] # "no"}
  /\ \A s \in Sticks :
       /\ \A i, j \in 1 .. Len(spend[s]) : spend[s][i] = spend[s][j] => i = j
       /\ Range(spend[s]) \subseteq Cpus
       /\ spend[s] # <<>> => spc[s] = "avisa"
  /\ \A c \in Cpus :
       /\ \A i, j \in 1 .. Len(hpend[c]) : hpend[c][i].id = hpend[c][j].id => i = j
       /\ Range(hpend[c]) \subseteq Range(sticks)
       /\ hpend[c] # <<>> => hpc[c] = "avisa"

\* Only sticks of the table are announced.
Noticias ==
  \A c \in Cpus :
    /\ Range(conoce[c]) \subseteq Range(sticks)
    /\ \A k \in 1 .. Len(rx[c]) : rx[c][k].t = "STICK" => rx[c][k].stick \in Range(sticks)

\* The thread of the stick, and that of the CPU, has still to announce s to c.
AvisaStick(c, s) == spc[s] \in {"no", "cuenta"} \/ c \in Range(spend[s])
AvisaCpu(c, s) ==
  hpc[c] \in {"no", "config", "cuenta"} \/ \E e \in Range(hpend[c]) : e.id = s

\* No CPU is forgotten.
Avisado ==
  \A c \in Cpus : fase[c] # "desfasada" =>
    \A e \in Range(sticks) :
      \/ AvisaStick(c, e.id) \/ AvisaCpu(c, e.id)
      \/ Sabe(conoce[c], rx[c], e, Len(rx[c]) + 1)

\* The stick that entry n of table q and stream r announces.
Puesto(q, r, n) ==
  IF n <= Len(q) THEN q[n].id
  ELSE LET m == r[n - Len(q)] IN IF m.t = "STICK" THEN m.stick.id ELSE Nulo

Puestos(q, r) == 1 .. (Len(q) + Len(r))

\* At most none, one and two entries announce s.
Ninguno(q, r, s) == \A n \in Puestos(q, r) : Puesto(q, r, n) # s
Uno(q, r, s) ==
  \A n, m \in Puestos(q, r) : Puesto(q, r, n) = s /\ Puesto(q, r, m) = s => n = m
Dos(q, r, s) ==
  \A n, m, k \in Puestos(q, r) :
    Puesto(q, r, n) = s /\ Puesto(q, r, m) = s /\ Puesto(q, r, k) = s =>
      n = m \/ m = k \/ n = k

\* Each of the two threads announces a stick once.
DosVeces ==
  \A c \in Cpus, s \in Sticks :
    /\ AvisaStick(c, s) /\ AvisaCpu(c, s) => Ninguno(conoce[c], rx[c], s)
    /\ AvisaStick(c, s) \/ AvisaCpu(c, s) => Uno(conoce[c], rx[c], s)
    /\ Dos(conoce[c], rx[c], s)

\* No process is given an address before its stick is announced to all.
Publicos ==
  /\ \A a \in libre : Publicada(a, sticks, spc)
  /\ \A p \in Procs : Publico(tabla[p], sticks, spc)
  /\ \A c \in Cpus :
       /\ fase[c] \in Cargado => Publico(ctx[c], sticks, spc)
       /\ pedido[c].t = "GUARDAR" => Publico(pedido[c].ctx, sticks, spc)
       /\ pedido[c].t = "CTX" => pedido[c].ctx.pid \in Procs
       /\ resp[c].t = "CTX" => Publico(resp[c].ctx, sticks, spc)
       /\ \A k \in 1 .. Len(rx[c]) :
            rx[c][k].t = "CTX" => Publico(rx[c][k].ctx, sticks, spc)

\* The news travels ahead of the contexts.
Sabidos ==
  \A c \in Cpus : fase[c] # "desfasada" =>
    /\ \A k \in 1 .. Len(rx[c]) :
         rx[c][k].t = "CTX" => Alcanza(rx[c][k].ctx, sticks, conoce[c], rx[c], k)
    /\ resp[c].t = "CTX" => Alcanza(resp[c].ctx, sticks, conoce[c], rx[c], 0)
    /\ fase[c] \in Cargado => Alcanza(ctx[c], sticks, conoce[c], rx[c], 0)

IInv ==
  Forma /\ Lista /\ Registro /\ Noticias /\ Avisado /\ DosVeces /\ Publicos /\ Sabidos

-----------------------------------------------------------------------------
(* Sequences, minima and counting.                                         *)

\* What a sequence is made of.
LEMMA PartesDe ==
  ASSUME NEW q, Sucesion(q)
  PROVE  /\ Len(q) \in Nat /\ DOMAIN q = 1 .. Len(q)
         /\ \A x : x \in Range(q) <=> \E i \in 1 .. Len(q) : x = q[i]
         /\ q # <<>> <=> Len(q) > 0
<1>1. Len(q) \in Nat /\ DOMAIN q = 1 .. Len(q)
  BY LenProperties DEF Sucesion
<1>2. q # <<>> => Len(q) > 0
  BY EmptySeq DEF Sucesion
<1>3. Len(<<>>) = 0
  BY EmptySeq
<1> QED BY <1>1, <1>2, <1>3 DEF Range

\* Anything in some Seq(S) is a sequence.
LEMMA EsSucesion ==
  ASSUME NEW S, NEW q \in Seq(S)
  PROVE  Sucesion(q)
  BY SeqOfRange DEF Sucesion

LEMMA NadaEsSucesion == Sucesion(<<>>) /\ Range(<<>>) = {}
<1>1. <<>> \in Seq({})
  BY EmptySeq
<1>2. Sucesion(<<>>)
  BY <1>1, EsSucesion
<1>3. DOMAIN <<>> = {} /\ Range(<<>>) = {}
  BY DEF Range
<1> QED BY <1>2, <1>3

\* Append.
LEMMA AlFinal ==
  ASSUME NEW q, Sucesion(q), NEW e
  PROVE  /\ Sucesion(Append(q, e)) /\ Len(Append(q, e)) = Len(q) + 1
         /\ \A i \in 1 .. Len(q) : Append(q, e)[i] = q[i]
         /\ Append(q, e)[Len(q) + 1] = e
         /\ Range(Append(q, e)) = Range(q) \union {e}
<1> DEFINE S == Range(q) \union {e}
<1>1. q \in Seq(S) /\ e \in S
  BY SeqMonotonic DEF Sucesion
<1> HIDE DEF S
<1>2. /\ Append(q, e) \in Seq(S) /\ Len(Append(q, e)) = Len(q) + 1
      /\ \A i \in 1 .. Len(q) : Append(q, e)[i] = q[i]
      /\ Append(q, e)[Len(q) + 1] = e
  BY <1>1, AppendProperties
<1>3. Sucesion(Append(q, e))
  BY <1>2, EsSucesion
<1>4. Range(Append(q, e)) = Range(q) \union {e}
  <2> DEFINE r == Append(q, e)
  <2>1. /\ Len(q) \in Nat
        /\ \A x : x \in Range(q) <=> \E i \in 1 .. Len(q) : x = q[i]
    BY PartesDe
  <2>2. \A x : x \in Range(r) <=> \E i \in 1 .. Len(r) : x = r[i]
    BY <1>3, PartesDe
  <2> HIDE DEF r
  <2>3. \A x : x \in Range(r) <=> x \in Range(q) \/ x = e
    BY <1>2, <2>1, <2>2 DEF r
  <2> QED BY <2>3 DEF r
<1> QED BY <1>2, <1>3, <1>4

\* Head and Tail.
LEMMA AlPrincipio ==
  ASSUME NEW q, Sucesion(q), q # <<>>
  PROVE  /\ Sucesion(Tail(q)) /\ Len(Tail(q)) = Len(q) - 1 /\ Len(q) > 0
         /\ \A i \in 1 .. Len(Tail(q)) : Tail(q)[i] = q[i + 1]
         /\ Head(q) = q[1] /\ Head(q) \in Range(q)
         /\ Range(Tail(q)) \subseteq Range(q)
         /\ Range(q) = {Head(q)} \union Range(Tail(q))
<1>1. /\ Tail(q) \in Seq(Range(q)) /\ Len(Tail(q)) = Len(q) - 1
      /\ \A i \in 1 .. Len(Tail(q)) : Tail(q)[i] = q[i + 1]
      /\ Head(q) \in Range(q)
  BY HeadTailProperties DEF Sucesion
<1>2. Sucesion(Tail(q)) /\ Range(Tail(q)) \subseteq Range(q)
  BY <1>1, EsSucesion, RangeOfSeq
<1>3. Len(q) \in Nat /\ Len(q) > 0
  BY PartesDe
<1>4. Head(q) = q[1]
  BY DEF Sucesion
<1>5. Range(q) = {Head(q)} \union Range(Tail(q))
  <2> DEFINE r == Tail(q)
  <2>1. \A x : x \in Range(q) <=> \E i \in 1 .. Len(q) : x = q[i]
    BY PartesDe
  <2>2. \A x : x \in Range(r) <=> \E i \in 1 .. Len(r) : x = r[i]
    BY <1>2, PartesDe
  <2>3. \A x \in Range(q) : x = Head(q) \/ x \in Range(r)
    <3> SUFFICES ASSUME NEW x \in Range(q), x # Head(q) PROVE x \in Range(r)
      OBVIOUS
    <3>1. PICK i \in 1 .. Len(q) : x = q[i]
      BY <2>1
    <3>2. i # 1 /\ i - 1 \in 1 .. Len(r)
      BY <1>1, <1>3, <1>4, <3>1
    <3>3. x = r[i - 1]
      BY <1>1, <3>1, <3>2
    <3> QED BY <2>2, <3>2, <3>3
  <2> QED BY <1>1, <1>2, <2>3
<1> QED BY <1>1, <1>2, <1>3, <1>4, <1>5

\* RemoveAt.
LEMMA SinUno ==
  ASSUME NEW q, Sucesion(q), NEW k \in 1 .. Len(q)
  PROVE  Sucesion(RemoveAt(q, k)) /\ Range(RemoveAt(q, k)) \subseteq Range(q)
<1>1. Len(q) \in Nat /\ \A i \in 1 .. Len(q) : q[i] \in Range(q)
  BY PartesDe
<1>2. SubSeq(q, 1, k - 1) \in Seq(Range(q))
  <2>1. 1 \in Int /\ k - 1 \in Int /\ \A i \in 1 .. (k - 1) : q[i] \in Range(q)
    BY <1>1
  <2> QED BY <2>1, SubSeqProperties
<1>3. SubSeq(q, k + 1, Len(q)) \in Seq(Range(q))
  <2>1. k + 1 \in Int /\ Len(q) \in Int /\ \A i \in (k + 1) .. Len(q) : q[i] \in Range(q)
    BY <1>1
  <2> QED BY <2>1, SubSeqProperties
<1>4. RemoveAt(q, k) \in Seq(Range(q))
  BY <1>2, <1>3, ConcatProperties DEF RemoveAt
<1> QED BY <1>4, EsSucesion, RangeOfSeq

\* A nonempty set of naturals has a least element.
LEMMA HayMinimo ==
  ASSUME NEW T, T \subseteq Nat, T # {}
  PROVE  Min(T) \in T /\ \A y \in T : Min(T) <= y
<1>1. PICK x \in T : \A y \in T : <<y, x>> \notin OpToRel(<, Nat)
  BY NatLessThanWellFounded, WFMin
<1>2. \A y \in T : ~(y < x)
  BY <1>1 DEF OpToRel
<1>3. \A y \in T : x <= y
  BY <1>2
<1> QED BY <1>3 DEF Min

\* StickDe finds a stick if there is one.
LEMMA HayStick ==
  ASSUME NEW c, Sucesion(conoce[c]), NEW a, NEW e \in Range(conoce[c]), EnEntrada(a, e)
  PROVE  StickDe(c, a) # 0
<1> DEFINE I == {i \in 1 .. Len(conoce[c]) : a \in Rango(conoce[c][i].base, conoce[c][i].tam)}
<1>1. StickDe(c, a) = IF I # {} THEN Min(I) ELSE 0
  BY DEF StickDe, SelectInSeq
<1>2. I # {} /\ I \subseteq 1 .. Len(conoce[c])
  BY PartesDe DEF EnEntrada
<1> HIDE DEF I
<1>3. I \subseteq Nat /\ 0 \notin I
  BY <1>2, PartesDe
<1>4. Min(I) \in I
  BY <1>2, <1>3, HayMinimo
<1> QED BY <1>1, <1>2, <1>3, <1>4

\* A table in which no stick is more than twice.
LEMMA DosDeCada ==
  ASSUME NEW q, Sucesion(q), NEW S, IsFiniteSet(S),
         \A i \in 1 .. Len(q) : q[i].id \in S,
         \A i, j, k \in 1 .. Len(q) :
           q[i].id = q[j].id /\ q[j].id = q[k].id => i = j \/ j = k \/ i = k
  PROVE  Len(q) <= 2 * Cardinality(S)
<1> DEFINE D == 1 .. Len(q)
           T == S \X {1, 2}
           vez(i) == IF \E j \in D : j < i /\ q[j].id = q[i].id THEN 2 ELSE 1
           f == [i \in D |-> <<q[i].id, vez(i)>>]
<1>1. Len(q) \in Nat
  BY PartesDe
<1>2. f \in [D -> T]
  OBVIOUS
<1>3. ASSUME NEW i \in D, NEW k \in D, i < k, f[i] = f[k] PROVE FALSE
  <2>1. q[i].id = q[k].id /\ vez(i) = vez(k)
    BY <1>3
  <2>2. vez(k) = 2
    BY <1>3, <2>1
  <2>3. PICK j \in D : j < i /\ q[j].id = q[i].id
    BY <2>1, <2>2
  <2> QED BY <1>1, <1>3, <2>1, <2>3
<1>4. \A i, k \in D : f[i] = f[k] => i = k
  <2> SUFFICES ASSUME NEW i \in D, NEW k \in D, f[i] = f[k] PROVE i = k
    OBVIOUS
  <2> HIDE DEF f
  <2>1. i < k \/ k < i \/ i = k
    BY <1>1
  <2> QED BY <1>3, <2>1
<1>5. f \in Injection(D, T)
  BY <1>2, <1>4 DEF Injection, IsInjective
<1>6. IsFiniteSet({1, 2}) /\ Cardinality({1, 2}) = 2
  <2>1. {1, 2} = 1 .. 2 /\ 1 \in Int /\ 2 \in Int
    OBVIOUS
  <2>2. IsFiniteSet(1 .. 2) /\ Cardinality(1 .. 2) = IF 1 > 2 THEN 0 ELSE 2 - 1 + 1
    BY <2>1, FS_Interval
  <2> QED BY <2>1, <2>2
<1>7. IsFiniteSet(T) /\ Cardinality(T) = Cardinality(S) * 2
  BY <1>6, FS_Product
<1> HIDE DEF f, T, D
<1>8. Cardinality(D) <= Cardinality(T)
  BY <1>5, <1>7, FS_Injection
<1>9. Cardinality(D) = Len(q)
  <2>1. Cardinality(1 .. Len(q)) = IF 1 > Len(q) THEN 0 ELSE Len(q) - 1 + 1
    BY <1>1, FS_Interval
  <2> QED BY <1>1, <2>1 DEF D
<1>10. Cardinality(S) \in Nat
  BY FS_CardinalityType
<1> QED BY <1>1, <1>7, <1>8, <1>9, <1>10

-----------------------------------------------------------------------------
(* The main thread of a CPU: it touches neither tables nor streams.        *)

\* The phases of a CPU whose stream is in order.
Sanas == Fases \ {"config", "desfasada"}

\* What a step of the main thread of c may do, as far as the invariant goes.
PasoCiclo(c) ==
  /\ UNCHANGED <<altaVars, rx, conoce, tabla, libre>>
  /\ EsTabla(resp', Cpus) /\ EsTabla(pedido', Cpus) /\ EsTabla(ctx', Cpus)
  /\ fase' \in [Cpus -> Fases] /\ proximo' \in [Cpus -> Procs \union {Nulo}]
  /\ \A d \in Cpus \ {c} :
       fase'[d] = fase[d] /\ resp'[d] = resp[d] /\ ctx'[d] = ctx[d] /\ pedido'[d] = pedido[d]
  /\ fase[c] \in Sanas /\ fase'[c] \in Sanas
  /\ resp'[c] = resp[c] \/ resp'[c].t = ""
  /\ fase'[c] \in Cargado =>
       \/ fase[c] \in Cargado /\ DOMAIN ctx'[c] = DOMAIN ctx[c] /\ ctx'[c].segs = ctx[c].segs
       \/ resp[c].t = "CTX" /\ ctx'[c] = resp[c].ctx
  /\ \/ pedido'[c] = pedido[c]
     \/ pedido'[c].t = "INSTR"
     \/ pedido'[c].t = "GUARDAR" /\ fase'[c] \in Cargado /\ pedido'[c].ctx = ctx'[c]
     \/ pedido'[c].t = "CTX" /\ pedido'[c].ctx.pid \in Procs

LEMMA FormaCiclo ==
  ASSUME IInv
  PROVE  /\ EsTabla(resp, Cpus) /\ EsTabla(pedido, Cpus) /\ EsTabla(ctx, Cpus)
         /\ fase \in [Cpus -> Fases] /\ proximo \in [Cpus -> Procs \union {Nulo}]
  BY DEF IInv, Forma

LEMMA CicloTomar ==
  ASSUME IInv, NEW c \in Cpus, Tomar(c)
  PROVE  PasoCiclo(c)
  BY DEF IInv, Forma, Tomar, PasoCiclo, EsTabla, Sanas, Fases, Cargado, Pedido, Contexto,
         kerVars, altaVars

LEMMA CicloTomarContexto ==
  ASSUME IInv, NEW c \in Cpus, TomarContexto(c)
  PROVE  PasoCiclo(c)
<1>1. resp' = [resp EXCEPT ![c] = Msg("")] /\ Msg("").t = "" /\ fase[c] = "ctx"
  BY DEF TomarContexto, Consume, Msg
<1>2. UNCHANGED <<altaVars, rx, conoce, tabla, libre, proximo>>
  BY DEF TomarContexto, Quieto
<1>3. EsTabla(resp', Cpus) /\ resp'[c].t = "" /\ \A d \in Cpus \ {c} : resp'[d] = resp[d]
  BY <1>1, FormaCiclo DEF EsTabla
<1>4. CASE resp[c].t = "CTX"
  <2> DEFINE x == resp[c].ctx
  <2>1. /\ ctx' = [ctx EXCEPT ![c] = x] /\ pedido' = [pedido EXCEPT ![c] = Pedido("INSTR", x)]
        /\ fase' = [fase EXCEPT ![c] = "fetch"]
    BY <1>4 DEF TomarContexto, Fetch
  <2>2. EsTabla(ctx', Cpus) /\ ctx'[c] = x /\ \A d \in Cpus \ {c} : ctx'[d] = ctx[d]
    BY <2>1, FormaCiclo DEF EsTabla
  <2>3. /\ EsTabla(pedido', Cpus) /\ pedido'[c].t = "INSTR"
        /\ \A d \in Cpus \ {c} : pedido'[d] = pedido[d]
    BY <2>1, FormaCiclo DEF EsTabla, Pedido
  <2> HIDE DEF x
  <2> QED BY <1>1, <1>2, <1>3, <1>4, <2>1, <2>2, <2>3, FormaCiclo
          DEF PasoCiclo, Sanas, Fases, Cargado, x
<1>5. CASE resp[c].t # "CTX"
  <2>1. ctx' = ctx /\ pedido' = pedido /\ fase' = [fase EXCEPT ![c] = "libre"]
    BY <1>5 DEF TomarContexto
  <2> QED BY <1>1, <1>2, <1>3, <2>1, FormaCiclo DEF PasoCiclo, Sanas, Fases, Cargado
<1> QED BY <1>4, <1>5

\* resp after a step of the main thread.
LEMMA CicloResp ==
  ASSUME IInv, NEW c \in Cpus, resp' = resp \/ Consume(c)
  PROVE  /\ EsTabla(resp', Cpus) /\ (resp'[c] = resp[c] \/ resp'[c].t = "")
         /\ \A d \in Cpus \ {c} : resp'[d] = resp[d]
<1>1. Msg("").t = ""
  BY DEF Msg
<1> QED BY <1>1, FormaCiclo DEF EsTabla, Consume

\* Guardar in a CPU with a context whose segments are those it loaded.
LEMMA CicloGuardar ==
  ASSUME IInv, NEW c \in Cpus, NEW r, NEW x, Guardar(c, r, x), Quieto(c),
         fase[c] \in Cargado, DOMAIN x = DOMAIN ctx[c], x.segs = ctx[c].segs,
         resp' = resp \/ Consume(c)
  PROVE  PasoCiclo(c)
<1>1. EsTabla(ctx', Cpus) /\ ctx'[c] = x /\ \A d \in Cpus \ {c} : ctx'[d] = ctx[d]
  BY FormaCiclo DEF EsTabla, Guardar
<1>2. /\ EsTabla(pedido', Cpus) /\ pedido'[c].t = "GUARDAR" /\ pedido'[c].ctx = x
      /\ \A d \in Cpus \ {c} : pedido'[d] = pedido[d]
  BY FormaCiclo DEF EsTabla, Guardar, Pedido
<1>3. /\ UNCHANGED <<altaVars, rx, conoce, tabla, libre, proximo>>
      /\ fase' = [fase EXCEPT ![c] = "guarda"]
  BY DEF Guardar, Quieto
<1> QED BY <1>1, <1>2, <1>3, CicloResp, FormaCiclo DEF PasoCiclo, Sanas, Fases, Cargado

\* The context of a CPU that runs has the fields of one.
LEMMA CamposDe ==
  ASSUME IInv, NEW c \in Cpus, fase[c] \in Cargado
  PROVE  EsContexto(ctx[c])
  BY DEF IInv, Publicos, Publico

LEMMA AvanzaIgual ==
  ASSUME NEW x, EsContexto(x)
  PROVE  DOMAIN Avanza(x) = DOMAIN x /\ Avanza(x).segs = x.segs
  BY DEF EsContexto, Avanza

\* Steps between two phases with a context that keep its segments.
LEMMA CicloSigue ==
  ASSUME IInv, NEW c \in Cpus, Quieto(c), NEW f \in Cargado, NEW x,
         fase[c] \in Cargado, fase' = [fase EXCEPT ![c] = f],
         ctx' = [ctx EXCEPT ![c] = x],
         DOMAIN x = DOMAIN ctx[c], x.segs = ctx[c].segs,
         resp' = resp \/ Consume(c), pedido' = pedido
  PROVE  PasoCiclo(c)
<1>1. EsTabla(ctx', Cpus) /\ ctx'[c] = x /\ \A d \in Cpus \ {c} : ctx'[d] = ctx[d]
  BY FormaCiclo DEF EsTabla
<1>2. UNCHANGED <<altaVars, rx, conoce, tabla, libre, proximo>>
  BY DEF Quieto
<1> QED BY <1>1, <1>2, CicloResp, FormaCiclo DEF PasoCiclo, Sanas, Fases, Cargado

LEMMA CicloRegistros ==
  ASSUME IInv, NEW c \in Cpus, EjecutarRegistros(c)
  PROVE  PasoCiclo(c)
<1> DEFINE n == RegPaso(ctx[c].regs, ctx[c].pc, resp[c].ins)
           x == [ctx[c] EXCEPT !.regs = n.regs, !.pc = n.pc]
<1>1. fase[c] \in Cargado /\ "irq" \in Cargado
  BY DEF EjecutarRegistros, LlegaInstruccion, Cargado
<1>2. EsContexto(ctx[c])
  BY <1>1, CamposDe
<1> HIDE DEF n
<1>3. ctx' = [ctx EXCEPT ![c].regs = n.regs, ![c].pc = n.pc]
  BY DEF EjecutarRegistros, n
<1>4. [ctx EXCEPT ![c].regs = n.regs, ![c].pc = n.pc] = [ctx EXCEPT ![c] = x]
  BY DEF IInv, Forma, EsTabla
<1>5. DOMAIN x = DOMAIN ctx[c] /\ x.segs = ctx[c].segs
  BY <1>2 DEF EsContexto
<1>6. /\ fase' = [fase EXCEPT ![c] = "irq"] /\ Consume(c) /\ pedido' = pedido /\ Quieto(c)
  BY DEF EjecutarRegistros, LlegaInstruccion
<1> HIDE DEF x
<1> QED BY <1>1, <1>3, <1>4, <1>5, <1>6, CicloSigue

LEMMA CicloResto ==
  ASSUME IInv, NEW c \in Cpus, EjecutarResto(c)
  PROVE  PasoCiclo(c)
<1>1. fase[c] \in Cargado
  BY DEF EjecutarResto, LlegaInstruccion, Cargado
<1>2. EsContexto(ctx[c])
  BY <1>1, CamposDe
<1>3. PICK r, x : Guardar(c, r, x) /\ (x = ctx[c] \/ x = Avanza(ctx[c]))
  BY DEF EjecutarResto
<1>4. DOMAIN x = DOMAIN ctx[c] /\ x.segs = ctx[c].segs
  BY <1>2, <1>3, AvanzaIgual
<1>5. Consume(c) /\ Quieto(c)
  BY DEF EjecutarResto, LlegaInstruccion
<1> QED BY <1>1, <1>3, <1>4, <1>5, CicloGuardar

LEMMA CicloAcceso ==
  ASSUME IInv, NEW c \in Cpus, fase[c] \in Cargado, Quieto(c), resp' = resp \/ Consume(c),
         NEW dir, NEW t, NEW f \in {"lee", "escribe"}, NEW bs, Acceso(c, dir, t, f, bs)
  PROVE  PasoCiclo(c)
<1>1. EsContexto(ctx[c])
  BY CamposDe
<1>2. CASE EsValida(Traducir(c, dir, t))
  <2>1. fase' = [fase EXCEPT ![c] = f] /\ ctx' = ctx /\ pedido' = pedido /\ f \in Cargado
    BY <1>2 DEF Acceso, Cargado
  <2>2. ctx' = [ctx EXCEPT ![c] = ctx[c]]
    BY <2>1, FormaCiclo DEF EsTabla
  <2> QED BY <2>1, <2>2, CicloSigue
<1>3. CASE ~EsValida(Traducir(c, dir, t))
  <2>1. Guardar(c, "SEG_FAULT", Avanza(ctx[c]))
    BY <1>3 DEF Acceso
  <2>2. DOMAIN Avanza(ctx[c]) = DOMAIN ctx[c] /\ Avanza(ctx[c]).segs = ctx[c].segs
    BY <1>1, AvanzaIgual
  <2> QED BY <2>1, <2>2, CicloGuardar
<1> QED BY <1>2, <1>3

LEMMA CicloMmu ==
  ASSUME IInv, NEW c \in Cpus, EjecutarMmu(c)
  PROVE  PasoCiclo(c)
<1>1. fase[c] \in Cargado
  BY DEF EjecutarMmu, LlegaInstruccion, Cargado
<1>2. Consume(c) /\ Quieto(c)
  BY DEF EjecutarMmu, LlegaInstruccion
<1>3. PICK dir, t, bs : Acceso(c, dir, t, "lee", bs) \/ Acceso(c, dir, t, "escribe", bs)
  BY DEF EjecutarMmu
<1> QED BY <1>1, <1>2, <1>3, CicloAcceso

LEMMA CicloFinLectura ==
  ASSUME IInv, NEW c \in Cpus, FinLectura(c)
  PROVE  PasoCiclo(c)
<1>1. fase[c] \in Cargado /\ "irq" \in Cargado
  BY DEF FinLectura, Cargado
<1>2. resp' = resp /\ Quieto(c)
  BY DEF FinLectura
<1>3. CASE Escribe(ins[c])
  <2>1. PICK dir, t : Acceso(c, dir, t, "escribe", buf[c])
    BY <1>3 DEF FinLectura
  <2> QED BY <1>1, <1>2, <2>1, CicloAcceso
<1>4. CASE ~Escribe(ins[c])
  <2> DEFINE v == Asignar(ctx[c].regs, ins[c].reg, DeBytes(buf[c]))
             x == [Avanza(ctx[c]) EXCEPT !.regs = v]
  <2>1. ctx' = [ctx EXCEPT ![c] = [Avanza(@) EXCEPT !.regs = v]]
    BY <1>4 DEF FinLectura
  <2>2. fase' = [fase EXCEPT ![c] = "irq"] /\ pedido' = pedido
    BY <1>4 DEF FinLectura
  <2> HIDE DEF v
  <2>3. ctx' = [ctx EXCEPT ![c] = x]
    BY <2>1 DEF IInv, Forma, EsTabla
  <2>4. EsContexto(ctx[c])
    BY <1>1, CamposDe
  <2>5. DOMAIN x = DOMAIN ctx[c] /\ x.segs = ctx[c].segs
    BY <2>4 DEF Avanza, EsContexto
  <2> HIDE DEF x
  <2> QED BY <1>1, <1>2, <2>2, <2>3, <2>5, CicloSigue
<1> QED BY <1>3, <1>4

LEMMA CicloFinEscritura ==
  ASSUME IInv, NEW c \in Cpus, FinEscritura(c)
  PROVE  PasoCiclo(c)
<1>1. fase[c] \in Cargado /\ "irq" \in Cargado
  BY DEF FinEscritura, Cargado
<1>2. /\ resp' = resp /\ Quieto(c) /\ pedido' = pedido
      /\ fase' = [fase EXCEPT ![c] = "irq"] /\ ctx' = [ctx EXCEPT ![c] = Avanza(@)]
  BY DEF FinEscritura
<1>3. ctx' = [ctx EXCEPT ![c] = Avanza(ctx[c])]
  BY <1>2 DEF IInv, Forma, EsTabla
<1>4. DOMAIN Avanza(ctx[c]) = DOMAIN ctx[c] /\ Avanza(ctx[c]).segs = ctx[c].segs
  BY <1>1, CamposDe, AvanzaIgual
<1> QED BY <1>1, <1>2, <1>3, <1>4, CicloSigue

LEMMA CicloChequear ==
  ASSUME IInv, NEW c \in Cpus, Chequear(c)
  PROVE  PasoCiclo(c)
<1>1. fase[c] \in Cargado
  BY DEF Chequear, Cargado
<1>2. resp' = resp /\ Quieto(c)
  BY DEF Chequear
<1>3. CASE irq[c]
  <2>1. Guardar(c, "IRQ", ctx[c])
    BY <1>3 DEF Chequear
  <2> QED BY <1>1, <1>2, <2>1, CicloGuardar
<1>4. CASE ~irq[c]
  <2>1. Fetch(c, ctx[c]) /\ ctx' = ctx
    BY <1>4 DEF Chequear
  <2> QED BY <1>1, <1>2, <2>1 DEF IInv, Forma, Fetch, Quieto, Pedido, PasoCiclo,
         EsTabla, Sanas, Fases, Cargado, altaVars
<1> QED BY <1>3, <1>4

LEMMA CicloGuardado ==
  ASSUME IInv, NEW c \in Cpus, Guardado(c)
  PROVE  PasoCiclo(c)
  BY DEF IInv, Forma, Guardado, Consume, Quieto, Msg, PasoCiclo, EsTabla, Sanas, Fases,
         Cargado, altaVars

LEMMA CicloLimpiar ==
  ASSUME IInv, NEW c \in Cpus, Limpiar(c)
  PROVE  PasoCiclo(c)
  BY DEF IInv, Forma, Limpiar, Quieto, PasoCiclo, EsTabla, Sanas, Fases,
         Cargado, altaVars

LEMMA CicloPorcion ==
  ASSUME IInv, NEW c \in Cpus, LeerPorcion(c) \/ EscribirPorcion(c)
  PROVE  PasoCiclo(c)
  BY DEF IInv, Forma, LeerPorcion, EscribirPorcion, Quieto, PasoCiclo, EsTabla, Sanas,
         Fases, Cargado, altaVars

LEMMA CicloPaso ==
  ASSUME IInv, NEW c \in Cpus, Ciclo(c)
  PROVE  PasoCiclo(c)
  BY CicloTomar, CicloTomarContexto, CicloRegistros, CicloResto, CicloMmu, CicloFinLectura,
     CicloFinEscritura, CicloChequear, CicloGuardado, CicloLimpiar, CicloPorcion DEF Ciclo


\* The part of the invariant about announcements survives what changes neither
\* the streams nor the tables.
LEMMA MismaRed ==
  ASSUME IInv, UNCHANGED <<altaVars, rx, conoce>>,
         \A d \in Cpus : fase'[d] # "desfasada" => fase[d] # "desfasada"
  PROVE  Lista' /\ Registro' /\ Noticias' /\ Avisado' /\ DosVeces'
<1> USE DEF altaVars
<1>1. Lista'
  BY DEF IInv, Lista
<1>2. Registro'
  BY DEF IInv, Registro
<1>3. Noticias'
  BY DEF IInv, Noticias
<1>4. Avisado'
  BY DEF IInv, Avisado, AvisaStick, AvisaCpu
<1>5. DosVeces'
  BY DEF IInv, DosVeces, AvisaStick, AvisaCpu
<1> QED BY <1>1, <1>2, <1>3, <1>4, <1>5

\* Contexts count for their segments only.
LEMMA MismosSegmentos ==
  ASSUME NEW x, NEW y, DOMAIN x = DOMAIN y, x.segs = y.segs
  PROVE  /\ \A l, sp : Publico(x, l, sp) => Publico(y, l, sp)
         /\ \A l, q, r, k : Alcanza(x, l, q, r, k) => Alcanza(y, l, q, r, k)
  BY DEF Publico, EsContexto, Alcanza

LEMMA CicloInv ==
  ASSUME IInv, NEW c \in Cpus, PasoCiclo(c)
  PROVE  IInv'
<1>1. \A d \in Cpus : fase'[d] # "desfasada" => fase[d] # "desfasada"
  BY DEF PasoCiclo, Sanas
<1>2. Lista' /\ Registro' /\ Noticias' /\ Avisado' /\ DosVeces'
  BY <1>1, MismaRed DEF PasoCiclo
<1>3. Forma'
  BY DEF IInv, Forma, PasoCiclo, altaVars
<1>4. fase'[c] \in Cargado => /\ Publico(ctx'[c], sticks, spc)
                              /\ Alcanza(ctx'[c], sticks, conoce[c], rx[c], 0)
  <2>1. CASE fase[c] \in Cargado /\ DOMAIN ctx'[c] = DOMAIN ctx[c] /\ ctx'[c].segs = ctx[c].segs
    <3>1. Publico(ctx[c], sticks, spc) /\ Alcanza(ctx[c], sticks, conoce[c], rx[c], 0)
      BY <1>1, <2>1 DEF IInv, Publicos, Sabidos, Cargado
    <3> QED BY <2>1, <3>1, MismosSegmentos
  <2>2. CASE resp[c].t = "CTX" /\ ctx'[c] = resp[c].ctx
    BY <2>2 DEF IInv, Publicos, Sabidos, PasoCiclo, Sanas
  <2> QED BY <2>1, <2>2 DEF PasoCiclo
<1>5. Publicos'
  <2>1. UNCHANGED <<sticks, spc, rx, libre, tabla>>
    BY DEF PasoCiclo, altaVars
  <2>2. ASSUME NEW d \in Cpus
        PROVE  /\ fase'[d] \in Cargado => Publico(ctx'[d], sticks, spc)
               /\ pedido'[d].t = "GUARDAR" => Publico(pedido'[d].ctx, sticks, spc)
               /\ pedido'[d].t = "CTX" => pedido'[d].ctx.pid \in Procs
               /\ resp'[d].t = "CTX" => Publico(resp'[d].ctx, sticks, spc)
    <3>1. CASE d # c
      BY <3>1 DEF IInv, Publicos, PasoCiclo
    <3>2. CASE d = c
      BY <1>4, <3>2 DEF IInv, Publicos, PasoCiclo
    <3> QED BY <3>1, <3>2
  <2> QED BY <2>1, <2>2 DEF IInv, Publicos
<1>6. Sabidos'
  <2>1. UNCHANGED <<sticks, conoce, rx>>
    BY DEF PasoCiclo, altaVars
  <2>2. ASSUME NEW d \in Cpus, fase'[d] # "desfasada"
        PROVE  /\ resp'[d].t = "CTX" => Alcanza(resp'[d].ctx, sticks, conoce[d], rx[d], 0)
               /\ fase'[d] \in Cargado => Alcanza(ctx'[d], sticks, conoce[d], rx[d], 0)
    <3>1. CASE d # c
      BY <2>2, <3>1 DEF IInv, Sabidos, PasoCiclo
    <3>2. CASE d = c
      BY <1>1, <1>4, <2>2, <3>2 DEF IInv, Sabidos, PasoCiclo
    <3> QED BY <3>1, <3>2
  <2> QED BY <1>1, <2>1, <2>2 DEF IInv, Sabidos
<1> QED BY <1>2, <1>3, <1>5, <1>6 DEF IInv

-----------------------------------------------------------------------------
(* The scheduler and kernel_memory on its behalf: they move segments only  *)
(* where bloques_libres has been.                                          *)

PasoKernel ==
  /\ UNCHANGED <<fase, ctx, redVars, altaVars>>
  /\ proximo' \in [Cpus -> Procs \union {Nulo}]
  /\ EsTabla(tabla', Procs)
  /\ \A a \in libre' : Publicada(a, sticks, spc)
  /\ \A p \in Procs : Publico(tabla'[p], sticks, spc)

LEMMA KernelInv ==
  ASSUME IInv, PasoKernel
  PROVE  IInv'
<1> USE DEF redVars
<1>1. \A d \in Cpus : fase'[d] # "desfasada" => fase[d] # "desfasada"
  BY DEF PasoKernel
<1>2. Lista' /\ Registro' /\ Noticias' /\ Avisado' /\ DosVeces'
  BY <1>1, MismaRed DEF PasoKernel
<1>3. Forma'
  BY DEF IInv, Forma, PasoKernel, altaVars
<1>4. Publicos'
  BY DEF IInv, Publicos, PasoKernel, altaVars
<1>5. Sabidos'
  BY DEF IInv, Sabidos, PasoKernel, altaVars
<1> QED BY <1>2, <1>3, <1>4, <1>5 DEF IInv

LEMMA FormaKernel ==
  ASSUME IInv
  PROVE  /\ proximo \in [Cpus -> Procs \union {Nulo}]
         /\ EsTabla(tabla, Procs)
         /\ \A a \in libre : Publicada(a, sticks, spc)
         /\ \A p \in Procs : /\ Publico(tabla[p], sticks, spc)
                             /\ EsContexto(tabla[p]) /\ Sucesion(tabla[p].segs)
                             /\ \A g \in Range(tabla[p].segs) :
                                  /\ DOMAIN g = {"id", "base", "lim"}
                                  /\ \A a \in Rango(g.base, g.lim) : Publicada(a, sticks, spc)
  BY DEF IInv, Forma, Publicos, Publico, EsContexto

\* tabla with new segments for one process.
LEMMA OtrosSegmentos ==
  ASSUME IInv, NEW p \in Procs, NEW q, Sucesion(q),
         tabla' = [tabla EXCEPT ![p].segs = q],
         \A g \in Range(q) : /\ DOMAIN g = {"id", "base", "lim"}
                              /\ \A a \in Rango(g.base, g.lim) : Publicada(a, sticks, spc)
  PROVE  EsTabla(tabla', Procs) /\ \A o \in Procs : Publico(tabla'[o], sticks, spc)
<1>1. EsTabla(tabla', Procs) /\ \A o \in Procs \ {p} : tabla'[o] = tabla[o]
  BY FormaKernel DEF EsTabla
<1>2. tabla'[p] = [tabla[p] EXCEPT !.segs = q]
  BY FormaKernel DEF EsTabla
<1>3. DOMAIN tabla'[p] = DOMAIN tabla[p] /\ tabla'[p].segs = q
  BY <1>2, FormaKernel DEF EsContexto
<1>4. Publico(tabla'[p], sticks, spc)
  BY <1>3, FormaKernel DEF Publico, EsContexto
<1> QED BY <1>1, <1>4, FormaKernel

LEMMA KernelAlloc ==
  ASSUME IInv, NEW p \in Procs, ServirAlloc(p)
  PROVE  PasoKernel
<1> DEFINE i == llamada[p]
<1>1. PICK b \in libre : Rango(b, i.val) \subseteq libre /\ Ubica(p, b)
  BY DEF ServirAlloc
<1> DEFINE g == [id |-> i.id, base |-> b, lim |-> i.val]
           q == Append(tabla[p].segs, g)
<1>2. tabla' = [tabla EXCEPT ![p].segs = q] /\ libre' = libre \ Rango(b, i.val)
  <2>1. tabla' = [tabla EXCEPT ![p].segs = Append(@, g)]
    BY <1>1 DEF Ubica
  <2> HIDE DEF g
  <2>2. tabla' = [tabla EXCEPT ![p].segs = q]
    BY <2>1, FormaKernel DEF EsTabla
  <2> QED BY <1>1, <2>2 DEF Ubica
<1>3. Sucesion(q) /\ Range(q) = Range(tabla[p].segs) \union {g}
  BY FormaKernel, AlFinal
<1>4. /\ DOMAIN g = {"id", "base", "lim"}
      /\ \A a \in Rango(g.base, g.lim) : Publicada(a, sticks, spc)
  BY <1>1, FormaKernel
<1> HIDE DEF q, g
<1>5. EsTabla(tabla', Procs) /\ \A o \in Procs : Publico(tabla'[o], sticks, spc)
  BY <1>2, <1>3, <1>4, FormaKernel, OtrosSegmentos
<1>6. \A a \in libre' : Publicada(a, sticks, spc)
  BY <1>2, FormaKernel
<1>7. Vuelve(p)
  BY DEF ServirAlloc
<1>8. UNCHANGED <<fase, ctx, redVars, altaVars>> /\ proximo' \in [Cpus -> Procs \union {Nulo}]
  BY <1>7, FormaKernel DEF Vuelve
<1> QED BY <1>5, <1>6, <1>8 DEF PasoKernel

\* BuscarSegmento finds a segment, or none.
LEMMA SegmentoHallado ==
  ASSUME NEW segs, NEW id, BuscarSegmento(segs, id) # 0
  PROVE  BuscarSegmento(segs, id) \in 1 .. Len(segs)
<1> DEFINE hay == {j \in 1 .. Len(segs) : segs[j].id = id}
           k == BuscarSegmento(segs, id)
<1>1. k = CHOOSE j \in hay : \A n \in hay : j <= n
  BY DEF BuscarSegmento
<1>2. hay # {} /\ hay \subseteq Nat
  BY DEF BuscarSegmento
<1>3. Min(hay) \in hay /\ \A y \in hay : Min(hay) <= y
  BY <1>2, HayMinimo
<1> HIDE DEF hay, k
<1>4. k \in hay
  BY <1>1, <1>3
<1> QED BY <1>4 DEF hay, k

LEMMA KernelFree ==
  ASSUME IInv, NEW p \in Procs, ServirFree(p)
  PROVE  PasoKernel
<1> DEFINE segs == tabla[p].segs
           k == BuscarSegmento(segs, llamada[p].id)
<1>1. UNCHANGED <<fase, ctx, redVars, altaVars>> /\ proximo' \in [Cpus -> Procs \union {Nulo}]
  BY FormaKernel DEF ServirFree, Vuelve
<1>2. CASE k = 0
  BY <1>1, <1>2, FormaKernel DEF ServirFree, PasoKernel
<1>3. CASE k # 0
  <2>1. k \in 1 .. Len(segs)
    BY <1>3, SegmentoHallado
  <2>2. /\ tabla' = [tabla EXCEPT ![p].segs = RemoveAt(@, k)]
        /\ libre' = libre \union Rango(segs[k].base, segs[k].lim)
    BY <1>3 DEF ServirFree
  <2> HIDE DEF k
  <2>3. tabla' = [tabla EXCEPT ![p].segs = RemoveAt(segs, k)]
    BY <2>2, FormaKernel DEF EsTabla
  <2>4. Sucesion(RemoveAt(segs, k)) /\ Range(RemoveAt(segs, k)) \subseteq Range(segs)
    BY <2>1, FormaKernel, SinUno
  <2>5. segs[k] \in Range(segs)
    BY <2>1, FormaKernel, PartesDe
  <2>6. EsTabla(tabla', Procs) /\ \A o \in Procs : Publico(tabla'[o], sticks, spc)
    BY <2>3, <2>4, FormaKernel, OtrosSegmentos
  <2>7. \A a \in libre' : Publicada(a, sticks, spc)
    BY <2>2, <2>5, FormaKernel
  <2> QED BY <1>1, <2>6, <2>7 DEF PasoKernel
<1> QED BY <1>2, <1>3

LEMMA KernelFinalizar ==
  ASSUME IInv, NEW p \in Procs, Finalizar(p)
  PROVE  PasoKernel
<1>1. /\ tabla' = [tabla EXCEPT ![p].segs = <<>>]
      /\ libre' = libre \union UNION {Rango(g.base, g.lim) : g \in Range(tabla[p].segs)}
  BY DEF Finalizar
<1>2. EsTabla(tabla', Procs) /\ \A o \in Procs : Publico(tabla'[o], sticks, spc)
  BY <1>1, NadaEsSucesion, OtrosSegmentos
<1>3. \A a \in libre' : Publicada(a, sticks, spc)
  BY <1>1, FormaKernel
<1>4. UNCHANGED <<fase, ctx, redVars, altaVars, proximo>>
  BY DEF Finalizar, cpuVars
<1> QED BY <1>2, <1>3, <1>4, FormaKernel DEF PasoKernel

LEMMA KernelMover ==
  ASSUME IInv, NEW p \in Procs, Mover(p)
  PROVE  PasoKernel
<1> DEFINE segs == tabla[p].segs
<1>1. UNCHANGED <<fase, ctx, redVars, altaVars, proximo>>
  BY DEF Mover, cpuVars
<1>2. PICK k \in 1 .. Len(segs) :
        LET g == segs[k]
            hueco == libre \union Rango(g.base, g.lim)
        IN  \E b \in hueco \ {g.base} :
              /\ Rango(b, g.lim) \subseteq hueco
              /\ tabla' = [tabla EXCEPT ![p].segs[k].base = b]
              /\ libre' = hueco \ Rango(b, g.lim)
  BY DEF Mover
<1> DEFINE g == segs[k]
           hueco == libre \union Rango(g.base, g.lim)
<1>3. PICK b \in hueco : /\ Rango(b, g.lim) \subseteq hueco
                         /\ tabla' = [tabla EXCEPT ![p].segs[k].base = b]
                         /\ libre' = hueco \ Rango(b, g.lim)
  BY <1>2
<1>4. g \in Range(segs) /\ Len(segs) \in Nat /\ DOMAIN segs = 1 .. Len(segs)
  BY FormaKernel, PartesDe
<1>5. \A a \in hueco : Publicada(a, sticks, spc)
  BY <1>4, FormaKernel
<1> DEFINE h == [g EXCEPT !.base = b]
           q == [segs EXCEPT ![k] = h]
<1>6. tabla' = [tabla EXCEPT ![p].segs = q]
  BY <1>3, FormaKernel DEF EsTabla
<1>7. Sucesion(q) /\ \A x \in Range(q) : x \in Range(segs) \/ x = h
  <2> DEFINE S == Range(segs) \union {h}
  <2>1. segs \in Seq(S) /\ h \in S /\ k \in 1 .. Len(segs)
    BY FormaKernel, SeqMonotonic DEF Sucesion
  <2> HIDE DEF S, segs, h
  <2>2. q \in Seq(S)
    BY <2>1, ExceptSeq
  <2>3. Sucesion(q) /\ Range(q) \subseteq S
    BY <2>2, EsSucesion, RangeOfSeq
  <2> QED BY <2>3 DEF S
<1>8. /\ DOMAIN h = {"id", "base", "lim"}
      /\ \A a \in Rango(h.base, h.lim) : Publicada(a, sticks, spc)
  <2>1. DOMAIN g = {"id", "base", "lim"}
    BY <1>4, FormaKernel
  <2> HIDE DEF g
  <2>2. DOMAIN h = {"id", "base", "lim"} /\ h.base = b /\ h.lim = g.lim
    BY <2>1
  <2> QED BY <1>3, <1>5, <2>2
<1>9. \A x \in Range(q) : /\ DOMAIN x = {"id", "base", "lim"}
                           /\ \A a \in Rango(x.base, x.lim) : Publicada(a, sticks, spc)
  BY <1>7, <1>8, FormaKernel
<1> HIDE DEF q
<1>10. EsTabla(tabla', Procs) /\ \A o \in Procs : Publico(tabla'[o], sticks, spc)
  BY <1>6, <1>7, <1>9, OtrosSegmentos
<1>11. \A a \in libre' : Publicada(a, sticks, spc)
  BY <1>3, <1>5
<1> QED BY <1>1, <1>10, <1>11, FormaKernel DEF PasoKernel

LEMMA KernelPaso ==
  ASSUME IInv, NEW p \in Procs, Kernel(p)
  PROVE  IInv'
<1>1. CASE NegarAlloc(p)
  <2>1. PasoKernel
    BY <1>1, FormaKernel DEF NegarAlloc, cpuVars, PasoKernel
  <2> QED BY <2>1, KernelInv
<1> QED BY <1>1, KernelAlloc, KernelFree, KernelFinalizar, KernelMover, KernelInv DEF Kernel

LEMMA DespacharInv ==
  ASSUME IInv, NEW p \in Procs, NEW c \in Cpus, Despachar(c, p)
  PROVE  IInv'
<1>1. PasoKernel
  BY FormaKernel DEF Despachar, PasoKernel
<1> QED BY <1>1, KernelInv

-----------------------------------------------------------------------------
(* A message is appended to a stream.                                      *)

LEMMA SabeEnvia ==
  ASSUME NEW q, NEW r, Sucesion(r), NEW m
  PROVE  /\ \A e, k : Sabe(q, r, e, k) => Sabe(q, Append(r, m), e, k)
         /\ \A x, l, k : Alcanza(x, l, q, r, k) => Alcanza(x, l, q, Append(r, m), k)
<1>1. Len(r) \in Nat /\ Len(Append(r, m)) = Len(r) + 1
  BY AlFinal, PartesDe
<1>2. \A j \in 1 .. Len(r) : Append(r, m)[j] = r[j] /\ j \in 1 .. Len(Append(r, m))
  BY <1>1, AlFinal
<1>3. \A e, k : Sabe(q, r, e, k) => Sabe(q, Append(r, m), e, k)
  BY <1>2 DEF Sabe
<1> QED BY <1>3 DEF Alcanza

\* The stick a message announces.
Anuncia(m) == IF m.t = "STICK" THEN m.stick.id ELSE Nulo

LEMMA PuestoEnvia ==
  ASSUME NEW q, Sucesion(q), NEW r, Sucesion(r), NEW m
  PROVE  LET N == Len(q) + Len(r) + 1
         IN  /\ N \notin Puestos(q, r)
             /\ Puestos(q, Append(r, m)) = Puestos(q, r) \union {N}
             /\ \A n \in Puestos(q, r) : Puesto(q, Append(r, m), n) = Puesto(q, r, n)
             /\ Puesto(q, Append(r, m), N) = Anuncia(m)
<1> DEFINE N == Len(q) + Len(r) + 1
           z == Append(r, m)
<1>1. Len(q) \in Nat /\ Len(r) \in Nat
  BY PartesDe
<1>2. /\ Len(z) = Len(r) + 1 /\ z[Len(r) + 1] = m
      /\ \A i \in 1 .. Len(r) : z[i] = r[i]
  BY AlFinal
<1> HIDE DEF z
<1>3. N \notin Puestos(q, r) /\ Puestos(q, z) = Puestos(q, r) \union {N}
  BY <1>1, <1>2 DEF Puestos
<1>4. ASSUME NEW n \in Puestos(q, r) PROVE Puesto(q, z, n) = Puesto(q, r, n)
  <2>1. n > Len(q) => n - Len(q) \in 1 .. Len(r)
    BY <1>1 DEF Puestos
  <2>2. n \in Int
    BY <1>1 DEF Puestos
  <2> QED BY <1>1, <1>2, <2>1, <2>2 DEF Puesto
<1>5. Puesto(q, z, N) = Anuncia(m)
  <2>1. ~(N <= Len(q)) /\ N - Len(q) = Len(r) + 1
    BY <1>1
  <2> QED BY <1>2, <2>1 DEF Puesto, Anuncia
<1> QED BY <1>3, <1>4, <1>5 DEF z

LEMMA CuentaEnvia ==
  ASSUME NEW q, Sucesion(q), NEW r, Sucesion(r), NEW m, NEW s
  PROVE  LET z == Append(r, m)
         IN  /\ Anuncia(m) # s => /\ Ninguno(q, r, s) => Ninguno(q, z, s)
                                  /\ Uno(q, r, s) => Uno(q, z, s)
                                  /\ Dos(q, r, s) => Dos(q, z, s)
             /\ Ninguno(q, r, s) => Uno(q, z, s)
             /\ Uno(q, r, s) => Dos(q, z, s)
<1> DEFINE z == Append(r, m)
           N == Len(q) + Len(r) + 1
<1>1. /\ N \notin Puestos(q, r) /\ Puestos(q, z) = Puestos(q, r) \union {N}
      /\ \A n \in Puestos(q, r) : Puesto(q, z, n) = Puesto(q, r, n)
      /\ Puesto(q, z, N) = Anuncia(m)
  BY PuestoEnvia
<1> HIDE DEF z, N
<1>2. Anuncia(m) # s /\ Ninguno(q, r, s) => Ninguno(q, z, s)
  BY <1>1 DEF Ninguno
<1>3. Anuncia(m) # s /\ Uno(q, r, s) => Uno(q, z, s)
  BY <1>1 DEF Uno
<1>4. Anuncia(m) # s /\ Dos(q, r, s) => Dos(q, z, s)
  BY <1>1 DEF Dos
<1>5. Ninguno(q, r, s) => Uno(q, z, s)
  BY <1>1 DEF Ninguno, Uno
<1>6. Uno(q, r, s) => Dos(q, z, s)
  BY <1>1 DEF Uno, Dos
<1> QED BY <1>2, <1>3, <1>4, <1>5, <1>6 DEF z

\* A stick has one entry.
LEMMA UnaEntrada ==
  ASSUME IInv, NEW e \in Range(sticks), NEW f \in Range(sticks), e.id = f.id
  PROVE  e = f
<1>1. Sucesion(sticks) /\ \A i, j \in 1 .. Len(sticks) : sticks[i].id = sticks[j].id => i = j
  BY DEF IInv, Forma, Lista
<1>2. PICK i \in 1 .. Len(sticks) : e = sticks[i]
  BY <1>1, PartesDe
<1>3. PICK j \in 1 .. Len(sticks) : f = sticks[j]
  BY <1>1, PartesDe
<1> QED BY <1>1, <1>2, <1>3

\* The streams after Enviar.
LEMMA TrasEnviar ==
  ASSUME IInv, NEW c \in Cpus, NEW m, Enviar(c, m)
  PROVE  /\ EsTabla(rx', Cpus) /\ rx'[c] = Append(rx[c], m)
         /\ \A d \in Cpus \ {c} : rx'[d] = rx[d]
         /\ \A d \in Cpus : Sucesion(rx'[d]) /\ Sucesion(rx[d]) /\ Sucesion(conoce[d])
         /\ Len(rx[c]) \in Nat /\ Len(rx'[c]) = Len(rx[c]) + 1
         /\ \A k \in 1 .. Len(rx[c]) : rx'[c][k] = rx[c][k]
         /\ rx'[c][Len(rx[c]) + 1] = m
<1>1. EsTabla(rx, Cpus) /\ \A d \in Cpus : Sucesion(rx[d]) /\ Sucesion(conoce[d])
  BY DEF IInv, Forma
<1>2. /\ EsTabla(rx', Cpus) /\ rx'[c] = Append(rx[c], m)
      /\ \A d \in Cpus \ {c} : rx'[d] = rx[d]
  BY <1>1 DEF Enviar, EsTabla
<1>3. /\ Sucesion(rx'[c]) /\ Len(rx[c]) \in Nat /\ Len(rx'[c]) = Len(rx[c]) + 1
      /\ \A k \in 1 .. Len(rx[c]) : rx'[c][k] = rx[c][k]
      /\ rx'[c][Len(rx[c]) + 1] = m
  BY <1>1, <1>2, AlFinal, PartesDe
<1>4. \A d \in Cpus : Sucesion(rx'[d])
  BY <1>1, <1>2, <1>3
<1> QED BY <1>1, <1>2, <1>3, <1>4

\* Noticias, Avisado and DosVeces after a message that announces nothing, or that
\* pays the debt of one of the two threads.
LEMMA AvisosEnvia ==
  ASSUME IInv, NEW c \in Cpus, NEW m, Enviar(c, m), UNCHANGED <<conoce, fase, sticks>>,
         \A d \in Cpus, s \in Sticks : /\ AvisaStick(d, s)' => AvisaStick(d, s)
                                       /\ AvisaCpu(d, s)' => AvisaCpu(d, s),
         \A d \in Cpus, s \in Sticks : d # c \/ Anuncia(m) # s =>
           /\ AvisaStick(d, s) => AvisaStick(d, s)'
           /\ AvisaCpu(d, s) => AvisaCpu(d, s)',
         m.t = "STICK" =>
           /\ m.stick \in Range(sticks)
           /\ \/ AvisaStick(c, m.stick.id) /\ ~AvisaStick(c, m.stick.id)'
              \/ AvisaCpu(c, m.stick.id) /\ ~AvisaCpu(c, m.stick.id)'
  PROVE  Noticias' /\ Avisado' /\ DosVeces'
<1>0. rx'[c] = Append(rx[c], m) /\ Sucesion(rx[c]) /\ Sucesion(conoce[c])
  BY TrasEnviar
<1>1. Noticias'
  BY TrasEnviar DEF IInv, Noticias
<1>2. Nulo \notin Sticks
  BY CpuAssumption
<1>3. \A e \in Range(sticks) : e.id \in Sticks
  BY DEF IInv, Lista
<1>4. Avisado'
  <2> SUFFICES ASSUME NEW d \in Cpus, fase[d] # "desfasada", NEW e \in Range(sticks),
                      ~AvisaStick(d, e.id)', ~AvisaCpu(d, e.id)'
               PROVE  Sabe(conoce[d], rx'[d], e, Len(rx'[d]) + 1)
    BY DEF Avisado
  <2>1. CASE d # c \/ Anuncia(m) # e.id
    <3>1. ~AvisaStick(d, e.id) /\ ~AvisaCpu(d, e.id)
      BY <1>3, <2>1
    <3>2. Sabe(conoce[d], rx[d], e, Len(rx[d]) + 1)
      BY <3>1 DEF IInv, Avisado
    <3>3. CASE d # c
      BY <3>2, <3>3, TrasEnviar
    <3>4. CASE d = c
      <4>0. Sabe(conoce[c], Append(rx[c], m), e, Len(rx[c]) + 1)
        BY <1>0, <3>2, <3>4, SabeEnvia
      <4>1. Sabe(conoce[c], rx'[c], e, Len(rx[c]) + 1)
        BY <1>0, <4>0
      <4>2. Len(rx[c]) \in Nat /\ Len(rx'[c]) = Len(rx[c]) + 1
        BY TrasEnviar
      <4> QED BY <3>4, <4>1, <4>2 DEF Sabe
    <3> QED BY <3>3, <3>4
  <2>2. CASE d = c /\ Anuncia(m) = e.id
    <3>1. m.t = "STICK" /\ m.stick = e
      BY <1>2, <1>3, <2>2, UnaEntrada DEF Anuncia
    <3>2. /\ Len(rx[c]) \in Nat /\ Len(rx'[c]) = Len(rx[c]) + 1
          /\ rx'[c][Len(rx[c]) + 1] = m
      BY TrasEnviar
    <3>3. /\ Len(rx[c]) + 1 \in 1 .. Len(rx'[c])
          /\ Len(rx[c]) + 1 < Len(rx'[c]) + 1
      BY <3>2
    <3> QED BY <2>2, <3>1, <3>2, <3>3 DEF Sabe
  <2> QED BY <2>1, <2>2
<1>5. DosVeces'
  <2> SUFFICES ASSUME NEW d \in Cpus, NEW s \in Sticks
               PROVE  /\ AvisaStick(d, s)' /\ AvisaCpu(d, s)' => Ninguno(conoce[d], rx'[d], s)
                      /\ AvisaStick(d, s)' \/ AvisaCpu(d, s)' => Uno(conoce[d], rx'[d], s)
                      /\ Dos(conoce[d], rx'[d], s)
    BY DEF DosVeces
  <2>1. /\ AvisaStick(d, s) /\ AvisaCpu(d, s) => Ninguno(conoce[d], rx[d], s)
        /\ AvisaStick(d, s) \/ AvisaCpu(d, s) => Uno(conoce[d], rx[d], s)
        /\ Dos(conoce[d], rx[d], s)
    BY DEF IInv, DosVeces
  <2>2. AvisaStick(d, s)' => AvisaStick(d, s)
    OBVIOUS
  <2>3. AvisaCpu(d, s)' => AvisaCpu(d, s)
    OBVIOUS
  <2>4. CASE d # c
    BY <2>1, <2>2, <2>3, <2>4, TrasEnviar
  <2>5. CASE d = c
    <3>1. /\ Anuncia(m) # s => /\ Ninguno(conoce[c], rx[c], s) => Ninguno(conoce[c], rx'[c], s)
                               /\ Uno(conoce[c], rx[c], s) => Uno(conoce[c], rx'[c], s)
                               /\ Dos(conoce[c], rx[c], s) => Dos(conoce[c], rx'[c], s)
          /\ Ninguno(conoce[c], rx[c], s) => Uno(conoce[c], rx'[c], s)
          /\ Uno(conoce[c], rx[c], s) => Dos(conoce[c], rx'[c], s)
      <4> DEFINE q == conoce[c]
                 r == rx[c]
                 z == Append(r, m)
      <4>1. /\ Anuncia(m) # s => /\ Ninguno(q, r, s) => Ninguno(q, z, s)
                                 /\ Uno(q, r, s) => Uno(q, z, s)
                                 /\ Dos(q, r, s) => Dos(q, z, s)
            /\ Ninguno(q, r, s) => Uno(q, z, s)
            /\ Uno(q, r, s) => Dos(q, z, s)
        BY <1>0, CuentaEnvia
      <4> QED BY <1>0, <4>1
    <3>2. CASE Anuncia(m) # s
      BY <2>1, <2>2, <2>3, <2>5, <3>1, <3>2
    <3>3. CASE Anuncia(m) = s
      <4>1. m.t = "STICK" /\ m.stick.id = s
        BY <1>2, <3>3 DEF Anuncia
      <4>2. \/ AvisaStick(c, s) /\ ~AvisaStick(c, s)'
            \/ AvisaCpu(c, s) /\ ~AvisaCpu(c, s)'
        BY <4>1
      <4> QED BY <2>1, <2>2, <2>3, <2>5, <3>1, <4>2
    <3> QED BY <3>2, <3>3
  <2> QED BY <2>4, <2>5
<1> QED BY <1>1, <1>4, <1>5


\* Contexts after a message that is none, or is one that the CPU will know.
LEMMA ContextosEnvia ==
  ASSUME IInv, NEW c \in Cpus, NEW m, Enviar(c, m),
         UNCHANGED <<conoce, fase, sticks, spc, ctx, resp>>,
         m.t = "CTX" =>
           /\ Publico(m.ctx, sticks, spc)
           /\ fase[c] # "desfasada" =>
                Alcanza(m.ctx, sticks, conoce[c], rx[c], Len(rx[c]) + 1)
  PROVE  /\ Sabidos'
         /\ \A d \in Cpus : \A k \in 1 .. Len(rx'[d]) :
              rx'[d][k].t = "CTX" => Publico(rx'[d][k].ctx, sticks, spc)
<1>1. /\ rx'[c] = Append(rx[c], m) /\ Sucesion(rx[c])
      /\ \A d \in Cpus \ {c} : rx'[d] = rx[d]
      /\ Len(rx[c]) \in Nat /\ Len(rx'[c]) = Len(rx[c]) + 1
      /\ \A k \in 1 .. Len(rx[c]) : rx'[c][k] = rx[c][k]
      /\ rx'[c][Len(rx[c]) + 1] = m
  BY TrasEnviar
<1>2. \A k \in 1 .. Len(rx'[c]) : k \in 1 .. Len(rx[c]) \/ k = Len(rx[c]) + 1
  BY <1>1
<1>3. \A d \in Cpus : \A k \in 1 .. Len(rx'[d]) :
        rx'[d][k].t = "CTX" => Publico(rx'[d][k].ctx, sticks, spc)
  BY <1>1, <1>2 DEF IInv, Publicos
<1>4. \A x, l, k : Alcanza(x, l, conoce[c], rx[c], k) => Alcanza(x, l, conoce[c], rx'[c], k)
  <2>1. \A x, l, k : Alcanza(x, l, conoce[c], rx[c], k) =>
          Alcanza(x, l, conoce[c], Append(rx[c], m), k)
    BY <1>1, SabeEnvia
  <2> QED BY <1>1, <2>1
<1>5. ASSUME NEW d \in Cpus, fase[d] # "desfasada"
      PROVE  /\ \A k \in 1 .. Len(rx'[d]) :
                  rx'[d][k].t = "CTX" => Alcanza(rx'[d][k].ctx, sticks, conoce[d], rx'[d], k)
             /\ resp[d].t = "CTX" => Alcanza(resp[d].ctx, sticks, conoce[d], rx'[d], 0)
             /\ fase[d] \in Cargado => Alcanza(ctx[d], sticks, conoce[d], rx'[d], 0)
  <2>1. /\ \A k \in 1 .. Len(rx[d]) :
             rx[d][k].t = "CTX" => Alcanza(rx[d][k].ctx, sticks, conoce[d], rx[d], k)
        /\ resp[d].t = "CTX" => Alcanza(resp[d].ctx, sticks, conoce[d], rx[d], 0)
        /\ fase[d] \in Cargado => Alcanza(ctx[d], sticks, conoce[d], rx[d], 0)
    BY <1>5 DEF IInv, Sabidos
  <2>2. CASE d # c
    BY <1>1, <2>1, <2>2
  <2>3. CASE d = c
    <3>1. ASSUME NEW k \in 1 .. Len(rx'[c]), rx'[c][k].t = "CTX"
          PROVE  Alcanza(rx'[c][k].ctx, sticks, conoce[c], rx'[c], k)
      <4>1. CASE k \in 1 .. Len(rx[c])
        BY <1>1, <1>4, <2>1, <2>3, <3>1, <4>1
      <4>2. CASE k = Len(rx[c]) + 1
        BY <1>1, <1>4, <1>5, <2>3, <3>1, <4>2
      <4> QED BY <1>2, <4>1, <4>2
    <3> QED BY <1>4, <2>1, <2>3, <3>1
  <2> QED BY <2>2, <2>3
<1>6. Sabidos'
  BY <1>5 DEF Sabidos
<1> QED BY <1>3, <1>6

\* A CPU in service has been told of every stick that processes may have.
LEMMA EnterosDeTodo ==
  ASSUME IInv, NEW c \in Cpus, hpc[c] = "sirve", fase[c] # "desfasada",
         NEW x, Publico(x, sticks, spc)
  PROVE  Alcanza(x, sticks, conoce[c], rx[c], Len(rx[c]) + 1)
<1>1. ASSUME NEW e \in Range(sticks), spc[e.id] = "fin"
      PROVE  Sabe(conoce[c], rx[c], e, Len(rx[c]) + 1)
  <2>1. e.id \in Sticks
    BY DEF IInv, Lista
  <2>2. spend[e.id] = <<>> /\ hpend[c] = <<>>
    BY <1>1, <2>1 DEF IInv, Registro
  <2>3. ~AvisaStick(c, e.id) /\ ~AvisaCpu(c, e.id)
    BY <1>1, <2>2, NadaEsSucesion DEF AvisaStick, AvisaCpu
  <2> QED BY <2>3 DEF IInv, Avisado
<1> QED BY <1>1 DEF Publico, Publicada, Alcanza

LEMMA MemoriaInv ==
  ASSUME IInv, NEW c \in Cpus, Memoria(c)
  PROVE  IInv'
<1>1. /\ hpc[c] = "sirve" /\ pedido' = [pedido EXCEPT ![c] = SinPedido]
      /\ UNCHANGED <<fase, proximo, ctx, conoce, resp, hpc, hpend, spc, spend, registradas,
                     sticks, libre>>
  BY DEF Memoria, MemContexto, MemInstruccion, MemActualizar, Contesta, cpuVars, altaVars
<1>2. /\ EsTabla(pedido', Cpus)
      /\ \A d \in Cpus : pedido'[d] = pedido[d] \/ pedido'[d].t = ""
  BY <1>1 DEF IInv, Forma, EsTabla, SinPedido, Pedido
<1>3. EsTabla(tabla', Procs) /\ \A p \in Procs : Publico(tabla'[p], sticks, spc)
  <2>1. CASE tabla' = tabla
    BY <2>1, FormaKernel
  <2>2. ASSUME NEW p, pedido[c].t = "GUARDAR", tabla' = [tabla EXCEPT ![p] = pedido[c].ctx]
        PROVE  EsTabla(tabla', Procs) /\ \A o \in Procs : Publico(tabla'[o], sticks, spc)
    <3>1. Publico(pedido[c].ctx, sticks, spc)
      BY <2>2 DEF IInv, Publicos
    <3>2. /\ EsTabla(tabla', Procs)
          /\ \A o \in Procs : tabla'[o] = tabla[o] \/ tabla'[o] = pedido[c].ctx
      BY <2>2, FormaKernel DEF EsTabla
    <3> QED BY <3>1, <3>2, FormaKernel
  <2> QED BY <2>1, <2>2 DEF Memoria, MemContexto, MemInstruccion, MemActualizar
<1>4. CASE rx' = rx
  <2>1. Lista' /\ Registro' /\ Noticias' /\ Avisado' /\ DosVeces'
    BY <1>1, <1>4, MismaRed DEF altaVars
  <2>2. Forma'
    BY <1>1, <1>2, <1>3, <1>4 DEF IInv, Forma
  <2>3. Publicos'
    BY <1>1, <1>2, <1>3, <1>4 DEF IInv, Publicos
  <2>4. Sabidos'
    BY <1>1, <1>4 DEF IInv, Sabidos
  <2> QED BY <2>1, <2>2, <2>3, <2>4 DEF IInv
<1>5. ASSUME NEW m, Enviar(c, m), m.t # "STICK",
             m.t = "CTX" => Publico(m.ctx, sticks, spc)
      PROVE  IInv'
  <2>1. Noticias' /\ Avisado' /\ DosVeces'
    <3>1. \A d \in Cpus, s \in Sticks : /\ AvisaStick(d, s)' <=> AvisaStick(d, s)
                                        /\ AvisaCpu(d, s)' <=> AvisaCpu(d, s)
      BY <1>1 DEF AvisaStick, AvisaCpu
    <3> QED BY <1>1, <1>5, <3>1, AvisosEnvia
  <2>2. /\ Sabidos'
        /\ \A d \in Cpus : \A k \in 1 .. Len(rx'[d]) :
             rx'[d][k].t = "CTX" => Publico(rx'[d][k].ctx, sticks, spc)
    BY <1>1, <1>5, EnterosDeTodo, ContextosEnvia
  <2>3. Lista'
    BY <1>1 DEF IInv, Lista
  <2>4. Registro'
    BY <1>1 DEF IInv, Registro
  <2>5. EsTabla(rx', Cpus) /\ \A d \in Cpus : Sucesion(rx'[d])
    BY <1>5, TrasEnviar
  <2>6. Forma'
    BY <1>1, <1>2, <1>3, <2>5 DEF IInv, Forma
  <2>7. Publicos'
    BY <1>1, <1>2, <1>3, <2>2 DEF IInv, Publicos
  <2> QED BY <2>1, <2>2, <2>3, <2>4, <2>6, <2>7 DEF IInv
<1>6. CASE MemContexto(c)
  <2> DEFINE p == pedido[c].ctx.pid
  <2>1. p \in Procs
    BY <1>6 DEF MemContexto, IInv, Publicos
  <2>2. CASE ~Existe(p)
    BY <1>4, <1>6, <2>2 DEF MemContexto
  <2>3. CASE Existe(p)
    <3>1. Enviar(c, MsgCtx(tabla[p]))
      BY <1>6, <2>3 DEF MemContexto
    <3>2. MsgCtx(tabla[p]).t = "CTX" /\ MsgCtx(tabla[p]).ctx = tabla[p]
      BY DEF MsgCtx, Msg
    <3>3. Publico(tabla[p], sticks, spc)
      BY <2>1, FormaKernel
    <3> QED BY <1>5, <3>1, <3>2, <3>3
  <2> QED BY <2>2, <2>3
<1>7. CASE MemInstruccion(c)
  <2>1. PICK i : Enviar(c, MsgIns(i))
    BY <1>7 DEF MemInstruccion
  <2>2. MsgIns(i).t = "INSTR"
    BY DEF MsgIns, Msg
  <2> QED BY <1>5, <2>1, <2>2
<1>8. CASE MemActualizar(c)
  <2>1. Enviar(c, Msg("ACK")) /\ Msg("ACK").t = "ACK"
    BY <1>8 DEF MemActualizar, Msg
  <2> QED BY <1>5, <2>1
<1> QED BY <1>6, <1>7, <1>8 DEF Memoria

-----------------------------------------------------------------------------
(* CPUs and sticks register: steps that send nothing.                      *)

\* The list only grows and a stick stays published.
LEMMA Crece ==
  ASSUME IInv, UNCHANGED <<rx, conoce, resp, pedido, ctx, fase, tabla>>,
         Range(sticks) \subseteq Range(sticks'),
         \A s \in Sticks : spc[s] = "fin" => spc'[s] = "fin",
         \A a \in libre' : Publicada(a, sticks', spc')
  PROVE  Publicos' /\ Sabidos' /\ Noticias'
<1>1. \A e \in Range(sticks) : spc[e.id] = "fin" => spc'[e.id] = "fin"
  BY DEF IInv, Lista
<1>2. \A x : Publico(x, sticks, spc) => Publico(x, sticks', spc')
  BY <1>1 DEF Publico, Publicada
<1>3. Publicos'
  BY <1>2 DEF IInv, Publicos
<1>4. \A x, q, r, k : Alcanza(x, sticks, q, r, k) => Alcanza(x, sticks', q, r, k)
  BY DEF Alcanza
<1>5. Sabidos'
  BY <1>4 DEF IInv, Sabidos
<1>6. Noticias'
  BY DEF IInv, Noticias
<1> QED BY <1>3, <1>5, <1>6

\* Debts that are forgiven or stay leave the counts as they are.
LEMMA SinDeudas ==
  ASSUME IInv, UNCHANGED <<rx, conoce>>,
         \A d \in Cpus, s \in Sticks : /\ AvisaStick(d, s)' => AvisaStick(d, s)
                                       /\ AvisaCpu(d, s)' => AvisaCpu(d, s)
  PROVE  DosVeces'
  BY DEF IInv, DosVeces

\* An element more.
LEMMA SinRepetir ==
  ASSUME NEW q, Sucesion(q), NEW e, e \notin Range(q),
         \A i, j \in 1 .. Len(q) : q[i] = q[j] => i = j
  PROVE  \A i, j \in 1 .. Len(Append(q, e)) : Append(q, e)[i] = Append(q, e)[j] => i = j
<1> DEFINE r == Append(q, e)
<1>1. /\ Len(q) \in Nat /\ Len(r) = Len(q) + 1 /\ r[Len(q) + 1] = e
      /\ \A i \in 1 .. Len(q) : r[i] = q[i] /\ q[i] # e
  BY AlFinal, PartesDe
<1> HIDE DEF r
<1>2. \A i, j \in 1 .. Len(r) : r[i] = r[j] => i = j
  BY <1>1
<1> QED BY <1>2 DEF r

LEMMA FormaAltas ==
  ASSUME IInv
  PROVE  /\ hpc \in [Cpus -> {"no", "config", "cuenta", "avisa", "sirve"}]
         /\ spc \in [Sticks -> {"no", "cuenta", "avisa", "fin"}]
         /\ EsTabla(hpend, Cpus) /\ EsTabla(spend, Sticks)
         /\ \A c \in Cpus : Sucesion(hpend[c])
         /\ \A s \in Sticks : Sucesion(spend[s])
         /\ Sucesion(sticks) /\ Sucesion(registradas)
         /\ \A a \in libre : Publicada(a, sticks, spc)
  BY DEF IInv, Forma, Publicos

LEMMA RegistrarCpuInv ==
  ASSUME IInv, NEW c \in Cpus, RegistrarCpu(c)
  PROVE  IInv'
<1>1. /\ hpc[c] = "no" /\ registradas' = Append(registradas, c)
      /\ hpc' = [hpc EXCEPT ![c] = "config"]
      /\ UNCHANGED <<fase, proximo, ctx, conoce, resp, rx, pedido, hpend, spc, spend, sticks,
                     tabla, libre>>
  BY DEF RegistrarCpu, cpuVars, redVars, kerVars
<1>2. Sucesion(registradas') /\ Range(registradas') = Range(registradas) \union {c}
  BY <1>1, FormaAltas, AlFinal
<1>3. Forma'
  BY <1>1, <1>2 DEF IInv, Forma
<1>4. Lista'
  BY <1>1 DEF IInv, Lista
<1>5. Registro'
  <2>1. c \notin Range(registradas)
    BY <1>1 DEF IInv, Registro
  <2>2. \A i, j \in 1 .. Len(registradas') : registradas'[i] = registradas'[j] => i = j
    BY <1>1, <2>1, FormaAltas, SinRepetir DEF IInv, Registro
  <2>3. Range(registradas') = {d \in Cpus : hpc'[d] # "no"}
    BY <1>1, <1>2, FormaAltas DEF IInv, Registro
  <2>4. \A d \in Cpus : hpend[d] # <<>> => hpc'[d] = "avisa"
    BY <1>1, FormaAltas DEF IInv, Registro
  <2> QED BY <1>1, <2>2, <2>3, <2>4 DEF IInv, Registro
<1>6. \A d \in Cpus, s \in Sticks : /\ AvisaStick(d, s)' <=> AvisaStick(d, s)
                                    /\ AvisaCpu(d, s)' <=> AvisaCpu(d, s)
  BY <1>1, FormaAltas DEF AvisaStick, AvisaCpu
<1>7. DosVeces'
  BY <1>1, <1>6, SinDeudas
<1>8. Avisado'
  <2>1. \A e \in Range(sticks) : e.id \in Sticks
    BY DEF IInv, Lista
  <2> QED BY <1>1, <1>6, <2>1 DEF IInv, Avisado
<1>9. Publicos' /\ Sabidos' /\ Noticias'
  BY <1>1, FormaAltas, Crece
<1> QED BY <1>3, <1>4, <1>5, <1>7, <1>8, <1>9 DEF IInv

LEMMA ContarSticksInv ==
  ASSUME IInv, NEW c \in Cpus, ContarSticks(c)
  PROVE  IInv'
<1>1. /\ hpc[c] = "cuenta" /\ hpc' = [hpc EXCEPT ![c] = "avisa"]
      /\ hpend' = [hpend EXCEPT ![c] = sticks]
      /\ UNCHANGED <<fase, proximo, ctx, conoce, resp, rx, pedido, spc, spend, registradas,
                     sticks, tabla, libre>>
  BY DEF ContarSticks, cpuVars, redVars, kerVars
<1>2. /\ EsTabla(hpend', Cpus) /\ hpend'[c] = sticks
      /\ \A d \in Cpus \ {c} : hpend'[d] = hpend[d]
  BY <1>1, FormaAltas DEF EsTabla
<1>3. /\ hpc' \in [Cpus -> {"no", "config", "cuenta", "avisa", "sirve"}] /\ hpc'[c] = "avisa"
      /\ \A d \in Cpus \ {c} : hpc'[d] = hpc[d]
  BY <1>1, FormaAltas
<1>4. Forma'
  BY <1>1, <1>2, <1>3 DEF IInv, Forma
<1>5. Lista'
  BY <1>1 DEF IInv, Lista
<1>6. Registro'
  <2>1. \A d \in Cpus :
          /\ \A i, j \in 1 .. Len(hpend'[d]) : hpend'[d][i].id = hpend'[d][j].id => i = j
          /\ Range(hpend'[d]) \subseteq Range(sticks)
          /\ hpend'[d] # <<>> => hpc'[d] = "avisa"
    BY <1>2, <1>3 DEF IInv, Registro, Lista
  <2>2. \A d \in Cpus : hpc'[d] # "no" <=> hpc[d] # "no"
    BY <1>1, <1>3
  <2> QED BY <1>1, <2>1, <2>2 DEF IInv, Registro
<1>7. \A d \in Cpus, s \in Sticks :
        /\ AvisaStick(d, s)' <=> AvisaStick(d, s)
        /\ AvisaCpu(d, s)' => AvisaCpu(d, s)
        /\ d # c => (AvisaCpu(d, s)' <=> AvisaCpu(d, s))
        /\ (\E e \in Range(sticks) : e.id = s) => AvisaCpu(c, s)'
  BY <1>1, <1>2, <1>3 DEF AvisaStick, AvisaCpu
<1>8. DosVeces'
  BY <1>1, <1>7, SinDeudas
<1>9. Avisado'
  <2>1. \A e \in Range(sticks) : e.id \in Sticks
    BY DEF IInv, Lista
  <2> QED BY <1>1, <1>7, <2>1 DEF IInv, Avisado
<1>10. Publicos' /\ Sabidos' /\ Noticias'
  BY <1>1, FormaAltas, Crece
<1> QED BY <1>4, <1>5, <1>6, <1>8, <1>9, <1>10 DEF IInv

LEMMA ServirInv ==
  ASSUME IInv, NEW c \in Cpus, Servir(c)
  PROVE  IInv'
<1>1. /\ hpc[c] = "avisa" /\ hpend[c] = <<>> /\ hpc' = [hpc EXCEPT ![c] = "sirve"]
      /\ UNCHANGED <<fase, proximo, ctx, conoce, resp, rx, pedido, hpend, spc, spend,
                     registradas, sticks, tabla, libre>>
  BY DEF Servir, cpuVars, redVars, kerVars
<1>2. /\ hpc' \in [Cpus -> {"no", "config", "cuenta", "avisa", "sirve"}] /\ hpc'[c] = "sirve"
      /\ \A d \in Cpus \ {c} : hpc'[d] = hpc[d]
  BY <1>1, FormaAltas
<1>3. Forma'
  BY <1>1, <1>2 DEF IInv, Forma
<1>4. Lista'
  BY <1>1 DEF IInv, Lista
<1>5. Registro'
  <2>1. \A d \in Cpus : hpend[d] # <<>> => hpc'[d] = "avisa"
    BY <1>1, <1>2 DEF IInv, Registro
  <2>2. \A d \in Cpus : hpc'[d] # "no" <=> hpc[d] # "no"
    BY <1>1, <1>2
  <2> QED BY <1>1, <2>1, <2>2 DEF IInv, Registro
<1>6. \A d \in Cpus, s \in Sticks : /\ AvisaStick(d, s)' <=> AvisaStick(d, s)
                                    /\ AvisaCpu(d, s)' <=> AvisaCpu(d, s)
  BY <1>1, <1>2 DEF AvisaStick, AvisaCpu
<1>7. DosVeces'
  BY <1>1, <1>6, SinDeudas
<1>8. Avisado'
  <2>1. \A e \in Range(sticks) : e.id \in Sticks
    BY DEF IInv, Lista
  <2> QED BY <1>1, <1>6, <2>1 DEF IInv, Avisado
<1>9. Publicos' /\ Sabidos' /\ Noticias'
  BY <1>1, FormaAltas, Crece
<1> QED BY <1>3, <1>4, <1>5, <1>7, <1>8, <1>9 DEF IInv


LEMMA StickAgregaInv ==
  ASSUME IInv, NEW s \in Sticks, StickAgrega(s)
  PROVE  IInv'
<1> DEFINE n == Entrada(sticks, s)
<1>1. /\ spc[s] = "no" /\ sticks' = Append(sticks, n) /\ spc' = [spc EXCEPT ![s] = "cuenta"]
      /\ UNCHANGED <<fase, proximo, ctx, conoce, resp, rx, pedido, hpc, hpend, spend,
                     registradas, tabla, libre>>
  BY DEF StickAgrega, cpuVars, redVars, kerVars
<1>2. n.id = s /\ n.tam = TamStick[s]
  BY DEF Entrada
<1> HIDE DEF n
<1>3. /\ Sucesion(sticks') /\ Len(sticks) \in Nat /\ Len(sticks') = Len(sticks) + 1
      /\ \A i \in 1 .. Len(sticks) : sticks'[i] = sticks[i] /\ sticks[i] \in Range(sticks)
      /\ sticks'[Len(sticks) + 1] = n
      /\ Range(sticks') = Range(sticks) \union {n}
  BY <1>1, FormaAltas, AlFinal, PartesDe
<1>4. /\ spc' \in [Sticks -> {"no", "cuenta", "avisa", "fin"}] /\ spc'[s] = "cuenta"
      /\ \A u \in Sticks \ {s} : spc'[u] = spc[u]
  BY <1>1, FormaAltas
<1>5. \A e \in Range(sticks) : /\ e.id \in Sticks /\ spc[e.id] # "no" /\ e.id # s
                               /\ e.tam = TamStick[e.id]
  BY <1>1 DEF IInv, Lista
<1>6. Forma'
  BY <1>1, <1>3, <1>4 DEF IInv, Forma
<1>7. Lista'
  <2>1. \A i, j \in 1 .. Len(sticks') : sticks'[i].id = sticks'[j].id => i = j
    <3>1. \A i, j \in 1 .. Len(sticks) : sticks[i].id = sticks[j].id => i = j
      BY DEF IInv, Lista
    <3>2. \A i \in 1 .. Len(sticks') : i \in 1 .. Len(sticks) \/ i = Len(sticks) + 1
      BY <1>3
    <3> QED BY <1>2, <1>3, <1>5, <3>1, <3>2
  <2>2. \A e \in Range(sticks') :
          e.id \in Sticks /\ spc'[e.id] # "no" /\ e.tam = TamStick[e.id]
    BY <1>2, <1>3, <1>4, <1>5
  <2>3. \A u \in Sticks : spc'[u] # "no" => \E e \in Range(sticks') : e.id = u
    BY <1>2, <1>3, <1>4 DEF IInv, Lista
  <2> QED BY <2>1, <2>2, <2>3 DEF Lista
<1>8. Registro'
  <2>1. \A u \in Sticks : spend[u] # <<>> => spc'[u] = "avisa"
    BY <1>1, <1>4 DEF IInv, Registro
  <2> QED BY <1>1, <1>3, <2>1 DEF IInv, Registro
<1>9. \A d \in Cpus, u \in Sticks : /\ AvisaStick(d, u)' <=> AvisaStick(d, u)
                                    /\ AvisaCpu(d, u)' <=> AvisaCpu(d, u)
  BY <1>1, <1>4 DEF AvisaStick, AvisaCpu
<1>10. DosVeces'
  BY <1>1, <1>9, SinDeudas
<1>11. Avisado'
  <2>1. \A d \in Cpus : AvisaStick(d, s)'
    BY <1>4 DEF AvisaStick
  <2>2. \A e \in Range(sticks') : e \in Range(sticks) \/ e.id = s
    BY <1>2, <1>3
  <2> QED BY <1>1, <1>5, <1>9, <2>1, <2>2 DEF IInv, Avisado
<1>12. Publicos' /\ Sabidos' /\ Noticias'
  <2>1. \A u \in Sticks : spc[u] = "fin" => spc'[u] = "fin"
    BY <1>1, <1>4
  <2>2. \A a \in libre' : Publicada(a, sticks', spc')
    <3>1. libre' = libre /\ Range(sticks) \subseteq Range(sticks')
      BY <1>1, <1>3
    <3>2. \A a \in libre : Publicada(a, sticks, spc)
      BY FormaAltas
    <3> QED BY <1>5, <2>1, <3>1, <3>2 DEF Publicada
  <2>3. /\ UNCHANGED <<rx, conoce, resp, pedido, ctx, fase, tabla>>
        /\ Range(sticks) \subseteq Range(sticks')
    BY <1>1, <1>3
  <2> QED BY <2>1, <2>2, <2>3, Crece
<1> QED BY <1>6, <1>7, <1>8, <1>10, <1>11, <1>12 DEF IInv

LEMMA StickCuentaInv ==
  ASSUME IInv, NEW s \in Sticks, StickCuenta(s)
  PROVE  IInv'
<1>1. /\ spc[s] = "cuenta" /\ spc' = [spc EXCEPT ![s] = "avisa"]
      /\ spend' = [spend EXCEPT ![s] = registradas]
      /\ UNCHANGED <<fase, proximo, ctx, conoce, resp, rx, pedido, hpc, hpend,
                     registradas, sticks, tabla, libre>>
  BY DEF StickCuenta, cpuVars, redVars, kerVars
<1>2. /\ EsTabla(spend', Sticks) /\ spend'[s] = registradas
      /\ \A u \in Sticks \ {s} : spend'[u] = spend[u]
  BY <1>1, FormaAltas DEF EsTabla
<1>3. /\ spc' \in [Sticks -> {"no", "cuenta", "avisa", "fin"}] /\ spc'[s] = "avisa"
      /\ \A u \in Sticks \ {s} : spc'[u] = spc[u]
  BY <1>1, FormaAltas
<1>4. Forma'
  BY <1>1, <1>2, <1>3 DEF IInv, Forma
<1>5. Lista'
  <2>1. \A u \in Sticks : spc'[u] # "no" <=> spc[u] # "no"
    BY <1>1, <1>3
  <2> QED BY <1>1, <2>1 DEF IInv, Lista
<1>6. Registro'
  <2>1. \A u \in Sticks :
          /\ \A i, j \in 1 .. Len(spend'[u]) : spend'[u][i] = spend'[u][j] => i = j
          /\ Range(spend'[u]) \subseteq Cpus
          /\ spend'[u] # <<>> => spc'[u] = "avisa"
    BY <1>2, <1>3 DEF IInv, Registro
  <2> QED BY <1>1, <2>1 DEF IInv, Registro
<1>7. \A d \in Cpus, u \in Sticks :
        /\ AvisaStick(d, u)' => AvisaStick(d, u)
        /\ AvisaCpu(d, u)' <=> AvisaCpu(d, u)
        /\ u # s => (AvisaStick(d, u)' <=> AvisaStick(d, u))
        /\ AvisaStick(d, s)' \/ AvisaCpu(d, s)'
  <2>1. \A d \in Cpus : d \in Range(registradas) \/ hpc[d] = "no"
    BY DEF IInv, Registro
  <2> QED BY <1>1, <1>2, <1>3, <2>1 DEF AvisaStick, AvisaCpu
<1>8. DosVeces'
  BY <1>1, <1>7, SinDeudas
<1>9. Avisado'
  <2>1. \A e \in Range(sticks) : e.id \in Sticks
    BY DEF IInv, Lista
  <2> QED BY <1>1, <1>7, <2>1 DEF IInv, Avisado
<1>10. Publicos' /\ Sabidos' /\ Noticias'
  <2>1. \A u \in Sticks : spc[u] = "fin" => spc'[u] = "fin"
    BY <1>1, <1>3
  <2>2. \A a \in libre' : Publicada(a, sticks', spc')
    <3>1. \A e \in Range(sticks) : e.id \in Sticks
      BY DEF IInv, Lista
    <3> QED BY <1>1, <2>1, <3>1, FormaAltas DEF Publicada
  <2> QED BY <1>1, <2>1, <2>2, Crece
<1> QED BY <1>4, <1>5, <1>6, <1>8, <1>9, <1>10 DEF IInv

\* EntradaDe finds the entry of a stick that has been added.
LEMMA LaEntrada ==
  ASSUME IInv, NEW s \in Sticks, spc[s] # "no"
  PROVE  EntradaDe(s) \in Range(sticks) /\ EntradaDe(s).id = s /\ EntradaDe(s).tam = TamStick[s]
<1>1. \E e \in Range(sticks) : e.id = s
  BY DEF IInv, Lista
<1>2. EntradaDe(s) \in Range(sticks) /\ EntradaDe(s).id = s
  BY <1>1 DEF EntradaDe
<1> QED BY <1>2 DEF IInv, Lista

LEMMA StickLibreInv ==
  ASSUME IInv, NEW s \in Sticks, StickLibre(s)
  PROVE  IInv'
<1>1. /\ spc[s] = "avisa" /\ spend[s] = <<>> /\ spc' = [spc EXCEPT ![s] = "fin"]
      /\ libre' = libre \union Rango(EntradaDe(s).base, TamStick[s])
      /\ UNCHANGED <<fase, proximo, ctx, conoce, resp, rx, pedido, hpc, hpend, spend,
                     registradas, sticks, tabla>>
  BY DEF StickLibre, cpuVars, redVars
<1>2. /\ spc' \in [Sticks -> {"no", "cuenta", "avisa", "fin"}] /\ spc'[s] = "fin"
      /\ \A u \in Sticks \ {s} : spc'[u] = spc[u]
  BY <1>1, FormaAltas
<1>3. Forma'
  BY <1>1, <1>2 DEF IInv, Forma
<1>4. Lista'
  <2>1. \A u \in Sticks : spc'[u] # "no" <=> spc[u] # "no"
    BY <1>1, <1>2
  <2> QED BY <1>1, <2>1 DEF IInv, Lista
<1>5. Registro'
  <2>1. \A u \in Sticks : spend[u] # <<>> => spc'[u] = "avisa"
    BY <1>1, <1>2 DEF IInv, Registro
  <2> QED BY <1>1, <2>1 DEF IInv, Registro
<1>6. \A d \in Cpus, u \in Sticks : /\ AvisaStick(d, u)' <=> AvisaStick(d, u)
                                    /\ AvisaCpu(d, u)' <=> AvisaCpu(d, u)
  BY <1>1, <1>2 DEF AvisaStick, AvisaCpu
<1>7. DosVeces'
  BY <1>1, <1>6, SinDeudas
<1>8. \A e \in Range(sticks) : e.id \in Sticks
  BY DEF IInv, Lista
<1>9. Avisado'
  BY <1>1, <1>6, <1>8 DEF IInv, Avisado
<1>10. Publicos' /\ Sabidos' /\ Noticias'
  <2>1. \A u \in Sticks : spc[u] = "fin" => spc'[u] = "fin"
    BY <1>1, <1>2
  <2>2. \A a \in libre : Publicada(a, sticks', spc')
    BY <1>1, <1>8, <2>1, FormaAltas DEF Publicada
  <2>3. \A a \in Rango(EntradaDe(s).base, TamStick[s]) : Publicada(a, sticks', spc')
    <3>1. /\ EntradaDe(s) \in Range(sticks) /\ EntradaDe(s).id = s
          /\ EntradaDe(s).tam = TamStick[s]
      BY <1>1, LaEntrada
    <3> QED BY <1>1, <1>2, <3>1 DEF Publicada, EnEntrada
  <2>4. \A a \in libre' : Publicada(a, sticks', spc')
    BY <1>1, <2>2, <2>3
  <2> QED BY <1>1, <2>1, <2>4, Crece
<1> QED BY <1>3, <1>4, <1>5, <1>7, <1>9, <1>10 DEF IInv

-----------------------------------------------------------------------------
(* CPUs and sticks register: steps that send.                              *)

LEMMA EnviarConfigInv ==
  ASSUME IInv, NEW c \in Cpus, EnviarConfig(c)
  PROVE  IInv'
<1>1. /\ hpc[c] = "config" /\ Enviar(c, Msg("CONFIG")) /\ hpc' = [hpc EXCEPT ![c] = "cuenta"]
      /\ UNCHANGED <<fase, proximo, ctx, conoce, resp, pedido, hpend, spc, spend,
                     registradas, sticks, tabla, libre>>
  BY DEF EnviarConfig, cpuVars, kerVars
<1>2. /\ hpc' \in [Cpus -> {"no", "config", "cuenta", "avisa", "sirve"}] /\ hpc'[c] = "cuenta"
      /\ \A d \in Cpus \ {c} : hpc'[d] = hpc[d]
  BY <1>1, FormaAltas
<1>3. Msg("CONFIG").t = "CONFIG"
  BY DEF Msg
<1>4. EsTabla(rx', Cpus) /\ \A d \in Cpus : Sucesion(rx'[d])
  BY <1>1, TrasEnviar
<1>5. Forma'
  BY <1>1, <1>2, <1>4 DEF IInv, Forma
<1>6. Lista'
  BY <1>1 DEF IInv, Lista
<1>7. Registro'
  <2>1. \A d \in Cpus : hpend[d] # <<>> => hpc'[d] = "avisa"
    BY <1>1, <1>2 DEF IInv, Registro
  <2>2. \A d \in Cpus : hpc'[d] # "no" <=> hpc[d] # "no"
    BY <1>1, <1>2
  <2> QED BY <1>1, <2>1, <2>2 DEF IInv, Registro
<1>8. \A d \in Cpus, s \in Sticks : /\ AvisaStick(d, s)' <=> AvisaStick(d, s)
                                    /\ AvisaCpu(d, s)' <=> AvisaCpu(d, s)
  BY <1>1, <1>2 DEF AvisaStick, AvisaCpu
<1>9. Noticias' /\ Avisado' /\ DosVeces'
  BY <1>1, <1>3, <1>8, AvisosEnvia
<1>10. /\ Sabidos'
       /\ \A d \in Cpus : \A k \in 1 .. Len(rx'[d]) :
            rx'[d][k].t = "CTX" => Publico(rx'[d][k].ctx, sticks, spc)
  BY <1>1, <1>3, ContextosEnvia
<1>11. Publicos'
  BY <1>1, <1>10 DEF IInv, Publicos
<1> QED BY <1>5, <1>6, <1>7, <1>9, <1>10, <1>11 DEF IInv

\* Taking the first element off leaves no other like it.
LEMMA SinCabeza ==
  ASSUME NEW q, Sucesion(q), q # <<>>
  PROVE  /\ (\A i, j \in 1 .. Len(q) : q[i] = q[j] => i = j) =>
              /\ \A i, j \in 1 .. Len(Tail(q)) : Tail(q)[i] = Tail(q)[j] => i = j
              /\ Head(q) \notin Range(Tail(q))
         /\ (\A i, j \in 1 .. Len(q) : q[i].id = q[j].id => i = j) =>
              /\ \A i, j \in 1 .. Len(Tail(q)) : Tail(q)[i].id = Tail(q)[j].id => i = j
              /\ \A e \in Range(Tail(q)) : e.id # Head(q).id
<1> DEFINE r == Tail(q)
<1>1. /\ Len(q) \in Nat /\ Len(q) > 0 /\ Len(r) = Len(q) - 1 /\ Head(q) = q[1]
      /\ \A i \in 1 .. Len(r) : r[i] = q[i + 1]
  BY AlPrincipio, PartesDe
<1>2. \A x : x \in Range(r) <=> \E i \in 1 .. Len(r) : x = r[i]
  BY AlPrincipio, PartesDe
<1> HIDE DEF r
<1>3. 1 \in 1 .. Len(q) /\ \A i \in 1 .. Len(r) : i + 1 \in 1 .. Len(q) /\ i + 1 # 1
  BY <1>1
<1>4. ASSUME \A i, j \in 1 .. Len(q) : q[i] = q[j] => i = j
      PROVE  /\ \A i, j \in 1 .. Len(r) : r[i] = r[j] => i = j
             /\ Head(q) \notin Range(r)
  <2>1. ASSUME NEW i \in 1 .. Len(r), NEW j \in 1 .. Len(r), r[i] = r[j] PROVE i = j
    <3>1. i + 1 = j + 1
      BY <1>1, <1>3, <1>4, <2>1
    <3> QED BY <3>1
  <2>2. Head(q) \notin Range(r)
    BY <1>1, <1>2, <1>3, <1>4
  <2> QED BY <2>1, <2>2
<1>5. ASSUME \A i, j \in 1 .. Len(q) : q[i].id = q[j].id => i = j
      PROVE  /\ \A i, j \in 1 .. Len(r) : r[i].id = r[j].id => i = j
             /\ \A e \in Range(r) : e.id # Head(q).id
  <2>1. ASSUME NEW i \in 1 .. Len(r), NEW j \in 1 .. Len(r), r[i].id = r[j].id PROVE i = j
    <3>1. i + 1 = j + 1
      BY <1>1, <1>3, <1>5, <2>1
    <3> QED BY <3>1
  <2>2. \A e \in Range(r) : e.id # Head(q).id
    BY <1>1, <1>2, <1>3, <1>5
  <2> QED BY <2>1, <2>2
<1> QED BY <1>4, <1>5 DEF r

LEMMA AvisarStickInv ==
  ASSUME IInv, NEW c \in Cpus, AvisarStick(c)
  PROVE  IInv'
<1>1. PICK e : e = Head(hpend[c])
  OBVIOUS
<1>2. /\ hpc[c] = "avisa" /\ hpend[c] # <<>> /\ Enviar(c, MsgStick(e))
      /\ hpend' = [hpend EXCEPT ![c] = Tail(hpend[c])]
      /\ UNCHANGED <<fase, proximo, ctx, conoce, resp, pedido, hpc, spc, spend,
                     registradas, sticks, tabla, libre>>
  BY <1>1, FormaAltas DEF AvisarStick, EsTabla, cpuVars, kerVars
<1>3. PICK m : m = MsgStick(e)
  OBVIOUS
<1>4. m.t = "STICK" /\ m.stick = e /\ Anuncia(m) = e.id
  BY <1>3 DEF MsgStick, Msg, Anuncia
<1>5. /\ EsTabla(hpend', Cpus) /\ hpend'[c] = Tail(hpend[c])
      /\ \A d \in Cpus \ {c} : hpend'[d] = hpend[d]
  BY <1>2, FormaAltas DEF EsTabla
<1>6. /\ Sucesion(hpend'[c]) /\ e \in Range(hpend[c])
      /\ Range(hpend'[c]) \subseteq Range(hpend[c])
      /\ Range(hpend[c]) = {e} \union Range(hpend'[c])
  BY <1>1, <1>2, <1>5, FormaAltas, AlPrincipio
<1>7. /\ \A i, j \in 1 .. Len(hpend'[c]) : hpend'[c][i].id = hpend'[c][j].id => i = j
      /\ \A f \in Range(hpend'[c]) : f.id # e.id
  <2>1. \A i, j \in 1 .. Len(hpend[c]) : hpend[c][i].id = hpend[c][j].id => i = j
    BY DEF IInv, Registro
  <2>2. Sucesion(hpend[c])
    BY FormaAltas
  <2> QED BY <1>1, <1>2, <1>5, <2>1, <2>2, SinCabeza
<1>8. EsTabla(rx', Cpus) /\ \A d \in Cpus : Sucesion(rx'[d])
  BY <1>2, TrasEnviar
<1>9. Forma'
  BY <1>2, <1>5, <1>6, <1>8 DEF IInv, Forma
<1>10. Lista'
  BY <1>2 DEF IInv, Lista
<1>11. Registro'
  <2>1. \A d \in Cpus :
          /\ \A i, j \in 1 .. Len(hpend'[d]) : hpend'[d][i].id = hpend'[d][j].id => i = j
          /\ Range(hpend'[d]) \subseteq Range(sticks)
          /\ hpend'[d] # <<>> => hpc[d] = "avisa"
    BY <1>2, <1>5, <1>6, <1>7 DEF IInv, Registro
  <2> QED BY <1>2, <2>1 DEF IInv, Registro
<1>12. \A d \in Cpus, s \in Sticks :
         /\ AvisaStick(d, s)' <=> AvisaStick(d, s)
         /\ AvisaCpu(d, s)' => AvisaCpu(d, s)
         /\ d # c \/ e.id # s => (AvisaCpu(d, s) => AvisaCpu(d, s)')
  BY <1>2, <1>5, <1>6 DEF AvisaStick, AvisaCpu
<1>13. AvisaCpu(c, e.id) /\ ~AvisaCpu(c, e.id)'
  BY <1>2, <1>6, <1>7 DEF AvisaCpu
<1>14. e \in Range(sticks)
  BY <1>6 DEF IInv, Registro
<1>15. Noticias' /\ Avisado' /\ DosVeces'
  BY <1>2, <1>3, <1>4, <1>12, <1>13, <1>14, AvisosEnvia
<1>16. /\ Sabidos'
       /\ \A d \in Cpus : \A k \in 1 .. Len(rx'[d]) :
            rx'[d][k].t = "CTX" => Publico(rx'[d][k].ctx, sticks, spc)
  BY <1>2, <1>3, <1>4, ContextosEnvia
<1>17. Publicos'
  BY <1>2, <1>16 DEF IInv, Publicos
<1> QED BY <1>9, <1>10, <1>11, <1>15, <1>16, <1>17 DEF IInv

LEMMA StickAvisaInv ==
  ASSUME IInv, NEW s \in Sticks, StickAvisa(s)
  PROVE  IInv'
<1>1. PICK c : c = Head(spend[s])
  OBVIOUS
<1>2. PICK e : e = EntradaDe(s)
  OBVIOUS
<1>3. PICK m : m = MsgStick(e)
  OBVIOUS
<1>4. /\ spc[s] = "avisa" /\ spend[s] # <<>> /\ Enviar(c, m)
      /\ spend' = [spend EXCEPT ![s] = Tail(spend[s])]
      /\ UNCHANGED <<fase, proximo, ctx, conoce, resp, pedido, hpc, hpend, spc,
                     registradas, sticks, tabla, libre>>
  BY <1>1, <1>2, <1>3, FormaAltas DEF StickAvisa, EsTabla, cpuVars, kerVars
<1>5. e \in Range(sticks) /\ e.id = s
  BY <1>2, <1>4, LaEntrada
<1>6. m.t = "STICK" /\ m.stick = e /\ Anuncia(m) = s
  BY <1>3, <1>5 DEF MsgStick, Msg, Anuncia
<1>7. /\ EsTabla(spend', Sticks) /\ spend'[s] = Tail(spend[s])
      /\ \A u \in Sticks \ {s} : spend'[u] = spend[u]
  BY <1>4, FormaAltas DEF EsTabla
<1>8. /\ Sucesion(spend'[s]) /\ c \in Range(spend[s])
      /\ Range(spend'[s]) \subseteq Range(spend[s])
      /\ Range(spend[s]) = {c} \union Range(spend'[s])
  BY <1>1, <1>4, <1>7, FormaAltas, AlPrincipio
<1>9. /\ \A i, j \in 1 .. Len(spend'[s]) : spend'[s][i] = spend'[s][j] => i = j
      /\ c \notin Range(spend'[s])
  <2>1. \A i, j \in 1 .. Len(spend[s]) : spend[s][i] = spend[s][j] => i = j
    BY DEF IInv, Registro
  <2>2. Sucesion(spend[s])
    BY FormaAltas
  <2> QED BY <1>1, <1>4, <1>7, <2>1, <2>2, SinCabeza
<1>10. c \in Cpus
  BY <1>8 DEF IInv, Registro
<1>11. EsTabla(rx', Cpus) /\ \A d \in Cpus : Sucesion(rx'[d])
  BY <1>4, <1>10, TrasEnviar
<1>12. Forma'
  BY <1>4, <1>7, <1>8, <1>11 DEF IInv, Forma
<1>13. Lista'
  BY <1>4 DEF IInv, Lista
<1>14. Registro'
  <2>1. \A u \in Sticks :
          /\ \A i, j \in 1 .. Len(spend'[u]) : spend'[u][i] = spend'[u][j] => i = j
          /\ Range(spend'[u]) \subseteq Cpus
          /\ spend'[u] # <<>> => spc[u] = "avisa"
    BY <1>4, <1>7, <1>8, <1>9 DEF IInv, Registro
  <2> QED BY <1>4, <2>1 DEF IInv, Registro
<1>15. \A d \in Cpus, u \in Sticks :
         /\ AvisaCpu(d, u)' <=> AvisaCpu(d, u)
         /\ AvisaStick(d, u)' => AvisaStick(d, u)
         /\ d # c \/ u # s => (AvisaStick(d, u) => AvisaStick(d, u)')
  BY <1>4, <1>7, <1>8 DEF AvisaStick, AvisaCpu
<1>16. AvisaStick(c, s) /\ ~AvisaStick(c, s)'
  BY <1>4, <1>8, <1>9 DEF AvisaStick
<1>17. Noticias' /\ Avisado' /\ DosVeces'
  BY <1>4, <1>5, <1>6, <1>10, <1>15, <1>16, AvisosEnvia
<1>18. /\ Sabidos'
       /\ \A d \in Cpus : \A k \in 1 .. Len(rx'[d]) :
            rx'[d][k].t = "CTX" => Publico(rx'[d][k].ctx, sticks, spc)
  BY <1>4, <1>6, <1>10, ContextosEnvia
<1>19. Publicos'
  BY <1>4, <1>18 DEF IInv, Publicos
<1> QED BY <1>12, <1>13, <1>14, <1>17, <1>18, <1>19 DEF IInv

-----------------------------------------------------------------------------
(* A CPU takes a message off its stream.                                   *)

LEMMA SabeSaca ==
  ASSUME NEW q, NEW r, Sucesion(r), r # <<>>, NEW z, Range(q) \subseteq Range(z),
         Sobran /\ Head(r).t = "STICK" => Head(r).stick \in Range(z)
  PROVE  /\ \A e : \A k \in Int : Sabe(q, r, e, k + 1) => Sabe(z, Tail(r), e, k)
         /\ \A x, l : \A k \in Int : Alcanza(x, l, q, r, k + 1) => Alcanza(x, l, z, Tail(r), k)
         /\ \A x, l : Alcanza(x, l, q, r, 0) => Alcanza(x, l, z, Tail(r), 0)
<1> DEFINE t == Tail(r)
<1>1. /\ Len(r) \in Nat /\ Len(r) > 0 /\ Len(t) = Len(r) - 1 /\ Head(r) = r[1]
      /\ \A i \in 1 .. Len(t) : t[i] = r[i + 1]
  BY AlPrincipio, PartesDe
<1> HIDE DEF t
<1>2. ASSUME NEW e, NEW k \in Int, Sabe(q, r, e, k + 1) PROVE Sabe(z, t, e, k)
  <2>1. CASE e \in Range(q) \/ ~Sobran
    BY <2>1 DEF Sabe
  <2>2. CASE e \notin Range(q) /\ Sobran
    <3>1. PICK j \in 1 .. Len(r) : j < k + 1 /\ r[j].t = "STICK" /\ r[j].stick = e
      BY <1>2, <2>2 DEF Sabe
    <3>2. CASE j = 1
      BY <1>1, <2>2, <3>1, <3>2 DEF Sabe
    <3>3. CASE j # 1
      <4>1. j - 1 \in 1 .. Len(t) /\ j - 1 < k /\ (j - 1) + 1 = j
        BY <1>1, <3>1, <3>3
      <4>2. t[j - 1] = r[j]
        BY <1>1, <4>1
      <4> QED BY <3>1, <4>1, <4>2 DEF Sabe
    <3> QED BY <3>2, <3>3
  <2> QED BY <2>1, <2>2
<1>3. \A x, l : \A k \in Int : Alcanza(x, l, q, r, k + 1) => Alcanza(x, l, z, t, k)
  BY <1>2 DEF Alcanza
<1>4. \A e : Sobran /\ Sabe(q, r, e, 0) => e \in Range(z)
  BY <1>1 DEF Sabe
<1>5. \A e : Sabe(q, r, e, 0) => Sabe(z, t, e, 0)
  BY <1>4 DEF Sabe
<1>6. \A x, l : Alcanza(x, l, q, r, 0) => Alcanza(x, l, z, t, 0)
  BY <1>5 DEF Alcanza
<1> QED BY <1>2, <1>3, <1>6 DEF t

\* A stick moves from the stream to the table: nothing changes place.
LEMMA CuentaMueve ==
  ASSUME NEW q, Sucesion(q), NEW r, Sucesion(r), r # <<>>, Head(r).t = "STICK", NEW s
  PROVE  LET z == Append(q, Head(r).stick)
         IN  /\ Ninguno(q, r, s) => Ninguno(z, Tail(r), s)
             /\ Uno(q, r, s) => Uno(z, Tail(r), s)
             /\ Dos(q, r, s) => Dos(z, Tail(r), s)
<1> DEFINE t == Tail(r)
           z == Append(q, Head(r).stick)
<1>1. /\ Len(r) \in Nat /\ Len(r) > 0 /\ Len(t) = Len(r) - 1 /\ Head(r) = r[1]
      /\ \A i \in 1 .. Len(t) : t[i] = r[i + 1]
  BY AlPrincipio, PartesDe
<1>2. /\ Len(q) \in Nat /\ Len(z) = Len(q) + 1 /\ z[Len(q) + 1] = Head(r).stick
      /\ \A i \in 1 .. Len(q) : z[i] = q[i]
  BY AlFinal, PartesDe
<1> HIDE DEF t, z
<1>3. Puestos(z, t) = Puestos(q, r)
  BY <1>1, <1>2 DEF Puestos
<1>4. ASSUME NEW n \in Puestos(q, r) PROVE Puesto(z, t, n) = Puesto(q, r, n)
  <2>1. n \in Int /\ 1 <= n /\ n <= Len(q) + Len(r)
    BY <1>1, <1>2 DEF Puestos
  <2>2. CASE n <= Len(q)
    <3>1. n \in 1 .. Len(q) /\ n <= Len(z)
      BY <1>2, <2>1, <2>2
    <3> QED BY <1>2, <2>2, <3>1 DEF Puesto
  <2>3. CASE n = Len(q) + 1
    <3>1. ~(n <= Len(q)) /\ n <= Len(z) /\ n - Len(q) = 1
      BY <1>2, <2>3
    <3> QED BY <1>1, <1>2, <2>3, <3>1 DEF Puesto
  <2>4. CASE n > Len(q) + 1
    <3>1. /\ ~(n <= Len(q)) /\ ~(n <= Len(z)) /\ n - Len(z) \in 1 .. Len(t)
          /\ (n - Len(z)) + 1 = n - Len(q)
      BY <1>1, <1>2, <2>1, <2>4
    <3>2. t[n - Len(z)] = r[n - Len(q)]
      BY <1>1, <3>1
    <3> QED BY <3>1, <3>2 DEF Puesto
  <2> QED BY <1>2, <2>1, <2>2, <2>3, <2>4
<1>5. Ninguno(q, r, s) => Ninguno(z, t, s)
  BY <1>3, <1>4 DEF Ninguno
<1>6. Uno(q, r, s) => Uno(z, t, s)
  BY <1>3, <1>4 DEF Uno
<1>7. Dos(q, r, s) => Dos(z, t, s)
  BY <1>3, <1>4 DEF Dos
<1> QED BY <1>5, <1>6, <1>7 DEF z, t

\* A message goes.
LEMMA CuentaSaca ==
  ASSUME NEW q, Sucesion(q), NEW r, Sucesion(r), r # <<>>, NEW s
  PROVE  /\ Ninguno(q, r, s) => Ninguno(q, Tail(r), s)
         /\ Uno(q, r, s) => Uno(q, Tail(r), s)
         /\ Dos(q, r, s) => Dos(q, Tail(r), s)
<1> DEFINE t == Tail(r)
           g == [n \in Puestos(q, t) |-> IF n <= Len(q) THEN n ELSE n + 1]
<1>1. /\ Len(r) \in Nat /\ Len(r) > 0 /\ Len(t) = Len(r) - 1
      /\ \A i \in 1 .. Len(t) : t[i] = r[i + 1]
  BY AlPrincipio, PartesDe
<1>2. Len(q) \in Nat
  BY PartesDe
<1> HIDE DEF t
<1>3. ASSUME NEW n \in Puestos(q, t)
      PROVE  g[n] \in Puestos(q, r) /\ Puesto(q, r, g[n]) = Puesto(q, t, n)
  <2>1. n \in Int /\ 1 <= n /\ n <= Len(q) + Len(t)
    BY <1>1, <1>2 DEF Puestos
  <2>2. CASE n <= Len(q)
    BY <1>1, <1>2, <2>1, <2>2 DEF Puestos, Puesto
  <2>3. CASE ~(n <= Len(q))
    <3>1. /\ g[n] = n + 1 /\ ~(n + 1 <= Len(q)) /\ n - Len(q) \in 1 .. Len(t)
          /\ (n - Len(q)) + 1 = (n + 1) - Len(q)
      BY <1>1, <1>2, <2>1, <2>3
    <3>2. t[n - Len(q)] = r[(n + 1) - Len(q)]
      BY <1>1, <3>1
    <3>3. n + 1 \in Puestos(q, r)
      BY <1>1, <1>2, <2>1 DEF Puestos
    <3> QED BY <2>3, <3>1, <3>2, <3>3 DEF Puesto
  <2> QED BY <2>2, <2>3
<1>4. \A n, m \in Puestos(q, t) : g[n] = g[m] => n = m
  BY <1>1, <1>2 DEF Puestos
<1> HIDE DEF g
<1>5. Ninguno(q, r, s) => Ninguno(q, t, s)
  BY <1>3 DEF Ninguno
<1>6. Uno(q, r, s) => Uno(q, t, s)
  BY <1>3, <1>4 DEF Uno
<1>7. Dos(q, r, s) => Dos(q, t, s)
  BY <1>3, <1>4 DEF Dos
<1> QED BY <1>5, <1>6, <1>7 DEF t


\* The entries of the table are among those counted.
LEMMA EnLaTabla ==
  ASSUME NEW q, NEW r, Len(q) \in Nat, Len(r) \in Nat,
         NEW i \in 1 .. Len(q), NEW j \in 1 .. Len(q), NEW k \in 1 .. Len(q),
         q[i].id = q[j].id, q[j].id = q[k].id
  PROVE  Dos(q, r, q[i].id) => i = j \/ j = k \/ i = k
<1>1. \A n \in 1 .. Len(q) : Puesto(q, r, n) = q[n].id
  BY DEF Puesto
<1>2. \A n \in 1 .. Len(q) : n \in Puestos(q, r)
  BY DEF Puestos
<1>3. /\ Puesto(q, r, i) = q[i].id /\ Puesto(q, r, j) = q[i].id
      /\ Puesto(q, r, k) = q[i].id
  BY <1>1
<1> QED BY <1>2, <1>3 DEF Dos

\* conectar_a_memory_stick ignores a stick only if the CPU has it already.
LEMMA EntraSiempre ==
  ASSUME IInv, Sobran, NEW c \in Cpus, rx[c] # <<>>, Head(rx[c]).t = "STICK",
         ~(Len(conoce[c]) < MaxSticks)
  PROVE  Head(rx[c]).stick \in Range(conoce[c])
<1> DEFINE q == conoce[c]
           e == Head(rx[c]).stick
           S == Sticks \ {e.id}
<1> SUFFICES ASSUME e \notin Range(q) PROVE FALSE
  OBVIOUS
<1>1. Sucesion(q) /\ Sucesion(rx[c])
  BY DEF IInv, Forma
<1>2. Len(q) \in Nat /\ \A i \in 1 .. Len(q) : q[i] \in Range(q)
  BY <1>1, PartesDe
<1>3. Head(rx[c]) = rx[c][1] /\ 1 \in 1 .. Len(rx[c]) /\ Len(rx[c]) \in Nat
  BY <1>1, AlPrincipio, PartesDe
<1>4. e \in Range(sticks) /\ Range(q) \subseteq Range(sticks)
  BY <1>3 DEF IInv, Noticias
<1>5. \A f \in Range(sticks) : f.id \in Sticks
  BY DEF IInv, Lista
<1> HIDE DEF e
<1>6. \A i \in 1 .. Len(q) : q[i].id \in S
  BY <1>2, <1>4, <1>5, UnaEntrada
<1>7. \A i, j, k \in 1 .. Len(q) :
        q[i].id = q[j].id /\ q[j].id = q[k].id => i = j \/ j = k \/ i = k
  <2> SUFFICES ASSUME NEW i \in 1 .. Len(q), NEW j \in 1 .. Len(q), NEW k \in 1 .. Len(q),
                      q[i].id = q[j].id, q[j].id = q[k].id
               PROVE  i = j \/ j = k \/ i = k
    OBVIOUS
  <2>1. q[i].id \in Sticks
    BY <1>6
  <2>2. Dos(q, rx[c], q[i].id)
    BY <2>1 DEF IInv, DosVeces
  <2>3. Len(q) \in Nat /\ Len(rx[c]) \in Nat
    BY <1>2, <1>3
  <2> HIDE DEF q
  <2> DEFINE r == rx[c]
  <2>4. Dos(q, r, q[i].id) /\ Len(r) \in Nat
    BY <2>2, <2>3
  <2> HIDE DEF r
  <2> QED BY <2>3, <2>4, EnLaTabla, Zenon
<1>8. IsFiniteSet(Sticks) /\ e.id \in Sticks /\ MaxSticks \in Nat
  BY <1>4, <1>5, CpuAssumption
<1>9. IsFiniteSet(S) /\ Cardinality(S) = Cardinality(Sticks) - 1
  BY <1>8, FS_RemoveElement
<1>10. Cardinality(Sticks) \in Nat
  BY <1>8, FS_CardinalityType
<1> HIDE DEF q, S
<1>11. Len(q) <= 2 * Cardinality(S)
  BY <1>1, <1>6, <1>7, <1>9, DosDeCada
<1>12. ~(Len(q) < MaxSticks)
  BY DEF q
<1> QED BY <1>2, <1>8, <1>9, <1>10, <1>11, <1>12 DEF Sobran

\* c takes the first message off; if it announced a stick, c has it now or is out
\* of step for good.
LEMMA Saca ==
  ASSUME IInv, NEW c \in Cpus, rx[c] # <<>>, rx' = [rx EXCEPT ![c] = Tail(rx[c])],
         UNCHANGED <<altaVars, tabla, ctx, pedido, libre, proximo>>,
         EsTabla(conoce', Cpus), \A d \in Cpus \ {c} : conoce'[d] = conoce[d],
         conoce'[c] = conoce[c] \/
           (Head(rx[c]).t = "STICK" /\ conoce'[c] = Append(conoce[c], Head(rx[c]).stick)),
         fase' \in [Cpus -> Fases], \A d \in Cpus \ {c} : fase'[d] = fase[d],
         fase[c] # "desfasada", fase'[c] \in Cargado => fase[c] \in Cargado,
         Sobran /\ fase'[c] # "desfasada" /\ Head(rx[c]).t = "STICK" =>
           Head(rx[c]).stick \in Range(conoce'[c]),
         EsTabla(resp', Cpus), \A d \in Cpus \ {c} : resp'[d] = resp[d],
         resp'[c] = resp[c] \/ resp'[c] = Head(rx[c])
  PROVE  IInv'
<1> DEFINE q == conoce[c]
           r == rx[c]
           z == conoce'[c]
           m == Head(r)
           t == Tail(r)
<1>1. Sucesion(q) /\ Sucesion(r) /\ EsTabla(rx, Cpus) /\ \A d \in Cpus : Sucesion(conoce[d]) /\ Sucesion(rx[d])
  BY DEF IInv, Forma
<1>2. EsTabla(rx', Cpus) /\ rx'[c] = t /\ \A d \in Cpus \ {c} : rx'[d] = rx[d]
  BY <1>1 DEF EsTabla
<1>3. /\ Sucesion(t) /\ Len(r) \in Nat /\ Len(r) > 0 /\ Len(t) = Len(r) - 1 /\ m = r[1]
      /\ \A i \in 1 .. Len(t) : t[i] = r[i + 1]
  BY <1>1, AlPrincipio, PartesDe
<1>4. /\ 1 \in 1 .. Len(r) /\ \A i \in 1 .. Len(t) : i + 1 \in 1 .. Len(r)
  BY <1>3
<1>5. m.t = "STICK" => m.stick \in Range(sticks)
  BY <1>3, <1>4 DEF IInv, Noticias
<1>6. Sucesion(z) /\ Range(q) \subseteq Range(z) /\ Range(z) \subseteq Range(sticks)
  <2>1. Range(q) \subseteq Range(sticks)
    BY DEF IInv, Noticias
  <2>2. CASE z = q
    BY <1>1, <2>1, <2>2
  <2>3. CASE m.t = "STICK" /\ z = Append(q, m.stick)
    <3>1. Sucesion(z) /\ Range(z) = Range(q) \union {m.stick}
      BY <1>1, <2>3, AlFinal
    <3> QED BY <1>5, <2>1, <2>3, <3>1
  <2> QED BY <2>2, <2>3
<1>7. UNCHANGED <<hpc, hpend, spc, spend, registradas, sticks>>
  BY DEF altaVars
<1>8. Forma'
  <2>1. \A d \in Cpus : Sucesion(rx'[d]) /\ Sucesion(conoce'[d])
    BY <1>1, <1>2, <1>3, <1>6
  <2> QED BY <1>2, <1>7, <2>1 DEF IInv, Forma
<1>9. Lista'
  BY <1>7 DEF IInv, Lista
<1>10. Registro'
  BY <1>7 DEF IInv, Registro
<1>11. Noticias'
  <2>1. \A k \in 1 .. Len(t) : t[k].t = "STICK" => t[k].stick \in Range(sticks)
    BY <1>3, <1>4 DEF IInv, Noticias
  <2> HIDE DEF t, z
  <2> QED BY <1>2, <1>6, <1>7, <2>1 DEF IInv, Noticias, z
<1>12. \A d \in Cpus, s \in Sticks : /\ AvisaStick(d, s)' <=> AvisaStick(d, s)
                                     /\ AvisaCpu(d, s)' <=> AvisaCpu(d, s)
  BY <1>7 DEF AvisaStick, AvisaCpu
<1>13. \A s : /\ Ninguno(q, r, s) => Ninguno(z, t, s)
              /\ Uno(q, r, s) => Uno(z, t, s)
              /\ Dos(q, r, s) => Dos(z, t, s)
  <2>1. CASE z = q
    BY <1>1, <2>1, CuentaSaca
  <2>2. CASE m.t = "STICK" /\ z = Append(q, m.stick)
    BY <1>1, <2>2, CuentaMueve
  <2> QED BY <2>1, <2>2
<1>14. DosVeces'
  <2> HIDE DEF t, z
  <2>1. ASSUME NEW d \in Cpus, NEW s \in Sticks
        PROVE  /\ Ninguno(conoce[d], rx[d], s) => Ninguno(conoce'[d], rx'[d], s)
               /\ Uno(conoce[d], rx[d], s) => Uno(conoce'[d], rx'[d], s)
               /\ Dos(conoce[d], rx[d], s) => Dos(conoce'[d], rx'[d], s)
    BY <1>2, <1>13 DEF z
  <2> QED BY <1>12, <2>1 DEF IInv, DosVeces
<1>15. fase'[c] # "desfasada" =>
         /\ \A e : \A k \in Int : Sabe(q, r, e, k + 1) => Sabe(z, t, e, k)
         /\ \A x, l : \A k \in Int : Alcanza(x, l, q, r, k + 1) => Alcanza(x, l, z, t, k)
         /\ \A x, l : Alcanza(x, l, q, r, 0) => Alcanza(x, l, z, t, 0)
  BY <1>1, <1>6, SabeSaca
<1>16. Avisado'
  <2>1. ASSUME NEW d \in Cpus, fase'[d] # "desfasada", NEW e \in Range(sticks),
               ~AvisaStick(d, e.id), ~AvisaCpu(d, e.id)
        PROVE  Sabe(conoce'[d], rx'[d], e, Len(rx'[d]) + 1)
    <3>1. Sabe(conoce[d], rx[d], e, Len(rx[d]) + 1)
      BY <2>1 DEF IInv, Avisado
    <3>2. CASE d # c
      BY <1>2, <3>1, <3>2
    <3>3. CASE d = c
      <4>1. Len(r) = Len(t) + 1 /\ Len(t) + 1 \in Int
        BY <1>3
      <4>2. Sabe(z, t, e, Len(t) + 1)
        BY <1>15, <2>1, <3>1, <3>3, <4>1
      <4> QED BY <1>2, <3>3, <4>2
    <3> QED BY <3>2, <3>3
  <2>2. \A e \in Range(sticks) : e.id \in Sticks
    BY DEF IInv, Lista
  <2> QED BY <1>7, <1>12, <2>1, <2>2 DEF Avisado
<1>17. Publicos'
  <2>1. ASSUME NEW d \in Cpus
        PROVE  /\ fase'[d] \in Cargado => Publico(ctx[d], sticks, spc)
               /\ resp'[d].t = "CTX" => Publico(resp'[d].ctx, sticks, spc)
               /\ \A k \in 1 .. Len(rx'[d]) :
                    rx'[d][k].t = "CTX" => Publico(rx'[d][k].ctx, sticks, spc)
    <3>1. CASE d # c
      BY <1>2, <3>1 DEF IInv, Publicos
    <3>2. CASE d = c
      <4>1. \A k \in 1 .. Len(r) : r[k].t = "CTX" => Publico(r[k].ctx, sticks, spc)
        BY DEF IInv, Publicos
      <4>2. m.t = "CTX" => Publico(m.ctx, sticks, spc)
        BY <1>3, <1>4, <4>1
      <4>3. \A k \in 1 .. Len(t) : t[k].t = "CTX" => Publico(t[k].ctx, sticks, spc)
        BY <1>3, <1>4, <4>1
      <4> HIDE DEF t, m
      <4>4. resp'[c].t = "CTX" => Publico(resp'[c].ctx, sticks, spc)
        BY <4>2 DEF IInv, Publicos, m
      <4> QED BY <1>2, <3>2, <4>3, <4>4 DEF IInv, Publicos
    <3> QED BY <3>1, <3>2
  <2> QED BY <1>7, <2>1 DEF IInv, Publicos
<1>18. Sabidos'
  <2>1. ASSUME NEW d \in Cpus, fase'[d] # "desfasada"
        PROVE  /\ \A k \in 1 .. Len(rx'[d]) : rx'[d][k].t = "CTX" =>
                    Alcanza(rx'[d][k].ctx, sticks, conoce'[d], rx'[d], k)
               /\ resp'[d].t = "CTX" => Alcanza(resp'[d].ctx, sticks, conoce'[d], rx'[d], 0)
               /\ fase'[d] \in Cargado => Alcanza(ctx[d], sticks, conoce'[d], rx'[d], 0)
    <3>1. CASE d # c
      BY <1>2, <2>1, <3>1 DEF IInv, Sabidos
    <3>2. CASE d = c
      <4>1. /\ \A k \in 1 .. Len(r) : r[k].t = "CTX" => Alcanza(r[k].ctx, sticks, q, r, k)
            /\ resp[c].t = "CTX" => Alcanza(resp[c].ctx, sticks, q, r, 0)
            /\ fase[c] \in Cargado => Alcanza(ctx[c], sticks, q, r, 0)
        BY DEF IInv, Sabidos
      <4>2. m.t = "CTX" => Alcanza(m.ctx, sticks, z, t, 0)
        <5>1. m.t = "CTX" => Alcanza(m.ctx, sticks, q, r, 0 + 1)
          BY <1>3, <1>4, <4>1
        <5> QED BY <1>15, <2>1, <3>2, <5>1
      <4>3. ASSUME NEW k \in 1 .. Len(t), t[k].t = "CTX"
            PROVE  Alcanza(t[k].ctx, sticks, z, t, k)
        <5>1. k \in Int /\ Alcanza(t[k].ctx, sticks, q, r, k + 1)
          BY <1>3, <1>4, <4>1, <4>3
        <5> QED BY <1>15, <2>1, <3>2, <5>1
      <4>4. resp'[c].t = "CTX" => Alcanza(resp'[c].ctx, sticks, z, t, 0)
        BY <1>15, <2>1, <3>2, <4>1, <4>2
      <4>5. fase'[c] \in Cargado => Alcanza(ctx[c], sticks, z, t, 0)
        BY <1>15, <2>1, <3>2, <4>1
      <4> HIDE DEF t
      <4> QED BY <1>2, <3>2, <4>3, <4>4, <4>5
    <3> QED BY <3>1, <3>2
  <2> QED BY <1>7, <2>1 DEF Sabidos
<1> QED BY <1>8, <1>9, <1>10, <1>11, <1>14, <1>16, <1>17, <1>18 DEF IInv

LEMMA FormaRed ==
  ASSUME IInv
  PROVE  /\ EsTabla(rx, Cpus) /\ EsTabla(conoce, Cpus) /\ EsTabla(resp, Cpus)
         /\ fase \in [Cpus -> Fases]
  BY DEF IInv, Forma

LEMMA CpuConfigInv ==
  ASSUME IInv, NEW c \in Cpus, CpuConfig(c)
  PROVE  IInv'
<1> DEFINE m == Head(rx[c])
<1>1. /\ fase[c] = "config" /\ rx[c] # <<>>
      /\ fase' = [fase EXCEPT ![c] = IF m.t = "CONFIG" THEN "libre" ELSE "desfasada"]
      /\ UNCHANGED <<proximo, ctx, conoce, resp, pedido, altaVars, tabla, libre>>
  BY DEF CpuConfig, kerVars
<1>2. rx' = [rx EXCEPT ![c] = Tail(rx[c])]
  BY FormaRed DEF CpuConfig, EsTabla
<1>3. /\ fase' \in [Cpus -> Fases] /\ \A d \in Cpus \ {c} : fase'[d] = fase[d]
      /\ fase'[c] \notin Cargado /\ fase[c] # "desfasada"
      /\ fase'[c] # "desfasada" => m.t # "STICK"
  BY <1>1, FormaRed DEF Fases, Cargado
<1> QED BY <1>1, <1>2, <1>3, FormaRed, Saca

LEMMA EscucharInv ==
  ASSUME IInv, NEW c \in Cpus, Escuchar(c)
  PROVE  IInv'
<1> DEFINE m == Head(rx[c])
<1>1. /\ fase[c] # "desfasada" /\ rx[c] # <<>>
      /\ UNCHANGED <<fase, proximo, ctx, pedido, altaVars, tabla, libre>>
  BY DEF Escuchar, cpuVars, kerVars
<1>2. rx' = [rx EXCEPT ![c] = Tail(rx[c])]
  BY FormaRed DEF Escuchar, EsTabla
<1>3. CASE m.t = "STICK"
  <2>1. resp' = resp /\ AgregarStick(c, m.stick)
    BY <1>3 DEF Escuchar
  <2>2. CASE Len(conoce[c]) < MaxSticks
    <3>1. conoce' = [conoce EXCEPT ![c] = Append(conoce[c], m.stick)]
      BY <2>1, <2>2, FormaRed DEF AgregarStick, EsTabla
    <3> HIDE DEF m
    <3>2. /\ EsTabla(conoce', Cpus) /\ conoce'[c] = Append(conoce[c], m.stick)
          /\ \A d \in Cpus \ {c} : conoce'[d] = conoce[d]
      BY <3>1, FormaRed DEF EsTabla
    <3>3. Sucesion(conoce[c])
      BY DEF IInv, Forma
    <3>4. m.stick \in Range(conoce'[c])
      BY <3>2, <3>3, AlFinal
    <3> QED BY <1>1, <1>2, <1>3, <2>1, <3>2, <3>4, FormaRed, Saca DEF m
  <2>3. CASE ~(Len(conoce[c]) < MaxSticks)
    <3>1. conoce' = conoce
      BY <2>1, <2>3 DEF AgregarStick
    <3>2. Sobran => m.stick \in Range(conoce[c])
      BY <1>1, <1>3, <2>3, EntraSiempre
    <3> QED BY <1>1, <1>2, <1>3, <2>1, <3>1, <3>2, FormaRed, Saca
  <2> QED BY <2>2, <2>3
<1>4. CASE m.t # "STICK"
  <2>1. conoce' = conoce /\ resp' = [resp EXCEPT ![c] = m]
    BY <1>4 DEF Escuchar, Responder
  <2> HIDE DEF m
  <2>2. EsTabla(resp', Cpus) /\ resp'[c] = m /\ \A d \in Cpus \ {c} : resp'[d] = resp[d]
    BY <2>1, FormaRed DEF EsTabla
  <2> QED BY <1>1, <1>2, <1>4, <2>1, <2>2, FormaRed, Saca DEF m
<1> QED BY <1>3, <1>4

\* INTERRUPCION touches nothing of this.
LEMMA MismoEstado ==
  ASSUME IInv,
         UNCHANGED <<fase, proximo, ctx, conoce, resp, rx, pedido, altaVars, tabla, libre>>
  PROVE  IInv'
<1>1. Forma'
  BY DEF IInv, Forma, altaVars
<1>2. Lista' /\ Registro' /\ Noticias'
  BY DEF IInv, Lista, Registro, Noticias, altaVars
<1>3. Avisado' /\ DosVeces'
  BY DEF IInv, Avisado, DosVeces, AvisaStick, AvisaCpu, altaVars
<1>4. Publicos' /\ Sabidos'
  BY DEF IInv, Publicos, Sabidos, altaVars
<1> QED BY <1>1, <1>2, <1>3, <1>4 DEF IInv

-----------------------------------------------------------------------------
(* The start.                                                              *)

\* The sticks connected at the start, one entry each.
LEMMA InicioSticks ==
  /\ Sucesion(SticksInicio) /\ Len(SticksInicio) = Len(StickBase)
  /\ Len(StickBase) \in Nat /\ Sucesion(StickBase)
  /\ \A k \in 1 .. Len(StickBase) :
       /\ StickBase[k] \in Sticks /\ SticksInicio[k].id = StickBase[k]
       /\ SticksInicio[k].tam = TamStick[StickBase[k]]
<1> DEFINE N == Len(StickBase)
           w == [k \in 1 .. N |-> TamStick[StickBase[k]]]
           v(k) == [id |-> StickBase[k], tam |-> w[k], base |-> Suma(w, k - 1)]
           V == {v(k) : k \in 1 .. N}
<1>1. StickBase \in Seq(Sticks)
  BY CpuAssumption, Zenon
<1>2. N \in Nat /\ \A k \in 1 .. N : StickBase[k] \in Sticks
  BY <1>1, ElementOfSeq, LenProperties
<1>3. SticksInicio = [k \in 1 .. N |-> v(k)]
  BY Zenon DEF SticksInicio
<1>4. \A k \in 1 .. N : v(k).id = StickBase[k] /\ v(k).tam = TamStick[StickBase[k]]
  OBVIOUS
<1> HIDE DEF N, v
<1>5. SticksInicio \in [1 .. N -> V] /\ DOMAIN SticksInicio = 1 .. N
  BY <1>3
<1>6. SticksInicio \in Seq(V) /\ Len(SticksInicio) = N
  <2>1. SticksInicio \in Seq(V)
    BY <1>2, <1>5, SeqDef
  <2>2. Len(SticksInicio) \in Nat /\ DOMAIN SticksInicio = 1 .. Len(SticksInicio)
    BY <2>1, LenProperties
  <2> QED BY <1>2, <1>5, <2>1, <2>2
<1>7. Sucesion(SticksInicio) /\ Sucesion(StickBase)
  BY <1>1, <1>6, EsSucesion
<1> QED BY <1>2, <1>3, <1>4, <1>6, <1>7 DEF N

\* SetToSeq lists a finite set without repetitions.
LEMMA EnFila ==
  ASSUME NEW P, IsFiniteSet(P)
  PROVE  /\ Sucesion(SetToSeq(P)) /\ Range(SetToSeq(P)) = P
         /\ \A i, j \in 1 .. Len(SetToSeq(P)) : SetToSeq(P)[i] = SetToSeq(P)[j] => i = j
<1> DEFINE n == Cardinality(P)
           f == SetToSeq(P)
<1>1. n \in Nat /\ Bijection(1 .. n, P) # {}
  BY FS_CardinalityType DEF ExistsBijection
<1>2. \E g \in [1 .. n -> P] : IsInjective(g)
  BY <1>1 DEF Bijection, Injection
<1>3. f \in [1 .. n -> P] /\ IsInjective(f)
  BY <1>2, Zenon DEF SetToSeq
<1> HIDE DEF f, n
<1>4. f \in Injection(1 .. n, P)
  BY <1>3 DEF Injection
<1>5. Cardinality(1 .. n) = n
  <2>1. Cardinality(1 .. n) = IF 1 > n THEN 0 ELSE n - 1 + 1
    BY <1>1, FS_Interval
  <2> QED BY <1>1, <2>1
<1>6. f \in Surjection(1 .. n, P)
  <2>1. Cardinality(1 .. n) = Cardinality(P)
    BY <1>5 DEF n
  <2> QED BY <1>4, <2>1, FS_Injection
<1>7. Range(f) = P
  BY <1>3, <1>6 DEF Surjection, Range
<1>8. f \in Seq(P)
  BY <1>1, <1>3, SeqDef
<1>9. Len(f) \in Nat /\ DOMAIN f = 1 .. Len(f) /\ DOMAIN f = 1 .. n
  BY <1>3, <1>8, LenProperties
<1>10. \A i, j \in 1 .. Len(f) : f[i] = f[j] => i = j
  BY <1>3, <1>9 DEF IsInjective
<1>11. Sucesion(f)
  BY <1>8, EsSucesion
<1> QED BY <1>7, <1>10, <1>11 DEF f

\* What the invariant needs of the initial state.
LEMMA AlInicio ==
  ASSUME Init
  PROVE  /\ \A c \in Cpus :
              /\ proximo[c] = Nulo /\ ctx[c] = SinContexto /\ resp[c] = Msg("")
              /\ pedido[c] = SinPedido /\ rx[c] = <<>> /\ hpend[c] = <<>>
              /\ \/ fase[c] = "libre" /\ conoce[c] = sticks /\ hpc[c] = "sirve" /\ c \in Primeros
                 \/ fase[c] = "config" /\ conoce[c] = <<>> /\ hpc[c] = "no" /\ c \notin Primeros
         /\ \A s \in Sticks :
              /\ spend[s] = <<>>
              /\ IF s \in Range(StickBase) THEN spc[s] = "fin" ELSE spc[s] = "no"
         /\ registradas = SetToSeq(Primeros) /\ sticks = SticksInicio
         /\ \A p \in Procs : tabla[p] = Contexto(p)
         /\ \A a \in libre : \E e \in Range(sticks) : EnEntrada(a, e)
         /\ Primeros \subseteq Cpus /\ IsFiniteSet(Primeros)
<1>1. Primeros \subseteq Cpus /\ IsFiniteSet(Cpus)
  BY CpuAssumption, Zenon
<1>2. IsFiniteSet(Primeros)
  BY <1>1, FS_Subset
<1>3. sticks = SticksInicio /\ registradas = SetToSeq(Primeros)
  BY Zenon DEF Init
<1>4. /\ fase = [c \in Cpus |-> IF c \in Primeros THEN "libre" ELSE "config"]
      /\ conoce = [c \in Cpus |-> IF c \in Primeros THEN sticks ELSE <<>>]
      /\ hpc = [c \in Cpus |-> IF c \in Primeros THEN "sirve" ELSE "no"]
  BY <1>3, Zenon DEF Init
<1>5. /\ proximo = [c \in Cpus |-> Nulo] /\ ctx = [c \in Cpus |-> SinContexto]
      /\ resp = [c \in Cpus |-> Msg("")] /\ pedido = [c \in Cpus |-> SinPedido]
      /\ rx = [c \in Cpus |-> <<>>] /\ hpend = [c \in Cpus |-> <<>>]
  BY Zenon DEF Init
<1>6. /\ spc = [s \in Sticks |-> IF s \in Range(StickBase) THEN "fin" ELSE "no"]
      /\ spend = [s \in Sticks |-> <<>>]
      /\ tabla = [p \in Procs |-> Contexto(p)]
  BY Zenon DEF Init
<1>7. libre = UNION {Rango(e.base, e.tam) : e \in Range(sticks)}
  BY <1>3, Zenon DEF Init
<1>8. \A a \in libre : \E e \in Range(sticks) : EnEntrada(a, e)
  BY <1>7 DEF EnEntrada
<1>9. \A c \in Cpus :
        /\ proximo[c] = Nulo /\ ctx[c] = SinContexto /\ resp[c] = Msg("")
        /\ pedido[c] = SinPedido /\ rx[c] = <<>> /\ hpend[c] = <<>>
  BY <1>5
<1>10. \A c \in Cpus :
         \/ fase[c] = "libre" /\ conoce[c] = sticks /\ hpc[c] = "sirve" /\ c \in Primeros
         \/ fase[c] = "config" /\ conoce[c] = <<>> /\ hpc[c] = "no" /\ c \notin Primeros
  BY <1>4
<1>11. \A s \in Sticks :
         /\ spend[s] = <<>>
         /\ IF s \in Range(StickBase) THEN spc[s] = "fin" ELSE spc[s] = "no"
  BY <1>6
<1>12. \A p \in Procs : tabla[p] = Contexto(p)
  BY <1>6
<1> QED BY <1>1, <1>2, <1>3, <1>8, <1>9, <1>10, <1>11, <1>12

\* The tables of the initial state are tables.
LEMMA TablasInicio ==
  ASSUME Init
  PROVE  /\ fase \in [Cpus -> Fases] /\ proximo \in [Cpus -> Procs \union {Nulo}]
         /\ hpc \in [Cpus -> {"no", "config", "cuenta", "avisa", "sirve"}]
         /\ spc \in [Sticks -> {"no", "cuenta", "avisa", "fin"}]
         /\ EsTabla(rx, Cpus) /\ EsTabla(conoce, Cpus) /\ EsTabla(hpend, Cpus)
         /\ EsTabla(resp, Cpus) /\ EsTabla(pedido, Cpus) /\ EsTabla(ctx, Cpus)
         /\ EsTabla(spend, Sticks) /\ EsTabla(tabla, Procs)
<1>1. /\ fase = [c \in Cpus |-> IF c \in Primeros THEN "libre" ELSE "config"]
      /\ hpc = [c \in Cpus |-> IF c \in Primeros THEN "sirve" ELSE "no"]
      /\ spc = [s \in Sticks |-> IF s \in Range(StickBase) THEN "fin" ELSE "no"]
      /\ proximo = [c \in Cpus |-> Nulo]
  BY Zenon DEF Init
<1>2. /\ conoce = [c \in Cpus |-> IF c \in Primeros THEN SticksInicio ELSE <<>>]
      /\ resp = [c \in Cpus |-> Msg("")] /\ pedido = [c \in Cpus |-> SinPedido]
      /\ rx = [c \in Cpus |-> <<>>] /\ hpend = [c \in Cpus |-> <<>>]
      /\ ctx = [c \in Cpus |-> SinContexto] /\ spend = [s \in Sticks |-> <<>>]
      /\ tabla = [p \in Procs |-> Contexto(p)]
  BY Zenon DEF Init
<1>3. /\ EsTabla(rx, Cpus) /\ EsTabla(conoce, Cpus) /\ EsTabla(hpend, Cpus)
      /\ EsTabla(resp, Cpus) /\ EsTabla(pedido, Cpus) /\ EsTabla(ctx, Cpus)
      /\ EsTabla(spend, Sticks) /\ EsTabla(tabla, Procs)
  BY <1>2 DEF EsTabla
<1> QED BY <1>1, <1>3 DEF Fases

LEMMA InitInv ==
  ASSUME Init
  PROVE  IInv
<1>a. \A c \in Cpus : rx[c] = <<>> /\ hpend[c] = <<>>
  BY AlInicio, Zenon
<1>b. \A c \in Cpus :
        \/ fase[c] = "libre" /\ conoce[c] = sticks /\ hpc[c] = "sirve" /\ c \in Primeros
        \/ fase[c] = "config" /\ conoce[c] = <<>> /\ hpc[c] = "no" /\ c \notin Primeros
  BY AlInicio, Zenon
<1>f. \A c \in Cpus : fase[c] = "libre" \/ fase[c] = "config"
  BY <1>b, Zenon
<1>c. \A c \in Cpus : resp[c].t # "CTX" /\ pedido[c].t # "CTX" /\ pedido[c].t # "GUARDAR"
  <2>1. \A c \in Cpus : resp[c] = Msg("") /\ pedido[c] = SinPedido
    BY AlInicio, Zenon
  <2>2. Msg("").t = "" /\ SinPedido.t = ""
    BY DEF Msg, SinPedido, Pedido
  <2> QED BY <2>1, <2>2, Zenon
<1>d. \A s \in Sticks : IF s \in Range(StickBase) THEN spc[s] = "fin" ELSE spc[s] = "no"
  BY AlInicio, Zenon
<1>e. registradas = SetToSeq(Primeros) /\ IsFiniteSet(Primeros) /\ Primeros \subseteq Cpus
  BY AlInicio, Zenon
<1>1. Sucesion(<<>>) /\ Range(<<>>) = {} /\ Len(<<>>) = 0
  BY NadaEsSucesion, EmptySeq
<1>g. \A c \in Cpus : Len(rx[c]) = 0
  BY <1>1, <1>a, Zenon
<1>2. /\ Sucesion(registradas) /\ Range(registradas) = Primeros
      /\ \A i, j \in 1 .. Len(registradas) : registradas[i] = registradas[j] => i = j
  BY <1>e, EnFila
<1>3. /\ Sucesion(sticks) /\ Len(sticks) = Len(StickBase) /\ Len(StickBase) \in Nat
      /\ \A k \in 1 .. Len(StickBase) :
           /\ StickBase[k] \in Sticks /\ sticks[k].id = StickBase[k]
           /\ sticks[k].tam = TamStick[StickBase[k]]
  BY AlInicio, InicioSticks
<1>4. \A x : x \in Range(sticks) <=> \E i \in 1 .. Len(StickBase) : x = sticks[i]
  BY <1>3, PartesDe
<1>5. \A s : s \in Range(StickBase) <=> \E i \in 1 .. Len(StickBase) : s = StickBase[i]
  BY InicioSticks, PartesDe
<1>6. \A i, j \in 1 .. Len(StickBase) : StickBase[i] = StickBase[j] => i = j
  <2>1. IsInjective(StickBase) /\ Sucesion(StickBase)
    BY CpuAssumption, InicioSticks, Zenon
  <2>2. DOMAIN StickBase = 1 .. Len(StickBase)
    BY <2>1, PartesDe
  <2> QED BY <2>1, <2>2 DEF IsInjective
<1>7. Forma
  <2>1. /\ \A c \in Cpus : Sucesion(rx[c]) /\ Sucesion(conoce[c]) /\ Sucesion(hpend[c])
        /\ \A s \in Sticks : Sucesion(spend[s])
    BY <1>1, <1>3, AlInicio
  <2> QED BY <1>2, <1>3, <2>1, TablasInicio DEF Forma
<1>8. \A e \in Range(sticks) : e.id \in Sticks /\ spc[e.id] = "fin" /\ e.tam = TamStick[e.id]
  BY <1>3, <1>4, <1>5, <1>d
<1>9. Lista
  <2>1. \A i, j \in 1 .. Len(sticks) : sticks[i].id = sticks[j].id => i = j
    BY <1>3, <1>6
  <2>2. \A s \in Sticks : spc[s] # "no" => \E e \in Range(sticks) : e.id = s
    BY <1>3, <1>4, <1>5, <1>d
  <2> QED BY <1>8, <2>1, <2>2 DEF Lista
<1>10. Registro
  <2>1. \A s \in Sticks : spend[s] = <<>>
    BY AlInicio
  <2>2. \A c \in Cpus : hpend[c] = <<>>
    BY AlInicio
  <2>3. Range(registradas) = {c \in Cpus : hpc[c] # "no"}
    BY <1>2, AlInicio
  <2> QED BY <1>1, <1>2, <2>1, <2>2, <2>3 DEF Registro
<1>11. ASSUME NEW c \in Cpus
       PROVE  rx[c] = <<>> /\ (conoce[c] = sticks \/ (conoce[c] = <<>> /\ hpc[c] = "no"))
  <2>1. CASE fase[c] = "libre" /\ conoce[c] = sticks /\ hpc[c] = "sirve" /\ c \in Primeros
    BY <1>a, <2>1, Zenon
  <2>2. CASE fase[c] = "config" /\ conoce[c] = <<>> /\ hpc[c] = "no" /\ c \notin Primeros
    BY <1>a, <2>2, Zenon
  <2> QED BY <1>b, <2>1, <2>2, Zenon
<1>12. Noticias
  BY <1>1, <1>11 DEF Noticias
<1>13. Avisado
  BY <1>1, <1>11 DEF Avisado, AvisaCpu, Sabe
<1>14. DosVeces
  <2>1. \A c \in Cpus, s \in Sticks : conoce[c] = sticks /\ hpc[c] # "no" => ~AvisaCpu(c, s)
    BY <1>1, AlInicio DEF AvisaCpu
  <2>2. \A s \in Sticks : /\ Uno(sticks, <<>>, s) /\ Dos(sticks, <<>>, s)
                          /\ Ninguno(<<>>, <<>>, s) /\ Uno(<<>>, <<>>, s) /\ Dos(<<>>, <<>>, s)
    BY <1>1, <1>3, <1>6 DEF Uno, Dos, Ninguno, Puesto, Puestos
  <2>3. \A c \in Cpus, s \in Sticks : hpc[c] # "no" => ~AvisaCpu(c, s)
    BY <1>1, AlInicio DEF AvisaCpu
  <2>4. \A c \in Cpus, s \in Sticks :
          AvisaStick(c, s) /\ conoce[c] = sticks => Ninguno(sticks, <<>>, s)
    <3> SUFFICES ASSUME NEW c \in Cpus, NEW s \in Sticks, AvisaStick(c, s)
                 PROVE  Ninguno(sticks, <<>>, s)
      OBVIOUS
    <3>1. s \notin Range(StickBase)
      BY <1>1, AlInicio DEF AvisaStick
    <3> QED BY <1>1, <1>3, <1>5, <3>1 DEF Ninguno, Puesto, Puestos
  <2> QED BY <1>11, <2>2, <2>4 DEF DosVeces
<1>15. Publicos
  <2>1. \A a \in libre : Publicada(a, sticks, spc)
    BY <1>8, AlInicio DEF Publicada, EnEntrada
  <2>2. \A p \in Procs : Publico(tabla[p], sticks, spc)
    <3>1. ASSUME NEW p \in Procs
          PROVE  DOMAIN Contexto(p) = {"pid", "regs", "pc", "segs"} /\ Contexto(p).segs = <<>>
      BY DEF Contexto
    <3>2. \A p \in Procs : Publico(Contexto(p), sticks, spc)
      BY <1>1, <3>1 DEF Publico, EsContexto
    <3>3. \A p \in Procs : tabla[p] = Contexto(p)
      BY AlInicio, Zenon
    <3> QED BY <3>2, <3>3
  <2>3. \A c \in Cpus : /\ fase[c] \notin Cargado /\ pedido[c].t # "CTX"
                        /\ pedido[c].t # "GUARDAR" /\ resp[c].t # "CTX"
                        /\ 1 .. Len(rx[c]) = {}
    BY <1>c, <1>f, <1>g DEF Cargado
  <2> QED BY <2>1, <2>2, <2>3 DEF Publicos
<1>16. Sabidos
  <2>1. \A c \in Cpus : fase[c] \notin Cargado /\ resp[c].t # "CTX" /\ 1 .. Len(rx[c]) = {}
    BY <1>c, <1>f, <1>g DEF Cargado
  <2> QED BY <2>1 DEF Sabidos
<1> QED BY <1>7, <1>9, <1>10, <1>12, <1>13, <1>14, <1>15, <1>16 DEF IInv

-----------------------------------------------------------------------------
(* No CPU runs ahead of the news.                                          *)

LEMMA NextInv ==
  ASSUME IInv, [Next]_vars
  PROVE  IInv'
<1>1. CASE UNCHANGED vars
  BY <1>1, MismoEstado DEF vars, cpuVars, redVars, altaVars, kerVars
<1>2. ASSUME NEW c \in Cpus, Interrumpir(c) PROVE IInv'
  BY <1>2, MismoEstado DEF Interrumpir, redVars, altaVars, kerVars
<1>3. ASSUME NEW c \in Cpus, Alta(c) PROVE IInv'
  BY <1>3, RegistrarCpuInv, EnviarConfigInv, ContarSticksInv, AvisarStickInv, ServirInv
     DEF Alta
<1>4. ASSUME NEW c \in Cpus, Memoria(c) PROVE IInv'
  BY <1>4, MemoriaInv
<1>5. ASSUME NEW c \in Cpus, Oye(c) PROVE IInv'
  BY <1>5, CpuConfigInv, EscucharInv DEF Oye
<1>6. ASSUME NEW c \in Cpus, Ciclo(c) PROVE IInv'
  BY <1>6, CicloPaso, CicloInv
<1>7. ASSUME NEW s \in Sticks, AltaStick(s) PROVE IInv'
  BY <1>7, StickAgregaInv, StickCuentaInv, StickAvisaInv, StickLibreInv DEF AltaStick
<1>8. ASSUME NEW p \in Procs, Kernel(p) PROVE IInv'
  BY <1>8, KernelPaso
<1>9. ASSUME NEW p \in Procs, NEW c \in Cpus, Despachar(c, p) PROVE IInv'
  BY <1>9, DespacharInv
<1> QED BY <1>1, <1>2, <1>3, <1>4, <1>5, <1>6, <1>7, <1>8, <1>9, Zenon DEF Next

\* The notices of sticks are in order in every reachable state: each of the
\* threads registrar_cpu and registrar_memory_stick announces a stick to a CPU at
\* most once, no CPU is forgotten, no process is given a byte of a stick that is
\* not announced yet, and every context travels behind the sticks it needs.
THEOREM AvisosEnOrden == Spec => []IInv
<1>1. Init => IInv
  BY InitInv
<1>2. IInv /\ [Next]_vars => IInv'
  BY NextInv
<1> QED BY <1>1, <1>2, PTL DEF Spec

\* mmu_traducir_dir_logica of a CPU that has loaded a context finds the stick of
\* every address of its segments, if MAX_MEMORY_STICKS leaves room for both
\* notices of every stick but one.
THEOREM NadieSeAdelanta == Sobran /\ Spec => []SticksConocidos
<1>1. Sobran /\ IInv => SticksConocidos
  <2> SUFFICES ASSUME Sobran, IInv, NEW c \in Cpus, fase[c] \in Cargado,
                      NEW g \in Range(ctx[c].segs), NEW a \in Rango(g.base, g.lim)
               PROVE  StickDe(c, a) # 0
    BY DEF SticksConocidos
  <2>1. Sucesion(rx[c]) /\ Sucesion(conoce[c]) /\ fase[c] # "desfasada"
    BY DEF IInv, Forma, Cargado
  <2>2. Alcanza(ctx[c], sticks, conoce[c], rx[c], 0)
    BY <2>1 DEF IInv, Sabidos
  <2>3. PICK e \in Range(sticks) : EnEntrada(a, e) /\ Sabe(conoce[c], rx[c], e, 0)
    BY <2>2 DEF Alcanza
  <2>4. e \in Range(conoce[c])
    BY <2>1, <2>3, PartesDe DEF Sabe
  <2> QED BY <2>1, <2>3, <2>4, HayStick
<1>2. Sobran => []Sobran
  BY DEF Sobran
<1> QED BY <1>1, <1>2, AvisosEnOrden, PTL

-----------------------------------------------------------------------------
(* Sums, and the portions of an access.                                    *)

\* A sum of naturals is one.
LEMMA SumaNatural ==
  ASSUME NEW n \in Nat, NEW f, \A k \in 1 .. n : f[k] \in Nat
  PROVE  Suma(f, n) \in Nat
<1> DEFINE Es(s, m) == s = [k \in 0 .. m |-> IF k = 0 THEN 0 ELSE s[k - 1] + f[k]]
           T == {m \in 0 .. n : ~ \E s : Es(s, m)}
<1>1. T = {}
  <2> SUFFICES ASSUME T # {} PROVE FALSE
    OBVIOUS
  <2> DEFINE m == Min(T)
  <2>1. T \subseteq Nat
    OBVIOUS
  <2>2. m \in T /\ \A y \in T : m <= y
    <3> HIDE DEF T
    <3> QED BY <2>1, HayMinimo
  <2> HIDE DEF m
  <2>3. Es([k \in 0 .. 0 |-> 0], 0)
    OBVIOUS
  <2>4. 0 \notin T
    BY <2>3
  <2>5. m \in 0 .. n
    BY <2>2
  <2>6. m # 0 /\ m - 1 \in 0 .. n /\ m - 1 \notin T
    <3> HIDE DEF T
    <3> QED BY <2>2, <2>4, <2>5
  <2>7. PICK s : Es(s, m - 1)
    BY <2>6
  <2> DEFINE z == [k \in 0 .. m |-> IF k = m THEN s[m - 1] + f[m] ELSE s[k]]
  <2>8. Es(z, m)
    <3>1. \A k \in 0 .. m : z[k] = IF k = 0 THEN 0 ELSE z[k - 1] + f[k]
      BY <2>5, <2>6, <2>7
    <3>2. z = [k \in 0 .. m |-> z[k]]
      OBVIOUS
    <3> HIDE DEF z
    <3> QED BY <3>1, <3>2
  <2> HIDE DEF Es
  <2> QED BY <2>2, <2>8
<1> DEFINE s == CHOOSE s : Es(s, n)
<1>2. \E g : Es(g, n)
  <2>1. n \in 0 .. n
    OBVIOUS
  <2> HIDE DEF Es
  <2> QED BY <1>1, <2>1
<1>3. Es(s, n)
  <2> HIDE DEF Es
  <2> QED BY <1>2, Zenon
<1>4. Suma(f, n) = s[n]
  BY Zenon DEF Suma
<1> HIDE DEF s
<1> DEFINE U == {m \in 0 .. n : s[m] \notin Nat}
<1>5. U = {}
  <2> SUFFICES ASSUME U # {} PROVE FALSE
    OBVIOUS
  <2> DEFINE m == Min(U)
  <2>1. m \in U /\ \A y \in U : m <= y
    <3>1. U \subseteq Nat
      OBVIOUS
    <3> HIDE DEF U
    <3> QED BY <3>1, HayMinimo
  <2> HIDE DEF m
  <2>2. s[0] = 0
    BY <1>3
  <2>3. m \in 1 .. n /\ m - 1 \in 0 .. n /\ m - 1 \notin U
    BY <2>1, <2>2
  <2>4. s[m] = s[m - 1] + f[m]
    BY <1>3, <2>3
  <2> QED BY <2>1, <2>3, <2>4
<1> QED BY <1>4, <1>5

\* StickDe finds a stick that has the address.
LEMMA ElStick ==
  ASSUME NEW c, Sucesion(conoce[c]), NEW a, StickDe(c, a) # 0
  PROVE  /\ StickDe(c, a) \in 1 .. Len(conoce[c])
         /\ EnEntrada(a, conoce[c][StickDe(c, a)])
<1> DEFINE I == {i \in 1 .. Len(conoce[c]) : a \in Rango(conoce[c][i].base, conoce[c][i].tam)}
<1>1. StickDe(c, a) = IF I # {} THEN Min(I) ELSE 0
  BY DEF StickDe, SelectInSeq
<1>2. I \subseteq 1 .. Len(conoce[c]) /\ \A i \in I : EnEntrada(a, conoce[c][i])
  BY DEF EnEntrada
<1> HIDE DEF I
<1>3. I \subseteq Nat /\ I # {}
  BY <1>1, <1>2, PartesDe
<1>4. Min(I) \in I
  BY <1>3, HayMinimo
<1> QED BY <1>1, <1>2, <1>3, <1>4

\* A portion lies within its stick, for a CPU with table q.
Dentro(x, q) ==
  /\ x.stick \in 1 .. Len(q) /\ x.dir \in Nat /\ x.n \in Nat /\ x.off \in Nat
  /\ x.dir + x.n <= q[x.stick].tam

\* The portions ps are the bytes from b to t of an access, in order.
Cubren(ps, q, b, t) ==
  /\ Sucesion(ps) /\ b \in Nat /\ b <= t
  /\ \A k \in 1 .. Len(ps) : Dentro(ps[k], q) /\ ps[k].off + ps[k].n <= t
  /\ Len(ps) = 0 => b = t
  /\ Len(ps) > 0 => ps[1].off = b /\ ps[Len(ps)].off + ps[Len(ps)].n = t
  /\ \A k \in 1 .. (Len(ps) - 1) : ps[k + 1].off = ps[k].off + ps[k].n

\* One portion more, in front.
LEMMA UnaMas ==
  ASSUME NEW ps, NEW q, NEW b \in Nat, NEW t \in Nat, NEW x, Dentro(x, q), x.off = b,
         Cubren(ps, q, b + x.n, t)
  PROVE  Cubren(<<x>> \o ps, q, b, t)
<1> DEFINE u == <<x>>
           z == u \o ps
           S == Range(ps) \union {x}
<1>1. ps \in Seq(S) /\ u \in Seq(S) /\ Len(ps) \in Nat
  <2>1. Sucesion(ps)
    BY DEF Cubren
  <2> QED BY <2>1, SeqMonotonic, PartesDe DEF Sucesion
<1>2. /\ z \in Seq(S) /\ Len(z) = 1 + Len(ps) /\ z[1] = x
      /\ \A k \in 1 .. Len(ps) : z[k + 1] = ps[k]
  BY <1>1
<1>3. Sucesion(z)
  BY <1>2, EsSucesion
<1> HIDE DEF z, S
<1>4. \A k \in 1 .. Len(z) : k = 1 \/ (k - 1 \in 1 .. Len(ps) /\ z[k] = ps[k - 1])
  <2> SUFFICES ASSUME NEW k \in 1 .. Len(z), k # 1
               PROVE  k - 1 \in 1 .. Len(ps) /\ z[k] = ps[k - 1]
    OBVIOUS
  <2>1. k - 1 \in 1 .. Len(ps) /\ (k - 1) + 1 = k
    BY <1>1, <1>2
  <2> QED BY <1>2, <2>1
<1>5. x.n \in Nat /\ b + x.n <= t
  BY DEF Dentro, Cubren
<1>6. \A k \in 1 .. Len(z) : Dentro(z[k], q) /\ z[k].off + z[k].n <= t
  BY <1>1, <1>2, <1>4, <1>5 DEF Cubren
<1>7. Len(z) > 0 /\ z[1].off = b
  BY <1>1, <1>2
<1>8. z[Len(z)].off + z[Len(z)].n = t
  <2>1. CASE Len(ps) = 0
    BY <1>2, <2>1 DEF Cubren
  <2>2. CASE Len(ps) # 0
    BY <1>1, <1>2, <2>2 DEF Cubren
  <2> QED BY <2>1, <2>2
<1>9. \A k \in 1 .. (Len(z) - 1) : z[k + 1].off = z[k].off + z[k].n
  <2> SUFFICES ASSUME NEW k \in 1 .. (Len(z) - 1)
               PROVE  z[k + 1].off = z[k].off + z[k].n
    OBVIOUS
  <2>1. k \in 1 .. Len(ps) /\ z[k + 1] = ps[k]
    BY <1>1, <1>2
  <2>2. CASE k = 1
    BY <1>2, <2>1, <2>2 DEF Cubren
  <2>3. CASE k # 1
    <3>1. k - 1 \in 1 .. (Len(ps) - 1) /\ z[k] = ps[k - 1] /\ (k - 1) + 1 = k
      BY <1>1, <1>2, <1>4, <2>3
    <3>2. ps[(k - 1) + 1].off = ps[k - 1].off + ps[k - 1].n
      BY <3>1 DEF Cubren
    <3> QED BY <2>1, <3>1, <3>2
  <2> QED BY <2>2, <2>3
<1>10. b <= t
  BY <1>5
<1> QED BY <1>3, <1>6, <1>7, <1>8, <1>9, <1>10 DEF Cubren, z, u

\* The first portion less.
LEMMA UnaMenos ==
  ASSUME NEW ps, NEW q, NEW b \in Nat, NEW t \in Nat, Cubren(ps, q, b, t), ps # <<>>
  PROVE  /\ Dentro(Head(ps), q) /\ Head(ps).off = b /\ b + Head(ps).n \in Nat
         /\ Cubren(Tail(ps), q, b + Head(ps).n, t)
<1> DEFINE z == Tail(ps)
<1>1. Sucesion(ps)
  BY DEF Cubren
<1>2. /\ Sucesion(z) /\ Len(z) = Len(ps) - 1 /\ Len(ps) > 0 /\ Head(ps) = ps[1]
      /\ Len(ps) \in Nat /\ \A i \in 1 .. Len(z) : z[i] = ps[i + 1]
  BY <1>1, AlPrincipio, PartesDe
<1> HIDE DEF z
<1>3. 1 \in 1 .. Len(ps) /\ Dentro(ps[1], q) /\ ps[1].off = b /\ ps[1].off + ps[1].n <= t
  BY <1>2 DEF Cubren
<1>4. b + ps[1].n \in Nat /\ b + ps[1].n <= t
  BY <1>3 DEF Dentro
<1>5. \A k \in 1 .. Len(z) : Dentro(z[k], q) /\ z[k].off + z[k].n <= t
  BY <1>2 DEF Cubren
<1>6. Len(z) = 0 => b + ps[1].n = t
  <2>1. Len(z) = 0 => Len(ps) = 1
    BY <1>2
  <2>2. ps[Len(ps)].off + ps[Len(ps)].n = t
    BY <1>2 DEF Cubren
  <2> QED BY <1>3, <2>1, <2>2
<1>7. Len(z) > 0 => z[1].off = b + ps[1].n /\ z[Len(z)].off + z[Len(z)].n = t
  <2> SUFFICES ASSUME Len(z) > 0
               PROVE  z[1].off = b + ps[1].n /\ z[Len(z)].off + z[Len(z)].n = t
    OBVIOUS
  <2>1. 1 \in 1 .. (Len(ps) - 1) /\ z[1] = ps[1 + 1] /\ z[Len(z)] = ps[Len(ps)]
    BY <1>2
  <2>2. ps[1 + 1].off = ps[1].off + ps[1].n
    BY <2>1 DEF Cubren
  <2> QED BY <1>2, <1>3, <2>1, <2>2 DEF Cubren
<1>8. \A k \in 1 .. (Len(z) - 1) : z[k + 1].off = z[k].off + z[k].n
  <2> SUFFICES ASSUME NEW k \in 1 .. (Len(z) - 1)
               PROVE  z[k + 1].off = z[k].off + z[k].n
    OBVIOUS
  <2>1. /\ k + 1 \in 1 .. (Len(ps) - 1) /\ z[k] = ps[k + 1]
        /\ z[k + 1] = ps[(k + 1) + 1]
    BY <1>2
  <2> QED BY <2>1 DEF Cubren
<1> QED BY <1>2, <1>3, <1>4, <1>5, <1>6, <1>7, <1>8 DEF Cubren, z

\* mmu_traducir_dir_logica: the portions of an access whose addresses all have a
\* stick are the whole access, and each lies within one stick.
LEMMA PorcionesCubren ==
  ASSUME NEW c, Sucesion(conoce[c]), NEW dir \in Nat, NEW t \in Nat, Palabra \in Nat \ {0},
         \A i \in 1 .. Len(conoce[c]) : conoce[c][i].base \in Nat /\ conoce[c][i].tam \in Nat,
         EsValida(Porciones(c, dir, t))
  PROVE  Cubren(Porciones(c, dir, t), conoce[c], 0, t)
<1> DEFINE q == conoce[c]
           d(n) == (dir + t - n) % Palabra
           i(n) == StickDe(c, d(n))
           e(n) == q[i(n)]
           ch(n) == IF n < e(n).base + e(n).tam - d(n) THEN n ELSE e(n).base + e(n).tam - d(n)
           x(n) == [stick |-> i(n), dir |-> d(n) - e(n).base, n |-> ch(n), off |-> t - n]
           nada == <<[stick |-> 0, dir |-> 0, n |-> 0, off |-> 0]>>
           paso(f, n) == IF n = 0 THEN <<>>
                         ELSE IF i(n) = 0 THEN nada ELSE <<x(n)>> \o f[n - ch(n)]
           Es(f, m) == f = [n \in 0 .. m |-> paso(f, n)]
           T == {m \in 0 .. t : ~ \E f : Es(f, m)}
<1>1. ASSUME NEW n \in 1 .. t, i(n) # 0
      PROVE  ch(n) \in 1 .. n /\ Dentro(x(n), q) /\ x(n).n = ch(n) /\ x(n).off = t - n
  <2>1. d(n) \in Nat
    OBVIOUS
  <2> HIDE DEF d
  <2>2. i(n) \in 1 .. Len(q) /\ d(n) \in Rango(e(n).base, e(n).tam)
    BY <1>1, ElStick DEF EnEntrada
  <2>3. e(n).base \in Nat /\ e(n).tam \in Nat
    BY <2>2
  <2> HIDE DEF q, i, e
  <2>4. e(n).base <= d(n) /\ d(n) <= e(n).base + e(n).tam - 1
    BY <2>1, <2>2, <2>3 DEF Rango
  <2>5. ch(n) \in 1 .. n /\ d(n) - e(n).base \in Nat /\ t - n \in Nat
    BY <2>1, <2>3, <2>4
  <2>6. d(n) - e(n).base + ch(n) <= e(n).tam
    BY <2>1, <2>3, <2>4
  <2> HIDE DEF ch
  <2> QED BY <2>2, <2>5, <2>6 DEF Dentro, e
<1>2. Porciones(c, dir, t) = (CHOOSE f : Es(f, t))[t]
  BY DEF Porciones
<1> HIDE DEF x, ch, i
<1>3. T = {}
  <2> SUFFICES ASSUME T # {} PROVE FALSE
    OBVIOUS
  <2> DEFINE m == Min(T)
  <2>1. m \in T /\ \A y \in T : m <= y
    <3>1. T \subseteq Nat
      OBVIOUS
    <3> HIDE DEF T
    <3> QED BY <3>1, HayMinimo
  <2> HIDE DEF m
  <2>2. 0 \notin T
    <3>1. Es([n \in 0 .. 0 |-> <<>>], 0)
      OBVIOUS
    <3> QED BY <3>1
  <2>3. m \in 0 .. t
    BY <2>1
  <2>4. m # 0 /\ m - 1 \in 0 .. t /\ m - 1 \notin T
    <3> HIDE DEF T
    <3> QED BY <2>1, <2>2, <2>3
  <2>5. PICK f : Es(f, m - 1)
    BY <2>4
  <2> DEFINE z == [n \in 0 .. m |-> IF n = m THEN paso(f, m) ELSE f[n]]
  <2>6. Es(z, m)
    <3>1. \A n \in 0 .. m : n # m => z[n] = f[n] /\ f[n] = paso(f, n)
      <4>1. \A n \in 0 .. m : n # m => n \in 0 .. (m - 1)
        BY <2>3
      <4> HIDE DEF paso
      <4>2. \A n \in 0 .. (m - 1) : f[n] = paso(f, n)
        BY <2>5
      <4>3. \A n \in 0 .. m : n # m => z[n] = f[n]
        OBVIOUS
      <4> QED BY <4>1, <4>2, <4>3
    <3>2. z[m] = paso(f, m)
      BY <2>3
    <3>3. z = [n \in 0 .. m |-> z[n]]
      OBVIOUS
    <3> HIDE DEF z
    <3>4. ASSUME NEW n \in 0 .. m PROVE paso(z, n) = paso(f, n)
      <4>1. CASE n = 0 \/ i(n) = 0
        BY <4>1
      <4>2. CASE n # 0 /\ i(n) # 0
        <5>1. ch(n) \in 1 .. n
          BY <1>1, <2>3, <4>2
        <5>2. n - ch(n) \in 0 .. m /\ n - ch(n) # m
          BY <2>3, <5>1
        <5> QED BY <3>1, <5>2
      <4> QED BY <4>1, <4>2
    <3> HIDE DEF paso
    <3> QED BY <3>1, <3>2, <3>3, <3>4
  <2> HIDE DEF Es
  <2> QED BY <2>1, <2>6
<1> DEFINE f == CHOOSE f : Es(f, t)
<1>4. Es(f, t)
  <2>1. t \in 0 .. t
    OBVIOUS
  <2> HIDE DEF Es, f
  <2>2. \E g : Es(g, t)
    BY <1>3, <2>1
  <2> QED BY <2>2, Zenon DEF f
<1> HIDE DEF f
<1>5. \A n \in 0 .. t : f[n] = paso(f, n)
  BY <1>4
<1> DEFINE U == {n \in 0 .. t : ~(Sucesion(f[n]) /\ (EsValida(f[n]) => Cubren(f[n], q, t - n, t)))}
<1>6. U = {}
  <2> SUFFICES ASSUME U # {} PROVE FALSE
    OBVIOUS
  <2> DEFINE m == Min(U)
  <2>1. m \in U /\ \A y \in U : m <= y
    <3>1. U \subseteq Nat
      OBVIOUS
    <3> HIDE DEF U
    <3> QED BY <3>1, HayMinimo
  <2> HIDE DEF m
  <2>2. m \in 0 .. t
    BY <2>1
  <2>3. CASE m = 0
    <3>1. f[m] = <<>>
      BY <1>5, <2>2, <2>3
    <3>2. Sucesion(<<>>) /\ Len(<<>>) = 0
      BY NadaEsSucesion
    <3>3. Cubren(<<>>, q, t - 0, t)
      BY <3>2 DEF Cubren
    <3> QED BY <2>1, <2>3, <3>1, <3>2, <3>3
  <2>4. CASE m # 0 /\ i(m) = 0
    <3>1. f[m] = nada
      BY <1>5, <2>2, <2>4
    <3>2. Len(nada) = 1 /\ nada[1].stick = 0 /\ Sucesion(nada)
      <4>1. nada \in Seq({nada[1]})
        OBVIOUS
      <4> QED BY <4>1, EsSucesion
    <3>3. ~EsValida(nada)
      BY <3>2 DEF EsValida
    <3> HIDE DEF nada
    <3> QED BY <2>1, <3>1, <3>2, <3>3
  <2>5. CASE m # 0 /\ i(m) # 0
    <3> DEFINE g == f[m - ch(m)]
    <3>1. ch(m) \in 1 .. m /\ Dentro(x(m), q) /\ x(m).n = ch(m) /\ x(m).off = t - m
      BY <1>1, <2>2, <2>5
    <3>2. m - ch(m) \in 0 .. t /\ ~(m <= m - ch(m))
      BY <2>2, <3>1
    <3>3. m - ch(m) \notin U
      <4> HIDE DEF U
      <4> QED BY <2>1, <3>2
    <3>4. Sucesion(g) /\ (EsValida(g) => Cubren(g, q, t - (m - ch(m)), t))
      BY <3>2, <3>3
    <3>5. f[m] = <<x(m)>> \o g
      BY <1>5, <2>2, <2>5
    <3> DEFINE y == x(m)
               S == Range(g) \union {y}
               u == <<y>>
    <3> HIDE DEF g, y
    <3>6. g \in Seq(S) /\ u \in Seq(S) /\ Len(g) \in Nat
      BY <3>4, SeqMonotonic, PartesDe DEF Sucesion
    <3>7. /\ u \o g \in Seq(S) /\ Len(u \o g) = 1 + Len(g)
          /\ \A k \in 1 .. Len(g) : (u \o g)[k + 1] = g[k]
      BY <3>6
    <3>8. Sucesion(u \o g)
      BY <3>7, EsSucesion
    <3>9. EsValida(u \o g) => EsValida(g)
      <4> DEFINE z == u \o g
      <4>1. \A k \in 1 .. Len(g) : k + 1 \in 1 .. Len(z) /\ z[k + 1] = g[k]
        BY <3>6, <3>7
      <4> HIDE DEF z
      <4>2. EsValida(z) => EsValida(g)
        BY <4>1 DEF EsValida
      <4> QED BY <4>2 DEF z
    <3>10. Cubren(g, q, t - (m - ch(m)), t) => Cubren(u \o g, q, t - m, t)
      <4> SUFFICES ASSUME Cubren(g, q, t - (m - ch(m)), t) PROVE Cubren(u \o g, q, t - m, t)
        OBVIOUS
      <4>1. t - m \in Nat /\ t - (m - ch(m)) = (t - m) + y.n
        BY <2>2, <3>1 DEF y
      <4>2. Dentro(y, q) /\ y.off = t - m /\ Cubren(g, q, (t - m) + y.n, t)
        BY <3>1, <4>1 DEF y
      <4> HIDE DEF q
      <4> QED BY <4>1, <4>2, UnaMas
    <3> HIDE DEF q
    <3> QED BY <2>1, <3>4, <3>5, <3>8, <3>9, <3>10 DEF y
  <2> QED BY <2>3, <2>4, <2>5
<1>7. t \in 0 .. t /\ t - t = 0 /\ Porciones(c, dir, t) = f[t]
  <2> HIDE DEF Es
  <2> QED BY <1>2 DEF f
<1> QED BY <1>6, <1>7

-----------------------------------------------------------------------------
(* Registers, bytes and the types of everything.                           *)

LEMMA Enteros ==
  /\ Byte \in Nat /\ Byte > 1 /\ BytesReg \in Nat /\ BytesReg > 0 /\ MaxSeg \in Nat
  /\ MaxSeg > 0 /\ Palabra \in Nat /\ Palabra > 0 /\ Byte <= Palabra
  /\ \A n \in 0 .. BytesReg : Byte ^ n \in Nat /\ Byte ^ n > 0
  /\ "SI" \in Regs /\ "DI" \in Regs
<1>1. /\ Byte \in Nat /\ Byte > 1 /\ BytesReg \in Nat /\ BytesReg > 0 /\ MaxSeg \in Nat
      /\ MaxSeg > 0 /\ "SI" \in Regs /\ "DI" \in Regs
  BY AnchoAssumption DEF Regs
<1>2. Byte <= Palabra /\ \A n \in 0 .. BytesReg : Byte ^ n \in Nat /\ Byte ^ n > 0
  BY PotenciaAssumption
<1>3. BytesReg \in 0 .. BytesReg
  BY <1>1
<1>4. Palabra \in Nat /\ Palabra > 0
  BY <1>2, <1>3 DEF Palabra
<1> QED BY <1>1, <1>2, <1>4

BienRegs(r) == r \in [Regs -> 0 .. (Palabra - 1)] /\ \A x \in Regs8 : r[x] \in Bytes
BienPc(pc) == pc \in 0 .. (Palabra - 1)
BienInstr(i) == i.val \in Nat

LEMMA AsignarBien ==
  ASSUME NEW r, BienRegs(r), NEW x, NEW v \in Int
  PROVE  BienRegs(Asignar(r, x, v))
<1>1. v % Byte \in 0 .. (Byte - 1) /\ v % Palabra \in 0 .. (Palabra - 1)
  BY Enteros
<1>2. v % Byte \in 0 .. (Palabra - 1) /\ v % Byte \in Bytes
  BY <1>1, Enteros DEF Bytes
<1>3. Regs8 \subseteq Regs /\ Regs32 \subseteq Regs /\ Regs8 \intersect Regs32 = {}
  BY AnchoAssumption DEF Regs
<1>4. CASE x \in Regs8
  BY <1>2, <1>3, <1>4 DEF BienRegs, Asignar
<1>5. CASE x \in Regs32
  BY <1>1, <1>3, <1>5 DEF BienRegs, Asignar
<1>6. CASE x \notin Regs8 /\ x \notin Regs32
  BY <1>6 DEF BienRegs, Asignar
<1> QED BY <1>4, <1>5, <1>6

LEMMA ObtenerBien ==
  ASSUME NEW r, BienRegs(r), NEW x
  PROVE  Obtener(r, x) \in Nat
  BY Enteros DEF BienRegs, Obtener

LEMMA OperandoBien ==
  ASSUME NEW r, BienRegs(r), NEW i, BienInstr(i)
  PROVE  Operando(r, i) \in Nat
<1>1. Operando(r, i) = i.val \/ Operando(r, i) = Obtener(r, i.orig)
  BY Zenon DEF Operando
<1> QED BY <1>1, ObtenerBien DEF BienInstr

LEMMA SigPcBien ==
  ASSUME NEW pc, BienPc(pc)
  PROVE  BienPc(SigPc(pc))
  BY Enteros DEF BienPc, SigPc

\* The instructions that touch registers only keep every width.
LEMMA RegPasoBien ==
  ASSUME NEW r, BienRegs(r), NEW pc, BienPc(pc), NEW i, BienInstr(i), i.op \in RegOps
  PROVE  BienRegs(RegPaso(r, pc, i).regs) /\ BienPc(RegPaso(r, pc, i).pc)
<1> DEFINE a == Obtener(r, i.reg)
           b == Operando(r, i)
<1>1. a \in Nat /\ b \in Nat /\ i.val \in Nat
  BY ObtenerBien, OperandoBien DEF BienInstr
<1>2. i.val % Palabra \in 0 .. (Palabra - 1)
  BY <1>1, Enteros
<1> HIDE DEF a, b
<1>3. (a + b) % Palabra \in Int /\ (a - b) % Palabra \in Int
  BY <1>1, Enteros
<1>4. CASE i.op = "SET" /\ i.reg = "PC"
  BY <1>2, <1>4 DEF RegPaso, BienPc
<1>5. CASE i.op = "SET" /\ i.reg # "PC"
  BY <1>1, <1>5, AsignarBien, SigPcBien DEF RegPaso
<1>6. CASE i.op = "SUM"
  <2>1. RegPaso(r, pc, i) = [regs |-> Asignar(r, i.reg, (a + b) % Palabra), pc |-> SigPc(pc)]
    BY <1>6 DEF RegPaso, a, b
  <2> QED BY <1>3, <2>1, AsignarBien, SigPcBien
<1>7. CASE i.op = "SUB"
  <2>1. RegPaso(r, pc, i) = [regs |-> Asignar(r, i.reg, (a - b) % Palabra), pc |-> SigPc(pc)]
    BY <1>7 DEF RegPaso, a, b
  <2> QED BY <1>3, <2>1, AsignarBien, SigPcBien
<1>8. CASE i.op = "JNZ"
  BY <1>2, <1>8, SigPcBien DEF RegPaso, BienPc
<1>9. CASE i.op = "NOOP"
  BY <1>9, SigPcBien DEF RegPaso
<1> QED BY <1>4, <1>5, <1>6, <1>7, <1>8, <1>9 DEF RegOps

\* bs is a sequence of bytes.
EsBytes(bs) == bs \in Seq(Bytes)

LEMMA ABytesBien ==
  ASSUME NEW v \in Nat, NEW n \in 1 .. BytesReg
  PROVE  EsBytes(ABytes(v, n)) /\ Len(ABytes(v, n)) = n
<1> DEFINE f == ABytes(v, n)
<1>1. n \in Nat /\ \A k \in 1 .. n : k - 1 \in 0 .. BytesReg
  BY Enteros
<1>2. \A k \in 1 .. n : (v \div (Byte ^ (k - 1))) % Byte \in Bytes
  <2> SUFFICES ASSUME NEW k \in 1 .. n PROVE (v \div (Byte ^ (k - 1))) % Byte \in Bytes
    OBVIOUS
  <2> DEFINE w == Byte ^ (k - 1)
  <2>1. w \in Nat /\ w > 0
    BY <1>1, Enteros
  <2> HIDE DEF w
  <2>2. v \div w \in Int
    BY <2>1
  <2>3. (v \div w) % Byte \in 0 .. (Byte - 1)
    BY <2>2, Enteros
  <2> QED BY <2>3 DEF w, Bytes
<1>3. f \in [1 .. n -> Bytes]
  BY <1>2 DEF ABytes
<1> HIDE DEF f
<1>4. f \in Seq(Bytes) /\ Len(f) = n
  <2>1. f \in Seq(Bytes)
    BY <1>1, <1>3, SeqDef
  <2>2. Len(f) \in Nat /\ DOMAIN f = 1 .. Len(f) /\ DOMAIN f = 1 .. n
    BY <1>3, <2>1, LenProperties
  <2> DEFINE m == Len(f)
  <2>3. m \in Nat /\ 1 .. m = 1 .. n
    BY <2>2
  <2> HIDE DEF m
  <2>4. m = n
    BY <1>1, <2>3
  <2> QED BY <2>1, <2>4 DEF m
<1> QED BY <1>4 DEF EsBytes, f

LEMMA DeBytesBien ==
  ASSUME NEW bs, EsBytes(bs), Len(bs) \in 1 .. BytesReg
  PROVE  DeBytes(bs) \in Nat
<1> DEFINE f == [k \in 1 .. Len(bs) |-> bs[k] * (Byte ^ (k - 1))]
<1>1. Len(bs) \in Nat /\ \A k \in 1 .. Len(bs) : k - 1 \in 0 .. BytesReg
  BY Enteros
<1>2. \A k \in 1 .. Len(bs) : f[k] \in Nat
  <2> SUFFICES ASSUME NEW k \in 1 .. Len(bs) PROVE bs[k] * (Byte ^ (k - 1)) \in Nat
    OBVIOUS
  <2> DEFINE w == Byte ^ (k - 1)
             y == bs[k]
  <2>1. w \in Nat
    BY <1>1, Enteros
  <2>2. y \in Nat
    BY ElementOfSeq, Enteros DEF EsBytes, Bytes
  <2> HIDE DEF w, y
  <2>3. y * w \in Nat
    BY <2>1, <2>2
  <2> QED BY <2>3 DEF w, y
<1> HIDE DEF f
<1>3. Suma(f, Len(bs)) \in Nat
  BY <1>1, <1>2, SumaNatural
<1> QED BY <1>3 DEF DeBytes, f

-----------------------------------------------------------------------------
(* The types, and accesses that stay within their stick.                   *)

BienContexto(x) ==
  /\ EsContexto(x) /\ x.pid \in Procs \union {Nulo} /\ BienPc(x.pc) /\ BienRegs(x.regs)
  /\ \A g \in Range(x.segs) : g.base \in Int /\ g.lim \in Int

BienMensaje(m) ==
  BienContexto(m.ctx) /\ BienInstr(m.ins) /\ (m.t = "CTX" => m.ctx.pid \in Procs)

BienPedido(m) ==
  BienContexto(m.ctx) /\ (m.t \in {"INSTR", "GUARDAR"} => m.ctx.pid \in Procs)

Tablas ==
  /\ pid \in [Cpus -> Procs \union {Nulo}] /\ irq \in [Cpus -> BOOLEAN]
  /\ donde \in [Procs -> {"listo", "sale", "fin"} \union Cpus]
  /\ EsTabla(ins, Cpus) /\ EsTabla(porc, Cpus) /\ EsTabla(buf, Cpus)
  /\ EsTabla(llamada, Procs) /\ EsTabla(ram, Sticks)

\* A CPU: what is left of an access is the rest of it, from where the buffer ends
\* when it reads.
CpuBien(c) ==
  /\ BienContexto(ctx[c]) /\ BienInstr(ins[c]) /\ EsBytes(buf[c])
  /\ BienMensaje(resp[c]) /\ BienPedido(pedido[c])
  /\ fase[c] \in Cargado => ctx[c].pid \in Procs
  /\ fase[c] = "lee" =>
       Lee(ins[c]) /\ Cubren(porc[c], conoce[c], Len(buf[c]), Tamanio(ctx[c].regs, ins[c]))
  /\ fase[c] = "escribe" =>
       \E b \in Nat : Cubren(porc[c], conoce[c], b, Len(buf[c]))

Correo == \A c \in Cpus : \A k \in 1 .. Len(rx[c]) : BienMensaje(rx[c][k])

Procesos ==
  \A p \in Procs : BienContexto(tabla[p]) /\ tabla[p].pid \in Procs /\ BienInstr(llamada[p])

Bases == \A e \in Range(sticks) : e.base \in Nat

Celdas == \A s \in Sticks : ram[s] \in [Rango(0, TamStick[s]) -> Bytes]

TInv ==
  /\ Tablas /\ Correo /\ Procesos /\ Bases /\ Celdas
  /\ \A c \in Cpus : CpuBien(c)

LEMMA ContextoBien ==
  ASSUME NEW p \in Procs \union {Nulo}
  PROVE  BienContexto(Contexto(p)) /\ Contexto(p).pid = p
<1> DEFINE x == Contexto(p)
           r == [y \in Regs |-> 0]
<1>1. DOMAIN x = {"pid", "regs", "pc", "segs"} /\ x.segs = <<>> /\ x.pid = p /\ x.pc = 0
      /\ x.regs = r
  BY DEF Contexto
<1>2. 0 \in 0 .. (Palabra - 1) /\ 0 \in Bytes
  BY Enteros DEF Bytes
<1>3. BienRegs(r)
  BY <1>2 DEF BienRegs, Regs
<1> HIDE DEF x, r
<1>4. EsContexto(x) /\ Range(x.segs) = {}
  BY <1>1, NadaEsSucesion DEF EsContexto
<1> QED BY <1>1, <1>2, <1>3, <1>4 DEF BienContexto, BienPc, x

LEMMA VaciaBien == BienInstr(Vacia)
<1>1. Vacia.val = 0
  BY Zenon DEF Vacia, Instr
<1> QED BY <1>1 DEF BienInstr

\* Messages without a context.
LEMMA MsgBien ==
  ASSUME NEW t, t # "CTX"
  PROVE  BienMensaje(Msg(t)) /\ \A e : BienMensaje(MsgStick(e))
<1>1. BienContexto(SinContexto)
  BY ContextoBien DEF SinContexto
<1>2. Msg(t).ctx = SinContexto /\ Msg(t).ins = Vacia /\ Msg(t).t = t
  BY Zenon DEF Msg
<1>3. \A e : MsgStick(e).ctx = SinContexto /\ MsgStick(e).ins = Vacia /\ MsgStick(e).t = "STICK"
  BY SMT DEF MsgStick, Msg
<1> QED BY <1>1, <1>2, <1>3, VaciaBien DEF BienMensaje

LEMMA MsgCtxBien ==
  ASSUME NEW x, BienContexto(x), x.pid \in Procs
  PROVE  BienMensaje(MsgCtx(x))
<1>1. MsgCtx(x).ctx = x /\ MsgCtx(x).ins = Vacia
  BY SMT DEF MsgCtx, Msg
<1> QED BY <1>1, VaciaBien DEF BienMensaje

LEMMA MsgInsBien ==
  ASSUME NEW i, BienInstr(i)
  PROVE  BienMensaje(MsgIns(i))
<1>1. MsgIns(i).ctx = SinContexto /\ MsgIns(i).ins = i /\ MsgIns(i).t = "INSTR"
  BY SMT DEF MsgIns, Msg
<1> QED BY <1>1, ContextoBien DEF BienMensaje, SinContexto

LEMMA EnviarBien ==
  ASSUME IInv, Correo, NEW c \in Cpus, NEW m, BienMensaje(m), Enviar(c, m)
  PROVE  Correo'
<1>1. EsTabla(rx, Cpus) /\ Sucesion(rx[c])
  BY DEF IInv, Forma
<1>2. rx'[c] = Append(rx[c], m) /\ \A d \in Cpus \ {c} : rx'[d] = rx[d]
  BY <1>1 DEF Enviar, EsTabla
<1>3. /\ Len(rx[c]) \in Nat /\ Len(rx'[c]) = Len(rx[c]) + 1
      /\ \A i \in 1 .. Len(rx[c]) : rx'[c][i] = rx[c][i]
      /\ rx'[c][Len(rx[c]) + 1] = m
  BY <1>1, <1>2, AlFinal, PartesDe
<1>4. \A k \in 1 .. Len(rx'[c]) : BienMensaje(rx'[c][k])
  BY <1>3 DEF Correo
<1> QED BY <1>2, <1>4 DEF Correo

\* The threads that register change neither CPUs nor processes.
LEMMA AltaIgual ==
  ASSUME TInv, UNCHANGED <<cpuVars, conoce, resp, pedido, tabla, ram, donde, llamada>>,
         Correo', Bases'
  PROVE  TInv'
<1> USE DEF cpuVars
<1>1. Tablas' /\ Procesos' /\ Celdas'
  BY DEF TInv, Tablas, Procesos, Celdas
<1>2. \A c \in Cpus : CpuBien(c)'
  BY DEF TInv, CpuBien
<1> QED BY <1>1, <1>2 DEF TInv

LEMMA AltaBien ==
  ASSUME IInv, TInv, NEW c \in Cpus, Alta(c)
  PROVE  TInv'
<1>1. UNCHANGED <<cpuVars, conoce, resp, pedido, tabla, ram, donde, llamada, sticks>>
  BY DEF Alta, RegistrarCpu, EnviarConfig, ContarSticks, AvisarStick, Servir, redVars, kerVars
<1>2. rx' = rx \/ \E m : BienMensaje(m) /\ Enviar(c, m)
  <2>1. CASE EnviarConfig(c)
    BY <2>1, MsgBien DEF EnviarConfig
  <2>2. CASE AvisarStick(c)
    BY <2>2, MsgBien DEF AvisarStick
  <2> QED BY <2>1, <2>2 DEF Alta, RegistrarCpu, ContarSticks, Servir, redVars
<1>3. Correo'
  BY <1>2, EnviarBien DEF TInv, Correo
<1>4. Bases'
  BY <1>1 DEF TInv, Bases
<1> QED BY <1>1, <1>3, <1>4, AltaIgual

LEMMA EntradaBien ==
  ASSUME IInv, NEW s \in Sticks
  PROVE  Entrada(sticks, s).base \in Nat
<1> DEFINE f == [k \in 1 .. Len(sticks) |-> sticks[k].tam]
<1>1. Sucesion(sticks)
  BY DEF IInv, Forma
<1>2. Len(sticks) \in Nat /\ \A k \in 1 .. Len(sticks) : sticks[k] \in Range(sticks)
  BY <1>1, PartesDe
<1>3. TamStick \in [Sticks -> Nat \ {0}]
  BY CpuAssumption, Zenon
<1>4. \A k \in 1 .. Len(sticks) : f[k] \in Nat
  BY <1>2, <1>3 DEF IInv, Lista
<1> HIDE DEF f
<1>5. Suma(f, Len(sticks)) \in Nat
  BY <1>2, <1>4, SumaNatural
<1> QED BY <1>5 DEF Entrada, f

LEMMA AltaStickBien ==
  ASSUME IInv, TInv, NEW s \in Sticks, AltaStick(s)
  PROVE  TInv'
<1>1. UNCHANGED <<cpuVars, conoce, resp, pedido, tabla, ram, donde, llamada>>
  BY DEF AltaStick, StickAgrega, StickCuenta, StickAvisa, StickLibre, redVars, kerVars
<1>2. rx' = rx \/ \E c \in Cpus : \E m : BienMensaje(m) /\ Enviar(c, m)
  <2>1. CASE StickAvisa(s)
    <3>1. spend[s] # <<>> /\ Sucesion(spend[s]) /\ Range(spend[s]) \subseteq Cpus
      BY <2>1 DEF StickAvisa, IInv, Forma, Registro
    <3>2. Head(spend[s]) \in Cpus
      BY <3>1, AlPrincipio
    <3> QED BY <2>1, <3>2, MsgBien DEF StickAvisa
  <2> QED BY <2>1 DEF AltaStick, StickAgrega, StickCuenta, StickLibre, redVars
<1>3. Correo'
  BY <1>2, EnviarBien DEF TInv, Correo
<1>4. Bases'
  <2>1. CASE StickAgrega(s)
    <3>1. sticks' = Append(sticks, Entrada(sticks, s)) /\ Sucesion(sticks)
      BY <2>1 DEF StickAgrega, IInv, Forma
    <3>2. Range(sticks') = Range(sticks) \union {Entrada(sticks, s)}
      BY <3>1, AlFinal
    <3> QED BY <3>2, EntradaBien DEF TInv, Bases
  <2>2. CASE sticks' = sticks
    BY <2>2 DEF TInv, Bases
  <2> QED BY <2>1, <2>2 DEF AltaStick, StickCuenta, StickAvisa, StickLibre
<1> QED BY <1>1, <1>3, <1>4, AltaIgual

-----------------------------------------------------------------------------
(* kernel_memory serves a CPU, and the threads of the CPU that receive.    *)

\* The line of a process that exists.
LEMMA LineaBien ==
  ASSUME NEW p \in Procs, NEW pc, BienPc(pc)
  PROVE  BienInstr(Linea(Programa[p], pc))
<1>1. Len(Programa[p]) \in Nat /\ \A k \in 1 .. Len(Programa[p]) : Programa[p][k].val \in Nat
  BY CpuAssumption, Zenon
<1>2. pc \in Nat
  BY Enteros DEF BienPc
<1>3. CASE pc < Len(Programa[p])
  <2>1. pc + 1 \in 1 .. Len(Programa[p])
    BY <1>1, <1>2, <1>3
  <2> QED BY <1>1, <1>3, <2>1 DEF Linea, BienInstr
<1>4. CASE ~(pc < Len(Programa[p]))
  BY <1>4, VaciaBien DEF Linea
<1> QED BY <1>3, <1>4

LEMMA SinPedidoBien == BienPedido(SinPedido)
<1>1. SinPedido.ctx = SinContexto
  BY Zenon DEF SinPedido, Pedido
<1>2. SinPedido.t \notin {"INSTR", "GUARDAR"}
  BY Zenon DEF SinPedido, Pedido
<1> QED BY <1>1, <1>2, ContextoBien DEF BienPedido, SinContexto

LEMMA MemoriaBien ==
  ASSUME IInv, TInv, NEW c \in Cpus, Memoria(c)
  PROVE  TInv'
<1> DEFINE x == pedido[c].ctx
           p == x.pid
<1>1. Contesta(c)
  BY DEF Memoria, MemContexto, MemInstruccion, MemActualizar
<1>2. UNCHANGED <<cpuVars, conoce, resp, ram, donde, llamada, sticks>>
  BY <1>1 DEF Contesta, altaVars
<1>3. BienPedido(pedido[c]) /\ BienContexto(x)
  BY DEF TInv, CpuBien, BienPedido
<1>4. Correo' /\ Procesos'
  <2>1. CASE MemContexto(c)
    <3>1. p \in Procs /\ tabla' = tabla
      BY <2>1 DEF MemContexto, IInv, Publicos
    <3>2. BienMensaje(MsgCtx(tabla[p]))
      BY <3>1, MsgCtxBien DEF TInv, Procesos
    <3>3. rx' = rx \/ Enviar(c, MsgCtx(tabla[p]))
      BY <2>1 DEF MemContexto
    <3>4. Correo'
      BY <3>2, <3>3, EnviarBien DEF TInv, Correo
    <3> QED BY <1>2, <3>1, <3>4 DEF TInv, Procesos
  <2>2. CASE MemInstruccion(c)
    <3>1. p \in Procs /\ tabla' = tabla /\ BienPc(x.pc)
      BY <1>3, <2>2 DEF MemInstruccion, BienPedido, BienContexto
    <3> DEFINE i == IF Existe(p) THEN Linea(Programa[p], x.pc) ELSE Vacia
    <3>2. BienInstr(i)
      BY <3>1, LineaBien, VaciaBien
    <3>3. Enviar(c, MsgIns(i))
      BY <2>2 DEF MemInstruccion
    <3> HIDE DEF i
    <3>4. Correo'
      BY <3>2, <3>3, MsgInsBien, EnviarBien DEF TInv
    <3> QED BY <1>2, <3>1, <3>4 DEF TInv, Procesos
  <2>3. CASE MemActualizar(c)
    <3>1. p \in Procs /\ (tabla' = tabla \/ tabla' = [tabla EXCEPT ![p] = x])
      BY <1>3, <2>3 DEF MemActualizar, BienPedido
    <3>2. \A o \in Procs : tabla'[o] = tabla[o] \/ tabla'[o] = x
      BY <3>1 DEF IInv, Forma, EsTabla
    <3>3. Procesos'
      BY <1>2, <1>3, <3>1, <3>2 DEF TInv, Procesos
    <3>4. Correo'
      BY <2>3, MsgBien, EnviarBien DEF TInv, MemActualizar
    <3> QED BY <3>3, <3>4
  <2> QED BY <2>1, <2>2, <2>3 DEF Memoria
<1>5. Tablas' /\ Bases' /\ Celdas'
  BY <1>2 DEF TInv, Tablas, Bases, Celdas, cpuVars
<1>6. ASSUME NEW d \in Cpus PROVE CpuBien(d)'
  <2>1. pedido'[d] = pedido[d] \/ pedido'[d] = SinPedido
    BY <1>1 DEF Contesta, IInv, Forma, EsTabla
  <2>2. BienPedido(pedido'[d])
    BY <2>1, SinPedidoBien DEF TInv, CpuBien
  <2> QED BY <1>2, <2>2 DEF TInv, CpuBien, cpuVars
<1> QED BY <1>4, <1>5, <1>6 DEF TInv

\* A CPU that learns of a stick keeps its portions.
LEMMA CubrenCrece ==
  ASSUME NEW ps, NEW q, Sucesion(q), NEW b, NEW t, NEW e, Cubren(ps, q, b, t)
  PROVE  Cubren(ps, Append(q, e), b, t)
<1>1. /\ Len(q) \in Nat /\ Len(Append(q, e)) = Len(q) + 1
      /\ \A i \in 1 .. Len(q) : Append(q, e)[i] = q[i]
  BY AlFinal, PartesDe
<1>2. \A x : Dentro(x, q) => Dentro(x, Append(q, e))
  BY <1>1 DEF Dentro
<1> QED BY <1>2 DEF Cubren

\* What a CPU takes from its stream.
LEMMA SacarBien ==
  ASSUME IInv, Correo, NEW c \in Cpus, rx[c] # <<>>, rx' = [rx EXCEPT ![c] = Tail(@)]
  PROVE  BienMensaje(Head(rx[c])) /\ Correo'
<1>1. EsTabla(rx, Cpus) /\ Sucesion(rx[c])
  BY DEF IInv, Forma
<1>2. rx'[c] = Tail(rx[c]) /\ \A d \in Cpus \ {c} : rx'[d] = rx[d]
  BY <1>1 DEF EsTabla
<1>3. /\ Len(rx[c]) \in Nat /\ Len(rx[c]) > 0 /\ Len(rx'[c]) = Len(rx[c]) - 1
      /\ \A i \in 1 .. Len(rx'[c]) : rx'[c][i] = rx[c][i + 1]
      /\ Head(rx[c]) = rx[c][1]
  <2> DEFINE q == rx[c]
  <2>1. Sucesion(q) /\ q # <<>>
    BY <1>1
  <2> HIDE DEF q
  <2>2. /\ Len(q) \in Nat /\ Len(q) > 0 /\ Len(Tail(q)) = Len(q) - 1
        /\ \A i \in 1 .. Len(Tail(q)) : Tail(q)[i] = q[i + 1]
        /\ Head(q) = q[1]
    BY <2>1, AlPrincipio, PartesDe
  <2> QED BY <1>2, <2>2 DEF q
<1>4. \A k \in 1 .. Len(rx'[c]) : BienMensaje(rx'[c][k])
  BY <1>3 DEF Correo
<1>5. BienMensaje(Head(rx[c]))
  BY <1>3 DEF Correo
<1> QED BY <1>2, <1>4, <1>5 DEF Correo

LEMMA OyeBien ==
  ASSUME IInv, TInv, NEW c \in Cpus, Oye(c)
  PROVE  TInv'
<1>1. /\ UNCHANGED <<pid, ctx, ins, porc, buf, irq, pedido, sticks, tabla, ram, donde, llamada>>
      /\ rx[c] # <<>> /\ rx' = [rx EXCEPT ![c] = Tail(@)]
  BY DEF Oye, CpuConfig, Escuchar, cpuVars, altaVars, kerVars
<1>2. BienMensaje(Head(rx[c])) /\ Correo'
  BY <1>1, SacarBien DEF TInv
<1>3. Tablas' /\ Bases' /\ Celdas' /\ Procesos'
  BY <1>1 DEF TInv, Tablas, Bases, Celdas, Procesos
<1>4. ASSUME NEW d \in Cpus
      PROVE  /\ fase'[d] = fase[d] \/ fase'[d] \in {"libre", "desfasada"}
             /\ conoce'[d] = conoce[d] \/ \E e : conoce'[d] = Append(conoce[d], e)
             /\ resp'[d] = resp[d] \/ resp'[d] = Head(rx[c])
  <2>1. /\ EsTabla(resp, Cpus) /\ EsTabla(conoce, Cpus) /\ EsTabla(fase, Cpus)
    BY DEF IInv, Forma, EsTabla
  <2>2. CASE CpuConfig(c)
    BY <2>1, <2>2 DEF CpuConfig, EsTabla
  <2>3. CASE Escuchar(c)
    <3>1. fase' = fase
      BY <2>3 DEF Escuchar, cpuVars
    <3>2. CASE Head(rx[c]).t = "STICK"
      <4>1. AgregarStick(c, Head(rx[c]).stick) /\ resp' = resp
        BY <2>3, <3>2 DEF Escuchar
      <4> QED BY <2>1, <3>1, <4>1 DEF AgregarStick, EsTabla
    <3>3. CASE Head(rx[c]).t # "STICK"
      <4>1. Responder(c, Head(rx[c])) /\ conoce' = conoce
        BY <2>3, <3>3 DEF Escuchar
      <4> QED BY <2>1, <3>1, <4>1 DEF Responder, EsTabla
    <3> QED BY <3>2, <3>3
  <2> QED BY <2>2, <2>3 DEF Oye
<1>5. ASSUME NEW d \in Cpus PROVE CpuBien(d)'
  <2>1. \A b, t : Cubren(porc[d], conoce[d], b, t) => Cubren(porc[d], conoce'[d], b, t)
    BY <1>4, CubrenCrece DEF IInv, Forma
  <2>2. BienMensaje(resp'[d])
    BY <1>2, <1>4 DEF TInv, CpuBien
  <2>3. fase'[d] = fase[d] \/ (fase'[d] \notin Cargado /\ fase'[d] # "lee" /\ fase'[d] # "escribe")
    BY <1>4 DEF Cargado
  <2> QED BY <1>1, <2>1, <2>2, <2>3 DEF TInv, CpuBien
<1> QED BY <1>2, <1>3, <1>5 DEF TInv

LEMMA InterrumpirBien ==
  ASSUME TInv, NEW c \in Cpus, Interrumpir(c)
  PROVE  TInv'
<1>1. /\ UNCHANGED <<fase, pid, ctx, ins, porc, buf, conoce, resp, rx, pedido, sticks, tabla,
                    ram, donde, llamada>>
      /\ irq' = [irq EXCEPT ![c] = TRUE]
  BY DEF Interrumpir, redVars, altaVars, kerVars
<1>2. Tablas'
  BY <1>1 DEF TInv, Tablas
<1>3. Correo' /\ Procesos' /\ Bases' /\ Celdas'
  BY <1>1 DEF TInv, Correo, Procesos, Bases, Celdas
<1>4. \A d \in Cpus : CpuBien(d)'
  BY <1>1 DEF TInv, CpuBien
<1> QED BY <1>2, <1>3, <1>4 DEF TInv

-----------------------------------------------------------------------------
(* The scheduler, and kernel_memory on its behalf.                         *)

\* The CPUs do not change.
LEMMA KernelIgual ==
  ASSUME TInv, UNCHANGED <<fase, pid, ctx, ins, porc, buf, irq, conoce, resp, rx, pedido, sticks>>,
         donde' \in [Procs -> {"listo", "sale", "fin"} \union Cpus],
         EsTabla(llamada', Procs), EsTabla(ram', Sticks), Procesos', Celdas'
  PROVE  TInv'
<1>1. Tablas'
  BY DEF TInv, Tablas
<1>2. Correo' /\ Bases'
  BY DEF TInv, Correo, Bases
<1>3. \A d \in Cpus : CpuBien(d)'
  BY DEF TInv, CpuBien
<1> QED BY <1>1, <1>2, <1>3 DEF TInv

LEMMA DespacharBien ==
  ASSUME TInv, NEW p \in Procs, NEW c \in Cpus, Despachar(c, p)
  PROVE  TInv'
<1>1. /\ UNCHANGED <<fase, pid, ctx, ins, porc, buf, irq, conoce, resp, rx, pedido, sticks,
                     tabla, llamada, ram>>
      /\ donde' = [donde EXCEPT ![p] = c]
  BY DEF Despachar, redVars, altaVars
<1>2. donde' \in [Procs -> {"listo", "sale", "fin"} \union Cpus]
  BY <1>1 DEF TInv, Tablas
<1>3. EsTabla(llamada', Procs) /\ EsTabla(ram', Sticks) /\ Procesos' /\ Celdas'
  BY <1>1 DEF TInv, Tablas, Procesos, Celdas
<1> QED BY <1>1, <1>2, <1>3, KernelIgual

\* A table of calls with one less.
LEMMA LlamadaMenos ==
  ASSUME TInv, NEW p \in Procs, llamada' = [llamada EXCEPT ![p] = Vacia]
  PROVE  EsTabla(llamada', Procs) /\ \A o \in Procs : BienInstr(llamada'[o])
<1>1. EsTabla(llamada, Procs) /\ \A o \in Procs : BienInstr(llamada[o])
  BY DEF TInv, Tablas, Procesos
<1>2. EsTabla(llamada', Procs) /\ \A o \in Procs : llamada'[o] = llamada[o] \/ llamada'[o] = Vacia
  BY <1>1 DEF EsTabla
<1> QED BY <1>1, <1>2, VaciaBien

\* A context with other segments.
LEMMA OtrosSegmentosBien ==
  ASSUME IInv, TInv, NEW p \in Procs, NEW q, Sucesion(q),
         tabla' = [tabla EXCEPT ![p].segs = q], \A o \in Procs : BienInstr(llamada'[o]),
         \A g \in Range(q) : DOMAIN g = {"id", "base", "lim"} /\ g.base \in Int /\ g.lim \in Int
  PROVE  Procesos'
<1>1. EsTabla(tabla, Procs) /\ BienContexto(tabla[p]) /\ tabla[p].pid \in Procs
  BY DEF IInv, Forma, TInv, Procesos
<1>2. \A o \in Procs \ {p} : tabla'[o] = tabla[o]
  BY <1>1 DEF EsTabla
<1>3. tabla'[p] = [tabla[p] EXCEPT !.segs = q]
  BY <1>1 DEF EsTabla
<1> DEFINE x == tabla[p]
           y == tabla'[p]
<1>4. /\ DOMAIN y = {"pid", "regs", "pc", "segs"} /\ y.segs = q /\ y.pid = x.pid
      /\ y.regs = x.regs /\ y.pc = x.pc
  BY <1>1, <1>3 DEF BienContexto, EsContexto
<1> HIDE DEF x, y
<1>5. BienContexto(y) /\ y.pid \in Procs
  BY <1>1, <1>4 DEF BienContexto, EsContexto, x
<1> QED BY <1>2, <1>5 DEF TInv, Procesos, y

\* Addresses of sticks are integers.
LEMMA DireccionEntera ==
  ASSUME NEW a, Publicada(a, sticks, spc), Bases
  PROVE  a \in Int
  BY DEF Publicada, EnEntrada, Rango

LEMMA TablaProceso ==
  ASSUME IInv, TInv, NEW p \in Procs
  PROVE  /\ EsTabla(tabla, Procs) /\ Sucesion(tabla[p].segs)
         /\ \A g \in Range(tabla[p].segs) :
              DOMAIN g = {"id", "base", "lim"} /\ g.base \in Int /\ g.lim \in Int
  BY DEF IInv, Forma, TInv, Procesos, BienContexto, EsContexto

LEMMA VuelveBien ==
  ASSUME TInv, NEW p \in Procs, Vuelve(p), donde' = donde, Procesos'
  PROVE  TInv'
<1>1. UNCHANGED <<fase, pid, ctx, ins, porc, buf, irq, conoce, resp, rx, pedido, sticks, ram>>
  BY DEF Vuelve, redVars, altaVars
<1>2. EsTabla(llamada', Procs)
  BY LlamadaMenos DEF Vuelve
<1>3. /\ EsTabla(ram', Sticks) /\ Celdas'
      /\ donde' \in [Procs -> {"listo", "sale", "fin"} \union Cpus]
  BY <1>1 DEF TInv, Tablas, Celdas
<1> QED BY <1>1, <1>2, <1>3, KernelIgual

LEMMA AllocBien ==
  ASSUME IInv, TInv, NEW p \in Procs, ServirAlloc(p)
  PROVE  TInv'
<1> DEFINE i == llamada[p]
<1>1. PICK b \in libre : Rango(b, i.val) \subseteq libre /\ Ubica(p, b)
  BY DEF ServirAlloc
<1>2. b \in Int /\ i.val \in Nat
  BY DireccionEntera DEF IInv, Publicos, TInv, Procesos, BienInstr
<1> DEFINE g == [id |-> i.id, base |-> b, lim |-> i.val]
           q == Append(tabla[p].segs, g)
<1>3. tabla' = [tabla EXCEPT ![p].segs = q]
  <2>1. tabla' = [tabla EXCEPT ![p].segs = Append(@, g)]
    BY <1>1 DEF Ubica
  <2> HIDE DEF g
  <2> QED BY <2>1, TablaProceso DEF EsTabla
<1>4. DOMAIN g = {"id", "base", "lim"} /\ g.base \in Int /\ g.lim \in Int
  BY <1>2
<1> HIDE DEF g
<1>5. Sucesion(q) /\ Range(q) = Range(tabla[p].segs) \union {g}
  BY TablaProceso, AlFinal
<1> HIDE DEF q
<1>6. Vuelve(p) /\ donde' = donde
  BY DEF ServirAlloc
<1>7. \A o \in Procs : BienInstr(llamada'[o])
  BY <1>6, LlamadaMenos DEF Vuelve
<1>8. Procesos'
  BY <1>3, <1>4, <1>5, <1>7, TablaProceso, OtrosSegmentosBien
<1> QED BY <1>6, <1>8, VuelveBien

LEMMA FreeBien ==
  ASSUME IInv, TInv, NEW p \in Procs, ServirFree(p)
  PROVE  TInv'
<1> DEFINE segs == tabla[p].segs
           k == BuscarSegmento(segs, llamada[p].id)
<1>1. Vuelve(p) /\ donde' = donde
  BY DEF ServirFree
<1>2. \A o \in Procs : BienInstr(llamada'[o])
  BY <1>1, LlamadaMenos DEF Vuelve
<1>3. CASE k = 0
  <2>1. tabla' = tabla
    BY <1>3 DEF ServirFree
  <2>2. Procesos'
    BY <1>2, <2>1 DEF TInv, Procesos
  <2> QED BY <1>1, <2>2, VuelveBien
<1>4. CASE k # 0
  <2>1. k \in 1 .. Len(segs)
    BY <1>4, SegmentoHallado
  <2>2. tabla' = [tabla EXCEPT ![p].segs = RemoveAt(@, k)]
    BY <1>4 DEF ServirFree
  <2> HIDE DEF k
  <2>3. tabla' = [tabla EXCEPT ![p].segs = RemoveAt(segs, k)]
    BY <2>2, TablaProceso DEF EsTabla
  <2>4. Sucesion(RemoveAt(segs, k)) /\ Range(RemoveAt(segs, k)) \subseteq Range(segs)
    BY <2>1, TablaProceso, SinUno
  <2>5. Procesos'
    BY <1>2, <2>3, <2>4, TablaProceso, OtrosSegmentosBien
  <2> QED BY <1>1, <2>5, VuelveBien
<1> QED BY <1>3, <1>4

LEMMA NegarBien ==
  ASSUME TInv, NEW p \in Procs, NegarAlloc(p)
  PROVE  TInv'
<1>1. /\ UNCHANGED <<fase, pid, ctx, ins, porc, buf, irq, conoce, resp, rx, pedido, sticks,
                     tabla, ram>>
      /\ llamada' = [llamada EXCEPT ![p] = Vacia] /\ donde' = [donde EXCEPT ![p] = "sale"]
  BY DEF NegarAlloc, cpuVars, redVars, altaVars
<1>2. EsTabla(llamada', Procs) /\ Procesos'
  BY <1>1, LlamadaMenos DEF TInv, Procesos
<1>3. /\ EsTabla(ram', Sticks) /\ Celdas'
      /\ donde' \in [Procs -> {"listo", "sale", "fin"} \union Cpus]
  BY <1>1 DEF TInv, Tablas, Celdas
<1> QED BY <1>1, <1>2, <1>3, KernelIgual

LEMMA FinalizarBien ==
  ASSUME IInv, TInv, NEW p \in Procs, Finalizar(p)
  PROVE  TInv'
<1>1. /\ UNCHANGED <<fase, pid, ctx, ins, porc, buf, irq, conoce, resp, rx, pedido, sticks,
                     llamada, ram>>
      /\ tabla' = [tabla EXCEPT ![p].segs = <<>>] /\ donde' = [donde EXCEPT ![p] = "fin"]
  BY DEF Finalizar, cpuVars, redVars, altaVars
<1>2. Procesos'
  BY <1>1, NadaEsSucesion, OtrosSegmentosBien DEF TInv, Procesos
<1>3. /\ EsTabla(ram', Sticks) /\ Celdas' /\ EsTabla(llamada', Procs)
      /\ donde' \in [Procs -> {"listo", "sale", "fin"} \union Cpus]
  BY <1>1 DEF TInv, Tablas, Celdas
<1> QED BY <1>1, <1>2, <1>3, KernelIgual

\* The byte at an address that has been given out.
LEMMA CeldaBien ==
  ASSUME IInv, TInv, NEW a, Publicada(a, sticks, spc)
  PROVE  Celda(a) \in Bytes
<1> DEFINE e == CHOOSE x \in Range(sticks) : a \in Rango(x.base, x.tam)
<1>1. e \in Range(sticks) /\ a \in Rango(e.base, e.tam)
  BY DEF Publicada, EnEntrada
<1>2. Celda(a) = ram[e.id][a - e.base]
  BY DEF Celda
<1> HIDE DEF e
<1>3. e.id \in Sticks /\ e.tam = TamStick[e.id] /\ e.base \in Nat
  BY <1>1 DEF IInv, Lista, TInv, Bases
<1>4. TamStick \in [Sticks -> Nat \ {0}]
  BY CpuAssumption, Zenon
<1>5. a - e.base \in Rango(0, TamStick[e.id])
  BY <1>1, <1>3, <1>4 DEF Rango
<1> QED BY <1>2, <1>3, <1>5 DEF TInv, Celdas

LEMMA MoverBien ==
  ASSUME IInv, TInv, NEW p \in Procs, Mover(p)
  PROVE  TInv'
<1> DEFINE segs == tabla[p].segs
<1>1. UNCHANGED <<fase, pid, ctx, ins, porc, buf, irq, conoce, resp, rx, pedido, sticks,
                  llamada, donde>>
  BY DEF Mover, cpuVars, redVars, altaVars
<1>2. PICK k \in 1 .. Len(segs) :
        LET g == segs[k]
            hueco == libre \union Rango(g.base, g.lim)
        IN  \E b \in hueco \ {g.base} :
              /\ Rango(b, g.lim) \subseteq hueco
              /\ tabla' = [tabla EXCEPT ![p].segs[k].base = b]
              /\ ram' = [s \in Sticks |-> [o \in DOMAIN ram[s] |->
                   IF spc[s] = "fin" /\ EntradaDe(s).base + o \in Rango(b, g.lim)
                   THEN Celda(g.base + EntradaDe(s).base + o - b) ELSE ram[s][o]]]
  BY DEF Mover
<1> DEFINE g == segs[k]
           hueco == libre \union Rango(g.base, g.lim)
<1>3. PICK b \in hueco :
        /\ Rango(b, g.lim) \subseteq hueco
        /\ tabla' = [tabla EXCEPT ![p].segs[k].base = b]
        /\ ram' = [s \in Sticks |-> [o \in DOMAIN ram[s] |->
             IF spc[s] = "fin" /\ EntradaDe(s).base + o \in Rango(b, g.lim)
             THEN Celda(g.base + EntradaDe(s).base + o - b) ELSE ram[s][o]]]
  BY <1>2
<1>4. g \in Range(segs) /\ Len(segs) \in Nat /\ DOMAIN segs = 1 .. Len(segs)
  BY TablaProceso, PartesDe
<1>5. \A a \in Rango(g.base, g.lim) : Publicada(a, sticks, spc)
  BY <1>4, FormaKernel
<1>6. \A a \in hueco : Publicada(a, sticks, spc)
  BY <1>5, FormaKernel
<1>7. b \in Int /\ g.base \in Int /\ g.lim \in Int /\ DOMAIN g = {"id", "base", "lim"}
  BY <1>3, <1>4, <1>6, TablaProceso, DireccionEntera DEF TInv
<1> DEFINE h == [g EXCEPT !.base = b]
           q == [segs EXCEPT ![k] = h]
<1>8. tabla' = [tabla EXCEPT ![p].segs = q]
  BY <1>3, TablaProceso DEF EsTabla
<1>9. Sucesion(q) /\ \A x \in Range(q) : x \in Range(segs) \/ x = h
  <2> DEFINE S == Range(segs) \union {h}
  <2>1. segs \in Seq(S) /\ h \in S /\ k \in 1 .. Len(segs)
    BY TablaProceso, SeqMonotonic DEF Sucesion
  <2> HIDE DEF S, segs, h
  <2>2. q \in Seq(S)
    BY <2>1, ExceptSeq
  <2>3. Sucesion(q) /\ Range(q) \subseteq S
    BY <2>2, EsSucesion, RangeOfSeq
  <2> QED BY <2>3 DEF S
<1>10. DOMAIN h = {"id", "base", "lim"} /\ h.base \in Int /\ h.lim \in Int
  <2> HIDE DEF g
  <2> QED BY <1>7
<1> HIDE DEF h, q
<1>11. Procesos'
  <2>1. \A x \in Range(q) : DOMAIN x = {"id", "base", "lim"} /\ x.base \in Int /\ x.lim \in Int
    BY <1>9, <1>10, TablaProceso
  <2>2. \A o \in Procs : BienInstr(llamada'[o])
    BY <1>1 DEF TInv, Procesos
  <2> QED BY <1>8, <1>9, <2>1, <2>2, OtrosSegmentosBien
<1> HIDE DEF g, hueco
<1>12. ASSUME NEW s \in Sticks PROVE ram'[s] \in [Rango(0, TamStick[s]) -> Bytes]
  <2> DEFINE z == EntradaDe(s).base
  <2>1. /\ ram[s] \in [Rango(0, TamStick[s]) -> Bytes]
        /\ ram'[s] = [o \in DOMAIN ram[s] |->
             IF spc[s] = "fin" /\ z + o \in Rango(b, g.lim)
             THEN Celda(g.base + z + o - b) ELSE ram[s][o]]
    BY <1>3 DEF TInv, Celdas
  <2>2. ASSUME NEW o \in Rango(0, TamStick[s]), spc[s] = "fin", z + o \in Rango(b, g.lim)
        PROVE  Celda(g.base + z + o - b) \in Bytes
    <3>1. z \in Nat
      <4>1. PICK e \in Range(sticks) : e.id = s
        BY <2>2 DEF IInv, Lista
      <4>2. EntradaDe(s) \in Range(sticks)
        BY <4>1 DEF EntradaDe
      <4> QED BY <4>2 DEF TInv, Bases
    <3>2. o \in Int
      BY DEF Rango
    <3> HIDE DEF z
    <3>3. g.base + z + o - b \in Rango(g.base, g.lim)
      BY <1>7, <2>2, <3>1, <3>2 DEF Rango
    <3> QED BY <1>5, <3>3, CeldaBien
  <2> HIDE DEF z
  <2> QED BY <2>1, <2>2
<1>13. EsTabla(ram', Sticks) /\ Celdas'
  BY <1>3, <1>12 DEF EsTabla, Celdas
<1>14. EsTabla(llamada', Procs) /\ donde' \in [Procs -> {"listo", "sale", "fin"} \union Cpus]
  BY <1>1 DEF TInv, Tablas
<1> QED BY <1>1, <1>11, <1>13, <1>14, KernelIgual

LEMMA KernelBien ==
  ASSUME IInv, TInv, NEW p \in Procs, Kernel(p)
  PROVE  TInv'
  BY AllocBien, NegarBien, FreeBien, FinalizarBien, MoverBien DEF Kernel

-----------------------------------------------------------------------------
(* The main thread of a CPU.                                               *)

\* f and g differ at c at most.
Toca(f, g, c) == g = f \/ \E x : g = [f EXCEPT ![c] = x]

LEMMA TocaUno ==
  ASSUME NEW f, NEW g, NEW D, EsTabla(f, D), NEW c, Toca(f, g, c)
  PROVE  EsTabla(g, D) /\ \A d \in D \ {c} : g[d] = f[d]
  BY DEF Toca, EsTabla

\* A step of the main thread of c touches only what is its own.
Suyo(c) ==
  /\ UNCHANGED <<rx, conoce, sticks, tabla>>
  /\ Toca(fase, fase', c) /\ Toca(ctx, ctx', c) /\ Toca(ins, ins', c) /\ Toca(porc, porc', c)
  /\ Toca(buf, buf', c) /\ Toca(resp, resp', c) /\ Toca(pedido, pedido', c)

\* The tables it may leave to others.
Comun ==
  /\ pid \in [Cpus -> Procs \union {Nulo}] /\ irq \in [Cpus -> BOOLEAN]
  /\ donde \in [Procs -> {"listo", "sale", "fin"} \union Cpus]
  /\ EsTabla(llamada, Procs) /\ \A p \in Procs : BienInstr(llamada[p])
  /\ EsTabla(ram, Sticks) /\ Celdas

LEMMA ComunIgual ==
  ASSUME TInv
  PROVE  Comun /\ (UNCHANGED <<pid, irq, donde, llamada, ram>> => Comun')
  BY DEF TInv, Tablas, Procesos, Celdas, Comun

LEMMA CicloIgual ==
  ASSUME IInv, TInv, NEW c \in Cpus, Suyo(c), Comun', CpuBien(c)'
  PROVE  TInv'
<1>1. /\ EsTabla(fase, Cpus) /\ EsTabla(ctx, Cpus) /\ EsTabla(ins, Cpus) /\ EsTabla(porc, Cpus)
      /\ EsTabla(buf, Cpus) /\ EsTabla(resp, Cpus) /\ EsTabla(pedido, Cpus)
  <2>1. EsTabla(fase, Cpus)
    BY DEF IInv, Forma, EsTabla
  <2> QED BY <2>1 DEF IInv, Forma, TInv, Tablas
<1>2. /\ EsTabla(ins', Cpus) /\ EsTabla(porc', Cpus) /\ EsTabla(buf', Cpus)
      /\ \A d \in Cpus \ {c} :
           /\ fase'[d] = fase[d] /\ ctx'[d] = ctx[d] /\ ins'[d] = ins[d] /\ porc'[d] = porc[d]
           /\ buf'[d] = buf[d] /\ resp'[d] = resp[d] /\ pedido'[d] = pedido[d]
  <2>1. EsTabla(ins', Cpus) /\ \A d \in Cpus \ {c} : ins'[d] = ins[d]
    <3>1. EsTabla(ins, Cpus) /\ Toca(ins, ins', c)
      BY <1>1 DEF Suyo
    <3> QED BY <3>1, TocaUno
  <2>2. EsTabla(porc', Cpus) /\ \A d \in Cpus \ {c} : porc'[d] = porc[d]
    <3>1. EsTabla(porc, Cpus) /\ Toca(porc, porc', c)
      BY <1>1 DEF Suyo
    <3> QED BY <3>1, TocaUno
  <2>3. EsTabla(buf', Cpus) /\ \A d \in Cpus \ {c} : buf'[d] = buf[d]
    <3>1. EsTabla(buf, Cpus) /\ Toca(buf, buf', c)
      BY <1>1 DEF Suyo
    <3> QED BY <3>1, TocaUno
  <2>4. EsTabla(fase', Cpus) /\ \A d \in Cpus \ {c} : fase'[d] = fase[d]
    <3>1. EsTabla(fase, Cpus) /\ Toca(fase, fase', c)
      BY <1>1 DEF Suyo
    <3> QED BY <3>1, TocaUno
  <2>5. EsTabla(ctx', Cpus) /\ \A d \in Cpus \ {c} : ctx'[d] = ctx[d]
    <3>1. EsTabla(ctx, Cpus) /\ Toca(ctx, ctx', c)
      BY <1>1 DEF Suyo
    <3> QED BY <3>1, TocaUno
  <2>6. EsTabla(resp', Cpus) /\ \A d \in Cpus \ {c} : resp'[d] = resp[d]
    <3>1. EsTabla(resp, Cpus) /\ Toca(resp, resp', c)
      BY <1>1 DEF Suyo
    <3> QED BY <3>1, TocaUno
  <2>7. EsTabla(pedido', Cpus) /\ \A d \in Cpus \ {c} : pedido'[d] = pedido[d]
    <3>1. EsTabla(pedido, Cpus) /\ Toca(pedido, pedido', c)
      BY <1>1 DEF Suyo
    <3> QED BY <3>1, TocaUno
  <2> QED BY <2>1, <2>2, <2>3, <2>4, <2>5, <2>6, <2>7
<1>3. Tablas'
  BY <1>2 DEF Comun, Tablas
<1>4. Correo' /\ Bases' /\ Celdas' /\ Procesos'
  BY DEF Suyo, Comun, TInv, Correo, Bases, Procesos
<1>5. ASSUME NEW d \in Cpus PROVE CpuBien(d)'
  <2>1. CASE d = c
    BY <2>1
  <2>2. CASE d # c
    <3>1. conoce' = conoce
      BY DEF Suyo
    <3>2. CpuBien(d)
      BY DEF TInv
    <3> QED BY <1>2, <2>2, <3>1, <3>2 DEF CpuBien
  <2> QED BY <2>1, <2>2
<1> QED BY <1>3, <1>4, <1>5 DEF TInv

LEMMA AvanzaBien ==
  ASSUME NEW x, BienContexto(x)
  PROVE  BienContexto(Avanza(x)) /\ Avanza(x).pid = x.pid /\ Avanza(x).regs = x.regs
<1> DEFINE y == Avanza(x)
<1>1. /\ DOMAIN y = DOMAIN x /\ y.pid = x.pid /\ y.regs = x.regs /\ y.segs = x.segs
      /\ y.pc = SigPc(x.pc)
  BY DEF Avanza, BienContexto, EsContexto
<1> HIDE DEF y
<1>2. BienContexto(y)
  BY <1>1, SigPcBien DEF BienContexto, EsContexto
<1> QED BY <1>1, <1>2 DEF y

LEMMA ConsumeBien ==
  ASSUME IInv, NEW c \in Cpus, Consume(c)
  PROVE  BienMensaje(resp'[c]) /\ Toca(resp, resp', c)
<1>1. "" # "CTX"
  BY Zenon
<1>2. BienMensaje(Msg(""))
  BY <1>1, MsgBien, Zenon
<1>3. resp'[c] = Msg("")
  BY Zenon, FormaCiclo DEF Consume, EsTabla
<1>4. Toca(resp, resp', c)
  BY Zenon DEF Consume, Toca
<1> QED BY <1>2, <1>3, <1>4, Zenon

LEMMA PedidoBien ==
  ASSUME NEW t, NEW x, BienContexto(x), x.pid \in Procs
  PROVE  BienPedido(Pedido(t, x))
  BY DEF Pedido, BienPedido

\* actualizar_contexto_en_memory.
LEMMA GuardarBien ==
  ASSUME IInv, NEW c \in Cpus, NEW r, NEW x, BienContexto(x), x.pid \in Procs, Guardar(c, r, x)
  PROVE  /\ Toca(ctx, ctx', c) /\ Toca(pedido, pedido', c) /\ Toca(fase, fase', c)
         /\ ctx'[c] = x /\ BienPedido(pedido'[c]) /\ fase'[c] = "guarda"
<1>1. Toca(ctx, ctx', c) /\ Toca(pedido, pedido', c) /\ Toca(fase, fase', c)
  BY DEF Guardar, Toca
<1>2. ctx'[c] = x /\ pedido'[c] = Pedido("GUARDAR", x) /\ fase'[c] = "guarda"
  BY FormaCiclo DEF Guardar, EsTabla
<1> QED BY <1>1, <1>2, PedidoBien

\* A CPU that is not in the middle of an access.
LEMMA SinAcceso ==
  ASSUME NEW c, BienContexto(ctx'[c]), BienInstr(ins'[c]), EsBytes(buf'[c]),
         BienMensaje(resp'[c]), BienPedido(pedido'[c]), fase'[c] # "lee", fase'[c] # "escribe",
         fase'[c] \in Cargado => ctx'[c].pid \in Procs
  PROVE  CpuBien(c)'
  BY DEF CpuBien

LEMMA LaCpuBien ==
  ASSUME TInv, NEW c \in Cpus
  PROVE  /\ BienContexto(ctx[c]) /\ BienInstr(ins[c]) /\ EsBytes(buf[c]) /\ BienMensaje(resp[c])
         /\ BienInstr(resp[c].ins) /\ BienPedido(pedido[c]) /\ BienRegs(ctx[c].regs)
         /\ BienPc(ctx[c].pc) /\ (fase[c] \in Cargado => ctx[c].pid \in Procs)
  BY DEF TInv, CpuBien, BienMensaje, BienContexto

LEMMA TomarBien ==
  ASSUME IInv, TInv, NEW c \in Cpus, Tomar(c)
  PROVE  TInv'
<1> DEFINE y == Contexto(proximo[c])
<1>1. /\ UNCHANGED <<pid, ctx, ins, porc, buf, irq, conoce, resp, rx, sticks, tabla, ram,
                     donde, llamada>>
      /\ pedido' = [pedido EXCEPT ![c] = Pedido("CTX", y)]
      /\ fase' = [fase EXCEPT ![c] = "ctx"] /\ proximo[c] # Nulo
  BY DEF Tomar, altaVars, kerVars
<1>2. proximo[c] \in Procs
  BY <1>1, FormaCiclo
<1>3. BienContexto(y) /\ y.pid \in Procs
  BY <1>2, ContextoBien
<1> HIDE DEF y
<1>4. pedido'[c] = Pedido("CTX", y) /\ fase'[c] = "ctx"
  BY <1>1, FormaCiclo DEF EsTabla
<1>5. BienPedido(pedido'[c])
  BY <1>3, <1>4, PedidoBien
<1>6. CpuBien(c)'
  BY <1>1, <1>4, <1>5, LaCpuBien, SinAcceso DEF Cargado
<1>7. Suyo(c)
  BY <1>1 DEF Suyo, Toca
<1> QED BY <1>1, <1>6, <1>7, ComunIgual, CicloIgual

LEMMA TomarContextoBien ==
  ASSUME IInv, TInv, NEW c \in Cpus, TomarContexto(c)
  PROVE  TInv'
<1> DEFINE m == resp[c]
<1>1. UNCHANGED <<ins, porc, buf, irq, conoce, rx, sticks, tabla, ram, donde, llamada>>
  BY DEF TomarContexto, Quieto, altaVars
<1>2. BienMensaje(resp'[c]) /\ Toca(resp, resp', c)
  BY ConsumeBien DEF TomarContexto
<1>3. CASE m.t = "CTX"
  <2>1. /\ ctx' = [ctx EXCEPT ![c] = m.ctx] /\ pid' = [pid EXCEPT ![c] = m.ctx.pid]
        /\ pedido' = [pedido EXCEPT ![c] = Pedido("INSTR", m.ctx)]
        /\ fase' = [fase EXCEPT ![c] = "fetch"]
    BY <1>3 DEF TomarContexto, Fetch
  <2>2. BienContexto(m.ctx) /\ m.ctx.pid \in Procs
    BY <1>3, LaCpuBien DEF BienMensaje
  <2>3. ctx'[c] = m.ctx /\ pedido'[c] = Pedido("INSTR", m.ctx) /\ fase'[c] = "fetch"
    BY <2>1, FormaCiclo DEF EsTabla
  <2>4. BienPedido(pedido'[c])
    BY <2>2, <2>3, PedidoBien
  <2>5. CpuBien(c)'
    BY <1>1, <1>2, <2>2, <2>3, <2>4, LaCpuBien, SinAcceso
  <2>6. Suyo(c)
    BY <1>1, <1>2, <2>1 DEF Suyo, Toca
  <2>7. Comun'
    BY <1>1, <2>1, <2>2, ComunIgual DEF Comun, Celdas
  <2> QED BY <2>5, <2>6, <2>7, CicloIgual
<1>4. CASE m.t # "CTX"
  <2>1. UNCHANGED <<ctx, pid, pedido>> /\ fase' = [fase EXCEPT ![c] = "libre"]
    BY <1>4 DEF TomarContexto
  <2>2. fase'[c] = "libre"
    BY <2>1, FormaCiclo
  <2>3. CpuBien(c)'
    BY <1>1, <1>2, <2>1, <2>2, LaCpuBien, SinAcceso DEF Cargado
  <2>4. Suyo(c)
    BY <1>1, <1>2, <2>1 DEF Suyo, Toca
  <2> QED BY <1>1, <2>1, <2>3, <2>4, ComunIgual, CicloIgual
<1> QED BY <1>3, <1>4

\* A line arrives.
LEMMA LlegaBien ==
  ASSUME IInv, TInv, NEW c \in Cpus, LlegaInstruccion(c)
  PROVE  /\ BienMensaje(resp'[c]) /\ Toca(resp, resp', c) /\ Toca(ins, ins', c)
         /\ ins'[c] = resp[c].ins /\ BienInstr(ins'[c])
         /\ fase[c] \in Cargado /\ ctx[c].pid \in Procs
<1>1. BienMensaje(resp'[c]) /\ Toca(resp, resp', c)
  BY ConsumeBien DEF LlegaInstruccion
<1>2. ins' = [ins EXCEPT ![c] = resp[c].ins] /\ fase[c] = "fetch"
  BY DEF LlegaInstruccion
<1>3. ins'[c] = resp[c].ins
  BY <1>2 DEF TInv, Tablas, EsTabla
<1> QED BY <1>1, <1>2, <1>3, LaCpuBien DEF Toca, Cargado

LEMMA RegistrosBien ==
  ASSUME IInv, TInv, NEW c \in Cpus, EjecutarRegistros(c)
  PROVE  TInv'
<1> DEFINE n == RegPaso(ctx[c].regs, ctx[c].pc, resp[c].ins)
           x == [ctx[c] EXCEPT !.regs = n.regs, !.pc = n.pc]
<1>1. /\ UNCHANGED <<pid, porc, buf, irq, pedido, ram, donde, llamada, conoce, rx, sticks, tabla>>
      /\ fase' = [fase EXCEPT ![c] = "irq"] /\ LlegaInstruccion(c) /\ resp[c].ins.op \in RegOps
      /\ ctx' = [ctx EXCEPT ![c].regs = n.regs, ![c].pc = n.pc]
  BY DEF EjecutarRegistros, Quieto, altaVars
<1>2. BienRegs(n.regs) /\ BienPc(n.pc)
  BY <1>1, RegPasoBien, LaCpuBien
<1> HIDE DEF n
<1>3. [ctx EXCEPT ![c].regs = n.regs, ![c].pc = n.pc] = [ctx EXCEPT ![c] = x]
  BY DEF IInv, Forma, EsTabla
<1>4. EsContexto(ctx[c]) /\ BienContexto(ctx[c])
  BY LaCpuBien DEF BienContexto
<1>5. /\ DOMAIN x = DOMAIN ctx[c] /\ x.segs = ctx[c].segs /\ x.pid = ctx[c].pid
      /\ x.regs = n.regs /\ x.pc = n.pc
  BY <1>4 DEF EsContexto
<1> HIDE DEF x
<1>6. BienContexto(x)
  BY <1>2, <1>4, <1>5 DEF BienContexto, EsContexto
<1>7. ctx'[c] = x /\ fase'[c] = "irq" /\ ctx' = [ctx EXCEPT ![c] = x]
  BY <1>1, <1>3, FormaCiclo DEF EsTabla
<1>8. CpuBien(c)'
  BY <1>1, <1>5, <1>6, <1>7, LlegaBien, LaCpuBien, SinAcceso
<1>9. Suyo(c)
  BY <1>1, <1>7, LlegaBien DEF Suyo, Toca
<1> QED BY <1>1, <1>8, <1>9, ComunIgual, CicloIgual

LEMMA RestoBien ==
  ASSUME IInv, TInv, NEW c \in Cpus, EjecutarResto(c)
  PROVE  TInv'
<1>1. /\ UNCHANGED <<pid, porc, buf, irq, ram, donde, llamada, conoce, rx, sticks, tabla>>
      /\ LlegaInstruccion(c)
  BY DEF EjecutarResto, Quieto, altaVars
<1>2. PICK r, x : Guardar(c, r, x) /\ (x = ctx[c] \/ x = Avanza(ctx[c]))
  BY DEF EjecutarResto
<1>3. BienContexto(x) /\ x.pid \in Procs
  BY <1>1, <1>2, LlegaBien, LaCpuBien, AvanzaBien
<1>4. CpuBien(c)'
  BY <1>1, <1>2, <1>3, GuardarBien, LlegaBien, LaCpuBien, SinAcceso
<1>5. Suyo(c)
  BY <1>1, <1>2, <1>3, GuardarBien, LlegaBien DEF Suyo, Toca
<1> QED BY <1>1, <1>4, <1>5, ComunIgual, CicloIgual

\* mmu_traducir_dir_logica: a legal access is split into portions that are the
\* whole of it, each within a stick the CPU knows.
LEMMA TraducirBien ==
  ASSUME IInv, TInv, NEW c \in Cpus, NEW dir \in Nat, NEW t \in Nat,
         EsValida(Traducir(c, dir, t))
  PROVE  Cubren(Traducir(c, dir, t), conoce[c], 0, t)
<1> DEFINE d == Descomponer(dir)
           segs == ctx[c].segs
           k == BuscarSegmento(segs, d.seg)
           a == (segs[k].base + d.desp) % Palabra
<1>1. ~EsValida(Invalida)
  <2>1. Len(Invalida) = 1 /\ Invalida[1].stick = 0
    BY DEF Invalida
  <2> QED BY <2>1 DEF EsValida
<1>2. k # 0 /\ Traducir(c, dir, t) = Porciones(c, a, t)
  BY <1>1 DEF Traducir
<1>3. k \in 1 .. Len(segs)
  BY <1>2, SegmentoHallado
<1>4. Sucesion(segs) /\ \A g \in Range(segs) : g.base \in Int
  BY LaCpuBien DEF BienContexto, EsContexto
<1>5. segs[k].base \in Int
  BY <1>3, <1>4, PartesDe
<1>6. d.desp \in Nat
  <2>1. d.desp = dir % MaxSeg
    BY DEF Descomponer
  <2> QED BY <2>1, Enteros
<1> HIDE DEF d, k, segs
<1>7. a \in Nat
  BY <1>5, <1>6, Enteros
<1>8. Sucesion(conoce[c]) /\ Range(conoce[c]) \subseteq Range(sticks)
  BY DEF IInv, Forma, Noticias
<1>9. TamStick \in [Sticks -> Nat \ {0}]
  BY CpuAssumption, Zenon
<1>10. \A e \in Range(sticks) : e.base \in Nat /\ e.tam \in Nat
  BY <1>9 DEF IInv, Lista, TInv, Bases
<1>11. \A i \in 1 .. Len(conoce[c]) : conoce[c][i].base \in Nat /\ conoce[c][i].tam \in Nat
  BY <1>8, <1>10, PartesDe
<1> HIDE DEF a
<1>12. Palabra \in Nat \ {0} /\ EsValida(Porciones(c, a, t))
  BY <1>2, Enteros
<1>13. Cubren(Porciones(c, a, t), conoce[c], 0, t)
  BY <1>7, <1>8, <1>11, <1>12, PorcionesCubren
<1> QED BY <1>2, <1>13

\* What a portion is of: a stick kernel_memory has, with its size.
LEMMA PorcionEnStick ==
  ASSUME IInv, NEW c \in Cpus, NEW x, Dentro(x, conoce[c])
  PROVE  /\ conoce[c][x.stick].id \in Sticks /\ x.dir \in Nat /\ x.n \in Nat /\ x.off \in Nat
         /\ x.dir + x.n <= TamStick[conoce[c][x.stick].id]
<1>1. Sucesion(conoce[c]) /\ Range(conoce[c]) \subseteq Range(sticks)
  BY DEF IInv, Forma, Noticias
<1>2. conoce[c][x.stick] \in Range(sticks)
  BY <1>1, PartesDe DEF Dentro
<1> QED BY <1>2 DEF IInv, Lista, Dentro

\* An access starts, or ends in SEG_FAULT.
LEMMA AccesoBien ==
  ASSUME IInv, TInv, NEW c \in Cpus, fase[c] \in Cargado, NEW dir \in Nat, NEW t \in Nat,
         NEW f, NEW bs, Acceso(c, dir, t, f, bs)
  PROVE  /\ Toca(fase, fase', c) /\ Toca(ctx, ctx', c) /\ Toca(pedido, pedido', c)
         /\ Toca(porc, porc', c) /\ Toca(buf, buf', c)
         /\ BienContexto(ctx'[c]) /\ ctx'[c].pid \in Procs /\ BienPedido(pedido'[c])
         /\ \/ /\ fase'[c] = f /\ buf'[c] = bs /\ ctx'[c] = ctx[c]
               /\ Cubren(porc'[c], conoce[c], 0, t)
            \/ fase'[c] = "guarda" /\ buf'[c] = buf[c]
<1> DEFINE ps == Traducir(c, dir, t)
<1>1. BienContexto(ctx[c]) /\ ctx[c].pid \in Procs /\ BienPedido(pedido[c])
  BY LaCpuBien
<1>2. EsTabla(porc, Cpus) /\ EsTabla(buf, Cpus)
  BY DEF TInv, Tablas
<1>3. CASE EsValida(ps)
  <2>1. /\ porc' = [porc EXCEPT ![c] = ps] /\ buf' = [buf EXCEPT ![c] = bs]
        /\ fase' = [fase EXCEPT ![c] = f] /\ ctx' = ctx /\ pedido' = pedido
    BY <1>3 DEF Acceso
  <2>2. Cubren(ps, conoce[c], 0, t)
    BY <1>3, TraducirBien
  <2> HIDE DEF ps
  <2>3. porc'[c] = ps /\ buf'[c] = bs /\ fase'[c] = f
    BY <1>2, <2>1, FormaCiclo DEF EsTabla
  <2>4. /\ Toca(fase, fase', c) /\ Toca(ctx, ctx', c) /\ Toca(pedido, pedido', c)
        /\ Toca(porc, porc', c) /\ Toca(buf, buf', c)
    BY <2>1 DEF Toca
  <2> QED BY <1>1, <2>1, <2>2, <2>3, <2>4
<1>4. CASE ~EsValida(ps)
  <2>1. Guardar(c, "SEG_FAULT", Avanza(ctx[c])) /\ porc' = porc /\ buf' = buf
    BY <1>4 DEF Acceso
  <2>2. BienContexto(Avanza(ctx[c])) /\ Avanza(ctx[c]).pid \in Procs
    BY <1>1, AvanzaBien
  <2>3. /\ Toca(ctx, ctx', c) /\ Toca(pedido, pedido', c) /\ Toca(fase, fase', c)
        /\ ctx'[c] = Avanza(ctx[c]) /\ BienPedido(pedido'[c]) /\ fase'[c] = "guarda"
    BY <2>1, <2>2, GuardarBien
  <2>4. Toca(porc, porc', c) /\ Toca(buf, buf', c)
    BY <2>1 DEF Toca
  <2> QED BY <2>1, <2>2, <2>3, <2>4
<1> QED BY <1>3, <1>4

LEMMA TamanioBien ==
  ASSUME NEW r, BienRegs(r), NEW i
  PROVE  /\ Tamanio(r, i) \in Nat /\ r["SI"] \in Nat /\ r["DI"] \in Nat
         /\ i.op # "COPY_MEM" => Tamanio(r, i) \in 1 .. BytesReg
<1>1. r["SI"] \in Nat /\ r["DI"] \in Nat
  BY Enteros DEF BienRegs
<1>2. Sizeof(i.reg) \in 1 .. BytesReg /\ Obtener(r, i.reg) \in Nat
  BY Enteros, ObtenerBien DEF Sizeof
<1> QED BY <1>1, <1>2, Enteros DEF Tamanio

LEMMA NadaEsBytes == EsBytes(<<>>) /\ Len(<<>>) = 0
  BY EmptySeq DEF EsBytes

LEMMA MmuBien ==
  ASSUME IInv, TInv, NEW c \in Cpus, EjecutarMmu(c)
  PROVE  TInv'
<1> DEFINE i == resp[c].ins
           r == ctx[c].regs
           t == Tamanio(r, i)
<1>1. /\ UNCHANGED <<pid, irq, ram, donde, llamada, conoce, rx, sticks, tabla>>
      /\ LlegaInstruccion(c) /\ i.op \in MmuOps
  BY DEF EjecutarMmu, Quieto, altaVars
<1>2. /\ BienMensaje(resp'[c]) /\ Toca(resp, resp', c) /\ Toca(ins, ins', c)
      /\ ins'[c] = i /\ BienInstr(ins'[c]) /\ fase[c] \in Cargado
  BY <1>1, LlegaBien
<1>3. /\ t \in Nat /\ r["SI"] \in Nat /\ r["DI"] \in Nat
      /\ i.op # "COPY_MEM" => t \in 1 .. BytesReg
  BY LaCpuBien, TamanioBien
<1>4. CASE Lee(i)
  <2>1. Acceso(c, r["SI"], t, "lee", <<>>)
    BY <1>4 DEF EjecutarMmu
  <2> HIDE DEF t
  <2>2. /\ Toca(fase, fase', c) /\ Toca(ctx, ctx', c) /\ Toca(pedido, pedido', c)
        /\ Toca(porc, porc', c) /\ Toca(buf, buf', c)
        /\ BienContexto(ctx'[c]) /\ ctx'[c].pid \in Procs /\ BienPedido(pedido'[c])
        /\ \/ /\ fase'[c] = "lee" /\ buf'[c] = <<>> /\ ctx'[c] = ctx[c]
              /\ Cubren(porc'[c], conoce[c], 0, t)
           \/ fase'[c] = "guarda" /\ buf'[c] = buf[c]
    BY <1>2, <1>3, <2>1, AccesoBien
  <2>3. CpuBien(c)'
    <3>1. CASE fase'[c] = "guarda" /\ buf'[c] = buf[c]
      BY <1>2, <2>2, <3>1, LaCpuBien, SinAcceso
    <3>2. CASE /\ fase'[c] = "lee" /\ buf'[c] = <<>> /\ ctx'[c] = ctx[c]
               /\ Cubren(porc'[c], conoce[c], 0, t)
      <4>1. conoce'[c] = conoce[c]
        BY <1>1
      <4>2. EsBytes(buf'[c]) /\ Len(buf'[c]) = 0
        BY <3>2, NadaEsBytes
      <4>3. /\ Lee(ins'[c])
            /\ Cubren(porc'[c], conoce'[c], Len(buf'[c]), Tamanio(ctx'[c].regs, ins'[c]))
        BY <1>2, <1>4, <3>2, <4>1, <4>2 DEF t
      <4> QED BY <1>2, <2>2, <3>2, <4>2, <4>3 DEF CpuBien
    <3> QED BY <2>2, <3>1, <3>2
  <2>4. Suyo(c)
    BY <1>1, <1>2, <2>2 DEF Suyo
  <2> QED BY <1>1, <2>3, <2>4, ComunIgual, CicloIgual
<1>5. CASE ~Lee(i)
  <2> DEFINE bs == ABytes(Obtener(r, i.reg), t)
  <2>1. Acceso(c, r["DI"], t, "escribe", bs)
    BY <1>5 DEF EjecutarMmu
  <2>2. t \in 1 .. BytesReg
    BY <1>3, <1>5 DEF Lee
  <2> HIDE DEF t
  <2>3. EsBytes(bs) /\ Len(bs) = t
    BY <2>2, LaCpuBien, ObtenerBien, ABytesBien
  <2> HIDE DEF bs
  <2>4. /\ Toca(fase, fase', c) /\ Toca(ctx, ctx', c) /\ Toca(pedido, pedido', c)
        /\ Toca(porc, porc', c) /\ Toca(buf, buf', c)
        /\ BienContexto(ctx'[c]) /\ ctx'[c].pid \in Procs /\ BienPedido(pedido'[c])
        /\ \/ /\ fase'[c] = "escribe" /\ buf'[c] = bs /\ ctx'[c] = ctx[c]
              /\ Cubren(porc'[c], conoce[c], 0, t)
           \/ fase'[c] = "guarda" /\ buf'[c] = buf[c]
    BY <1>2, <1>3, <2>1, AccesoBien
  <2>5. CpuBien(c)'
    <3>1. CASE fase'[c] = "guarda" /\ buf'[c] = buf[c]
      BY <1>2, <2>4, <3>1, LaCpuBien, SinAcceso
    <3>2. CASE /\ fase'[c] = "escribe" /\ buf'[c] = bs /\ ctx'[c] = ctx[c]
               /\ Cubren(porc'[c], conoce[c], 0, t)
      <4>1. \E b \in Nat : Cubren(porc'[c], conoce'[c], b, Len(buf'[c]))
        BY <1>1, <2>3, <3>2
      <4> QED BY <1>2, <2>3, <2>4, <3>2, <4>1 DEF CpuBien
    <3> QED BY <2>4, <3>1, <3>2
  <2>6. Suyo(c)
    BY <1>1, <1>2, <2>4 DEF Suyo
  <2> QED BY <1>1, <2>5, <2>6, ComunIgual, CicloIgual
<1> QED BY <1>4, <1>5

\* The bytes a stick sends for a portion.
LEMMA LecturaBien ==
  ASSUME TInv, NEW s \in Sticks, NEW dir \in Nat, NEW n \in Nat, dir + n <= TamStick[s]
  PROVE  EsBytes(Lectura(s, dir, n)) /\ Len(Lectura(s, dir, n)) = n
<1> DEFINE f == Lectura(s, dir, n)
<1>1. TamStick \in [Sticks -> Nat \ {0}]
  BY CpuAssumption, Zenon
<1>2. ram[s] \in [Rango(0, TamStick[s]) -> Bytes]
  BY DEF TInv, Celdas
<1>3. \A k \in 1 .. n : dir + k - 1 \in Rango(0, TamStick[s])
  BY <1>1 DEF Rango
<1>4. f = [k \in 1 .. n |-> ram[s][dir + k - 1]]
  BY DEF Lectura
<1> HIDE DEF f
<1>5. f \in [1 .. n -> Bytes]
  BY <1>2, <1>3, <1>4
<1>6. f \in Seq(Bytes) /\ Len(f) = n
  <2>1. f \in Seq(Bytes)
    BY <1>5, SeqDef
  <2> DEFINE m == Len(f)
  <2>2. m \in Nat /\ 1 .. m = 1 .. n
    BY <1>5, <2>1, LenProperties
  <2> HIDE DEF m
  <2>3. m = n
    BY <2>2
  <2> QED BY <2>1, <2>3 DEF m
<1> QED BY <1>6 DEF EsBytes, f

LEMMA LeerPorcionBien ==
  ASSUME IInv, TInv, NEW c \in Cpus, LeerPorcion(c)
  PROVE  TInv'
<1> DEFINE x == Head(porc[c])
           s == conoce[c][x.stick].id
           L == Lectura(s, x.dir, x.n)
           t == Tamanio(ctx[c].regs, ins[c])
<1>1. /\ UNCHANGED <<fase, pid, ctx, ins, irq, resp, pedido, ram, donde, llamada, conoce, rx,
                     sticks, tabla>>
      /\ fase[c] = "lee" /\ porc[c] # <<>>
      /\ buf' = [buf EXCEPT ![c] = @ \o L] /\ porc' = [porc EXCEPT ![c] = Tail(@)]
  BY DEF LeerPorcion, Quieto, altaVars
<1>2. /\ Lee(ins[c]) /\ Cubren(porc[c], conoce[c], Len(buf[c]), t) /\ EsBytes(buf[c])
  BY <1>1 DEF TInv, CpuBien
<1>3. t \in Nat
  BY LaCpuBien, TamanioBien
<1> HIDE DEF t
<1>4. Len(buf[c]) \in Nat
  BY <1>2, LenProperties DEF EsBytes
<1>5. Dentro(x, conoce[c]) /\ Cubren(Tail(porc[c]), conoce[c], Len(buf[c]) + x.n, t)
  BY <1>1, <1>2, <1>3, <1>4, UnaMenos
<1> HIDE DEF x
<1>6. EsBytes(L) /\ Len(L) = x.n
  BY <1>5, PorcionEnStick, LecturaBien
<1> HIDE DEF L
<1>7. buf'[c] = buf[c] \o L /\ porc'[c] = Tail(porc[c])
  BY <1>1 DEF TInv, Tablas, EsTabla
<1>8. EsBytes(buf'[c]) /\ Len(buf'[c]) = Len(buf[c]) + x.n
  <2> DEFINE q == buf[c]
  <2>1. q \in Seq(Bytes) /\ L \in Seq(Bytes)
    BY <1>2, <1>6 DEF EsBytes
  <2> HIDE DEF q
  <2>2. q \o L \in Seq(Bytes) /\ Len(q \o L) = Len(q) + Len(L)
    BY <2>1, ConcatProperties
  <2> QED BY <1>6, <1>7, <2>2 DEF EsBytes, q
<1>9. CpuBien(c)'
  <2>1. Lee(ins'[c]) /\ Cubren(porc'[c], conoce'[c], Len(buf'[c]), Tamanio(ctx'[c].regs, ins'[c]))
    BY <1>1, <1>2, <1>5, <1>7, <1>8 DEF t
  <2>2. /\ BienContexto(ctx'[c]) /\ BienInstr(ins'[c]) /\ BienMensaje(resp'[c])
        /\ BienPedido(pedido'[c]) /\ ctx'[c].pid \in Procs /\ fase'[c] = "lee"
    BY <1>1, LaCpuBien DEF Cargado
  <2> QED BY <1>8, <2>1, <2>2 DEF CpuBien
<1>10. Suyo(c)
  <2>1. Toca(buf, buf', c) /\ Toca(porc, porc', c)
    BY <1>1 DEF Toca
  <2> QED BY <1>1, <2>1 DEF Suyo, Toca
<1> QED BY <1>1, <1>9, <1>10, ComunIgual, CicloIgual

LEMMA FinLecturaBien ==
  ASSUME IInv, TInv, NEW c \in Cpus, FinLectura(c)
  PROVE  TInv'
<1> DEFINE i == ins[c]
           r == ctx[c].regs
           t == Tamanio(r, i)
<1>1. /\ UNCHANGED <<pid, ins, irq, resp, ram, donde, llamada, conoce, rx, sticks, tabla>>
      /\ fase[c] = "lee" /\ porc[c] = <<>> /\ fase[c] \in Cargado
  BY DEF FinLectura, Quieto, altaVars, Cargado
<1>2. /\ t \in Nat /\ r["DI"] \in Nat /\ (i.op # "COPY_MEM" => t \in 1 .. BytesReg)
  BY LaCpuBien, TamanioBien
<1>3. Lee(i) /\ Len(buf[c]) = t /\ EsBytes(buf[c])
  <2>1. Lee(i) /\ Cubren(porc[c], conoce[c], Len(buf[c]), t) /\ EsBytes(buf[c])
    BY <1>1 DEF TInv, CpuBien
  <2>2. Len(porc[c]) = 0
    BY <1>1, NadaEsBytes
  <2> QED BY <2>1, <2>2 DEF Cubren
<1>4. CASE Escribe(i)
  <2>1. Acceso(c, r["DI"], t, "escribe", buf[c])
    BY <1>4 DEF FinLectura
  <2> HIDE DEF t
  <2>2. /\ Toca(fase, fase', c) /\ Toca(ctx, ctx', c) /\ Toca(pedido, pedido', c)
        /\ Toca(porc, porc', c) /\ Toca(buf, buf', c)
        /\ BienContexto(ctx'[c]) /\ ctx'[c].pid \in Procs /\ BienPedido(pedido'[c])
        /\ \/ /\ fase'[c] = "escribe" /\ buf'[c] = buf[c] /\ ctx'[c] = ctx[c]
              /\ Cubren(porc'[c], conoce[c], 0, t)
           \/ fase'[c] = "guarda" /\ buf'[c] = buf[c]
    BY <1>1, <1>2, <2>1, AccesoBien
  <2>3. BienInstr(ins'[c]) /\ BienMensaje(resp'[c]) /\ conoce'[c] = conoce[c]
    BY <1>1, LaCpuBien
  <2>4. CpuBien(c)'
    <3>1. CASE fase'[c] = "guarda" /\ buf'[c] = buf[c]
      BY <1>3, <2>2, <2>3, <3>1, SinAcceso
    <3>2. CASE /\ fase'[c] = "escribe" /\ buf'[c] = buf[c] /\ ctx'[c] = ctx[c]
               /\ Cubren(porc'[c], conoce[c], 0, t)
      <4>1. \E b \in Nat : Cubren(porc'[c], conoce'[c], b, Len(buf'[c]))
        BY <1>3, <2>3, <3>2
      <4> QED BY <1>3, <2>2, <2>3, <3>2, <4>1 DEF CpuBien
    <3> QED BY <2>2, <3>1, <3>2
  <2>5. Suyo(c)
    BY <1>1, <2>2 DEF Suyo, Toca
  <2> QED BY <1>1, <2>4, <2>5, ComunIgual, CicloIgual
<1>5. CASE ~Escribe(i)
  <2> DEFINE v == Asignar(r, i.reg, DeBytes(buf[c]))
             x == [Avanza(ctx[c]) EXCEPT !.regs = v]
  <2>1. /\ ctx' = [ctx EXCEPT ![c] = [Avanza(@) EXCEPT !.regs = v]]
        /\ fase' = [fase EXCEPT ![c] = "irq"] /\ UNCHANGED <<pedido, porc, buf>>
    BY <1>5 DEF FinLectura
  <2>2. t \in 1 .. BytesReg
    BY <1>2, <1>3, <1>5 DEF Lee, Escribe
  <2>3. DeBytes(buf[c]) \in Nat
    BY <1>3, <2>2, DeBytesBien
  <2>4. BienRegs(v)
    BY <2>3, AsignarBien, LaCpuBien
  <2> HIDE DEF v
  <2>5. BienContexto(Avanza(ctx[c])) /\ Avanza(ctx[c]).pid \in Procs
    BY <1>1, LaCpuBien, AvanzaBien
  <2> DEFINE y == Avanza(ctx[c])
  <2>6. ctx' = [ctx EXCEPT ![c] = x]
    BY <2>1 DEF IInv, Forma, EsTabla
  <2> HIDE DEF y
  <2>7. /\ DOMAIN x = DOMAIN y /\ x.pid = y.pid /\ x.segs = y.segs /\ x.pc = y.pc /\ x.regs = v
    BY <2>5 DEF BienContexto, EsContexto, y
  <2> HIDE DEF x
  <2>8. BienContexto(x) /\ x.pid \in Procs
    BY <2>4, <2>5, <2>7 DEF BienContexto, EsContexto, y
  <2>9. ctx'[c] = x /\ fase'[c] = "irq"
    BY <2>1, <2>6, FormaCiclo DEF EsTabla
  <2>10. CpuBien(c)'
    BY <1>1, <2>1, <2>8, <2>9, LaCpuBien, SinAcceso
  <2>11. Suyo(c)
    BY <1>1, <2>1, <2>6 DEF Suyo, Toca
  <2> QED BY <1>1, <2>10, <2>11, ComunIgual, CicloIgual
<1> QED BY <1>4, <1>5

LEMMA EscribirPorcionBien ==
  ASSUME IInv, TInv, NEW c \in Cpus, EscribirPorcion(c)
  PROVE  TInv'
<1> DEFINE x == Head(porc[c])
           s == conoce[c][x.stick].id
           bs == SubSeq(buf[c], x.off + 1, x.off + x.n)
<1>1. /\ UNCHANGED <<fase, pid, ctx, ins, buf, irq, resp, pedido, donde, llamada, conoce, rx,
                     sticks, tabla>>
      /\ fase[c] = "escribe" /\ porc[c] # <<>>
      /\ ram' = [ram EXCEPT ![s] = Escritura(s, x.dir, bs)] /\ porc' = [porc EXCEPT ![c] = Tail(@)]
  BY DEF EscribirPorcion, Quieto, altaVars
<1>2. PICK b \in Nat : Cubren(porc[c], conoce[c], b, Len(buf[c]))
  BY <1>1 DEF TInv, CpuBien
<1>3. EsBytes(buf[c]) /\ Len(buf[c]) \in Nat
  BY LaCpuBien, LenProperties DEF EsBytes
<1>4. /\ Dentro(x, conoce[c]) /\ b + x.n \in Nat /\ x.off = b
      /\ Cubren(Tail(porc[c]), conoce[c], b + x.n, Len(buf[c]))
  BY <1>1, <1>2, <1>3, UnaMenos
<1> HIDE DEF x
<1>5. s \in Sticks /\ x.dir \in Nat /\ x.n \in Nat /\ x.off \in Nat
  BY <1>4, PorcionEnStick
<1>6. b + x.n <= Len(buf[c])
  BY <1>4 DEF Cubren
<1>7. bs \in Seq(Bytes) /\ Len(bs) = x.n
  <2>1. \A k \in (x.off + 1) .. (x.off + x.n) : k \in 1 .. Len(buf[c])
    BY <1>3, <1>4, <1>5, <1>6
  <2>2. \A k \in (x.off + 1) .. (x.off + x.n) : buf[c][k] \in Bytes
    BY <1>3, <2>1, ElementOfSeq DEF EsBytes
  <2>3. bs \in Seq(Bytes)
    BY <1>5, <2>2, SubSeqProperties
  <2>4. Len(bs) = IF x.off + 1 <= x.off + x.n THEN (x.off + x.n) - (x.off + 1) + 1 ELSE 0
    BY <1>5, <2>2, SubSeqProperties
  <2>5. Len(bs) = x.n
    BY <1>5, <2>4
  <2> QED BY <2>3, <2>5
<1> HIDE DEF bs
<1>8. ram[s] \in [Rango(0, TamStick[s]) -> Bytes]
  BY <1>5 DEF TInv, Celdas
<1>9. Escritura(s, x.dir, bs) \in [Rango(0, TamStick[s]) -> Bytes]
  <2>1. ASSUME NEW a \in Rango(0, TamStick[s]), a \in Rango(x.dir, Len(bs))
        PROVE  bs[a - x.dir + 1] \in Bytes
    <3>1. a - x.dir + 1 \in 1 .. Len(bs)
      BY <1>5, <1>7, <2>1 DEF Rango
    <3> QED BY <1>7, <3>1, ElementOfSeq
  <2>2. DOMAIN ram[s] = Rango(0, TamStick[s])
    BY <1>8
  <2>3. Escritura(s, x.dir, bs) = [a \in Rango(0, TamStick[s]) |->
          IF a \in Rango(x.dir, Len(bs)) THEN bs[a - x.dir + 1] ELSE ram[s][a]]
    BY <2>2 DEF Escritura
  <2> QED BY <1>8, <2>1, <2>3
<1>10. EsTabla(ram', Sticks) /\ Celdas'
  <2>1. EsTabla(ram, Sticks)
    BY DEF TInv, Tablas
  <2>2. /\ EsTabla(ram', Sticks)
        /\ \A u \in Sticks : ram'[u] = ram[u] \/ (u = s /\ ram'[u] = Escritura(s, x.dir, bs))
    BY <1>1, <2>1 DEF EsTabla
  <2> HIDE DEF s
  <2>3. ASSUME NEW u \in Sticks PROVE ram'[u] \in [Rango(0, TamStick[u]) -> Bytes]
    BY <1>9, <2>2 DEF TInv, Celdas
  <2> QED BY <2>2, <2>3 DEF Celdas
<1>11. Comun'
  BY <1>1, <1>10, ComunIgual DEF Comun
<1>12. porc'[c] = Tail(porc[c])
  BY <1>1 DEF TInv, Tablas, EsTabla
<1>13. CpuBien(c)'
  <2>1. \E n \in Nat : Cubren(porc'[c], conoce'[c], n, Len(buf'[c]))
    BY <1>1, <1>4, <1>12
  <2>2. /\ BienContexto(ctx'[c]) /\ BienInstr(ins'[c]) /\ BienMensaje(resp'[c]) /\ EsBytes(buf'[c])
        /\ BienPedido(pedido'[c]) /\ ctx'[c].pid \in Procs /\ fase'[c] = "escribe"
    BY <1>1, LaCpuBien DEF Cargado
  <2> QED BY <2>1, <2>2 DEF CpuBien
<1>14. Suyo(c)
  <2>1. Toca(porc, porc', c)
    BY <1>1 DEF Toca
  <2> QED BY <1>1, <2>1 DEF Suyo, Toca
<1> QED BY <1>11, <1>13, <1>14, CicloIgual

LEMMA FinEscrituraBien ==
  ASSUME IInv, TInv, NEW c \in Cpus, FinEscritura(c)
  PROVE  TInv'
<1>1. /\ UNCHANGED <<pid, ins, porc, buf, irq, resp, pedido, ram, donde, llamada, conoce, rx,
                     sticks, tabla>>
      /\ ctx' = [ctx EXCEPT ![c] = Avanza(@)] /\ fase' = [fase EXCEPT ![c] = "irq"]
      /\ fase[c] \in Cargado
  BY DEF FinEscritura, Quieto, altaVars, Cargado
<1>2. BienContexto(Avanza(ctx[c])) /\ Avanza(ctx[c]).pid \in Procs
  BY <1>1, LaCpuBien, AvanzaBien
<1>3. ctx'[c] = Avanza(ctx[c]) /\ fase'[c] = "irq"
  BY <1>1, FormaCiclo DEF EsTabla
<1>4. CpuBien(c)'
  BY <1>1, <1>2, <1>3, LaCpuBien, SinAcceso
<1>5. Suyo(c)
  BY <1>1 DEF Suyo, Toca
<1> QED BY <1>1, <1>4, <1>5, ComunIgual, CicloIgual

LEMMA ChequearBien ==
  ASSUME IInv, TInv, NEW c \in Cpus, Chequear(c)
  PROVE  TInv'
<1>1. /\ UNCHANGED <<pid, ins, porc, buf, resp, ram, donde, llamada, conoce, rx, sticks, tabla>>
      /\ irq' = [irq EXCEPT ![c] = FALSE] /\ fase[c] \in Cargado
  BY DEF Chequear, Quieto, altaVars, Cargado
<1>2. Comun'
  BY <1>1, ComunIgual DEF Comun, Celdas
<1>3. BienContexto(ctx[c]) /\ ctx[c].pid \in Procs
  BY <1>1, LaCpuBien
<1>4. CASE irq[c]
  <2>1. Guardar(c, "IRQ", ctx[c])
    BY <1>4 DEF Chequear
  <2>2. CpuBien(c)'
    BY <1>1, <1>3, <2>1, GuardarBien, LaCpuBien, SinAcceso
  <2>3. Suyo(c)
    BY <1>1, <1>3, <2>1, GuardarBien DEF Suyo, Toca
  <2> QED BY <1>2, <2>2, <2>3, CicloIgual
<1>5. CASE ~irq[c]
  <2>1. /\ pedido' = [pedido EXCEPT ![c] = Pedido("INSTR", ctx[c])]
        /\ fase' = [fase EXCEPT ![c] = "fetch"] /\ ctx' = ctx
    BY <1>5 DEF Chequear, Fetch
  <2>2. pedido'[c] = Pedido("INSTR", ctx[c]) /\ fase'[c] = "fetch"
    BY <2>1, FormaCiclo DEF EsTabla
  <2>3. BienPedido(pedido'[c])
    BY <1>3, <2>2, PedidoBien
  <2>4. CpuBien(c)'
    BY <1>1, <1>3, <2>1, <2>2, <2>3, LaCpuBien, SinAcceso
  <2>5. Suyo(c)
    BY <1>1, <2>1 DEF Suyo, Toca
  <2> QED BY <1>2, <2>4, <2>5, CicloIgual
<1> QED BY <1>4, <1>5

LEMMA GuardadoBien ==
  ASSUME IInv, TInv, NEW c \in Cpus, Guardado(c)
  PROVE  TInv'
<1> DEFINE p == ctx[c].pid
<1>1. /\ UNCHANGED <<pid, ctx, ins, porc, buf, irq, pedido, ram, conoce, rx, sticks, tabla>>
      /\ fase' = [fase EXCEPT ![c] = "limpia"] /\ Consume(c) /\ Devolver(c)
  BY DEF Guardado, Quieto, altaVars
<1>2. \E u : donde' = [donde EXCEPT ![p] = u] /\ u \in {"listo", "sale"} \union Cpus
  BY <1>1, Zenon DEF Devolver
<1>3. \E i : llamada' = [llamada EXCEPT ![p] = i] /\ (i = ins[c] \/ i = Vacia)
  BY <1>1, Zenon DEF Devolver
<1>4. donde' \in [Procs -> {"listo", "sale", "fin"} \union Cpus]
  BY <1>2 DEF TInv, Tablas
<1>5. /\ EsTabla(llamada', Procs)
      /\ \A o \in Procs : llamada'[o] \in {llamada[o], ins[c], Vacia}
  BY <1>3 DEF TInv, Tablas, EsTabla
<1>6. \A o \in Procs : BienInstr(llamada'[o])
  BY <1>5, VaciaBien, LaCpuBien DEF TInv, Procesos
<1>7. Comun'
  BY <1>1, <1>4, <1>5, <1>6, ComunIgual DEF Comun, Celdas
<1>8. fase'[c] = "limpia"
  BY <1>1, FormaCiclo
<1>9. CpuBien(c)'
  BY <1>1, <1>8, ConsumeBien, LaCpuBien, SinAcceso DEF Cargado
<1>10. Suyo(c)
  BY <1>1, ConsumeBien DEF Suyo, Toca
<1> QED BY <1>7, <1>9, <1>10, CicloIgual

LEMMA LimpiarBien ==
  ASSUME IInv, TInv, NEW c \in Cpus, Limpiar(c)
  PROVE  TInv'
<1>1. /\ UNCHANGED <<resp, pedido, ram, donde, llamada, conoce, rx, sticks, tabla>>
      /\ pid' = [pid EXCEPT ![c] = Nulo] /\ irq' = [irq EXCEPT ![c] = FALSE]
      /\ ctx' = [ctx EXCEPT ![c] = SinContexto] /\ ins' = [ins EXCEPT ![c] = Vacia]
      /\ porc' = [porc EXCEPT ![c] = <<>>] /\ buf' = [buf EXCEPT ![c] = <<>>]
      /\ fase' = [fase EXCEPT ![c] = "libre"]
  BY Zenon DEF Limpiar, Quieto, altaVars
<1>2. Comun'
  BY <1>1, ComunIgual DEF Comun, Celdas
<1>3. ctx'[c] = SinContexto /\ ins'[c] = Vacia /\ buf'[c] = <<>> /\ fase'[c] = "libre"
  BY <1>1, FormaCiclo DEF EsTabla, TInv, Tablas
<1>4. BienContexto(SinContexto)
  BY ContextoBien DEF SinContexto
<1>5. CpuBien(c)'
  BY <1>1, <1>3, <1>4, VaciaBien, NadaEsBytes, LaCpuBien, SinAcceso DEF Cargado
<1>6. Suyo(c)
  BY <1>1 DEF Suyo, Toca
<1> QED BY <1>2, <1>5, <1>6, CicloIgual

LEMMA CicloBien ==
  ASSUME IInv, TInv, NEW c \in Cpus, Ciclo(c)
  PROVE  TInv'
  BY TomarBien, TomarContextoBien, RegistrosBien, RestoBien, MmuBien, LeerPorcionBien,
     FinLecturaBien, EscribirPorcionBien, FinEscrituraBien, ChequearBien, GuardadoBien,
     LimpiarBien DEF Ciclo

-----------------------------------------------------------------------------
(* The initial state, and the theorems.                                    *)

LEMMA BasesInicio ==
  ASSUME NEW e \in Range(SticksInicio)
  PROVE  e.base \in Nat
<1> DEFINE N == Len(StickBase)
           w == [k \in 1 .. N |-> TamStick[StickBase[k]]]
<1>1. N \in Nat /\ \A k \in 1 .. N : StickBase[k] \in Sticks
  BY InicioSticks
<1>2. TamStick \in [Sticks -> Nat \ {0}]
  BY CpuAssumption, Zenon
<1>3. PICK k \in 1 .. N : e = SticksInicio[k]
  BY InicioSticks, PartesDe
<1>4. SticksInicio[k].base = Suma(w, k - 1)
  BY DEF SticksInicio
<1>5. k - 1 \in Nat /\ \A j \in 1 .. (k - 1) : j \in 1 .. N
  BY <1>1
<1>6. \A j \in 1 .. N : w[j] \in Nat
  BY <1>1, <1>2
<1> HIDE DEF w, N
<1>7. Suma(w, k - 1) \in Nat
  BY <1>5, <1>6, SumaNatural
<1> QED BY <1>3, <1>4, <1>7

LEMMA InitBien ==
  ASSUME Init
  PROVE  TInv
<1>1. /\ pid = [c \in Cpus |-> Nulo] /\ ins = [c \in Cpus |-> Vacia]
      /\ porc = [c \in Cpus |-> <<>>] /\ buf = [c \in Cpus |-> <<>>]
      /\ irq = [c \in Cpus |-> FALSE] /\ donde = [p \in Procs |-> "listo"]
      /\ llamada = [p \in Procs |-> Vacia]
      /\ ram = [s \in Sticks |-> [x \in Rango(0, TamStick[s]) |-> 0]]
  BY Zenon DEF Init
<1>2. Tablas
  BY <1>1 DEF Tablas, EsTabla
<1>3. Correo
  <2>1. \A c \in Cpus : rx[c] = <<>>
    BY AlInicio, Zenon
  <2> QED BY <2>1, NadaEsBytes DEF Correo
<1>4. Procesos
  <2>1. \A p \in Procs : tabla[p] = Contexto(p) /\ llamada[p] = Vacia
    BY <1>1, AlInicio
  <2> QED BY <2>1, ContextoBien, VaciaBien DEF Procesos
<1>5. Bases
  BY AlInicio, BasesInicio DEF Bases
<1>6. Celdas
  <2>1. 0 \in Bytes
    BY Enteros DEF Bytes
  <2> QED BY <1>1, <2>1 DEF Celdas
<1>7. ASSUME NEW c \in Cpus PROVE CpuBien(c)
  <2>1. /\ ctx[c] = SinContexto /\ resp[c] = Msg("") /\ pedido[c] = SinPedido
        /\ (fase[c] = "libre" \/ fase[c] = "config")
    BY AlInicio, Zenon
  <2>2. BienContexto(SinContexto)
    BY ContextoBien DEF SinContexto
  <2>3. "" # "CTX"
    BY Zenon
  <2>4. BienMensaje(Msg(""))
    BY <2>3, MsgBien, Zenon
  <2>5. BienMensaje(resp[c]) /\ BienContexto(ctx[c]) /\ BienPedido(pedido[c])
    BY <2>1, <2>2, <2>4, SinPedidoBien, Zenon
  <2>6. BienInstr(ins[c]) /\ EsBytes(buf[c])
    BY <1>1, VaciaBien, NadaEsBytes
  <2>7. fase[c] \notin Cargado /\ fase[c] # "lee" /\ fase[c] # "escribe"
    BY <2>1 DEF Cargado
  <2> QED BY <2>5, <2>6, <2>7 DEF CpuBien
<1> QED BY <1>2, <1>3, <1>4, <1>5, <1>6, <1>7 DEF TInv

LEMMA IgualBien ==
  ASSUME TInv, UNCHANGED vars
  PROVE  TInv'
<1>1. UNCHANGED <<cpuVars, conoce, resp, pedido, tabla, ram, donde, llamada, rx, sticks>>
  BY DEF vars, redVars, altaVars, kerVars
<1>2. Correo' /\ Bases'
  BY <1>1 DEF TInv, Correo, Bases
<1> QED BY <1>1, <1>2, AltaIgual

LEMMA NextBien ==
  ASSUME IInv, TInv, [Next]_vars
  PROVE  TInv'
<1>1. CASE UNCHANGED vars
  BY <1>1, IgualBien
<1>2. ASSUME NEW c \in Cpus, Interrumpir(c) PROVE TInv'
  BY <1>2, InterrumpirBien
<1>3. ASSUME NEW c \in Cpus, Alta(c) PROVE TInv'
  BY <1>3, AltaBien
<1>4. ASSUME NEW c \in Cpus, Memoria(c) PROVE TInv'
  BY <1>4, MemoriaBien
<1>5. ASSUME NEW c \in Cpus, Oye(c) PROVE TInv'
  BY <1>5, OyeBien
<1>6. ASSUME NEW c \in Cpus, Ciclo(c) PROVE TInv'
  BY <1>6, CicloBien
<1>7. ASSUME NEW s \in Sticks, AltaStick(s) PROVE TInv'
  BY <1>7, AltaStickBien
<1>8. ASSUME NEW p \in Procs, Kernel(p) PROVE TInv'
  BY <1>8, KernelBien
<1>9. ASSUME NEW p \in Procs, NEW c \in Cpus, Despachar(c, p) PROVE TInv'
  BY <1>9, DespacharBien
<1> QED BY <1>1, <1>2, <1>3, <1>4, <1>5, <1>6, <1>7, <1>8, <1>9, Zenon DEF Next

LEMMA TiposDeInv ==
  ASSUME IInv, TInv
  PROVE  TypeOK
<1>1. /\ fase \in [Cpus -> Fases] /\ proximo \in [Cpus -> Procs \union {Nulo}]
      /\ EsTabla(ctx, Cpus) /\ EsTabla(tabla, Procs)
  BY DEF IInv, Forma
<1>2. /\ pid \in [Cpus -> Procs \union {Nulo}] /\ irq \in [Cpus -> BOOLEAN]
      /\ donde \in [Procs -> {"listo", "sale", "fin"} \union Cpus] /\ EsTabla(buf, Cpus)
  BY DEF TInv, Tablas
<1>3. \A x \in Range(ctx) \union Range(tabla) : BienContexto(x)
  <2>1. \A x \in Range(ctx) : \E c \in Cpus : x = ctx[c]
    BY <1>1 DEF EsTabla, Range
  <2>2. \A x \in Range(tabla) : \E p \in Procs : x = tabla[p]
    BY <1>1 DEF EsTabla, Range
  <2> QED BY <2>1, <2>2 DEF TInv, CpuBien, Procesos
<1>4. \A x \in Range(ctx) \union Range(tabla) :
        /\ x.pid \in Procs \union {Nulo} /\ x.pc \in 0 .. (Palabra - 1)
        /\ x.regs \in [Regs -> 0 .. (Palabra - 1)]
        /\ \A r \in Regs8 : x.regs[r] \in Bytes
  BY <1>3 DEF BienContexto, BienPc, BienRegs
<1>5. \A b \in Range(buf) : \A k \in DOMAIN b : b[k] \in Bytes
  <2>1. \A b \in Range(buf) : \E c \in Cpus : b = buf[c]
    BY <1>2 DEF EsTabla, Range
  <2>2. \A b \in Range(buf) : b \in Seq(Bytes)
    BY <2>1 DEF TInv, CpuBien, EsBytes
  <2> QED BY <2>2, LenProperties, ElementOfSeq
<1>6. \A s \in Sticks : ram[s] \in [Rango(0, TamStick[s]) -> Bytes]
  BY DEF TInv, Celdas
<1> QED BY <1>1, <1>2, <1>4, <1>5, <1>6 DEF TypeOK

\* Accesses are sound in every reachable state: what is left of one is the rest
\* of its bytes, in order, every portion lies within a stick that exists, and the
\* bytes of cpu_stick_leer and cpu_stick_escribir are as many as asked for.
THEOREM AccesosEnteros == Spec => []TInv
<1>1. Init => TInv
  BY InitBien
<1>2. IInv /\ TInv /\ [Next]_vars => TInv'
  BY NextBien
<1> QED BY <1>1, <1>2, AvisosEnOrden, PTL DEF Spec

\* Registers keep the width of their C types (asignar_valor_registro), pc wraps
\* around at 32 bits, and no write of a CPU leaves the bytes of its stick.
THEOREM AnchosRespetados == Spec => []TypeOK
<1>1. IInv /\ TInv => TypeOK
  BY TiposDeInv
<1> QED BY <1>1, AvisosEnOrden, AccesosEnteros, PTL
=============================================================================
