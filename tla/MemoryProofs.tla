---------------------------- MODULE MemoryProofs ----------------------------
(***************************************************************************)
(* Proofs about KernelMemory.  IInv says where everything is: it needs one *)
(* CPU, since compaction does not wait for the others, and no stick that   *)
(* registers in the middle of a request.  JInv adds what needs a swap that *)
(* has room and does not fail: no cell is lost, and no byte.               *)
(***************************************************************************)
EXTENDS KernelMemory, FiniteSetTheorems, TLAPS

\* One CPU, and requests and registrations that do not overlap.
Sosegado == Aislado /\ \A c, d \in Cpus : c = d

\* Swap has room for what is suspended, and works.
SwapSano == ~SwapLleno /\ ~SwapFalla

-----------------------------------------------------------------------------
(* The invariant.                                                          *)

\* The cells whose block has been added are those below Techo.
Techo == IF spc \in {"espera", "agrega"} THEN Ram ELSE Ram + Nuevo

\* t cells from b and u cells from d have none in common.
Aparte(b, t, d, u) == b + t <= d \/ d + u <= b

\* s is at b, or a failed return would put it back there.
Reclama(s, b) == b \in Celdas /\ (base[s] = b \/ <<s, b>> \in reservas)

Compactando == rpc \in {"anuncia", "pausado", "compacta", "reasigna"}
Suspendiendo == rpc \in {"suspende", "vuelca", "vuelto", "mudo"}
Volviendo == rpc \in {"reserva", "deshace", "transfiere"}

\* What the thread that serves the scheduler knows at each step.
Hilo ==
  /\ rpc = "libre" => rp = Nulo /\ rs = Nulo /\ pend = {}
  /\ rpc # "libre" => rp \in existe /\ spc \in {"espera", "fin"}
  /\ rpc \notin {"compacta", "reasigna"} => cursor = 0
  /\ Compactando =>
       /\ rt \in Tamanios /\ rs \in Segs /\ rs[1] = rp /\ base[rs] = Nada
       /\ \E c \in Cpus : cpid[c] = rp /\ modo[c] = "pide"
  /\ rpc \in {"anuncia", "pausado", "reasigna"} => pend = {}
  /\ rpc \notin {"anuncia", "pausado", "compacta", "reasigna", "libre"} =>
       \A s \in pend : s[1] = rp /\ base[s] # Nada
  /\ Suspendiendo => rp \notin susp
  /\ Suspendiendo => \A s \in pend : base[s] >= 0
  /\ rpc \in {"vuelca", "vuelto"} => rs \in pend
  /\ Volviendo => rp \in susp
  /\ rpc \in {"reserva", "transfiere"} =>
       \A s \in Segs : s[1] = rp /\ base[s] = EnSwap => s \in pend
  /\ rpc \in {"deshace", "transfiere"} => pend = {}
  /\ rpc = "finaliza" => \A s \in Segs : s[1] = rp /\ base[s] # Nada => s \in pend

\* The reservations of reservar_segmentos_con_rollback.
Reservado ==
  /\ reservas # {} => Volviendo
  /\ \A r \in reservas :
       /\ r[1][1] = rp /\ r[1] \notin pend
       /\ base[r[1]] >= 0 /\ r[2] # Nada /\ r[2] # base[r[1]]
  /\ \A r, q \in reservas : r[1] = q[1] => r = q

\* A CPU with a process has one that exists and is not suspended; while it runs,
\* the bases it loaded are those of the table.
EnCpus ==
  \A c \in Cpus :
    /\ modo[c] = "libre" <=> cpid[c] = Nulo
    /\ cpid[c] # Nulo => /\ cpid[c] \in existe /\ cpid[c] \notin susp
                         /\ cpid[c] = rp => rpc = "finaliza" \/ Compactando
    /\ modo[c] = "corre" => /\ cpid[c] # rp
                            /\ \A i \in Ids : ctx[c][i] = base[<<cpid[c], i>>]

\* Segments have cells, belong to processes, and are in swap only if the process
\* is suspended or on its way there.
Segmentos ==
  \A s \in Segs :
    /\ base[s] # Nada => limite[s] \in Tamanios /\ s[1] \in existe
    /\ base[s] = EnSwap => s[1] \in susp \/ (Suspendiendo /\ s[1] = rp)

\* Nothing is above Techo, and what is claimed is claimed once.
Disjuntos ==
  /\ \A s \in Segs, b \in Celdas : Reclama(s, b) => b + limite[s] <= Techo
  /\ \A s, u \in Segs, b, d \in Celdas :
       Reclama(s, b) /\ Reclama(u, d) /\ (s # u \/ b # d) =>
         Aparte(b, limite[s], d, limite[u])

\* The free list, outside of a compaction.
Libres ==
  rpc # "compacta" =>
    /\ \A a \in libres : a.base + a.tam <= Techo
    /\ \A a, b \in libres : a # b =>
         a.base + a.tam < b.base \/ b.base + b.tam < a.base
    /\ \A s \in Segs, b \in Celdas, a \in libres : Reclama(s, b) =>
         Aparte(b, limite[s], a.base, a.tam)

\* Half way through compactar_memoria: what has moved is below the cursor, what
\* has not is above.
Cursor ==
  rpc = "compacta" =>
    /\ cursor <= Techo
    /\ \A s \in pend : base[s] >= cursor
    /\ \A s \in Segs : base[s] >= 0 /\ s \notin pend => base[s] + limite[s] <= cursor

\* bloques_agregar has something to add.
Llega == spc # "fin" => Nuevo > 0

IInv ==
  /\ TypeOK /\ Hilo /\ Reservado /\ EnCpus /\ Segmentos /\ Disjuntos /\ Libres
  /\ Cursor /\ Llega

-----------------------------------------------------------------------------
(* The second invariant.                                                   *)

EnBloque(x, a) == a.base <= x /\ x < a.base + a.tam
EnSegmento(x, s) == 0 <= base[s] /\ base[s] <= x /\ x < base[s] + limite[s]

\* Every cell below Techo is somewhere; half way through a compaction, every one
\* below the cursor is in a segment that has moved.
Cubre ==
  /\ rpc # "compacta" => \A x \in 0 .. (Techo - 1) :
       (\E a \in libres : EnBloque(x, a)) \/ (\E s \in Segs : EnSegmento(x, s))
  /\ rpc = "compacta" => \A x \in 0 .. (cursor - 1) :
       \E s \in Segs \ pend : EnSegmento(x, s)

\* s is on its way back from swap.
Vuelve(s) == \E r \in reservas : r[1] = s

\* What is suspended has no RAM but what DES_SUSPENDER_PROCESO reserves.
Suspendidos ==
  /\ \A s \in Segs : s[1] \in susp /\ base[s] >= 0 =>
       Volviendo /\ s[1] = rp /\ Vuelve(s)
  /\ \A r \in reservas : r[2] = EnSwap
  /\ rpc # "mudo"
  /\ Suspendiendo => \A s \in Segs : s[1] = rp /\ base[s] >= 0 => s \in pend
  /\ rpc = "reasigna" => \A a, b \in libres : a = b

EnDisco(s) ==
  \A b \in Rango(bloque[s], BloquesDe(limite[s])) : disco[b] = s

\* Blocks of swap are given out upwards, so nobody's blocks are written twice.
BloquesBajo(n) ==
  \A s \in Segs : base[s] = EnSwap \/ Vuelve(s) =>
    bloque[s] + BloquesDe(limite[s]) <= n

\* The contents of the segments, with the dump in flight.
Datos ==
  /\ \A s \in escrito : base[s] # Nada
  /\ \A s \in escrito : base[s] >= 0 /\ ~Vuelve(s) =>
       \A x \in Celdas : EnSegmento(x, s) => ram[x] = s
  /\ \A s \in escrito : base[s] = EnSwap \/ Vuelve(s) => EnDisco(s)
  /\ BloquesBajo(siguiente)
  /\ rpc \in {"vuelca", "vuelto"} =>
       bloque[rs] + BloquesDe(limite[rs]) = siguiente
  /\ rpc = "vuelca" => BloquesBajo(bloque[rs])
  /\ rpc = "vuelto" /\ rs \in escrito => EnDisco(rs)

JInv == Cubre /\ Suspendidos /\ Datos
-----------------------------------------------------------------------------
(* The free list.                                                          *)

Separados(L) ==
  \A a, b \in L : a # b => a.base + a.tam < b.base \/ b.base + b.tam < a.base

LEMMA TiposBloque ==
  ASSUME NEW a \in Bloque
  PROVE  /\ a.base \in Nat /\ a.tam \in Nat /\ a.tam > 0
         /\ a.base < Ram + Nuevo /\ a.tam <= Ram + Nuevo
         /\ a = [base |-> a.base, tam |-> a.tam]
  BY MemoryAssumption DEF Bloque, Celdas

LEMMA EsBloque ==
  ASSUME NEW b \in Nat, NEW t \in Nat, t > 0, b + t <= Ram + Nuevo
  PROVE  [base |-> b, tam |-> t] \in Bloque
  BY MemoryAssumption DEF Bloque, Celdas

\* bloques_asignar: the block taken shrinks from below or disappears.
LEMMA Asignado ==
  ASSUME libres \subseteq Bloque, Separados(libres),
         \A a \in libres : a.base + a.tam <= Ram + Nuevo,
         NEW b \in libres, NEW t \in Nat, t > 0, t <= b.tam
  PROVE  /\ Asignar(b, t) \subseteq Bloque
         /\ Separados(Asignar(b, t))
         /\ \A a \in Asignar(b, t) :
              \/ a \in libres /\ a # b
              \/ a.base = b.base + t /\ a.base + a.tam = b.base + b.tam
         /\ \A a \in libres : a # b => a \in Asignar(b, t)
         /\ b.tam # t =>
              \E a \in Asignar(b, t) :
                a.base = b.base + t /\ a.base + a.tam = b.base + b.tam
<1>1. /\ b \in Bloque /\ b.base \in Nat /\ b.tam \in Nat
      /\ b.base + b.tam <= Ram + Nuevo
  BY TiposBloque
<1> DEFINE n == [base |-> b.base + t, tam |-> b.tam - t]
<1>2. n.base = b.base + t /\ n.tam = b.tam - t
  OBVIOUS
<1>3. Asignar(b, t) = (libres \ {b}) \union (IF b.tam = t THEN {} ELSE {n})
  BY DEF Asignar
<1>4. b.tam # t => n \in Bloque
  BY <1>1, EsBloque
<1> HIDE DEF n
<1>5. \A a \in libres : a \in Bloque /\ a.base \in Nat /\ a.tam \in Nat
  BY TiposBloque
<1>6. Separados(Asignar(b, t))
  BY <1>1, <1>2, <1>3, <1>5 DEF Separados
<1> QED BY <1>1, <1>2, <1>3, <1>4, <1>6

\* bloques_liberar: one block covers what is freed and the neighbours it touches.
LEMMA Liberado ==
  ASSUME libres \subseteq Bloque, Separados(libres),
         \A a \in libres : a.base + a.tam <= Ram + Nuevo,
         NEW b \in Nat, NEW t \in Nat, t > 0, b + t <= Ram + Nuevo,
         \A a \in libres : Aparte(b, t, a.base, a.tam)
  PROVE  \E n \in Bloque :
           /\ n.base <= b /\ b + t <= n.base + n.tam
           /\ n \in Liberar(b, t)
           /\ \A a \in Liberar(b, t) :
                \/ a = n
                \/ /\ a \in libres
                   /\ n.base + n.tam < a.base \/ a.base + a.tam < n.base
           /\ \A a \in libres :
                \/ a \in Liberar(b, t)
                \/ n.base <= a.base /\ a.base + a.tam <= n.base + n.tam
           /\ \/ n.base = b
              \/ \E a \in libres : a.base = n.base /\ a.base + a.tam = b
           /\ \/ n.base + n.tam = b + t
              \/ \E a \in libres : /\ a.base = b + t
                                   /\ a.base + a.tam = n.base + n.tam
<1> DEFINE izq == {a \in libres : a.base + a.tam = b}
           der == {a \in libres : a.base = b + t}
           i == CHOOSE a \in izq : TRUE
           d == CHOOSE a \in der : TRUE
           ini == IF izq = {} THEN b ELSE i.base
           fin == IF der = {} THEN b + t ELSE d.base + d.tam
           n == [base |-> ini, tam |-> fin - ini]
<1>1. Liberar(b, t) = (libres \ (izq \union der)) \union {n}
  BY DEF Liberar
<1>2. \A a \in libres : /\ a \in Bloque /\ a.base \in Nat /\ a.tam \in Nat
                        /\ a.tam > 0 /\ a.base + a.tam <= Ram + Nuevo
  BY TiposBloque
<1>3. izq # {} => /\ i \in libres /\ i.base + i.tam = b
                  /\ \A a \in izq : a = i
  <2>1. izq # {} => i \in izq
    OBVIOUS
  <2>2. \A a, e \in izq : a = e
    BY <1>2 DEF Separados
  <2> QED BY <2>1, <2>2
<1>4. der # {} => /\ d \in libres /\ d.base = b + t
                  /\ \A a \in der : a = d
  <2>1. der # {} => d \in der
    OBVIOUS
  <2>2. \A a, e \in der : a = e
    BY <1>2 DEF Separados
  <2> QED BY <2>1, <2>2
<1>5. \A a \in libres : /\ a \in izq <=> a.base + a.tam = b
                        /\ a \in der <=> a.base = b + t
  OBVIOUS
<1> HIDE DEF izq, der, i, d
<1>6. /\ ini \in Nat /\ fin \in Nat /\ ini <= b /\ b + t <= fin
      /\ fin <= Ram + Nuevo
  BY <1>2, <1>3, <1>4
<1>7. n.base = ini /\ n.tam = fin - ini
  OBVIOUS
<1>8. n \in Bloque
  BY <1>6, EsBloque
<1>9. \A a \in libres : a \notin izq /\ a \notin der =>
        fin < a.base \/ a.base + a.tam < ini
  <2> SUFFICES ASSUME NEW a \in libres, a \notin izq, a \notin der
               PROVE  fin < a.base \/ a.base + a.tam < ini
    OBVIOUS
  <2>1. a.base + a.tam # b /\ a.base # b + t /\ Aparte(b, t, a.base, a.tam)
    BY <1>5
  <2>2. izq # {} => a # i /\ (a.base + a.tam < i.base \/ i.base + i.tam < a.base)
    BY <1>3, <1>5, <2>1 DEF Separados
  <2>3. der # {} => a # d /\ (a.base + a.tam < d.base \/ d.base + d.tam < a.base)
    BY <1>4, <1>5, <2>1 DEF Separados
  <2> QED BY <1>2, <1>3, <1>4, <2>1, <2>2, <2>3 DEF Aparte
<1>10. \A a \in libres : a \in izq => ini <= a.base /\ a.base + a.tam <= fin
  BY <1>2, <1>3, <1>6
<1>11. \A a \in libres : a \in der => ini <= a.base /\ a.base + a.tam <= fin
  BY <1>2, <1>4, <1>6
<1>12. ini # b => \E a \in libres : a.base = ini /\ a.base + a.tam = b
  BY <1>3
<1>13. fin # b + t => \E a \in libres : a.base = b + t /\ a.base + a.tam = fin
  BY <1>4
<1>14. ini + (fin - ini) = fin
  BY <1>6
<1> HIDE DEF ini, fin, n
<1> QED BY <1>1, <1>6, <1>7, <1>8, <1>9, <1>10, <1>11, <1>12, <1>13, <1>14

-----------------------------------------------------------------------------
(* What the handlers do to the layout.                                     *)

LEMMA Celda ==
  ASSUME NEW b
  PROVE  b \in Celdas <=> b \in Int /\ 0 <= b /\ b < Ram + Nuevo
  BY MemoryAssumption DEF Celdas

\* Whoever claims cells claims at least one, and none out of RAM.
LEMMA TamanoReclamado ==
  ASSUME IInv, NEW s \in Segs, NEW b \in Celdas, Reclama(s, b)
  PROVE  /\ limite[s] \in Tamanios /\ limite[s] \in Nat /\ limite[s] > 0
         /\ b \in Nat /\ b + limite[s] <= Techo /\ Techo \in Nat
         /\ Techo <= Ram + Nuevo
<1>1. limite[s] \in Tamanios
  <2>1. CASE base[s] = b
    BY <2>1, Celda DEF IInv, Segmentos, Nada
  <2>2. CASE <<s, b>> \in reservas
    <3>1. <<s, b>>[1] = s
      OBVIOUS
    <3>2. base[s] >= 0 /\ base[s] \in Int
      BY <2>2, <3>1 DEF IInv, Reservado, TypeOK, TypeTabla, Base, Celdas, EnSwap, Nada
    <3> QED BY <3>2 DEF IInv, Segmentos, Nada
  <2> QED BY <2>1, <2>2 DEF Reclama
<1>2. b + limite[s] <= Techo
  BY DEF IInv, Disjuntos
<1> QED BY <1>1, <1>2, Celda, MemoryAssumption DEF Techo

\* A step that claims no more, and leaves the free list alone.
LEMMA Marco ==
  ASSUME IInv, spc' = spc, libres' = libres,
         rpc = "compacta" => rpc' = "compacta",
         \A u \in Segs, d \in Celdas : Reclama(u, d)' =>
           Reclama(u, d) /\ limite'[u] = limite[u]
  PROVE  Disjuntos' /\ Libres'
<1>1. Techo' = Techo
  BY DEF Techo
<1>2. Celdas' = Celdas /\ Segs' = Segs
  BY DEF Celdas, Segs
<1>3. Disjuntos'
  BY <1>1 DEF IInv, Disjuntos, Aparte
<1>4. Libres'
  BY <1>1 DEF IInv, Libres, Aparte
<1> QED BY <1>3, <1>4

\* The segment s takes t cells of the free block b.
LEMMA Coloca ==
  ASSUME IInv, rpc # "compacta", spc' = spc,
         NEW b \in libres, NEW s \in Segs, NEW t \in Tamanios, t <= b.tam,
         libres' = Asignar(b, t), limite'[s] = t,
         \A u \in Segs, d \in Celdas : Reclama(u, d)' =>
           \/ u = s /\ d = b.base
           \/ Reclama(u, d) /\ limite'[u] = limite[u]
  PROVE  Disjuntos' /\ Libres' /\ libres' \subseteq Bloque
<1>1. Techo' = Techo /\ Techo \in Nat /\ Techo <= Ram + Nuevo
  BY MemoryAssumption DEF Techo
<1>2. t \in Nat /\ t > 0
  BY MemoryAssumption
<1>3. /\ libres \subseteq Bloque /\ Separados(libres)
      /\ \A a \in libres : a.base + a.tam <= Techo
      /\ \A a \in libres : a.base \in Nat /\ a.tam \in Nat /\ a.tam > 0
  BY TiposBloque DEF IInv, TypeOK, TypeTabla, Libres, Separados
<1>4. \A a \in libres : a.base + a.tam <= Ram + Nuevo
  BY <1>1, <1>3, MemoryAssumption
<1>5. /\ Asignar(b, t) \subseteq Bloque
      /\ Separados(Asignar(b, t))
      /\ \A a \in Asignar(b, t) :
           \/ a \in libres /\ a # b
           \/ a.base = b.base + t /\ a.base + a.tam = b.base + b.tam
  BY <1>2, <1>3, <1>4, Asignado
<1>6. \A u \in Segs, d \in Celdas : Reclama(u, d) =>
        /\ d \in Nat /\ limite[u] \in Nat /\ limite[u] > 0 /\ d + limite[u] <= Techo
        /\ \A a \in libres : Aparte(d, limite[u], a.base, a.tam)
  BY TamanoReclamado DEF IInv, Libres
<1>7. Disjuntos'
  <2>1. \A u \in Segs, d \in Celdas : Reclama(u, d)' => d + limite'[u] <= Techo
    BY <1>1, <1>2, <1>3, <1>6
  <2>2. \A u, v \in Segs, d, e \in Celdas :
          Reclama(u, d)' /\ Reclama(v, e)' /\ (u # v \/ d # e) =>
            Aparte(d, limite'[u], e, limite'[v])
    <3> SUFFICES ASSUME NEW u \in Segs, NEW v \in Segs, NEW d \in Celdas,
                        NEW e \in Celdas, Reclama(u, d)', Reclama(v, e)',
                        u # v \/ d # e
                 PROVE  Aparte(d, limite'[u], e, limite'[v])
      OBVIOUS
    <3>1. CASE u = s /\ d = b.base
      <4>1. Reclama(v, e) /\ limite'[v] = limite[v]
        BY <3>1
      <4> QED BY <1>2, <1>3, <1>6, <3>1, <4>1 DEF Aparte
    <3>2. CASE v = s /\ e = b.base
      <4>1. Reclama(u, d) /\ limite'[u] = limite[u]
        BY <3>2
      <4> QED BY <1>2, <1>3, <1>6, <3>2, <4>1 DEF Aparte
    <3>3. CASE /\ Reclama(u, d) /\ limite'[u] = limite[u]
               /\ Reclama(v, e) /\ limite'[v] = limite[v]
      BY <3>3 DEF IInv, Disjuntos
    <3> QED BY <3>1, <3>2, <3>3
  <2> QED BY <1>1, <2>1, <2>2 DEF Disjuntos, Aparte
<1>8. Libres'
  <2>1. \A a \in libres' : a.base \in Nat /\ a.tam \in Nat /\ a.tam > 0
    BY <1>5, TiposBloque
  <2>2. \A a \in libres' : a.base + a.tam <= Techo
    BY <1>3, <1>5
  <2>3. \A u \in Segs, d \in Celdas, a \in libres' : Reclama(u, d)' =>
          Aparte(d, limite'[u], a.base, a.tam)
    <3> SUFFICES ASSUME NEW u \in Segs, NEW d \in Celdas, NEW a \in libres',
                        Reclama(u, d)'
                 PROVE  Aparte(d, limite'[u], a.base, a.tam)
      OBVIOUS
    <3>1. \/ a \in libres /\ a # b
          \/ a.base = b.base + t /\ a.base + a.tam = b.base + b.tam
      BY <1>5
    <3>2. CASE u = s /\ d = b.base
      <4>1. a \in libres /\ a # b => a.base + a.tam < b.base \/ b.base + b.tam < a.base
        BY <1>3 DEF Separados
      <4> QED BY <1>2, <1>3, <2>1, <3>1, <3>2, <4>1 DEF Aparte
    <3>3. CASE Reclama(u, d) /\ limite'[u] = limite[u]
      BY <1>2, <1>3, <1>6, <2>1, <3>1, <3>3 DEF Aparte
    <3> QED BY <3>2, <3>3
  <2> QED BY <1>1, <1>5, <2>2, <2>3 DEF Libres, Separados, Aparte
<1> QED BY <1>5, <1>7, <1>8

\* The cells that s claims at b are freed.
LEMMA Suelta ==
  ASSUME IInv, rpc # "compacta", spc' = spc,
         NEW s \in Segs, NEW b \in Celdas, Reclama(s, b),
         libres' = Liberar(b, limite[s]),
         \A u \in Segs, d \in Celdas : Reclama(u, d)' =>
           Reclama(u, d) /\ limite'[u] = limite[u] /\ (u # s \/ d # b)
  PROVE  Disjuntos' /\ Libres' /\ libres' \subseteq Bloque
<1> DEFINE t == limite[s]
<1>1. Techo' = Techo /\ Techo \in Nat /\ Techo <= Ram + Nuevo
  BY MemoryAssumption DEF Techo
<1>2. t \in Nat /\ t > 0 /\ b \in Nat /\ b + t <= Techo
  BY TamanoReclamado
<1>3. /\ libres \subseteq Bloque /\ Separados(libres)
      /\ \A a \in libres : a.base + a.tam <= Techo
      /\ \A a \in libres : a.base \in Nat /\ a.tam \in Nat /\ a.tam > 0
      /\ \A a \in libres : Aparte(b, t, a.base, a.tam)
  BY TiposBloque DEF IInv, TypeOK, TypeTabla, Libres, Separados
<1>4. \A a \in libres : a.base + a.tam <= Ram + Nuevo
  BY <1>1, <1>3, MemoryAssumption
<1>5. b + t <= Ram + Nuevo
  BY <1>1, <1>2, MemoryAssumption
<1> HIDE DEF t
<1>6. PICK n \in Bloque :
           /\ n.base <= b /\ b + t <= n.base + n.tam
           /\ n \in Liberar(b, t)
           /\ \A a \in Liberar(b, t) :
                \/ a = n
                \/ /\ a \in libres
                   /\ n.base + n.tam < a.base \/ a.base + a.tam < n.base
           /\ \A a \in libres :
                \/ a \in Liberar(b, t)
                \/ n.base <= a.base /\ a.base + a.tam <= n.base + n.tam
           /\ \/ n.base = b
              \/ \E a \in libres : a.base = n.base /\ a.base + a.tam = b
           /\ \/ n.base + n.tam = b + t
              \/ \E a \in libres : /\ a.base = b + t
                                   /\ a.base + a.tam = n.base + n.tam
  BY <1>2, <1>3, <1>4, <1>5, Liberado
<1>7. n.base \in Nat /\ n.tam \in Nat /\ n.tam > 0
  BY TiposBloque
<1>8. libres' = Liberar(b, t)
  BY DEF t
<1>9. Disjuntos'
  BY <1>1 DEF IInv, Disjuntos, Aparte
<1>10. libres' \subseteq Bloque
  BY <1>3, <1>6, <1>8
<1>11. \A u \in Segs, d \in Celdas : Reclama(u, d)' =>
         /\ d \in Nat /\ limite'[u] \in Nat /\ limite'[u] > 0
         /\ \A a \in libres : Aparte(d, limite'[u], a.base, a.tam)
         /\ Aparte(d, limite'[u], b, t)
  BY TamanoReclamado DEF IInv, Libres, Disjuntos, t
<1>12. Libres'
  <2>1. n.base + n.tam <= Techo
    BY <1>2, <1>3, <1>6
  <2>2. \A a \in libres' : a.base + a.tam <= Techo
    BY <1>3, <1>6, <1>8, <2>1
  <2>3. Separados(libres')
    BY <1>3, <1>6, <1>7, <1>8 DEF Separados
  <2>4. \A u \in Segs, d \in Celdas : Reclama(u, d)' =>
          Aparte(d, limite'[u], n.base, n.tam)
    <3> SUFFICES ASSUME NEW u \in Segs, NEW d \in Celdas, Reclama(u, d)'
                 PROVE  Aparte(d, limite'[u], n.base, n.tam)
      OBVIOUS
    <3>1. n.base # b => d + limite'[u] <= n.base \/ b <= d
      BY <1>3, <1>6, <1>11 DEF Aparte
    <3>2. n.base + n.tam # b + t => d + limite'[u] <= b + t \/ n.base + n.tam <= d
      BY <1>3, <1>6, <1>11 DEF Aparte
    <3> QED BY <1>2, <1>7, <1>11, <3>1, <3>2 DEF Aparte
  <2>5. \A u \in Segs, d \in Celdas, a \in libres' : Reclama(u, d)' =>
          Aparte(d, limite'[u], a.base, a.tam)
    BY <1>6, <1>8, <1>11, <2>4
  <2> QED BY <1>1, <2>2, <2>3, <2>5 DEF Libres, Separados, Aparte
<1> QED BY <1>9, <1>10, <1>12

-----------------------------------------------------------------------------
(* The steps that answer a request.                                        *)

\* The thread goes back to wait for a request.
LEMMA Reposo ==
  ASSUME NEW r \in {"OK", "SEGFAULT", "NADA"}, NEW t \in {0} \union Tamanios,
         Termina(r, t)
  PROVE  /\ TypeHilo' /\ Hilo' /\ Reservado' /\ Cursor'
         /\ rpc' = "libre" /\ rp' = Nulo /\ reservas' = {}
<1>1. /\ rpc' = "libre" /\ rp' = Nulo /\ rs' = Nulo /\ rt' = t /\ pend' = {}
      /\ reservas' = {} /\ cursor' = 0 /\ respuesta' = r
  BY DEF Termina
<1>2. TypeHilo'
  BY <1>1, MemoryAssumption DEF TypeHilo
<1>3. Hilo'
  BY <1>1 DEF Hilo, Compactando, Suspendiendo, Volviendo
<1>4. Reservado' /\ Cursor'
  BY <1>1 DEF Reservado, Cursor
<1> QED BY <1>1, <1>2, <1>3, <1>4

\* manejar_crear_proceso.
LEMMA PasoCrearProceso ==
  ASSUME IInv, NEW p \in Procs, CrearProceso(p)
  PROVE  IInv'
<1>1. /\ existe' = existe \union {p} /\ Termina("OK", 0)
      /\ UNCHANGED <<base, limite, bloque, libres, siguiente, spc, cpuVars, susp,
                     datosVars>>
      /\ rpc = "libre"
  BY DEF CrearProceso, Contesta, Pedido
<1>2. /\ TypeHilo' /\ Hilo' /\ Reservado' /\ Cursor' /\ rpc' = "libre"
      /\ rp' = Nulo /\ reservas' = {}
  BY <1>1, Reposo
<1>3. TypeTabla' /\ TypeCpus' /\ TypeDatos'
  BY <1>1 DEF IInv, TypeOK, TypeTabla, TypeCpus, TypeDatos, cpuVars, datosVars
<1>4. EnCpus'
  BY <1>1, <1>2 DEF IInv, EnCpus, cpuVars
<1>5. Segmentos' /\ Llega'
  BY <1>1, <1>2 DEF IInv, Segmentos, Llega, Suspendiendo
<1>6. Disjuntos' /\ Libres'
  BY <1>1, <1>2, Marco DEF Reclama
<1> QED BY <1>2, <1>3, <1>4, <1>5, <1>6 DEF IInv, TypeOK

\* What a process writes, and what is forgotten, has its type.
LEMMA TiposEscribe ==
  ASSUME TypeDatos, NEW s \in Segs, NEW C, Escribe(s, C)
  PROVE  TypeDatos'
  BY DEF TypeDatos, Escribe

LEMMA TiposOlvida ==
  ASSUME TypeDatos, NEW S, Olvida(S)
  PROVE  TypeDatos'
  BY DEF TypeDatos, Olvida

\* manejar_escritura_memoria.
LEMMA PasoEscrituraMemoria ==
  ASSUME IInv, NEW s \in Segs, EscrituraMemoria(s)
  PROVE  IInv'
<1>1. /\ UNCHANGED <<tablaVars, libres, siguiente, spc, cpuVars, susp>>
      /\ rpc = "libre"
      /\ Termina("OK", 0) \/ Termina("SEGFAULT", 0)
  BY DEF EscrituraMemoria, Contesta, Pedido
<1>2. /\ TypeHilo' /\ Hilo' /\ Reservado' /\ Cursor' /\ rpc' = "libre"
      /\ rp' = Nulo /\ reservas' = {}
  BY <1>1, Reposo
<1>3. TypeTabla' /\ TypeCpus'
  BY <1>1 DEF IInv, TypeOK, TypeTabla, TypeCpus, cpuVars, tablaVars
<1>4. TypeDatos'
  <2>1. CASE UNCHANGED datosVars
    BY <2>1 DEF IInv, TypeOK, TypeDatos, datosVars
  <2>2. CASE Escribe(s, Rango(base[s], limite[s]) \cap Alcanzable)
    BY <2>2, TiposEscribe DEF IInv, TypeOK
  <2> QED BY <2>1, <2>2 DEF EscrituraMemoria
<1>5. EnCpus'
  BY <1>1, <1>2 DEF IInv, EnCpus, cpuVars, tablaVars
<1>6. Segmentos' /\ Llega'
  BY <1>1, <1>2 DEF IInv, Segmentos, Llega, Suspendiendo, tablaVars
<1>7. Disjuntos' /\ Libres'
  BY <1>1, <1>2, Marco DEF Reclama, tablaVars
<1> QED BY <1>2, <1>3, <1>4, <1>5, <1>6, <1>7 DEF IInv, TypeOK

-----------------------------------------------------------------------------
(* The steps that only move the thread.                                    *)

\* Nothing but the thread's own variables and susp changes, and it claims no
\* more than before.
LEMMA SoloHilo ==
  ASSUME IInv, UNCHANGED <<tablaVars, libres, siguiente, spc, cpuVars, datosVars>>,
         susp' \subseteq existe, reservas' \subseteq reservas,
         rpc = "compacta" => rpc' = "compacta"
  PROVE  TypeTabla' /\ TypeCpus' /\ TypeDatos' /\ Disjuntos' /\ Libres' /\ Llega'
<1>1. TypeTabla' /\ TypeCpus' /\ TypeDatos' /\ Llega'
  BY DEF IInv, TypeOK, TypeTabla, TypeCpus, TypeDatos, cpuVars, tablaVars,
         datosVars, Llega
<1>2. Disjuntos' /\ Libres'
  BY Marco DEF Reclama, tablaVars
<1> QED BY <1>1, <1>2

\* The answers that change no table.
LEMMA PasoResponde ==
  ASSUME IInv, NEW r \in {"OK", "SEGFAULT", "NADA"}, Termina(r, 0),
         UNCHANGED <<tablaVars, libres, siguiente, spc, cpuVars, datosVars>>,
         susp' \in {susp, susp \union {rp}}, rpc # "libre", rpc # "compacta",
         susp' # susp => Suspendiendo, susp' = susp => ~Suspendiendo
  PROVE  IInv'
<1>1. /\ TypeHilo' /\ Hilo' /\ Reservado' /\ Cursor' /\ rpc' = "libre"
      /\ rp' = Nulo /\ reservas' = {}
  BY Reposo
<1>2. rp \in existe /\ susp \subseteq existe
  BY DEF IInv, Hilo, TypeOK, TypeTabla
<1>3. TypeTabla' /\ TypeCpus' /\ TypeDatos' /\ Disjuntos' /\ Libres' /\ Llega'
  BY <1>1, <1>2, SoloHilo
<1>4. EnCpus'
  BY <1>1 DEF IInv, EnCpus, cpuVars, tablaVars, Suspendiendo, Compactando
<1>5. Segmentos'
  BY <1>1 DEF IInv, Segmentos, Suspendiendo, tablaVars
<1> QED BY <1>1, <1>3, <1>4, <1>5 DEF IInv, TypeOK

LEMMA PasoSuspenderSinSwap ==
  ASSUME IInv, NEW s \in Segs, SuspenderSinSwap(s)
  PROVE  IInv'
<1>1. /\ rpc = "suspende" /\ susp' = susp \union {rp} /\ Termina("OK", 0)
      /\ UNCHANGED <<tablaVars, libres, siguiente, spc, cpuVars, datosVars>>
  BY DEF SuspenderSinSwap, Contesta
<1>2. rp \notin susp
  BY <1>1 DEF IInv, Hilo, Suspendiendo
<1> QED BY <1>1, <1>2, PasoResponde DEF Suspendiendo

LEMMA PasoVenceEspera ==
  ASSUME IInv, VenceEspera
  PROVE  IInv'
<1>1. /\ rpc = "mudo" /\ susp' = susp \union {rp} /\ Termina("NADA", 0)
      /\ UNCHANGED <<tablaVars, libres, siguiente, spc, cpuVars, datosVars>>
  BY DEF VenceEspera, Contesta
<1>2. rp \notin susp
  BY <1>1 DEF IInv, Hilo, Suspendiendo
<1> QED BY <1>1, <1>2, PasoResponde DEF Suspendiendo

LEMMA PasoSuspenderTermina ==
  ASSUME IInv, SuspenderTermina
  PROVE  IInv'
<1>1. /\ rpc = "suspende" /\ susp' = susp \union {rp} /\ Termina("OK", 0)
      /\ UNCHANGED <<tablaVars, libres, siguiente, spc, cpuVars, datosVars>>
  BY DEF SuspenderTermina, Contesta
<1>2. rp \notin susp
  BY <1>1 DEF IInv, Hilo, Suspendiendo
<1> QED BY <1>1, <1>2, PasoResponde DEF Suspendiendo

LEMMA PasoDeshaceTermina ==
  ASSUME IInv, DeshaceTermina
  PROVE  IInv'
<1>1. /\ rpc = "deshace" /\ susp' = susp /\ Termina("SEGFAULT", 0)
      /\ UNCHANGED <<tablaVars, libres, siguiente, spc, cpuVars, datosVars>>
  BY DEF DeshaceTermina, Contesta
<1> QED BY <1>1, PasoResponde DEF Suspendiendo

LEMMA PasoTransferirFalla ==
  ASSUME IInv, TransferirFalla
  PROVE  IInv'
<1>1. /\ rpc = "transfiere" /\ susp' = susp /\ Termina("SEGFAULT", 0)
      /\ UNCHANGED <<tablaVars, libres, siguiente, spc, cpuVars, datosVars>>
  BY DEF TransferirFalla, Contesta
<1> QED BY <1>1, PasoResponde DEF Suspendiendo

\* A request starts and leaves work to do: pc is its first step.
LEMMA PasoSigue ==
  ASSUME IInv, Sosegado, Pedido,
         NEW pc \in {"suspende", "reserva", "finaliza"}, NEW p \in existe,
         Sigue(pc, p, Nulo, 0, SegsDe(p)),
         UNCHANGED <<tablaVars, libres, siguiente, spc, cpuVars, susp, datosVars>>,
         \A c \in Cpus : cpid[c] = p => modo[c] # "corre" /\ pc = "finaliza",
         pc = "suspende" => p \notin susp, pc = "reserva" => p \in susp
  PROVE  IInv'
<1>1. /\ rpc' = pc /\ rp' = p /\ rs' = Nulo /\ rt' = 0 /\ pend' = SegsDe(p)
      /\ reservas' = reservas /\ cursor' = cursor /\ respuesta' = respuesta
  BY DEF Sigue
<1>2. rpc = "libre" /\ spc \in {"espera", "fin"}
  BY DEF Pedido, Sosegado
<1>3. reservas = {} /\ cursor = 0
  BY <1>2 DEF IInv, Reservado, Hilo, Volviendo
<1>4. p \in Procs
  BY DEF IInv, TypeOK, TypeTabla
<1>5. /\ pend' \subseteq Segs
      /\ \A s \in pend' : s[1] = p /\ base[s] # Nada
      /\ \A s \in Segs : s[1] = p /\ base[s] # Nada => s \in pend'
  BY <1>1, <1>4 DEF SegsDe, Segs
<1>6. base' = base /\ existe' = existe /\ spc' = spc /\ susp' = susp
  BY DEF tablaVars
<1>7. TypeTabla' /\ TypeCpus' /\ TypeDatos' /\ Disjuntos' /\ Libres' /\ Llega'
  <2>1. susp' \subseteq existe /\ reservas' \subseteq reservas
    BY <1>1, <1>6 DEF IInv, TypeOK, TypeTabla
  <2> QED BY <1>2, <2>1, SoloHilo
<1>8. TypeHilo'
  BY <1>1, <1>4, <1>5 DEF IInv, TypeOK, TypeHilo
<1>9. Reservado' /\ Cursor'
  BY <1>1, <1>3 DEF Reservado, Cursor
<1>10. EnCpus'
  BY <1>1, <1>2 DEF IInv, EnCpus, cpuVars, tablaVars
<1>11. Segmentos'
  BY <1>1, <1>2, <1>6 DEF IInv, Segmentos, Suspendiendo, tablaVars
<1>12. Hilo'
  <2>1. pc = "suspende" => \A s \in pend' : base'[s] >= 0
    <3> SUFFICES ASSUME pc = "suspende", NEW s \in pend' PROVE base'[s] >= 0
      OBVIOUS
    <3>1. s[1] = p /\ base[s] # Nada /\ p \notin susp /\ s \in Segs
      BY <1>5
    <3>2. base[s] # EnSwap
      BY <1>2, <3>1 DEF IInv, Segmentos, Suspendiendo
    <3>3. base[s] \in Base
      BY <3>1 DEF IInv, TypeOK, TypeTabla
    <3> QED BY <1>6, <3>1, <3>2, <3>3, Celda DEF Base
  <2>2. \A s \in Segs : s[1] = rp' /\ base'[s] = EnSwap => s \in pend'
    BY <1>1, <1>5, <1>6 DEF EnSwap, Nada
  <2> QED BY <1>1, <1>2, <1>3, <1>5, <1>6, <2>1, <2>2
          DEF Hilo, Compactando, Suspendiendo, Volviendo
<1> QED BY <1>7, <1>8, <1>9, <1>10, <1>11, <1>12 DEF IInv, TypeOK

LEMMA PasoSuspender ==
  ASSUME IInv, Sosegado, NEW p \in Procs, Suspender(p)
  PROVE  IInv'
<1>1. /\ Pedido /\ p \in existe /\ ~EnCpu(p) /\ p \notin susp
      /\ Sigue("suspende", p, Nulo, 0, SegsDe(p))
      /\ UNCHANGED <<tablaVars, libres, siguiente, spc, cpuVars, susp, datosVars>>
  BY DEF Suspender
<1> QED BY <1>1, PasoSigue DEF EnCpu

LEMMA PasoDesSuspender ==
  ASSUME IInv, Sosegado, NEW p \in Procs, DesSuspender(p)
  PROVE  IInv'
<1>1. /\ Pedido /\ p \in susp
      /\ Sigue("reserva", p, Nulo, 0, SegsDe(p))
      /\ UNCHANGED <<tablaVars, libres, siguiente, spc, cpuVars, susp, datosVars>>
  BY DEF DesSuspender
<1>2. p \in existe /\ \A c \in Cpus : cpid[c] # p
  BY <1>1, MemoryAssumption DEF IInv, TypeOK, TypeTabla, EnCpus
<1> QED BY <1>1, <1>2, PasoSigue

LEMMA PasoFinalizarProceso ==
  ASSUME IInv, Sosegado, NEW p \in Procs, FinalizarProceso(p)
  PROVE  IInv'
<1>1. /\ Pedido /\ p \in existe
      /\ \A c \in Cpus : cpid[c] = p => modo[c] \in {"pide", "cae"}
      /\ Sigue("finaliza", p, Nulo, 0, SegsDe(p))
      /\ UNCHANGED <<tablaVars, libres, siguiente, spc, cpuVars, susp, datosVars>>
  BY DEF FinalizarProceso
<1> QED BY <1>1, PasoSigue

\* The steps between two others of the same request.
LEMMA PasoIniciarCompactacion ==
  ASSUME IInv, IniciarCompactacion
  PROVE  IInv'
<1>1. /\ rpc = "anuncia" /\ rpc' = "pausado"
      /\ UNCHANGED <<tablaVars, libres, siguiente, rp, rs, rt, pend, reservas,
                     cursor, respuesta, spc, cpuVars, susp, datosVars>>
  BY DEF IniciarCompactacion
<1>2. TypeTabla' /\ TypeCpus' /\ TypeDatos' /\ Disjuntos' /\ Libres' /\ Llega'
  <2>1. susp' \subseteq existe /\ reservas' \subseteq reservas
    BY <1>1 DEF IInv, TypeOK, TypeTabla
  <2> QED BY <1>1, <2>1, SoloHilo
<1>3. TypeHilo'
  BY <1>1 DEF IInv, TypeOK, TypeHilo
<1>4. Hilo' /\ Reservado' /\ Cursor'
  BY <1>1 DEF IInv, Hilo, Reservado, Cursor, Compactando, Suspendiendo, Volviendo,
              cpuVars, tablaVars
<1>5. EnCpus' /\ Segmentos'
  BY <1>1 DEF IInv, EnCpus, Segmentos, Compactando, Suspendiendo, cpuVars, tablaVars
<1> QED BY <1>2, <1>3, <1>4, <1>5 DEF IInv, TypeOK

LEMMA PasoCompactaEmpieza ==
  ASSUME IInv, CompactaEmpieza
  PROVE  IInv'
<1>1. /\ rpc = "pausado" /\ rpc' \in {"reasigna", "compacta"}
      /\ pend' = {s \in Segs : base[s] >= 0}
      /\ rpc' = "reasigna" => \A s \in Segs : base[s] = Nada
      /\ UNCHANGED <<tablaVars, libres, siguiente, rp, rs, rt, reservas,
                     cursor, respuesta, spc, cpuVars, susp, datosVars>>
  BY DEF CompactaEmpieza
<1>2. TypeTabla' /\ TypeCpus' /\ TypeDatos' /\ Disjuntos' /\ Libres' /\ Llega'
  <2>1. susp' \subseteq existe /\ reservas' \subseteq reservas
    BY <1>1 DEF IInv, TypeOK, TypeTabla
  <2> QED BY <1>1, <2>1, SoloHilo
<1>3. TypeHilo'
  BY <1>1 DEF IInv, TypeOK, TypeHilo
<1>4. rpc' = "reasigna" => pend' = {}
  BY <1>1 DEF Nada
<1>5. Hilo'
  BY <1>1, <1>4 DEF IInv, Hilo, Compactando, Suspendiendo, Volviendo, cpuVars, tablaVars
<1>6. Reservado'
  BY <1>1 DEF IInv, Reservado, Volviendo
<1>7. Cursor'
  <2>1. cursor = 0
    BY <1>1 DEF IInv, Hilo
  <2> QED BY <1>1, <2>1, MemoryAssumption DEF Cursor, Techo, tablaVars
<1>8. EnCpus' /\ Segmentos'
  BY <1>1 DEF IInv, EnCpus, Segmentos, Compactando, Suspendiendo, cpuVars, tablaVars
<1> QED BY <1>2, <1>3, <1>5, <1>6, <1>7, <1>8 DEF IInv, TypeOK

LEMMA PasoReservaNoAlcanza ==
  ASSUME IInv, NEW s \in Segs, ReservaNoAlcanza(s)
  PROVE  IInv'
<1>1. /\ rpc = "reserva" /\ rpc' = "deshace" /\ pend' = {}
      /\ UNCHANGED <<tablaVars, libres, siguiente, rp, rs, rt, reservas,
                     cursor, respuesta, spc, cpuVars, susp, datosVars>>
  BY DEF ReservaNoAlcanza
<1>2. TypeTabla' /\ TypeCpus' /\ TypeDatos' /\ Disjuntos' /\ Libres' /\ Llega'
  <2>1. susp' \subseteq existe /\ reservas' \subseteq reservas
    BY <1>1 DEF IInv, TypeOK, TypeTabla
  <2> QED BY <1>1, <2>1, SoloHilo
<1>3. TypeHilo'
  BY <1>1 DEF IInv, TypeOK, TypeHilo
<1>4. Hilo' /\ Reservado' /\ Cursor'
  BY <1>1 DEF IInv, Hilo, Reservado, Cursor, Compactando, Suspendiendo, Volviendo,
              cpuVars, tablaVars
<1>5. EnCpus' /\ Segmentos'
  BY <1>1 DEF IInv, EnCpus, Segmentos, Compactando, Suspendiendo, cpuVars, tablaVars
<1> QED BY <1>2, <1>3, <1>4, <1>5 DEF IInv, TypeOK

LEMMA PasoReservaTermina ==
  ASSUME IInv, ReservaTermina
  PROVE  IInv'
<1>1. /\ rpc = "reserva" /\ pend = {} /\ rpc' = "transfiere"
      /\ UNCHANGED <<tablaVars, libres, siguiente, rp, rs, rt, pend, reservas,
                     cursor, respuesta, spc, cpuVars, susp, datosVars>>
  BY DEF ReservaTermina
<1>2. TypeTabla' /\ TypeCpus' /\ TypeDatos' /\ Disjuntos' /\ Libres' /\ Llega'
  <2>1. susp' \subseteq existe /\ reservas' \subseteq reservas
    BY <1>1 DEF IInv, TypeOK, TypeTabla
  <2> QED BY <1>1, <2>1, SoloHilo
<1>3. TypeHilo'
  BY <1>1 DEF IInv, TypeOK, TypeHilo
<1>4. Hilo' /\ Reservado' /\ Cursor'
  BY <1>1 DEF IInv, Hilo, Reservado, Cursor, Compactando, Suspendiendo, Volviendo,
              cpuVars, tablaVars
<1>5. EnCpus' /\ Segmentos'
  BY <1>1 DEF IInv, EnCpus, Segmentos, Compactando, Suspendiendo, cpuVars, tablaVars
<1> QED BY <1>2, <1>3, <1>4, <1>5 DEF IInv, TypeOK

LEMMA PasoVolcarFalla ==
  ASSUME IInv, VolcarFalla
  PROVE  IInv'
<1>1. /\ rpc = "vuelca" /\ rpc' = "mudo"
      /\ UNCHANGED <<tablaVars, libres, siguiente, rp, rs, rt, pend, reservas,
                     cursor, respuesta, spc, cpuVars, susp, datosVars>>
  BY DEF VolcarFalla
<1>2. TypeTabla' /\ TypeCpus' /\ TypeDatos' /\ Disjuntos' /\ Libres' /\ Llega'
  <2>1. susp' \subseteq existe /\ reservas' \subseteq reservas
    BY <1>1 DEF IInv, TypeOK, TypeTabla
  <2> QED BY <1>1, <2>1, SoloHilo
<1>3. TypeHilo'
  BY <1>1 DEF IInv, TypeOK, TypeHilo
<1>4. Hilo' /\ Reservado' /\ Cursor'
  BY <1>1 DEF IInv, Hilo, Reservado, Cursor, Compactando, Suspendiendo, Volviendo,
              cpuVars, tablaVars
<1>5. EnCpus' /\ Segmentos'
  BY <1>1 DEF IInv, EnCpus, Segmentos, Compactando, Suspendiendo, cpuVars, tablaVars
<1> QED BY <1>2, <1>3, <1>4, <1>5 DEF IInv, TypeOK

\* volcar_segmento_a_swap: only the blocks of swap change.
LEMMA PasoVolcar ==
  ASSUME IInv, Volcar
  PROVE  IInv'
<1>1. /\ rpc = "vuelca" /\ rpc' = "vuelto"
      /\ UNCHANGED <<tablaVars, libres, siguiente, rp, rs, rt, pend, reservas,
                     cursor, respuesta, spc, cpuVars, susp, ram, escrito>>
  BY DEF Volcar
<1>2. rs \in Segs
  BY <1>1 DEF IInv, Hilo, TypeOK, TypeHilo
<1>3. TypeDatos'
  <2>1. disco' \in [NumBloques -> Segs \union {Nulo}]
    BY <1>2 DEF Volcar, IInv, TypeOK, TypeDatos
  <2> QED BY <1>1, <2>1 DEF IInv, TypeOK, TypeDatos
<1>4. TypeTabla' /\ TypeHilo' /\ TypeCpus' /\ Llega'
  BY <1>1 DEF IInv, TypeOK, TypeTabla, TypeHilo, TypeCpus, cpuVars, tablaVars, Llega
<1>5. Disjuntos' /\ Libres'
  BY <1>1, Marco DEF Reclama, tablaVars
<1>6. Hilo' /\ Reservado' /\ Cursor'
  BY <1>1 DEF IInv, Hilo, Reservado, Cursor, Compactando, Suspendiendo, Volviendo,
              cpuVars, tablaVars
<1>7. EnCpus' /\ Segmentos'
  BY <1>1 DEF IInv, EnCpus, Segmentos, Compactando, Suspendiendo, cpuVars, tablaVars
<1> QED BY <1>3, <1>4, <1>5, <1>6, <1>7 DEF IInv, TypeOK

\* swap_reservar_bloques.
LEMMA PasoSuspenderReserva ==
  ASSUME IInv, NEW s \in Segs, SuspenderReserva(s)
  PROVE  IInv'
<1>1. /\ rpc = "suspende" /\ rpc' = "vuelca" /\ s \in pend /\ rs' = s
      /\ siguiente + BloquesDe(limite[s]) <= Bloques
      /\ siguiente' = siguiente + BloquesDe(limite[s])
      /\ bloque' = [bloque EXCEPT ![s] = siguiente]
      /\ UNCHANGED <<existe, base, limite, libres, rp, rt, pend, reservas, cursor,
                     respuesta, spc, cpuVars, susp, datosVars>>
  BY DEF SuspenderReserva
<1>2. BloquesDe(limite[s]) \in Nat
  <2>1. limite[s] \in Nat
    BY MemoryAssumption DEF IInv, TypeOK, TypeTabla
  <2> QED BY <2>1, MemoryAssumption DEF BloquesDe
<1>3. TypeTabla'
  BY <1>1, <1>2, MemoryAssumption DEF IInv, TypeOK, TypeTabla
<1>4. TypeHilo' /\ TypeCpus' /\ TypeDatos' /\ Llega'
  BY <1>1 DEF IInv, TypeOK, TypeHilo, TypeCpus, TypeDatos, cpuVars, datosVars, Llega
<1>5. Disjuntos' /\ Libres'
  BY <1>1, Marco DEF Reclama
<1>6. Hilo' /\ Reservado' /\ Cursor'
  BY <1>1 DEF IInv, Hilo, Reservado, Cursor, Compactando, Suspendiendo, Volviendo,
              cpuVars
<1>7. EnCpus' /\ Segmentos'
  BY <1>1 DEF IInv, EnCpus, Segmentos, Compactando, Suspendiendo, cpuVars
<1> QED BY <1>3, <1>4, <1>5, <1>6, <1>7 DEF IInv, TypeOK

\* transferir_swap_a_ram: the process is not suspended any more.
LEMMA PasoTransferir ==
  ASSUME IInv, Transferir
  PROVE  IInv'
<1>1. /\ rpc = "transfiere" /\ susp' = susp \ {rp} /\ Termina("OK", 0)
      /\ UNCHANGED <<tablaVars, libres, siguiente, spc, cpuVars, disco, escrito>>
  BY DEF Transferir, Contesta
<1>2. /\ TypeHilo' /\ Hilo' /\ Reservado' /\ Cursor' /\ rpc' = "libre"
      /\ rp' = Nulo /\ reservas' = {}
  BY <1>1, Reposo
<1>3. TypeDatos'
  <2>1. ram' \in [Celdas -> Segs \union {Nulo}]
    BY DEF Transferir, IInv, TypeOK, TypeDatos
  <2> QED BY <1>1, <2>1 DEF IInv, TypeOK, TypeDatos
<1>4. TypeTabla' /\ TypeCpus' /\ Llega'
  BY <1>1 DEF IInv, TypeOK, TypeTabla, TypeCpus, cpuVars, tablaVars, Llega
<1>5. Disjuntos' /\ Libres'
  BY <1>1, <1>2, Marco DEF Reclama, tablaVars
<1>6. EnCpus'
  BY <1>1, <1>2 DEF IInv, EnCpus, cpuVars, tablaVars
<1>7. Segmentos'
  <2>1. \A s \in Segs : s[1] = rp => base[s] # EnSwap
    BY <1>1 DEF IInv, Hilo
  <2> QED BY <1>1, <1>2, <2>1 DEF IInv, Segmentos, Suspendiendo, tablaVars
<1> QED BY <1>2, <1>3, <1>4, <1>5, <1>6, <1>7 DEF IInv, TypeOK

-----------------------------------------------------------------------------
(* The CPUs and the sticks.                                                *)

\* The thread, the tables and the list are left alone.
LEMMA SoloCpus ==
  ASSUME IInv, UNCHANGED <<tablaVars, libres, siguiente, rxVars, spc, susp>>
  PROVE  TypeTabla' /\ TypeHilo' /\ Disjuntos' /\ Libres' /\ Llega' /\ Reservado'
         /\ Cursor' /\ Segmentos'
<1>1. TypeTabla' /\ TypeHilo' /\ Llega'
  BY DEF IInv, TypeOK, TypeTabla, TypeHilo, tablaVars, rxVars, Llega
<1>2. Disjuntos' /\ Libres'
  BY Marco DEF Reclama, tablaVars, rxVars
<1>3. Reservado' /\ Cursor' /\ Segmentos'
  BY DEF IInv, Reservado, Cursor, Segmentos, Volviendo, Suspendiendo, Techo,
         tablaVars, rxVars
<1> QED BY <1>1, <1>2, <1>3

LEMMA PasoDespachar ==
  ASSUME IInv, NEW c \in Cpus, NEW p \in Procs, Despachar(c, p)
  PROVE  IInv'
<1>1. /\ modo[c] = "libre" /\ p \in existe /\ p \notin susp /\ rp # p
      /\ modo' = [modo EXCEPT ![c] = "corre"]
      /\ cpid' = [cpid EXCEPT ![c] = p]
      /\ ctx'  = [ctx EXCEPT ![c] = [i \in Ids |-> base[<<p, i>>]]]
      /\ UNCHANGED <<tablaVars, libres, siguiente, rxVars, spc, susp, datosVars>>
  BY DEF Despachar
<1>2. TypeTabla' /\ TypeHilo' /\ Disjuntos' /\ Libres' /\ Llega' /\ Reservado'
      /\ Cursor' /\ Segmentos'
  BY <1>1, SoloCpus
<1>3. TypeCpus' /\ TypeDatos'
  <2>1. [i \in Ids |-> base[<<p, i>>]] \in [Ids -> Base]
    BY DEF IInv, TypeOK, TypeTabla, Segs
  <2> QED BY <1>1, <2>1 DEF IInv, TypeOK, TypeCpus, TypeDatos, datosVars
<1>4. EnCpus'
  <2> SUFFICES ASSUME NEW d \in Cpus
               PROVE  /\ modo'[d] = "libre" <=> cpid'[d] = Nulo
                      /\ cpid'[d] # Nulo => /\ cpid'[d] \in existe /\ cpid'[d] \notin susp
                                            /\ cpid'[d] = rp => rpc = "finaliza" \/ Compactando
                      /\ modo'[d] = "corre" => /\ cpid'[d] # rp
                            /\ \A i \in Ids : ctx'[d][i] = base[<<cpid'[d], i>>]
    BY <1>1 DEF EnCpus, tablaVars, rxVars, Compactando
  <2>1. CASE d = c
    <3>1. modo'[d] = "corre" /\ cpid'[d] = p /\ p # Nulo
      BY <1>1, <2>1, MemoryAssumption DEF IInv, TypeOK, TypeCpus
    <3>2. \A i \in Ids : ctx'[d][i] = base[<<p, i>>]
      BY <1>1, <2>1 DEF IInv, TypeOK, TypeCpus
    <3> QED BY <1>1, <3>1, <3>2
  <2>2. CASE d # c
    BY <1>1, <2>2 DEF IInv, EnCpus, TypeOK, TypeCpus
  <2> QED BY <2>1, <2>2
<1>5. Hilo'
  <2>1. \A d \in Cpus : modo[d] = "pide" => modo'[d] = "pide" /\ cpid'[d] = cpid[d]
    BY <1>1 DEF IInv, TypeOK, TypeCpus
  <2> QED BY <1>1, <2>1 DEF IInv, Hilo, Compactando, Suspendiendo, Volviendo,
                            tablaVars, rxVars
<1> QED BY <1>2, <1>3, <1>4, <1>5 DEF IInv, TypeOK

LEMMA PasoCpuEscribe ==
  ASSUME IInv, NEW c \in Cpus, NEW i \in Ids, CpuEscribe(c, i)
  PROVE  IInv'
<1> DEFINE s == <<cpid[c], i>>
<1>1. /\ modo[c] = "corre" /\ Escribe(s, Rango(ctx[c][i], limite[s]))
      /\ UNCHANGED <<tablaVars, libres, siguiente, rxVars, spc, cpuVars, susp>>
  BY DEF CpuEscribe
<1>2. TypeTabla' /\ TypeHilo' /\ Disjuntos' /\ Libres' /\ Llega' /\ Reservado'
      /\ Cursor' /\ Segmentos'
  BY <1>1, SoloCpus
<1>3. s \in Segs
  BY <1>1 DEF IInv, EnCpus, TypeOK, TypeCpus, Segs
<1>4. TypeDatos'
  BY <1>1, <1>3, TiposEscribe DEF IInv, TypeOK
<1>5. TypeCpus' /\ EnCpus' /\ Hilo'
  BY <1>1 DEF IInv, TypeOK, TypeCpus, EnCpus, Hilo, Compactando, Suspendiendo,
              Volviendo, cpuVars, tablaVars, rxVars
<1> QED BY <1>2, <1>4, <1>5 DEF IInv, TypeOK

\* ACTUALIZAR_CONTEXTO stores what the table already says.
LEMMA PasoCpuDevuelve ==
  ASSUME IInv, NEW c \in Cpus, NEW m \in {"libre", "pide", "cae"}, CpuDevuelve(c, m)
  PROVE  IInv' /\ base' = base
<1> DEFINE p == cpid[c]
<1>1. /\ modo[c] = "corre"
      /\ base' = [s \in Segs |-> IF s[1] = p THEN ctx[c][s[2]] ELSE base[s]]
      /\ modo' = [modo EXCEPT ![c] = m]
      /\ cpid' = IF m = "libre" THEN [cpid EXCEPT ![c] = Nulo] ELSE cpid
      /\ ctx'  = [ctx EXCEPT ![c] = [i \in Ids |-> Nada]]
      /\ UNCHANGED <<existe, limite, bloque, libres, siguiente, rxVars, spc, susp,
                     datosVars>>
  BY DEF CpuDevuelve
<1>2. base' = base
  <2>1. base = [s \in Segs |-> base[s]]
    BY DEF IInv, TypeOK, TypeTabla
  <2>2. \A s \in Segs : s[1] = p => ctx[c][s[2]] = base[s]
    <3> SUFFICES ASSUME NEW s \in Segs, s[1] = p PROVE ctx[c][s[2]] = base[s]
      OBVIOUS
    <3>1. s[2] \in Ids /\ s = <<p, s[2]>>
      BY DEF Segs
    <3> QED BY <1>1, <3>1 DEF IInv, EnCpus
  <2> QED BY <1>1, <2>1, <2>2
<1>3. TypeTabla' /\ TypeHilo' /\ Disjuntos' /\ Libres' /\ Llega' /\ Reservado'
      /\ Cursor' /\ Segmentos'
  BY <1>1, <1>2, SoloCpus DEF tablaVars
<1>4. TypeCpus' /\ TypeDatos'
  <2>1. [i \in Ids |-> Nada] \in [Ids -> Base]
    BY DEF Base
  <2> QED BY <1>1, <2>1 DEF IInv, TypeOK, TypeCpus, TypeDatos, datosVars
<1>5. EnCpus'
  <2> SUFFICES ASSUME NEW d \in Cpus
               PROVE  /\ modo'[d] = "libre" <=> cpid'[d] = Nulo
                      /\ cpid'[d] # Nulo => /\ cpid'[d] \in existe /\ cpid'[d] \notin susp
                                            /\ cpid'[d] = rp => rpc = "finaliza" \/ Compactando
                      /\ modo'[d] = "corre" => /\ cpid'[d] # rp
                            /\ \A i \in Ids : ctx'[d][i] = base[<<cpid'[d], i>>]
    BY <1>1, <1>2 DEF EnCpus, rxVars, Compactando
  <2>1. CASE d = c
    <3>1. modo'[d] = m /\ cpid'[d] = IF m = "libre" THEN Nulo ELSE cpid[d]
      BY <1>1, <2>1 DEF IInv, TypeOK, TypeCpus
    <3>2. cpid[d] # Nulo
      BY <1>1, <2>1 DEF IInv, EnCpus
    <3> QED BY <3>1, <3>2 DEF IInv, EnCpus
  <2>2. CASE d # c
    BY <1>1, <2>2 DEF IInv, EnCpus, TypeOK, TypeCpus
  <2> QED BY <2>1, <2>2
<1>6. Hilo'
  <2>1. \A d \in Cpus : modo[d] = "pide" => modo'[d] = "pide" /\ cpid'[d] = cpid[d]
    BY <1>1 DEF IInv, TypeOK, TypeCpus
  <2> QED BY <1>1, <1>2, <2>1 DEF IInv, Hilo, Compactando, Suspendiendo, Volviendo,
                                  rxVars
<1> QED BY <1>2, <1>3, <1>4, <1>5, <1>6 DEF IInv, TypeOK

LEMMA PasoRegistraStick ==
  ASSUME IInv, Sosegado, RegistraStick
  PROVE  IInv'
<1>1. /\ spc = "espera" /\ spc' = "agrega" /\ rpc = "libre"
      /\ UNCHANGED <<tablaVars, libres, siguiente, rxVars, cpuVars, susp, datosVars>>
  BY DEF RegistraStick, Sosegado
<1>2. TypeOK' /\ Llega'
  BY <1>1 DEF IInv, TypeOK, TypeTabla, TypeHilo, TypeCpus, TypeDatos, Llega,
              tablaVars, rxVars, cpuVars, datosVars
<1>3. Hilo' /\ Reservado' /\ EnCpus' /\ Segmentos' /\ Cursor'
  BY <1>1 DEF IInv, Hilo, Reservado, EnCpus, Segmentos, Cursor, Compactando,
              Suspendiendo, Volviendo, tablaVars, rxVars, cpuVars
<1>4. Techo' = Techo
  BY <1>1 DEF Techo
<1>5. Disjuntos' /\ Libres'
  BY <1>1, <1>4 DEF IInv, Disjuntos, Libres, Reclama, Aparte, tablaVars, rxVars
<1> QED BY <1>2, <1>3, <1>5 DEF IInv

LEMMA PasoConectaStick ==
  ASSUME IInv, ConectaStick
  PROVE  IInv'
<1>1. /\ spc = "conecta" /\ spc' = "fin"
      /\ UNCHANGED <<tablaVars, libres, siguiente, rxVars, cpuVars, susp, datosVars>>
  BY DEF ConectaStick
<1>2. TypeOK' /\ Llega'
  BY <1>1 DEF IInv, TypeOK, TypeTabla, TypeHilo, TypeCpus, TypeDatos, Llega,
              tablaVars, rxVars, cpuVars, datosVars
<1>3. Techo' = Techo
  BY <1>1 DEF Techo
<1>4. Hilo' /\ Reservado' /\ EnCpus' /\ Segmentos' /\ Cursor'
  BY <1>1, <1>3 DEF IInv, Hilo, Reservado, EnCpus, Segmentos, Cursor, Compactando,
              Suspendiendo, Volviendo, tablaVars, rxVars, cpuVars
<1>5. Disjuntos' /\ Libres'
  BY <1>1, <1>3 DEF IInv, Disjuntos, Libres, Reclama, Aparte, tablaVars, rxVars
<1> QED BY <1>2, <1>4, <1>5 DEF IInv

\* bloques_agregar: the new cells are above everything that is claimed.
LEMMA PasoAgregaBloque ==
  ASSUME IInv, AgregaBloque
  PROVE  IInv'
<1>1. /\ spc = "agrega" /\ spc' = "conecta" /\ libres' = Liberar(Ram, Nuevo)
      /\ UNCHANGED <<tablaVars, siguiente, rxVars, cpuVars, susp, datosVars>>
  BY DEF AgregaBloque
<1>2. rpc = "libre" /\ Nuevo > 0
  BY <1>1 DEF IInv, Hilo, Llega
<1>3. Techo = Ram /\ Techo' = Ram + Nuevo
  BY <1>1 DEF Techo
<1>4. /\ libres \subseteq Bloque /\ Separados(libres)
      /\ \A a \in libres : a.base + a.tam <= Ram
      /\ \A a \in libres : a.base \in Nat /\ a.tam \in Nat /\ a.tam > 0
  BY <1>2, <1>3, TiposBloque DEF IInv, TypeOK, TypeTabla, Libres, Separados
<1>5. /\ \A a \in libres : a.base + a.tam <= Ram + Nuevo
      /\ \A a \in libres : Aparte(Ram, Nuevo, a.base, a.tam)
  BY <1>4, MemoryAssumption DEF Aparte
<1>6. PICK n \in Bloque :
           /\ n.base <= Ram /\ Ram + Nuevo <= n.base + n.tam
           /\ n \in Liberar(Ram, Nuevo)
           /\ \A a \in Liberar(Ram, Nuevo) :
                \/ a = n
                \/ /\ a \in libres
                   /\ n.base + n.tam < a.base \/ a.base + a.tam < n.base
           /\ \A a \in libres :
                \/ a \in Liberar(Ram, Nuevo)
                \/ n.base <= a.base /\ a.base + a.tam <= n.base + n.tam
           /\ \/ n.base = Ram
              \/ \E a \in libres : a.base = n.base /\ a.base + a.tam = Ram
           /\ \/ n.base + n.tam = Ram + Nuevo
              \/ \E a \in libres : /\ a.base = Ram + Nuevo
                                   /\ a.base + a.tam = n.base + n.tam
  BY <1>2, <1>4, <1>5, Liberado, MemoryAssumption
<1>7. n.base \in Nat /\ n.tam \in Nat /\ n.tam > 0
  BY TiposBloque
<1>8. n.base + n.tam = Ram + Nuevo
  BY <1>2, <1>4, <1>6, MemoryAssumption
<1>9. \A u \in Segs, d \in Celdas :
        /\ Reclama(u, d)' <=> Reclama(u, d)
        /\ Reclama(u, d) =>
             /\ d \in Nat /\ limite[u] \in Nat /\ limite[u] > 0
             /\ d + limite[u] <= Ram /\ limite'[u] = limite[u]
             /\ \A a \in libres : Aparte(d, limite[u], a.base, a.tam)
  <2>1. \A u \in Segs, d \in Celdas : Reclama(u, d) =>
             /\ d \in Nat /\ limite[u] \in Nat /\ limite[u] > 0
             /\ d + limite[u] <= Ram
             /\ \A a \in libres : Aparte(d, limite[u], a.base, a.tam)
    BY <1>2, <1>3, TamanoReclamado DEF IInv, Libres
  <2> QED BY <1>1, <2>1 DEF Reclama, tablaVars, rxVars
<1>10. Disjuntos'
  <2>1. \A u \in Segs, d \in Celdas : Reclama(u, d) => d + limite[u] <= Ram + Nuevo
    BY <1>9, MemoryAssumption
  <2>2. limite' = limite
    BY <1>1 DEF tablaVars
  <2> QED BY <1>3, <1>9, <2>1, <2>2 DEF IInv, Disjuntos, Aparte
<1>11. Libres'
  <2>1. /\ \A a \in libres' : a.base + a.tam <= Ram + Nuevo
        /\ Separados(libres')
    BY <1>1, <1>4, <1>5, <1>6, <1>7, <1>8 DEF Separados
  <2>2. \A u \in Segs, d \in Celdas : Reclama(u, d) =>
          Aparte(d, limite[u], n.base, n.tam)
    BY <1>4, <1>6, <1>7, <1>8, <1>9, MemoryAssumption DEF Aparte
  <2>3. \A u \in Segs, d \in Celdas, a \in libres' : Reclama(u, d)' =>
          Aparte(d, limite'[u], a.base, a.tam)
    BY <1>1, <1>6, <1>9, <2>2
  <2> QED BY <1>3, <2>1, <2>3 DEF Libres, Separados, Aparte
<1>12. TypeTabla'
  <2>1. libres' \subseteq Bloque
    BY <1>1, <1>4, <1>6
  <2> QED BY <1>1, <2>1 DEF IInv, TypeOK, TypeTabla, tablaVars
<1>13. TypeHilo' /\ TypeCpus' /\ TypeDatos' /\ Llega'
  BY <1>1, <1>2 DEF IInv, TypeOK, TypeHilo, TypeCpus, TypeDatos, Llega,
                    rxVars, cpuVars, datosVars
<1>14. Hilo' /\ Reservado' /\ EnCpus' /\ Segmentos' /\ Cursor'
  BY <1>1, <1>2 DEF IInv, Hilo, Reservado, EnCpus, Segmentos, Cursor, Compactando,
              Suspendiendo, Volviendo, tablaVars, rxVars, cpuVars
<1> QED BY <1>10, <1>11, <1>12, <1>13, <1>14 DEF IInv, TypeOK

-----------------------------------------------------------------------------
(* The steps that give cells back.                                         *)

\* A segment that has a base has it in RAM or is in swap.
LEMMA DondeEsta ==
  ASSUME IInv, NEW s \in Segs
  PROVE  /\ base[s] \in Int
         /\ base[s] \in Celdas <=> base[s] >= 0
         /\ base[s] >= 0 \/ base[s] = EnSwap \/ base[s] = Nada
         /\ base[s] # Nada => limite[s] \in Tamanios /\ limite[s] \in Nat
                              /\ limite[s] > 0
         /\ limite[s] \in Nat
<1>1. base[s] \in Base /\ limite[s] \in {0} \union Tamanios
  BY DEF IInv, TypeOK, TypeTabla
<1>2. base[s] # Nada => limite[s] \in Tamanios
  BY DEF IInv, Segmentos
<1> QED BY <1>1, <1>2, Celda, MemoryAssumption DEF Base, EnSwap, Nada, Celdas

LEMMA PasoFinalizaTermina ==
  ASSUME IInv, FinalizaTermina
  PROVE  IInv'
<1>1. /\ rpc = "finaliza" /\ pend = {}
      /\ existe' = existe \ {rp} /\ susp' = susp \ {rp}
      /\ modo' = [c \in Cpus |-> IF cpid[c] = rp THEN "libre" ELSE modo[c]]
      /\ cpid' = [c \in Cpus |-> IF cpid[c] = rp THEN Nulo ELSE cpid[c]]
      /\ Termina("OK", 0)
      /\ UNCHANGED <<base, limite, bloque, libres, siguiente, spc, ctx, datosVars>>
  BY DEF FinalizaTermina, Contesta
<1>2. /\ TypeHilo' /\ Hilo' /\ Reservado' /\ Cursor' /\ rpc' = "libre"
      /\ rp' = Nulo /\ reservas' = {}
  BY <1>1, Reposo
<1>3. TypeTabla' /\ TypeCpus' /\ TypeDatos' /\ Llega'
  BY <1>1 DEF IInv, TypeOK, TypeTabla, TypeCpus, TypeDatos, datosVars, Llega
<1>4. EnCpus'
  <2>1. rp # Nulo
    BY <1>1, MemoryAssumption DEF IInv, Hilo, TypeOK, TypeTabla
  <2> QED BY <1>1, <1>2, <2>1 DEF IInv, EnCpus
<1>5. Segmentos'
  <2>1. \A s \in Segs : s[1] = rp => base[s] = Nada
    BY <1>1 DEF IInv, Hilo
  <2> QED BY <1>1, <1>2, <2>1 DEF IInv, Segmentos, Suspendiendo, EnSwap, Nada
<1>6. Disjuntos' /\ Libres'
  BY <1>1, <1>2, Marco DEF Reclama
<1> QED BY <1>2, <1>3, <1>4, <1>5, <1>6 DEF IInv, TypeOK

LEMMA PasoFinalizaSegmento ==
  ASSUME IInv, NEW s \in Segs, FinalizaSegmento(s)
  PROVE  IInv'
<1>1. /\ rpc = "finaliza" /\ s \in pend
      /\ libres' = IF base[s] # EnSwap THEN Liberar(base[s], limite[s]) ELSE libres
      /\ base'   = [base EXCEPT ![s] = Nada]
      /\ limite' = [limite EXCEPT ![s] = 0]
      /\ bloque' = [bloque EXCEPT ![s] = 0]
      /\ pend'   = pend \ {s}
      /\ Olvida({s})
      /\ UNCHANGED <<existe, siguiente, rpc, rp, rs, rt, reservas, cursor,
                     respuesta, spc, cpuVars, susp>>
  BY DEF FinalizaSegmento
<1>2. s[1] = rp /\ base[s] # Nada /\ reservas = {} /\ ~Volviendo
  BY <1>1 DEF IInv, Hilo, Reservado, Volviendo
<1>3. /\ base'[s] = Nada
      /\ \A u \in Segs : u # s => base'[u] = base[u] /\ limite'[u] = limite[u]
  BY <1>1 DEF IInv, TypeOK, TypeTabla
<1>4. \A u \in Segs, d \in Celdas : Reclama(u, d)' =>
        Reclama(u, d) /\ limite'[u] = limite[u] /\ u # s
  BY <1>1, <1>2, <1>3, Celda DEF Reclama, Nada
<1>5. Disjuntos' /\ Libres' /\ libres' \subseteq Bloque
  <2>1. CASE base[s] = EnSwap
    <3>1. libres' = libres
      BY <1>1, <2>1
    <3> QED BY <1>1, <1>4, <3>1, Marco DEF IInv, TypeOK, TypeTabla
  <2>2. CASE base[s] # EnSwap
    <3>1. base[s] \in Celdas /\ Reclama(s, base[s])
      BY <1>2, <2>2, DondeEsta DEF Reclama
    <3>2. libres' = Liberar(base[s], limite[s])
      BY <1>1, <2>2
    <3> QED BY <1>1, <1>4, <3>1, <3>2, Suelta
  <2> QED BY <2>1, <2>2
<1>6. TypeTabla'
  BY <1>1, <1>5, MemoryAssumption DEF IInv, TypeOK, TypeTabla, Base
<1>7. TypeHilo' /\ TypeCpus' /\ Llega'
  BY <1>1 DEF IInv, TypeOK, TypeHilo, TypeCpus, cpuVars, Llega
<1>8. TypeDatos'
  BY <1>1, TiposOlvida DEF IInv, TypeOK
<1>9. Hilo' /\ Reservado' /\ Cursor'
  BY <1>1, <1>2, <1>3 DEF IInv, TypeOK, TypeHilo, Hilo, Reservado, Cursor,
                          Compactando, Suspendiendo, Volviendo
<1>10. EnCpus'
  <2>1. \A c \in Cpus, i \in Ids : modo[c] = "corre" =>
          <<cpid[c], i>> \in Segs /\ <<cpid[c], i>> # s
    BY <1>2 DEF IInv, EnCpus, TypeOK, TypeCpus, Segs
  <2> QED BY <1>1, <1>3, <2>1 DEF IInv, EnCpus, Compactando, cpuVars
<1>11. Segmentos'
  BY <1>1, <1>3 DEF IInv, Segmentos, Suspendiendo, EnSwap, Nada
<1> QED BY <1>5, <1>6, <1>7, <1>8, <1>9, <1>10, <1>11 DEF IInv, TypeOK

\* manejar_eliminar_segmento: the process it is for is the one of its CPU, which
\* loads the table again.
LEMMA PasoEliminarSegmento ==
  ASSUME IInv, Sosegado, NEW c \in Cpus, NEW i \in Ids, EliminarSegmento(c, i)
  PROVE  IInv'
<1> DEFINE s == <<cpid[c], i>>
<1>1. /\ rpc = "libre" /\ modo[c] = "pide"
      /\ base'   = [base EXCEPT ![s] = Nada]
      /\ limite' = [limite EXCEPT ![s] = 0]
      /\ bloque' = [bloque EXCEPT ![s] = 0]
      /\ libres' = IF base[s] = Nada THEN libres ELSE Liberar(base[s], limite[s])
      /\ Termina("OK", 0)
      /\ Reanudar(c)
      /\ Olvida({s})
      /\ UNCHANGED <<existe, siguiente, spc, susp>>
  BY DEF EliminarSegmento, Contesta, Pedido
<1>2. /\ TypeHilo' /\ Hilo' /\ Reservado' /\ Cursor' /\ rpc' = "libre"
      /\ rp' = Nulo /\ reservas' = {}
  BY <1>1, Reposo
<1>3. cpid[c] \in Procs /\ s \in Segs /\ cpid[c] \in existe /\ cpid[c] \notin susp
  BY <1>1 DEF IInv, EnCpus, TypeOK, TypeCpus, Segs
<1>4. s[1] = cpid[c]
  OBVIOUS
<1> HIDE DEF s
<1>5. base[s] # EnSwap
  BY <1>1, <1>3, <1>4 DEF IInv, Segmentos, Suspendiendo
<1>6. /\ base'[s] = Nada
      /\ \A u \in Segs : u # s => base'[u] = base[u] /\ limite'[u] = limite[u]
  BY <1>1, <1>3 DEF IInv, TypeOK, TypeTabla
<1>7. \A u \in Segs, d \in Celdas : Reclama(u, d)' =>
        Reclama(u, d) /\ limite'[u] = limite[u] /\ u # s
  BY <1>2, <1>6, Celda DEF Reclama, Nada
<1>8. Disjuntos' /\ Libres' /\ libres' \subseteq Bloque
  <2>1. CASE base[s] = Nada
    <3>1. libres' = libres
      BY <1>1, <2>1
    <3> QED BY <1>1, <1>7, <3>1, Marco DEF IInv, TypeOK, TypeTabla
  <2>2. CASE base[s] # Nada
    <3>1. base[s] \in Celdas /\ Reclama(s, base[s])
      BY <1>3, <1>5, <2>2, DondeEsta DEF Reclama
    <3>2. libres' = Liberar(base[s], limite[s])
      BY <1>1, <2>2
    <3> QED BY <1>1, <1>3, <1>7, <3>1, <3>2, Suelta
  <2> QED BY <2>1, <2>2
<1>9. TypeTabla'
  <2>1. /\ base' \in [Segs -> Base] /\ limite' \in [Segs -> {0} \union Tamanios]
        /\ bloque' \in [Segs -> 0 .. Bloques]
    BY <1>1, <1>3, MemoryAssumption DEF IInv, TypeOK, TypeTabla, Base
  <2> QED BY <1>1, <1>8, <2>1 DEF IInv, TypeOK, TypeTabla
<1>10. TypeDatos' /\ Llega'
  BY <1>1, TiposOlvida DEF IInv, TypeOK, Llega
<1>11. /\ modo'[c] = "corre" /\ cpid'[c] = cpid[c]
       /\ \A j \in Ids : ctx'[c][j] = base'[<<cpid[c], j>>]
       /\ TypeCpus'
  <2>1. [j \in Ids |-> base'[<<cpid[c], j>>]] \in [Ids -> Base]
    BY <1>3, <1>9 DEF TypeTabla, Segs
  <2> QED BY <1>1, <2>1 DEF Reanudar, IInv, TypeOK, TypeCpus
<1>12. EnCpus'
  BY <1>1, <1>2, <1>3, <1>11, MemoryAssumption DEF Sosegado, EnCpus
<1>13. Segmentos'
  BY <1>1, <1>2, <1>6 DEF IInv, Segmentos, Suspendiendo, EnSwap, Nada
<1> QED BY <1>2, <1>8, <1>9, <1>10, <1>11, <1>12, <1>13 DEF IInv, TypeOK

\* The RAM of a segment that was dumped.
LEMMA PasoSuspenderLibera ==
  ASSUME IInv, SuspenderLibera
  PROVE  IInv'
<1>1. /\ rpc = "vuelto"
      /\ libres' = Liberar(base[rs], limite[rs])
      /\ base' = [base EXCEPT ![rs] = EnSwap]
      /\ pend' = pend \ {rs}
      /\ rpc' = "suspende" /\ rs' = Nulo
      /\ UNCHANGED <<existe, limite, bloque, siguiente, rp, rt, reservas, cursor,
                     respuesta, spc, cpuVars, susp, datosVars>>
  BY DEF SuspenderLibera
<1>2. /\ rs \in pend /\ rs \in Segs /\ rs[1] = rp /\ base[rs] >= 0 /\ reservas = {}
      /\ rp \in existe
  BY <1>1 DEF IInv, Hilo, Reservado, Volviendo, Suspendiendo, TypeOK, TypeHilo
<1>3. /\ base'[rs] = EnSwap
      /\ \A u \in Segs : u # rs => base'[u] = base[u]
  BY <1>1, <1>2 DEF IInv, TypeOK, TypeTabla
<1>4. \A u \in Segs, d \in Celdas : Reclama(u, d)' =>
        Reclama(u, d) /\ limite'[u] = limite[u] /\ u # rs
  BY <1>1, <1>2, <1>3, Celda DEF Reclama, EnSwap
<1>5. Disjuntos' /\ Libres' /\ libres' \subseteq Bloque
  <2>1. base[rs] \in Celdas /\ Reclama(rs, base[rs])
    BY <1>2, DondeEsta DEF Reclama
  <2> QED BY <1>1, <1>2, <1>4, <2>1, Suelta
<1>6. TypeTabla'
  BY <1>1, <1>5 DEF IInv, TypeOK, TypeTabla, Base
<1>7. TypeHilo' /\ TypeCpus' /\ TypeDatos' /\ Llega'
  BY <1>1 DEF IInv, TypeOK, TypeHilo, TypeCpus, TypeDatos, cpuVars, datosVars, Llega
<1>8. Hilo' /\ Reservado' /\ Cursor'
  BY <1>1, <1>2, <1>3 DEF IInv, TypeOK, TypeHilo, Hilo, Reservado, Cursor,
                          Compactando, Suspendiendo, Volviendo
<1>9. EnCpus'
  <2>1. \A c \in Cpus, i \in Ids : modo[c] = "corre" =>
          <<cpid[c], i>> \in Segs /\ <<cpid[c], i>> # rs
    BY <1>2 DEF IInv, EnCpus, TypeOK, TypeCpus, Segs
  <2> QED BY <1>1, <1>3, <2>1 DEF IInv, EnCpus, Compactando, cpuVars
<1>10. Segmentos'
  BY <1>1, <1>2, <1>3, DondeEsta DEF IInv, Segmentos, Suspendiendo, EnSwap, Nada
<1> QED BY <1>5, <1>6, <1>7, <1>8, <1>9, <1>10 DEF IInv, TypeOK

\* The rollback of one reservation.
LEMMA PasoDeshaceReserva ==
  ASSUME IInv, NEW r \in reservas, DeshaceReserva(r)
  PROVE  IInv'
<1> DEFINE s == r[1]
<1>1. /\ rpc = "deshace"
      /\ libres' = Liberar(base[s], limite[s])
      /\ base' = [base EXCEPT ![s] = r[2]]
      /\ reservas' = reservas \ {r}
      /\ UNCHANGED <<existe, limite, bloque, siguiente, rpc, rp, rs, rt, pend,
                     cursor, respuesta, spc, cpuVars, susp, datosVars>>
  BY DEF DeshaceReserva
<1>2. s \in Segs /\ r[2] \in Base /\ r = <<s, r[2]>>
  BY DEF IInv, TypeOK, TypeHilo
<1>3. /\ s[1] = rp /\ base[s] >= 0 /\ r[2] # Nada /\ r[2] # base[s]
      /\ \A q \in reservas : q[1] = s => q = r
      /\ pend = {} /\ rp \in susp /\ rp \in existe
  BY <1>1 DEF IInv, Reservado, Hilo, Volviendo
<1> HIDE DEF s
<1>4. /\ base'[s] = r[2]
      /\ \A u \in Segs : u # s => base'[u] = base[u]
  BY <1>1, <1>2 DEF IInv, TypeOK, TypeTabla
<1>5. \A u \in Segs, d \in Celdas : Reclama(u, d)' =>
        Reclama(u, d) /\ limite'[u] = limite[u] /\ (u # s \/ d # base[s])
  <2> SUFFICES ASSUME NEW u \in Segs, NEW d \in Celdas, Reclama(u, d)'
               PROVE  Reclama(u, d) /\ limite'[u] = limite[u] /\ (u # s \/ d # base[s])
    OBVIOUS
  <2>1. base'[u] = d \/ <<u, d>> \in reservas'
    BY DEF Reclama
  <2>2. CASE u # s
    BY <1>1, <1>4, <2>1, <2>2 DEF Reclama
  <2>3. CASE u = s
    <3>1. <<u, d>> \notin reservas'
      <4>1. <<u, d>>[1] = u
        OBVIOUS
      <4> QED BY <1>1, <1>3, <2>3, <4>1
    <3>2. d = r[2]
      BY <1>4, <2>1, <2>3, <3>1
    <3> QED BY <1>1, <1>2, <1>3, <2>3, <3>2 DEF Reclama
  <2> QED BY <2>2, <2>3
<1>6. Disjuntos' /\ Libres' /\ libres' \subseteq Bloque
  <2>1. base[s] \in Celdas /\ Reclama(s, base[s])
    BY <1>2, <1>3, DondeEsta DEF Reclama
  <2> QED BY <1>1, <1>2, <1>5, <2>1, Suelta
<1>7. TypeTabla'
  BY <1>1, <1>2, <1>6 DEF IInv, TypeOK, TypeTabla
<1>8. TypeHilo' /\ TypeCpus' /\ TypeDatos' /\ Llega'
  BY <1>1 DEF IInv, TypeOK, TypeHilo, TypeCpus, TypeDatos, cpuVars, datosVars, Llega
<1>9. Hilo' /\ Cursor'
  BY <1>1, <1>3 DEF IInv, Hilo, Cursor, Compactando, Suspendiendo, Volviendo, cpuVars
<1>10. Reservado'
  <2>1. \A q \in reservas' : q \in reservas /\ q[1] # s /\ q[1] \in Segs
    BY <1>1, <1>3 DEF IInv, TypeOK, TypeHilo
  <2> QED BY <1>1, <1>4, <2>1 DEF IInv, Reservado, Volviendo
<1>11. EnCpus'
  <2>1. \A c \in Cpus, i \in Ids : modo[c] = "corre" =>
          <<cpid[c], i>> \in Segs /\ <<cpid[c], i>> # s
    BY <1>3 DEF IInv, EnCpus, TypeOK, TypeCpus, Segs
  <2> QED BY <1>1, <1>4, <2>1 DEF IInv, EnCpus, Compactando, cpuVars
<1>12. Segmentos'
  <2>1. limite[s] \in Tamanios
    BY <1>2, <1>3, DondeEsta DEF Nada
  <2> QED BY <1>1, <1>3, <1>4, <2>1 DEF IInv, Segmentos, Suspendiendo
<1> QED BY <1>6, <1>7, <1>8, <1>9, <1>10, <1>11, <1>12 DEF IInv, TypeOK

-----------------------------------------------------------------------------
(* The steps that take cells.                                              *)

\* One turn of reservar_segmentos_con_rollback; the old base stays claimed.
LEMMA PasoReservaSegmento ==
  ASSUME IInv, NEW s \in Segs, ReservaSegmento(s)
  PROVE  IInv'
<1>1. /\ rpc = "reserva" /\ s \in pend
      /\ reservas' = reservas \union {<<s, base[s]>>}
      /\ pend' = pend \ {s}
      /\ UNCHANGED <<existe, limite, bloque, siguiente, rpc, rp, rs, rt, cursor,
                     respuesta, spc, cpuVars, susp, datosVars>>
  BY DEF ReservaSegmento
<1>2. PICK b \in libres : /\ Elegible(b, limite[s])
                          /\ base' = [base EXCEPT ![s] = b.base]
                          /\ libres' = Asignar(b, limite[s])
  BY DEF ReservaSegmento
<1>3. /\ s[1] = rp /\ base[s] # Nada /\ rp \in susp /\ rp \in existe
      /\ \A r \in reservas : r[1] # s
  BY <1>1 DEF IInv, Hilo, Volviendo, Reservado
<1>4. /\ limite[s] \in Tamanios /\ limite[s] \in Nat /\ limite[s] > 0
      /\ base[s] \in Int /\ base[s] \in Base
      /\ base[s] \in Celdas <=> base[s] >= 0
  BY <1>3, DondeEsta DEF IInv, TypeOK, TypeTabla
<1>5. /\ limite[s] <= b.tam /\ b \in Bloque /\ b.base \in Nat /\ b.base \in Celdas
      /\ b.tam \in Nat /\ b.tam > 0
  BY <1>2, <1>4, TiposBloque DEF Elegible, Alcanza, IInv, TypeOK, TypeTabla, Bloque
<1>6. /\ base'[s] = b.base
      /\ \A u \in Segs : u # s => base'[u] = base[u]
  BY <1>2 DEF IInv, TypeOK, TypeTabla
<1>7. \A u \in Segs, d \in Celdas : Reclama(u, d)' =>
        \/ u = s /\ d = b.base
        \/ Reclama(u, d) /\ limite'[u] = limite[u]
  <2> SUFFICES ASSUME NEW u \in Segs, NEW d \in Celdas, Reclama(u, d)',
                      ~(u = s /\ d = b.base)
               PROVE  Reclama(u, d)
    BY <1>1
  <2>1. base'[u] = d \/ <<u, d>> \in reservas'
    BY DEF Reclama
  <2>2. base'[u] = d => base[u] = d
    BY <1>6
  <2>3. <<u, d>> = <<s, base[s]>> => base[u] = d
    OBVIOUS
  <2> QED BY <1>1, <2>1, <2>2, <2>3 DEF Reclama
<1>8. Disjuntos' /\ Libres' /\ libres' \subseteq Bloque
  <2>1. limite'[s] = limite[s] /\ rpc # "compacta" /\ spc' = spc
    BY <1>1
  <2> QED BY <1>2, <1>4, <1>5, <1>7, <2>1, Coloca
<1>9. base[s] # b.base
  <2> SUFFICES ASSUME base[s] = b.base PROVE FALSE
    OBVIOUS
  <2>1. Reclama(s, base[s]) /\ base[s] \in Celdas
    BY <1>5 DEF Reclama
  <2>2. Aparte(base[s], limite[s], b.base, b.tam)
    BY <1>1, <2>1 DEF IInv, Libres
  <2> QED BY <1>4, <1>5, <2>2 DEF Aparte
<1>10. TypeTabla'
  BY <1>1, <1>2, <1>5, <1>8 DEF IInv, TypeOK, TypeTabla, Base
<1>11. TypeHilo' /\ TypeCpus' /\ TypeDatos' /\ Llega'
  BY <1>1, <1>4 DEF IInv, TypeOK, TypeHilo, TypeCpus, TypeDatos, cpuVars, datosVars, Llega
<1>12. Hilo'
  <2>1. base'[s] # EnSwap
    BY <1>5, <1>6 DEF EnSwap
  <2> QED BY <1>1, <1>3, <1>6, <2>1
          DEF IInv, TypeOK, TypeHilo, Hilo, Compactando, Suspendiendo, Volviendo
<1>13. Reservado' /\ Cursor'
  <2>1. \A r \in reservas' : \/ r = <<s, base[s]>>
                             \/ r \in reservas /\ r[1] # s /\ r[1] \in Segs
    BY <1>1, <1>3 DEF IInv, TypeOK, TypeHilo
  <2>2. <<s, base[s]>>[1] = s /\ <<s, base[s]>>[2] = base[s]
    OBVIOUS
  <2>3. \A r \in reservas' :
          /\ r[1][1] = rp' /\ r[1] \notin pend'
          /\ base'[r[1]] >= 0 /\ r[2] # Nada /\ r[2] # base'[r[1]]
    BY <1>1, <1>3, <1>5, <1>6, <1>9, <2>1, <2>2 DEF IInv, Reservado
  <2>4. \A r, q \in reservas' : r[1] = q[1] => r = q
    BY <2>1, <2>2 DEF IInv, Reservado
  <2> QED BY <1>1, <2>3, <2>4 DEF Reservado, Cursor, Volviendo
<1>14. EnCpus'
  <2>1. \A c \in Cpus, i \in Ids : modo[c] = "corre" =>
          <<cpid[c], i>> \in Segs /\ <<cpid[c], i>> # s
    BY <1>3 DEF IInv, EnCpus, TypeOK, TypeCpus, Segs
  <2> QED BY <1>1, <1>6, <2>1 DEF IInv, EnCpus, Compactando, cpuVars
<1>15. Segmentos'
  BY <1>1, <1>3, <1>4, <1>6 DEF IInv, Segmentos, Suspendiendo
<1> QED BY <1>8, <1>10, <1>11, <1>12, <1>13, <1>14, <1>15 DEF IInv, TypeOK

\* A segment is created for the process in a syscall.
LEMMA Creado ==
  ASSUME IInv, Sosegado, rpc \in {"libre", "reasigna"},
         NEW s \in Segs, NEW t \in Tamanios, NEW b \in libres,
         base[s] = Nada, Elegible(b, t), CrearSegmento(s, t, b),
         UNCHANGED <<siguiente, spc, susp, datosVars>>
  PROVE  IInv'
<1>1. /\ base'   = [base EXCEPT ![s] = b.base]
      /\ limite' = [limite EXCEPT ![s] = t]
      /\ bloque' = [bloque EXCEPT ![s] = 0]
      /\ libres' = Asignar(b, t)
      /\ Termina("OK", 0)
      /\ existe' = existe
  BY DEF CrearSegmento, Contesta
<1>2. PICK c \in Cpus : cpid[c] = s[1] /\ Reanudar(c)
  BY DEF CrearSegmento
<1>3. /\ TypeHilo' /\ Hilo' /\ Reservado' /\ Cursor' /\ rpc' = "libre"
      /\ rp' = Nulo /\ reservas' = {}
  BY <1>1, Reposo
<1>4. s[1] \in Procs /\ s[1] \in existe /\ s[1] \notin susp
  BY <1>2, MemoryAssumption DEF IInv, EnCpus, Segs
<1>5. /\ t \in Nat /\ t <= b.tam /\ b.base \in Nat /\ b.base \in Celdas
  BY TiposBloque, MemoryAssumption DEF Elegible, Alcanza, IInv, TypeOK, TypeTabla, Bloque
<1>6. /\ base'[s] = b.base /\ limite'[s] = t
      /\ \A u \in Segs : u # s => base'[u] = base[u] /\ limite'[u] = limite[u]
  BY <1>1 DEF IInv, TypeOK, TypeTabla
<1>7. Disjuntos' /\ Libres' /\ libres' \subseteq Bloque
  <2>1. \A u \in Segs, d \in Celdas : Reclama(u, d)' =>
          \/ u = s /\ d = b.base
          \/ Reclama(u, d) /\ limite'[u] = limite[u]
    BY <1>3, <1>6 DEF Reclama
  <2> QED BY <1>1, <1>5, <1>6, <2>1, Coloca
<1>8. TypeTabla'
  <2>1. /\ base' \in [Segs -> Base] /\ limite' \in [Segs -> {0} \union Tamanios]
        /\ bloque' \in [Segs -> 0 .. Bloques]
    BY <1>1, <1>5, MemoryAssumption DEF IInv, TypeOK, TypeTabla, Base
  <2> QED BY <1>1, <1>7, <2>1 DEF IInv, TypeOK, TypeTabla
<1>9. TypeDatos' /\ Llega'
  BY DEF IInv, TypeOK, TypeDatos, datosVars, Llega
<1>10. /\ modo'[c] = "corre" /\ cpid'[c] = cpid[c]
       /\ \A j \in Ids : ctx'[c][j] = base'[<<cpid[c], j>>]
       /\ TypeCpus'
  <2>1. [j \in Ids |-> base'[<<cpid[c], j>>]] \in [Ids -> Base]
    BY <1>2, <1>4, <1>8 DEF TypeTabla, Segs
  <2> QED BY <1>2, <2>1 DEF Reanudar, IInv, TypeOK, TypeCpus
<1>11. EnCpus'
  BY <1>1, <1>2, <1>3, <1>4, <1>10, MemoryAssumption DEF Sosegado, EnCpus
<1>12. Segmentos'
  BY <1>1, <1>3, <1>4, <1>5, <1>6 DEF IInv, Segmentos, Suspendiendo, EnSwap
<1> QED BY <1>3, <1>7, <1>8, <1>9, <1>10, <1>11, <1>12 DEF IInv, TypeOK

\* The request is refused, and the process will end.
LEMMA Negado ==
  ASSUME IInv, rpc \in {"libre", "reasigna"},
         NEW s \in Segs, NEW t \in Tamanios, NegarSegmento(s, t),
         UNCHANGED <<siguiente, spc, susp, datosVars>>
  PROVE  IInv'
<1>1. Termina("SEGFAULT", t) /\ UNCHANGED <<tablaVars, libres>>
  BY DEF NegarSegmento
<1>2. PICK c \in Cpus : cpid[c] = s[1] /\ Condenar(c)
  BY DEF NegarSegmento
<1>3. /\ TypeHilo' /\ Hilo' /\ Reservado' /\ Cursor' /\ rpc' = "libre"
      /\ rp' = Nulo /\ reservas' = {}
  BY <1>1, Reposo
<1>4. /\ modo' = [modo EXCEPT ![c] = "cae"] /\ cpid' = cpid /\ ctx' = ctx
      /\ cpid[c] # Nulo
  BY <1>2, MemoryAssumption DEF Condenar, Segs
<1>5. TypeTabla' /\ TypeCpus' /\ TypeDatos' /\ Llega'
  BY <1>1, <1>4 DEF IInv, TypeOK, TypeTabla, TypeCpus, TypeDatos, datosVars,
                    tablaVars, Llega
<1>6. EnCpus'
  BY <1>1, <1>3, <1>4 DEF IInv, EnCpus, TypeOK, TypeCpus, tablaVars
<1>7. Segmentos'
  BY <1>1, <1>3 DEF IInv, Segmentos, Suspendiendo, tablaVars
<1>8. Disjuntos' /\ Libres'
  BY <1>1, <1>3, Marco DEF Reclama, tablaVars
<1> QED BY <1>3, <1>5, <1>6, <1>7, <1>8 DEF IInv, TypeOK

\* manejar_solicitar_segmento.
LEMMA PasoSolicitarSegmento ==
  ASSUME IInv, Sosegado, NEW c \in Cpus, NEW i \in Ids, NEW t \in Tamanios,
         SolicitarSegmento(c, i, t)
  PROVE  IInv'
<1> DEFINE s == <<cpid[c], i>>
<1>1. /\ rpc = "libre" /\ spc \in {"espera", "fin"} /\ modo[c] = "pide"
      /\ base[s] = Nada
      /\ UNCHANGED <<siguiente, spc, susp, datosVars>>
  BY DEF SolicitarSegmento, Pedido, Sosegado
<1>2. /\ cpid[c] \in Procs /\ cpid[c] \in existe /\ s \in Segs /\ s[1] = cpid[c]
  BY <1>1 DEF IInv, EnCpus, TypeOK, TypeCpus, Segs
<1>3. \/ NegarSegmento(s, t)
      \/ \E b \in libres : Elegible(b, t) /\ CrearSegmento(s, t, b)
      \/ Sigue("anuncia", cpid[c], s, t, {}) /\ UNCHANGED <<tablaVars, libres, cpuVars>>
  BY DEF SolicitarSegmento
<1> HIDE DEF s
<1>4. CASE NegarSegmento(s, t)
  BY <1>1, <1>2, <1>4, Negado
<1>5. CASE \E b \in libres : Elegible(b, t) /\ CrearSegmento(s, t, b)
  BY <1>1, <1>2, <1>5, Creado
<1>6. CASE Sigue("anuncia", cpid[c], s, t, {}) /\ UNCHANGED <<tablaVars, libres, cpuVars>>
  <2>1. /\ rpc' = "anuncia" /\ rp' = cpid[c] /\ rs' = s /\ rt' = t /\ pend' = {}
        /\ reservas' = reservas /\ cursor' = cursor /\ respuesta' = respuesta
    BY <1>6 DEF Sigue
  <2>2. reservas = {} /\ cursor = 0
    BY <1>1 DEF IInv, Reservado, Hilo, Volviendo
  <2>3. TypeTabla' /\ TypeCpus' /\ TypeDatos' /\ Disjuntos' /\ Libres' /\ Llega'
    <3>1. susp' \subseteq existe /\ reservas' \subseteq reservas
      BY <1>1, <2>1 DEF IInv, TypeOK, TypeTabla
    <3> QED BY <1>1, <1>6, <3>1, SoloHilo
  <2>4. TypeHilo'
    BY <1>2, <2>1 DEF IInv, TypeOK, TypeHilo
  <2>5. Hilo'
    <3>1. existe' = existe /\ base' = base /\ modo' = modo /\ cpid' = cpid
      BY <1>6 DEF tablaVars, cpuVars
    <3>2. \E d \in Cpus : cpid'[d] = rp' /\ modo'[d] = "pide"
      BY <1>1, <2>1, <3>1
    <3> QED BY <1>1, <1>2, <2>1, <2>2, <3>1, <3>2
            DEF Hilo, Compactando, Suspendiendo, Volviendo
  <2>6. Reservado' /\ Cursor'
    BY <2>1, <2>2 DEF Reservado, Cursor
  <2>7. EnCpus'
    <3>1. \A d \in Cpus : modo[d] = "pide"
      BY <1>1 DEF Sosegado
    <3> QED BY <1>1, <1>6, <2>1, <3>1 DEF IInv, EnCpus, Compactando, cpuVars, tablaVars
  <2>8. Segmentos'
    BY <1>1, <1>6, <2>1 DEF IInv, Segmentos, Suspendiendo, tablaVars
  <2> QED BY <2>3, <2>4, <2>5, <2>6, <2>7, <2>8 DEF IInv, TypeOK
<1> QED BY <1>3, <1>4, <1>5, <1>6

\* compactar_y_reasignar, after the compaction.
LEMMA PasoReasigna ==
  ASSUME IInv, Sosegado, Reasigna
  PROVE  IInv'
<1>1. /\ rpc = "reasigna" /\ UNCHANGED <<siguiente, spc, susp, datosVars>>
      /\ \/ NegarSegmento(rs, rt)
         \/ \E b \in libres : Elegible(b, rt) /\ CrearSegmento(rs, rt, b)
  BY DEF Reasigna
<1>2. rs \in Segs /\ rt \in Tamanios /\ base[rs] = Nada
  BY <1>1 DEF IInv, Hilo, Compactando
<1>3. CASE NegarSegmento(rs, rt)
  BY <1>1, <1>2, <1>3, Negado
<1>4. CASE \E b \in libres : Elegible(b, rt) /\ CrearSegmento(rs, rt, b)
  BY <1>1, <1>2, <1>4, Creado
<1> QED BY <1>1, <1>3, <1>4

-----------------------------------------------------------------------------
(* Compaction.                                                             *)

\* With one CPU, nobody runs while memory is compacted.
LEMMA NadieCorre ==
  ASSUME IInv, Sosegado, Compactando
  PROVE  \A c \in Cpus : modo[c] = "pide" /\ cpid[c] = rp
  BY DEF IInv, Hilo, Sosegado

\* Where the segments are when s is the next to move.
LEMMA Orden ==
  ASSUME IInv, rpc = "compacta", NEW s \in pend, \A u \in pend : base[s] <= base[u]
  PROVE  /\ s \in Segs /\ base[s] \in Nat /\ base[s] \in Celdas
         /\ limite[s] \in Nat /\ limite[s] > 0 /\ reservas = {}
         /\ cursor \in Nat /\ cursor <= base[s] /\ base[s] + limite[s] <= Techo
         /\ \A u \in pend : u # s => base[s] + limite[s] <= base[u]
         /\ \A u \in Segs : base[u] >= 0 /\ u \notin pend => base[u] + limite[u] <= cursor
<1>1. s \in Segs /\ pend \subseteq Segs /\ cursor \in Nat
  BY MemoryAssumption DEF IInv, TypeOK, TypeHilo
<1>2. /\ \A u \in pend : base[u] >= cursor
      /\ \A u \in Segs : base[u] >= 0 /\ u \notin pend => base[u] + limite[u] <= cursor
      /\ reservas = {}
  BY DEF IInv, Cursor, Reservado, Volviendo
<1>3. \A u \in pend : /\ base[u] \in Nat /\ base[u] \in Celdas /\ Reclama(u, base[u])
                      /\ limite[u] \in Nat /\ limite[u] > 0
  <2> SUFFICES ASSUME NEW u \in pend
               PROVE  /\ base[u] \in Nat /\ base[u] \in Celdas /\ Reclama(u, base[u])
                      /\ limite[u] \in Nat /\ limite[u] > 0
    OBVIOUS
  <2>1. u \in Segs /\ base[u] >= cursor
    BY <1>1, <1>2
  <2>2. base[u] \in Int /\ base[u] >= 0
    BY <1>1, <2>1, DondeEsta
  <2>3. base[u] \in Celdas /\ limite[u] \in Nat /\ limite[u] > 0
    BY <2>1, <2>2, DondeEsta DEF Nada
  <2> QED BY <2>2, <2>3 DEF Reclama
<1>4. base[s] + limite[s] <= Techo
  BY <1>1, <1>3, TamanoReclamado
<1>5. \A u \in pend : u # s => base[s] + limite[s] <= base[u]
  <2> SUFFICES ASSUME NEW u \in pend, u # s PROVE base[s] + limite[s] <= base[u]
    OBVIOUS
  <2>1. Aparte(base[s], limite[s], base[u], limite[u])
    BY <1>1, <1>3 DEF IInv, Disjuntos
  <2> QED BY <1>3, <2>1 DEF Aparte
<1> QED BY <1>1, <1>2, <1>3, <1>4, <1>5

\* One turn of compactar_memoria.
LEMMA PasoCompactaSegmento ==
  ASSUME IInv, Sosegado, NEW s \in Segs, CompactaSegmento(s)
  PROVE  IInv'
<1>1. /\ rpc = "compacta" /\ s \in pend /\ \A u \in pend : base[s] <= base[u]
      /\ base'   = [base EXCEPT ![s] = cursor]
      /\ cursor' = cursor + limite[s]
      /\ pend'   = pend \ {s}
      /\ UNCHANGED <<existe, limite, bloque, libres, siguiente, rpc, rp, rs, rt,
                     reservas, respuesta, spc, cpuVars, susp, disco, escrito>>
  BY DEF CompactaSegmento
<1>2. /\ base[s] \in Nat /\ base[s] \in Celdas
      /\ limite[s] \in Nat /\ limite[s] > 0 /\ reservas = {}
      /\ cursor \in Nat /\ cursor <= base[s] /\ base[s] + limite[s] <= Techo
      /\ \A u \in pend : u # s => base[s] + limite[s] <= base[u]
      /\ \A u \in Segs : base[u] >= 0 /\ u \notin pend => base[u] + limite[u] <= cursor
  BY <1>1, Orden
<1>3. Techo' = Techo /\ Techo \in Nat /\ Techo <= Ram + Nuevo
  BY <1>1, MemoryAssumption DEF Techo
<1>4. /\ base'[s] = cursor /\ cursor \in Celdas
      /\ \A u \in Segs : u # s => base'[u] = base[u]
      /\ \A u \in Segs : base[u] \in Int /\ limite[u] \in Nat
      /\ \A u \in Segs : base[u] >= 0 => limite[u] > 0
  <2>1. cursor \in Celdas
    BY <1>2, MemoryAssumption DEF Celdas
  <2>2. \A u \in Segs : /\ base[u] \in Int /\ limite[u] \in Nat
                        /\ base[u] >= 0 => limite[u] > 0
    BY DondeEsta DEF Nada
  <2>3. base'[s] = cursor /\ \A u \in Segs : u # s => base'[u] = base[u]
    BY <1>1 DEF IInv, TypeOK, TypeTabla
  <2> QED BY <2>1, <2>2, <2>3
<1>5. \A u \in Segs, d \in Celdas : Reclama(u, d)' => d = base'[u] /\ d \in Nat
  BY <1>1, <1>2, Celda DEF Reclama
<1>6. Disjuntos'
  <2>1. \A u \in Segs, d \in Celdas : Reclama(u, d)' => d + limite'[u] <= Techo'
    <3> SUFFICES ASSUME NEW u \in Segs, NEW d \in Celdas, Reclama(u, d)'
                 PROVE  d + limite[u] <= Techo
      BY <1>1, <1>3
    <3>1. CASE u = s
      BY <1>2, <1>3, <1>4, <1>5, <3>1
    <3>2. CASE u # s
      BY <1>4, <1>5, <3>2 DEF IInv, Disjuntos, Reclama
    <3> QED BY <3>1, <3>2
  <2>2. \A u \in Segs : u # s /\ base[u] >= 0 => Aparte(cursor, limite[s], base[u], limite[u])
    BY <1>2, <1>4 DEF Aparte
  <2>3. \A u, v \in Segs, d, e \in Celdas :
          Reclama(u, d)' /\ Reclama(v, e)' /\ (u # v \/ d # e) =>
            Aparte(d, limite[u], e, limite[v])
    <3> SUFFICES ASSUME NEW u \in Segs, NEW v \in Segs, NEW d \in Celdas,
                        NEW e \in Celdas, Reclama(u, d)', Reclama(v, e)',
                        u # v \/ d # e
                 PROVE  Aparte(d, limite[u], e, limite[v])
      OBVIOUS
    <3>1. u # v /\ d = base'[u] /\ e = base'[v] /\ d \in Nat /\ e \in Nat
      BY <1>5
    <3>2. CASE u = s
      <4>1. e = base[v] /\ d = cursor
        BY <1>4, <3>1, <3>2
      <4> QED BY <2>2, <3>1, <3>2, <4>1
    <3>3. CASE v = s
      <4>1. d = base[u] /\ e = cursor
        BY <1>4, <3>1, <3>3
      <4> QED BY <1>4, <2>2, <3>1, <3>3, <4>1 DEF Aparte
    <3>4. CASE u # s /\ v # s
      BY <1>4, <3>1, <3>4 DEF IInv, Disjuntos, Reclama
    <3> QED BY <3>2, <3>3, <3>4
  <2> QED BY <1>1, <2>1, <2>3 DEF Disjuntos, Aparte
<1>7. Libres'
  BY <1>1 DEF Libres
<1>8. Cursor'
  <2>1. cursor' <= Techo'
    BY <1>1, <1>2, <1>3
  <2>2. \A u \in pend' : base'[u] >= cursor'
    <3>1. \A u \in pend' : u \in Segs /\ u \in pend /\ u # s
      BY <1>1 DEF IInv, TypeOK, TypeHilo
    <3> QED BY <1>1, <1>2, <1>4, <3>1
  <2>3. \A u \in Segs : base'[u] >= 0 /\ u \notin pend' => base'[u] + limite'[u] <= cursor'
    BY <1>1, <1>2, <1>4
  <2> QED BY <2>1, <2>2, <2>3 DEF Cursor
<1>9. TypeTabla'
  BY <1>1, <1>4 DEF IInv, TypeOK, TypeTabla, Base
<1>10. TypeHilo'
  <2>1. cursor' \in 0 .. (Ram + Nuevo)
    BY <1>1, <1>2, <1>3, MemoryAssumption
  <2> QED BY <1>1, <2>1 DEF IInv, TypeOK, TypeHilo
<1>11. TypeDatos'
  <2>1. \A x \in Rango(cursor, limite[s]) : base[s] + (x - cursor) \in Celdas
    BY <1>2, <1>3, Celda, MemoryAssumption DEF Rango
  <2>2. ram' \in [Celdas -> Segs \union {Nulo}]
    BY <2>1 DEF CompactaSegmento, IInv, TypeOK, TypeDatos
  <2> QED BY <1>1, <2>2 DEF IInv, TypeOK, TypeDatos
<1>12. TypeCpus' /\ Llega'
  BY <1>1 DEF IInv, TypeOK, TypeCpus, cpuVars, Llega
<1>13. Hilo'
  <2>1. base[rs] = Nada /\ rs \in Segs /\ rs # s
    BY <1>1, <1>2 DEF IInv, Hilo, Compactando, Nada
  <2> QED BY <1>1, <1>4, <2>1
          DEF IInv, Hilo, Compactando, Suspendiendo, Volviendo, cpuVars
<1>14. Reservado'
  BY <1>1, <1>2 DEF Reservado
<1>15. EnCpus'
  <2>1. \A c \in Cpus : modo[c] = "pide"
    BY <1>1, NadieCorre DEF Compactando
  <2> QED BY <1>1, <2>1 DEF IInv, EnCpus, Compactando, cpuVars
<1>16. Segmentos'
  BY <1>1, <1>2, <1>4 DEF IInv, Segmentos, Suspendiendo, EnSwap, Nada
<1> QED BY <1>6, <1>7, <1>8, <1>9, <1>10, <1>11, <1>12, <1>13, <1>14, <1>15, <1>16
        DEF IInv, TypeOK

\* What is above the cursor is free.
LEMMA PasoCompactaTermina ==
  ASSUME IInv, CompactaTermina
  PROVE  IInv'
<1>1. /\ rpc = "compacta" /\ pend = {} /\ rpc' = "reasigna"
      /\ libres' = Unico(cursor, TotalRam - cursor)
      /\ UNCHANGED <<tablaVars, siguiente, rp, rs, rt, pend, reservas, cursor,
                     respuesta, spc, cpuVars, susp, datosVars>>
  BY DEF CompactaTermina
<1>2. /\ TotalRam = Techo /\ Techo' = Techo /\ Techo \in Nat /\ Techo <= Ram + Nuevo
  BY <1>1, MemoryAssumption DEF IInv, Hilo, TotalRam, Techo
<1>3. /\ cursor \in Nat /\ cursor <= Techo /\ reservas = {}
      /\ \A u \in Segs : base[u] >= 0 => base[u] + limite[u] <= cursor
  BY <1>1, MemoryAssumption DEF IInv, Cursor, Reservado, Volviendo, TypeOK, TypeHilo
<1> DEFINE n == [base |-> cursor, tam |-> Techo - cursor]
<1>4. n.base = cursor /\ n.tam = Techo - cursor /\ cursor + (Techo - cursor) = Techo
  BY <1>2, <1>3
<1>5. libres' \subseteq {n} /\ (libres' # {} => n \in Bloque)
  <2>1. libres' = IF Techo - cursor > 0 THEN {n} ELSE {}
    BY <1>1, <1>2 DEF Unico
  <2>2. Techo - cursor > 0 => n \in Bloque
    BY <1>2, <1>3, <1>4, EsBloque, MemoryAssumption
  <2> QED BY <2>1, <2>2
<1> HIDE DEF n
<1>6. \A u \in Segs, d \in Celdas : /\ Reclama(u, d)' <=> Reclama(u, d)
                                    /\ Reclama(u, d) => d + limite[u] <= cursor
  BY <1>1, <1>3, Celda DEF Reclama, tablaVars
<1>7. Disjuntos'
  BY <1>1, <1>2, <1>6 DEF IInv, Disjuntos, Aparte, tablaVars
<1>8. Libres'
  <2>1. limite' = limite
    BY <1>1 DEF tablaVars
  <2>2. \A a \in libres' : a = n
    BY <1>5
  <2> QED BY <1>2, <1>4, <1>6, <2>1, <2>2 DEF Libres, Aparte
<1>9. TypeTabla' /\ TypeHilo' /\ TypeCpus' /\ TypeDatos' /\ Llega'
  <2>1. libres' \subseteq Bloque
    BY <1>5
  <2> QED BY <1>1, <2>1 DEF IInv, TypeOK, TypeTabla, TypeHilo, TypeCpus, TypeDatos,
                            tablaVars, cpuVars, datosVars, Llega
<1>10. Hilo' /\ Reservado' /\ Cursor'
  BY <1>1, <1>3 DEF IInv, Hilo, Reservado, Cursor, Compactando, Suspendiendo,
                    Volviendo, cpuVars, tablaVars
<1>11. EnCpus' /\ Segmentos'
  BY <1>1 DEF IInv, EnCpus, Segmentos, Compactando, Suspendiendo, cpuVars, tablaVars
<1> QED BY <1>7, <1>8, <1>9, <1>10, <1>11 DEF IInv, TypeOK

-----------------------------------------------------------------------------
(* The invariant holds.                                                    *)

LEMMA Inicio ==
  ASSUME Init
  PROVE  IInv
<1> USE DEF Init
<1>1. [base |-> 0, tam |-> Ram] \in Bloque
  BY EsBloque, MemoryAssumption
<1>2. TypeTabla
  BY <1>1, MemoryAssumption DEF TypeTabla, Base
<1>3. TypeHilo /\ TypeDatos
  BY MemoryAssumption DEF TypeHilo, TypeDatos
<1>4. TypeCpus
  <2>1. [i \in Ids |-> Nada] \in [Ids -> Base]
    BY DEF Base
  <2> QED BY <2>1 DEF TypeCpus
<1>5. Hilo /\ Reservado /\ EnCpus /\ Segmentos /\ Cursor
  BY DEF Hilo, Reservado, EnCpus, Segmentos, Cursor, Compactando, Suspendiendo,
         Volviendo, EnSwap, Nada
<1>6. \A s \in Segs, b \in Celdas : ~Reclama(s, b)
  BY Celda DEF Reclama, Nada
<1>7. Disjuntos
  BY <1>6 DEF Disjuntos
<1>8. Libres
  BY <1>6, MemoryAssumption DEF Libres, Techo
<1>9. Llega
  BY MemoryAssumption DEF Llega
<1> QED BY <1>2, <1>3, <1>4, <1>5, <1>7, <1>8, <1>9 DEF IInv, TypeOK

\* Every step of the system keeps it.
LEMMA Paso ==
  ASSUME IInv, Sosegado, Next
  PROVE  IInv'
<1>1. CASE Atiende
  BY <1>1, PasoIniciarCompactacion, PasoCompactaEmpieza, PasoCompactaTermina,
     PasoReasigna, PasoCompactaSegmento, PasoFinalizaSegmento, PasoSuspenderReserva,
     PasoSuspenderSinSwap, PasoReservaSegmento, PasoReservaNoAlcanza,
     PasoFinalizaTermina, PasoVolcar, PasoVolcarFalla, PasoVenceEspera,
     PasoSuspenderLibera, PasoSuspenderTermina, PasoDeshaceReserva,
     PasoDeshaceTermina, PasoReservaTermina, PasoTransferir, PasoTransferirFalla
     DEF Atiende
<1>2. CASE Recibe
  BY <1>2, PasoCrearProceso, PasoFinalizarProceso, PasoSuspender, PasoDesSuspender,
     PasoEliminarSegmento, PasoSolicitarSegmento, PasoEscrituraMemoria DEF Recibe
<1>3. CASE Cpu
  BY <1>3, PasoDespachar, PasoCpuEscribe, PasoCpuDevuelve DEF Cpu
<1>4. CASE Stick
  BY <1>4, PasoRegistraStick, PasoAgregaBloque, PasoConectaStick DEF Stick
<1> QED BY <1>1, <1>2, <1>3, <1>4 DEF Next

LEMMA Quieto ==
  ASSUME IInv, UNCHANGED vars
  PROVE  IInv'
<1>1. UNCHANGED <<tablaVars, libres, siguiente, rxVars, spc, cpuVars, susp, datosVars>>
  BY DEF vars
<1>2. TypeTabla' /\ TypeHilo' /\ Disjuntos' /\ Libres' /\ Llega' /\ Reservado'
      /\ Cursor' /\ Segmentos'
  BY <1>1, SoloCpus
<1>3. TypeCpus' /\ TypeDatos' /\ EnCpus' /\ Hilo'
  BY <1>1 DEF IInv, TypeOK, TypeCpus, TypeDatos, EnCpus, Hilo, Compactando,
              Suspendiendo, Volviendo, cpuVars, tablaVars, rxVars, datosVars
<1> QED BY <1>2, <1>3 DEF IInv, TypeOK

\* With one CPU and registrations between requests, kernel_memory keeps IInv.
THEOREM MemoriaOrdenada == Sosegado /\ Spec => []IInv
<1>1. Init => IInv
  BY Inicio
<1>2. Sosegado /\ IInv /\ [Next]_vars => IInv'
  BY Paso, Quieto
<1>3. Sosegado => []Sosegado
  BY DEF Sosegado
<1> QED BY <1>1, <1>2, <1>3, PTL DEF Spec

\* The tables, the free list, the sticks and the data have their types: no base
\* or block leaves RAM, no block of swap is beyond the last one.
THEOREM TiposMemoria == Sosegado /\ Spec => []TypeOK
<1>1. IInv => TypeOK
  BY DEF IInv
<1> QED BY <1>1, MemoriaOrdenada, PTL

LEMMA NingunSolape ==
  ASSUME IInv
  PROVE  SinSolape
<1>1. \A s \in Segs : \A x \in Ocupa(s) :
        /\ base[s] \in Celdas /\ Reclama(s, base[s]) /\ x \in Int
        /\ base[s] \in Int /\ limite[s] \in Nat
        /\ base[s] <= x /\ x < base[s] + limite[s]
  <2> SUFFICES ASSUME NEW s \in Segs, NEW x \in Ocupa(s)
               PROVE  /\ base[s] \in Celdas /\ Reclama(s, base[s]) /\ x \in Int
                      /\ base[s] \in Int /\ limite[s] \in Nat
                      /\ base[s] <= x /\ x < base[s] + limite[s]
    OBVIOUS
  <2>1. base[s] >= 0 /\ x \in Rango(base[s], limite[s])
    BY DEF Ocupa
  <2>2. base[s] \in Celdas /\ base[s] \in Int /\ limite[s] \in Nat
    BY <2>1, DondeEsta
  <2> QED BY <2>1, <2>2 DEF Rango, Reclama
<1>2. ASSUME NEW s \in Segs, NEW u \in Segs, s # u
      PROVE  Ocupa(s) \cap Ocupa(u) = {}
  <2> SUFFICES ASSUME NEW x \in Ocupa(s), x \in Ocupa(u) PROVE FALSE
    OBVIOUS
  <2>1. Aparte(base[s], limite[s], base[u], limite[u])
    BY <1>1, <1>2 DEF IInv, Disjuntos
  <2> QED BY <1>1, <2>1 DEF Aparte
<1>3. ASSUME rpc # "compacta", NEW s \in Segs
      PROVE  Ocupa(s) \cap CeldasLibres = {}
  <2> SUFFICES ASSUME NEW x \in Ocupa(s), x \in CeldasLibres PROVE FALSE
    OBVIOUS
  <2>1. PICK a \in libres : x \in Rango(a.base, a.tam)
    BY DEF CeldasLibres
  <2>2. a.base \in Nat /\ a.tam \in Nat
    BY TiposBloque DEF IInv, TypeOK, TypeTabla
  <2>3. Aparte(base[s], limite[s], a.base, a.tam)
    BY <1>1, <1>3 DEF IInv, Libres
  <2> QED BY <1>1, <2>1, <2>2, <2>3 DEF Aparte, Rango
<1> QED BY <1>2, <1>3 DEF SinSolape, IInv, Libres

\* No cell is given out twice, whatever fails in swap and wherever the process is.
THEOREM NadaSeSolapa == Sosegado /\ Spec => []SinSolape
  BY NingunSolape, MemoriaOrdenada, PTL

-----------------------------------------------------------------------------
(* The second invariant.  First, that no cell is lost.                     *)

\* A step that moves no segment and no block.
LEMMA CubreIgual ==
  ASSUME JInv, UNCHANGED <<base, limite, libres>>, Techo' = Techo,
         rpc # "compacta", rpc' # "compacta"
  PROVE  Cubre'
  BY DEF JInv, Cubre, EnBloque, EnSegmento

\* bloques_asignar loses no cell: the segment s, which had none, has them.
LEMMA CubreColoca ==
  ASSUME IInv, JInv, rpc # "compacta", rpc' # "compacta", spc' = spc,
         NEW b \in libres, NEW s \in Segs, NEW t \in Tamanios, t <= b.tam,
         libres' = Asignar(b, t), base'[s] = b.base, limite'[s] = t, base[s] < 0,
         \A u \in Segs : u # s => base'[u] = base[u] /\ limite'[u] = limite[u]
  PROVE  Cubre'
<1>1. Techo' = Techo /\ Techo \in Nat /\ Techo <= Ram + Nuevo
  BY MemoryAssumption DEF Techo
<1>2. t \in Nat /\ t > 0
  BY MemoryAssumption
<1>3. /\ libres \subseteq Bloque /\ Separados(libres)
      /\ \A a \in libres : a.base + a.tam <= Techo
      /\ \A a \in libres : a.base \in Nat /\ a.tam \in Nat /\ a.tam > 0
  BY TiposBloque DEF IInv, TypeOK, TypeTabla, Libres, Separados
<1>4. \A a \in libres : a.base + a.tam <= Ram + Nuevo
  BY <1>1, <1>3, MemoryAssumption
<1>5. /\ \A a \in libres : a # b => a \in Asignar(b, t)
      /\ b.tam # t =>
              \E a \in Asignar(b, t) :
                a.base = b.base + t /\ a.base + a.tam = b.base + b.tam
  BY <1>2, <1>3, <1>4, Asignado
<1>6. ASSUME NEW x \in 0 .. (Techo - 1)
      PROVE  \/ \E a \in libres' : EnBloque(x, a)
             \/ \E u \in Segs : EnSegmento(x, u)'
  <2>1. x \in Nat
    BY <1>1
  <2>2. \/ \E a \in libres : EnBloque(x, a)
        \/ \E u \in Segs : EnSegmento(x, u)
    BY DEF JInv, Cubre
  <2>3. CASE \E a \in libres : EnBloque(x, a) /\ a # b
    BY <1>5, <2>3
  <2>4. CASE EnBloque(x, b) /\ x < b.base + t
    <3>1. EnSegmento(x, s)'
      BY <1>2, <1>3, <2>4 DEF EnSegmento, EnBloque
    <3> QED BY <3>1
  <2>5. CASE EnBloque(x, b) /\ ~(x < b.base + t)
    <3>1. b.tam # t
      BY <1>2, <1>3, <2>1, <2>5 DEF EnBloque
    <3>2. PICK a \in Asignar(b, t) : a.base = b.base + t /\ a.base + a.tam = b.base + b.tam
      BY <1>5, <3>1
    <3>3. EnBloque(x, a)
      BY <1>2, <1>3, <2>1, <2>5, <3>2 DEF EnBloque
    <3> QED BY <3>2, <3>3
  <2>6. CASE \E u \in Segs : EnSegmento(x, u)
    <3>1. PICK u \in Segs : EnSegmento(x, u)
      BY <2>6
    <3>2. u # s
      BY <3>1, DondeEsta DEF EnSegmento
    <3>3. EnSegmento(x, u)'
      BY <3>1, <3>2 DEF EnSegmento
    <3> QED BY <3>3
  <2> QED BY <2>2, <2>3, <2>4, <2>5, <2>6
<1> QED BY <1>1, <1>6 DEF Cubre, EnBloque

\* bloques_liberar loses no cell of the segment s, nor of its neighbours.
LEMMA CubreSuelta ==
  ASSUME IInv, JInv, rpc # "compacta", rpc' # "compacta", spc' = spc,
         NEW s \in Segs, base[s] >= 0,
         libres' = Liberar(base[s], limite[s]),
         \A u \in Segs : u # s => base'[u] = base[u] /\ limite'[u] = limite[u]
  PROVE  Cubre'
<1> DEFINE b == base[s]
           t == limite[s]
<1>1. Techo' = Techo /\ Techo \in Nat /\ Techo <= Ram + Nuevo
  BY MemoryAssumption DEF Techo
<1>2. Reclama(s, b) /\ b \in Celdas
  BY DondeEsta DEF Reclama
<1>3. t \in Nat /\ t > 0 /\ b \in Nat /\ b + t <= Techo
  BY <1>2, TamanoReclamado
<1>4. /\ libres \subseteq Bloque /\ Separados(libres)
      /\ \A a \in libres : a.base + a.tam <= Techo
      /\ \A a \in libres : a.base \in Nat /\ a.tam \in Nat /\ a.tam > 0
      /\ \A a \in libres : Aparte(b, t, a.base, a.tam)
  BY <1>2, TiposBloque DEF IInv, TypeOK, TypeTabla, Libres, Separados
<1>5. \A a \in libres : a.base + a.tam <= Ram + Nuevo
  BY <1>1, <1>4, MemoryAssumption
<1>6. b + t <= Ram + Nuevo
  BY <1>1, <1>3, MemoryAssumption
<1>7. libres' = Liberar(b, t)
  OBVIOUS
<1>8. \A x : EnSegmento(x, s) => b <= x /\ x < b + t
  BY DEF EnSegmento
<1> HIDE DEF b, t
<1>9. PICK n \in Bloque :
           /\ n.base <= b /\ b + t <= n.base + n.tam
           /\ n \in Liberar(b, t)
           /\ \A a \in libres :
                \/ a \in Liberar(b, t)
                \/ n.base <= a.base /\ a.base + a.tam <= n.base + n.tam
  BY <1>3, <1>4, <1>5, <1>6, Liberado
<1>10. n.base \in Nat /\ n.tam \in Nat
  BY TiposBloque
<1>11. ASSUME NEW x \in 0 .. (Techo - 1)
       PROVE  \/ \E a \in libres' : EnBloque(x, a)
              \/ \E u \in Segs : EnSegmento(x, u)'
  <2>1. x \in Nat
    BY <1>1
  <2>2. \/ \E a \in libres : EnBloque(x, a)
        \/ \E u \in Segs : EnSegmento(x, u)
    BY DEF JInv, Cubre
  <2>3. CASE \E a \in libres : EnBloque(x, a)
    <3>1. PICK a \in libres : EnBloque(x, a)
      BY <2>3
    <3>2. CASE a \in Liberar(b, t)
      BY <1>7, <3>1, <3>2
    <3>3. CASE n.base <= a.base /\ a.base + a.tam <= n.base + n.tam
      <4>1. EnBloque(x, n)
        BY <1>4, <1>10, <2>1, <3>1, <3>3 DEF EnBloque
      <4> QED BY <1>7, <1>9, <4>1
    <3> QED BY <1>9, <3>2, <3>3
  <2>4. CASE EnSegmento(x, s)
    <3>1. EnBloque(x, n)
      BY <1>3, <1>8, <1>9, <1>10, <2>1, <2>4 DEF EnBloque
    <3> QED BY <1>7, <1>9, <3>1
  <2>5. CASE \E u \in Segs : u # s /\ EnSegmento(x, u)
    <3>1. PICK u \in Segs : u # s /\ EnSegmento(x, u)
      BY <2>5
    <3>2. EnSegmento(x, u)'
      BY <3>1 DEF EnSegmento
    <3> QED BY <3>2
  <2> QED BY <2>2, <2>3, <2>4, <2>5
<1> QED BY <1>1, <1>11 DEF Cubre, EnBloque

-----------------------------------------------------------------------------
(* The steps that move no byte.                                            *)

\* No process is coming back: what is suspended has no RAM.
LEMMA NadieVuelve ==
  ASSUME IInv, JInv, ~Volviendo
  PROVE  /\ reservas = {} /\ \A s \in Segs : ~Vuelve(s)
         /\ \A s \in Segs : s[1] \in susp => ~(base[s] >= 0)
  BY DEF IInv, JInv, Reservado, Suspendidos, Vuelve

\* Tables, list and data stay as they are.
LEMMA JControl ==
  ASSUME IInv, JInv, UNCHANGED <<base, limite, bloque, libres, siguiente, datosVars>>,
         Techo' = Techo, rpc # "compacta", rpc' # "compacta",
         \A s \in Segs : Vuelve(s)' <=> Vuelve(s),
         rpc' \in {"vuelca", "vuelto"} => rpc' = rpc /\ rs' = rs
  PROVE  Cubre' /\ Datos'
<1>1. Cubre'
  BY CubreIgual
<1>2. escrito \subseteq Segs /\ escrito' = escrito /\ ram' = ram /\ disco' = disco
  BY DEF IInv, TypeOK, TypeDatos, datosVars
<1>3. \A s : EnDisco(s)' <=> EnDisco(s)
  BY <1>2 DEF EnDisco
<1>4. \A n : BloquesBajo(n) => BloquesBajo(n)'
  BY DEF BloquesBajo
<1>5. \A s, x : EnSegmento(x, s)' <=> EnSegmento(x, s)
  BY DEF EnSegmento
<1>6. /\ \A s \in escrito' : base'[s] # Nada
      /\ \A s \in escrito' : base'[s] >= 0 /\ ~Vuelve(s)' =>
           \A x \in Celdas : EnSegmento(x, s)' => ram'[x] = s
      /\ \A s \in escrito' : base'[s] = EnSwap \/ Vuelve(s)' => EnDisco(s)'
  BY <1>2, <1>3, <1>5 DEF JInv, Datos
<1>7. /\ BloquesBajo(siguiente)'
      /\ rpc' \in {"vuelca", "vuelto"} =>
           bloque'[rs'] + BloquesDe(limite'[rs']) = siguiente'
      /\ rpc' = "vuelca" => BloquesBajo(bloque[rs])'
      /\ rpc' = "vuelto" /\ rs' \in escrito' => EnDisco(rs)'
  <2>1. BloquesBajo(siguiente)'
    BY DEF JInv, Datos, BloquesBajo
  <2>2. rpc' \in {"vuelca", "vuelto"} =>
           bloque'[rs'] + BloquesDe(limite'[rs']) = siguiente'
    BY DEF JInv, Datos
  <2>3. rpc' = "vuelca" => BloquesBajo(bloque[rs])'
    BY DEF JInv, Datos, BloquesBajo
  <2>4. rpc' = "vuelto" /\ rs' \in escrito' => EnDisco(rs)'
    BY <1>2 DEF JInv, Datos, EnDisco
  <2> QED BY <2>1, <2>2, <2>3, <2>4
<1>8. Datos'
  BY <1>6, <1>7 DEF Datos
<1> QED BY <1>1, <1>8

\* The thread ends a request in which nobody came back, or starts another one.
LEMMA JReposo ==
  ASSUME IInv, JInv, UNCHANGED <<base, limite, bloque, libres, siguiente, datosVars>>,
         Techo' = Techo, rpc # "compacta", ~Volviendo, reservas' = {},
         rpc' \in {"libre", "finaliza", "suspende", "reserva", "anuncia"},
         susp' \subseteq susp,
         rpc' = "suspende" => \A s \in Segs : s[1] = rp' /\ base[s] >= 0 => s \in pend'
  PROVE  JInv'
<1>1. reservas = {} /\ \A s \in Segs : s[1] \in susp => ~(base[s] >= 0)
  BY NadieVuelve
<1>2. \A s \in Segs : Vuelve(s)' <=> Vuelve(s)
  BY <1>1 DEF Vuelve
<1>3. Cubre' /\ Datos'
  BY <1>2, JControl
<1>4. Suspendidos'
  BY <1>1 DEF Suspendidos, Suspendiendo
<1> QED BY <1>3, <1>4 DEF JInv

LEMMA JCrearProceso ==
  ASSUME IInv, JInv, NEW p \in Procs, CrearProceso(p)
  PROVE  JInv'
<1>1. /\ rpc = "libre" /\ rpc' = "libre" /\ reservas' = {} /\ susp' = susp
      /\ UNCHANGED <<base, limite, bloque, libres, siguiente, datosVars>>
      /\ spc' = spc
  BY DEF CrearProceso, Contesta, Termina, Pedido
<1> QED BY <1>1, JReposo DEF Volviendo, Techo

LEMMA JSuspender ==
  ASSUME IInv, JInv, NEW p \in Procs, Suspender(p)
  PROVE  JInv'
<1>1. /\ rpc = "libre" /\ rpc' = "suspende" /\ reservas' = reservas /\ susp' = susp
      /\ rp' = p /\ pend' = SegsDe(p)
      /\ UNCHANGED <<base, limite, bloque, libres, siguiente, datosVars>>
      /\ spc' = spc
  BY DEF Suspender, Sigue, Pedido, tablaVars
<1>2. \A s \in Segs : s[1] = p /\ base[s] >= 0 => s \in SegsDe(p)
  BY DEF SegsDe, Segs, Nada
<1>3. reservas = {}
  BY <1>1, NadieVuelve DEF Volviendo
<1> QED BY <1>1, <1>2, <1>3, JReposo DEF Volviendo, Techo

LEMMA JDesSuspender ==
  ASSUME IInv, JInv, NEW p \in Procs, DesSuspender(p)
  PROVE  JInv'
<1>1. /\ rpc = "libre" /\ rpc' = "reserva" /\ reservas' = reservas /\ susp' = susp
      /\ UNCHANGED <<base, limite, bloque, libres, siguiente, datosVars>>
      /\ spc' = spc
  BY DEF DesSuspender, Sigue, Pedido, tablaVars
<1>2. reservas = {}
  BY <1>1, NadieVuelve DEF Volviendo
<1> QED BY <1>1, <1>2, JReposo DEF Volviendo, Techo

LEMMA JFinalizarProceso ==
  ASSUME IInv, JInv, NEW p \in Procs, FinalizarProceso(p)
  PROVE  JInv'
<1>1. /\ rpc = "libre" /\ rpc' = "finaliza" /\ reservas' = reservas /\ susp' = susp
      /\ UNCHANGED <<base, limite, bloque, libres, siguiente, datosVars>>
      /\ spc' = spc
  BY DEF FinalizarProceso, Sigue, Pedido, tablaVars
<1>2. reservas = {}
  BY <1>1, NadieVuelve DEF Volviendo
<1> QED BY <1>1, <1>2, JReposo DEF Volviendo, Techo

LEMMA JFinalizaTermina ==
  ASSUME IInv, JInv, FinalizaTermina
  PROVE  JInv'
<1>1. /\ rpc = "finaliza" /\ rpc' = "libre" /\ reservas' = {} /\ susp' = susp \ {rp}
      /\ UNCHANGED <<base, limite, bloque, libres, siguiente, datosVars>>
      /\ spc' = spc
  BY DEF FinalizaTermina, Contesta, Termina
<1> QED BY <1>1, JReposo DEF Volviendo, Techo

\* The refusals and the announcement of a compaction.
LEMMA JNegado ==
  ASSUME IInv, JInv, NEW s, NEW t, NegarSegmento(s, t), rpc \in {"libre", "reasigna"},
         UNCHANGED <<siguiente, spc, susp, datosVars>>
  PROVE  JInv'
<1>1. /\ rpc' = "libre" /\ reservas' = {} /\ susp' = susp
      /\ UNCHANGED <<base, limite, bloque, libres, siguiente, datosVars>>
  BY DEF NegarSegmento, Termina, tablaVars
<1> QED BY <1>1, JReposo DEF Volviendo, Techo

\* The thread moves on within a request.
LEMMA JSigue ==
  ASSUME IInv, JInv, UNCHANGED <<tablaVars, libres, siguiente, spc, datosVars>>,
         UNCHANGED <<rp, reservas, susp>>, rpc # "compacta",
         rpc' \in {"pausado", "deshace", "transfiere"},
         Volviendo <=> Volviendo'
  PROVE  JInv'
<1>1. Techo' = Techo /\ \A s \in Segs : Vuelve(s)' <=> Vuelve(s)
  BY DEF Techo, Vuelve
<1>2. Cubre' /\ Datos'
  BY <1>1, JControl DEF tablaVars
<1>3. Suspendidos'
  BY <1>1 DEF JInv, Suspendidos, Suspendiendo, tablaVars
<1> QED BY <1>2, <1>3 DEF JInv

LEMMA JIniciarCompactacion ==
  ASSUME IInv, JInv, IniciarCompactacion
  PROVE  JInv'
  BY JSigue DEF IniciarCompactacion, Volviendo

LEMMA JReservaNoAlcanza ==
  ASSUME IInv, JInv, NEW s, ReservaNoAlcanza(s)
  PROVE  JInv'
  BY JSigue DEF ReservaNoAlcanza, Volviendo

LEMMA JReservaTermina ==
  ASSUME IInv, JInv, ReservaTermina
  PROVE  JInv'
  BY JSigue DEF ReservaTermina, Volviendo

LEMMA JDeshaceTermina ==
  ASSUME IInv, JInv, DeshaceTermina
  PROVE  JInv'
<1>1. /\ rpc = "deshace" /\ reservas = {} /\ rpc' = "libre" /\ reservas' = {}
      /\ UNCHANGED <<base, limite, bloque, libres, siguiente, datosVars>>
      /\ spc' = spc /\ susp' = susp
  BY DEF DeshaceTermina, Contesta, Termina, tablaVars
<1>2. Techo' = Techo /\ \A s \in Segs : ~Vuelve(s) /\ ~Vuelve(s)'
  BY <1>1 DEF Techo, Vuelve
<1>3. Cubre' /\ Datos'
  BY <1>1, <1>2, JControl
<1>4. Suspendidos'
  BY <1>1, <1>2 DEF JInv, Suspendidos, Suspendiendo
<1> QED BY <1>3, <1>4 DEF JInv

\* All that SUSPENDER_PROCESO had to move is in swap.
LEMMA JSuspenderTermina ==
  ASSUME IInv, JInv, SuspenderTermina
  PROVE  JInv'
<1>1. /\ rpc = "suspende" /\ pend = {} /\ rpc' = "libre" /\ reservas' = {}
      /\ UNCHANGED <<base, limite, bloque, libres, siguiente, datosVars>>
      /\ spc' = spc /\ susp' = susp \union {rp}
  BY DEF SuspenderTermina, Contesta, Termina, tablaVars
<1>2. /\ \A s \in Segs : ~Vuelve(s)
      /\ \A s \in Segs : s[1] \in susp => ~(base[s] >= 0)
  BY <1>1, NadieVuelve DEF Volviendo
<1>3. Techo' = Techo /\ \A s \in Segs : ~Vuelve(s)'
  BY <1>1 DEF Techo, Vuelve
<1>4. Cubre' /\ Datos'
  BY <1>1, <1>2, <1>3, JControl
<1>5. \A s \in Segs : s[1] = rp => ~(base[s] >= 0)
  BY <1>1 DEF JInv, Suspendidos, Suspendiendo
<1>6. Suspendidos'
  BY <1>1, <1>2, <1>5 DEF Suspendidos, Suspendiendo
<1> QED BY <1>4, <1>6 DEF JInv

\* A CPU takes a process or gives it back, and a stick is announced or connected.
LEMMA JAparte ==
  ASSUME IInv, JInv, UNCHANGED <<tablaVars, libres, siguiente, rxVars, susp, datosVars>>,
         Techo' = Techo, rpc # "compacta"
  PROVE  JInv'
<1>1. \A s \in Segs : Vuelve(s)' <=> Vuelve(s)
  BY DEF Vuelve, rxVars
<1>2. Cubre' /\ Datos'
  BY <1>1, JControl DEF tablaVars, rxVars
<1>3. Suspendidos'
  BY <1>1 DEF JInv, Suspendidos, Suspendiendo, Volviendo, tablaVars, rxVars
<1> QED BY <1>2, <1>3 DEF JInv

LEMMA JDespachar ==
  ASSUME IInv, JInv, NEW c, NEW p, Despachar(c, p)
  PROVE  JInv'
<1>1. /\ UNCHANGED <<tablaVars, libres, siguiente, rxVars, susp, datosVars>>
      /\ Techo' = Techo /\ rpc # "compacta"
  BY DEF Despachar, Techo, Tomado
<1> QED BY <1>1, JAparte

LEMMA JCpuDevuelve ==
  ASSUME IInv, JInv, NEW c \in Cpus, NEW m \in {"libre", "pide", "cae"},
         CpuDevuelve(c, m)
  PROVE  JInv'
<1>1. base' = base
  BY PasoCpuDevuelve
<1>2. /\ UNCHANGED <<tablaVars, libres, siguiente, rxVars, susp, datosVars>>
      /\ Techo' = Techo /\ rpc # "compacta"
  BY <1>1 DEF CpuDevuelve, Techo, Tomado, tablaVars
<1> QED BY <1>2, JAparte

LEMMA JRegistraStick ==
  ASSUME IInv, JInv, Sosegado, RegistraStick
  PROVE  JInv'
<1>1. /\ UNCHANGED <<tablaVars, libres, siguiente, rxVars, susp, datosVars>>
      /\ Techo' = Techo /\ rpc # "compacta"
  BY DEF RegistraStick, Techo, Sosegado
<1> QED BY <1>1, JAparte

LEMMA JConectaStick ==
  ASSUME IInv, JInv, ConectaStick
  PROVE  JInv'
<1>1. /\ UNCHANGED <<tablaVars, libres, siguiente, rxVars, susp, datosVars>>
      /\ Techo' = Techo
  BY DEF ConectaStick, Techo
<1>2. rpc # "compacta"
  BY DEF ConectaStick, IInv, Hilo
<1> QED BY <1>1, <1>2, JAparte

\* The data when only base, limite and bloque of s and the list change, and s has
\* nothing written.
LEMMA DatosSalvo ==
  ASSUME IInv, JInv, NEW s \in Segs,
         \A u \in Segs : u # s => /\ base'[u] = base[u] /\ limite'[u] = limite[u]
                                  /\ bloque'[u] = bloque[u]
                                  /\ Vuelve(u)' <=> Vuelve(u),
         s \notin escrito', escrito' \subseteq escrito,
         \A u \in Segs, x \in Celdas : u # s /\ ram[x] = u => ram'[x] = u,
         \A u \in Segs, b \in NumBloques : u # s /\ disco[b] = u => disco'[b] = u,
         siguiente' = siguiente, base'[s] # EnSwap, ~Vuelve(s)',
         rpc' \notin {"vuelca", "vuelto"}
  PROVE  Datos'
<1>1. escrito \subseteq Segs /\ siguiente \in 0 .. Bloques
  BY DEF IInv, TypeOK, TypeDatos, TypeTabla
<1>2. \A u \in escrito' : base'[u] # Nada
  BY <1>1 DEF JInv, Datos
<1>3. \A u \in escrito' : base'[u] >= 0 /\ ~Vuelve(u)' =>
        \A x \in Celdas : EnSegmento(x, u)' => ram'[x] = u
  BY <1>1 DEF JInv, Datos, EnSegmento
<1>4. BloquesBajo(siguiente)'
  BY DEF JInv, Datos, BloquesBajo, BloquesDe
<1>5. \A u \in escrito' : base'[u] = EnSwap \/ Vuelve(u)' => EnDisco(u)'
  <2> SUFFICES ASSUME NEW u \in escrito', base'[u] = EnSwap \/ Vuelve(u)'
               PROVE  EnDisco(u)'
    OBVIOUS
  <2>1. u \in Segs /\ u # s /\ u \in escrito /\ (base[u] = EnSwap \/ Vuelve(u))
    BY <1>1
  <2>2. bloque[u] + BloquesDe(limite[u]) <= siguiente /\ EnDisco(u)
    BY <2>1 DEF JInv, Datos, BloquesBajo
  <2>3. bloque[u] \in Nat /\ BloquesDe(limite[u]) \in Nat
    BY <2>1, DondeEsta, MemoryAssumption DEF BloquesDe, IInv, TypeOK, TypeTabla
  <2>4. Rango(bloque[u], BloquesDe(limite[u])) \subseteq NumBloques
    BY <1>1, <2>2, <2>3, MemoryAssumption DEF Rango, NumBloques
  <2> QED BY <2>1, <2>2, <2>4 DEF EnDisco, BloquesDe
<1> QED BY <1>2, <1>3, <1>4, <1>5 DEF Datos

\* bloques_agregar covers the new cells.
LEMMA JAgregaBloque ==
  ASSUME IInv, JInv, AgregaBloque
  PROVE  JInv'
<1>1. /\ spc = "agrega" /\ spc' = "conecta" /\ libres' = Liberar(Ram, Nuevo)
      /\ UNCHANGED <<tablaVars, siguiente, rxVars, cpuVars, susp, datosVars>>
  BY DEF AgregaBloque
<1>2. rpc = "libre" /\ Nuevo > 0
  BY <1>1 DEF IInv, Hilo, Llega
<1>3. Techo = Ram /\ Techo' = Ram + Nuevo
  BY <1>1 DEF Techo
<1>4. /\ libres \subseteq Bloque /\ Separados(libres)
      /\ \A a \in libres : a.base + a.tam <= Ram
      /\ \A a \in libres : a.base \in Nat /\ a.tam \in Nat /\ a.tam > 0
  BY <1>2, <1>3, TiposBloque DEF IInv, TypeOK, TypeTabla, Libres, Separados
<1>5. /\ \A a \in libres : a.base + a.tam <= Ram + Nuevo
      /\ \A a \in libres : Aparte(Ram, Nuevo, a.base, a.tam)
  BY <1>4, MemoryAssumption DEF Aparte
<1>6. PICK n \in Bloque :
           /\ n.base <= Ram /\ Ram + Nuevo <= n.base + n.tam
           /\ n \in Liberar(Ram, Nuevo)
           /\ \A a \in libres :
                \/ a \in Liberar(Ram, Nuevo)
                \/ n.base <= a.base /\ a.base + a.tam <= n.base + n.tam
  BY <1>2, <1>4, <1>5, Liberado, MemoryAssumption
<1>7. n.base \in Nat /\ n.tam \in Nat
  BY TiposBloque
<1>8. ASSUME NEW x \in 0 .. (Ram + Nuevo - 1)
      PROVE  \/ \E a \in libres' : EnBloque(x, a)
             \/ \E u \in Segs : EnSegmento(x, u)'
  <2>1. x \in Nat
    BY MemoryAssumption
  <2>2. CASE ~(x < Ram)
    <3>1. EnBloque(x, n)
      BY <1>6, <1>7, <2>1, <2>2, MemoryAssumption DEF EnBloque
    <3> QED BY <1>1, <1>6, <3>1
  <2>3. CASE x < Ram
    <3>1. \/ \E a \in libres : EnBloque(x, a)
          \/ \E u \in Segs : EnSegmento(x, u)
      BY <1>2, <1>3, <2>1, <2>3, MemoryAssumption DEF JInv, Cubre
    <3>2. CASE \E a \in libres : EnBloque(x, a)
      <4>1. PICK a \in libres : EnBloque(x, a)
        BY <3>2
      <4>2. CASE a \in Liberar(Ram, Nuevo)
        BY <1>1, <4>1, <4>2
      <4>3. CASE n.base <= a.base /\ a.base + a.tam <= n.base + n.tam
        <5>1. EnBloque(x, n)
          BY <1>4, <1>7, <2>1, <4>1, <4>3 DEF EnBloque
        <5> QED BY <1>1, <1>6, <5>1
      <4> QED BY <1>6, <4>2, <4>3
    <3>3. CASE \E u \in Segs : EnSegmento(x, u)
      BY <1>1, <3>3 DEF EnSegmento, tablaVars
    <3> QED BY <3>1, <3>2, <3>3
  <2> QED BY <2>2, <2>3
<1>9. Cubre'
  <2>1. rpc' = "libre"
    BY <1>1, <1>2 DEF rxVars
  <2>2. \A x \in 0 .. (Techo' - 1) : \/ \E a \in libres' : EnBloque(x, a)
                                    \/ \E u \in Segs : EnSegmento(x, u)'
    BY <1>3, <1>8, MemoryAssumption
  <2> QED BY <2>1, <2>2 DEF Cubre, EnBloque
<1>10. Suspendidos'
  BY <1>1, <1>2 DEF JInv, Suspendidos, Suspendiendo, Volviendo, Vuelve, tablaVars, rxVars
<1>11. Datos'
  <2>1. UNCHANGED <<base, limite, bloque, siguiente, ram, disco, escrito, rpc, rs, reservas>>
    BY <1>1 DEF tablaVars, datosVars, rxVars
  <2> QED BY <1>2, <2>1 DEF JInv, Datos, EnDisco, EnSegmento, BloquesBajo, Vuelve, BloquesDe
<1> QED BY <1>9, <1>10, <1>11 DEF JInv

-----------------------------------------------------------------------------
(* The steps that create and remove segments.                              *)

LEMMA JCreado ==
  ASSUME IInv, JInv, rpc \in {"libre", "reasigna"},
         NEW s \in Segs, NEW t \in Tamanios, NEW b \in libres,
         base[s] = Nada, Elegible(b, t), CrearSegmento(s, t, b),
         UNCHANGED <<siguiente, spc, susp, datosVars>>
  PROVE  JInv'
<1>1. /\ base'   = [base EXCEPT ![s] = b.base]
      /\ limite' = [limite EXCEPT ![s] = t]
      /\ bloque' = [bloque EXCEPT ![s] = 0]
      /\ libres' = Asignar(b, t)
      /\ rpc' = "libre" /\ reservas' = {}
      /\ \E c \in Cpus : cpid[c] = s[1]
  BY DEF CrearSegmento, Contesta, Termina
<1>2. /\ base'[s] = b.base /\ limite'[s] = t
      /\ \A u \in Segs : u # s => /\ base'[u] = base[u] /\ limite'[u] = limite[u]
                                  /\ bloque'[u] = bloque[u]
  BY <1>1 DEF IInv, TypeOK, TypeTabla
<1>3. t <= b.tam /\ b.base \in Nat
  BY TiposBloque DEF Elegible, Alcanza, IInv, TypeOK, TypeTabla
<1>4. /\ reservas = {} /\ \A u \in Segs : ~Vuelve(u)
      /\ \A u \in Segs : u[1] \in susp => ~(base[u] >= 0)
  BY NadieVuelve DEF Volviendo
<1>5. s[1] \notin susp
  BY <1>1, MemoryAssumption DEF IInv, EnCpus, Segs
<1>6. \A u \in Segs : ~Vuelve(u)'
  BY <1>1 DEF Vuelve
<1>7. Cubre'
  BY <1>1, <1>2, <1>3, CubreColoca DEF Nada
<1>8. Suspendidos'
  BY <1>1, <1>2, <1>4, <1>5 DEF Suspendidos, Suspendiendo
<1>9. Datos'
  <2>1. s \notin escrito
    BY DEF JInv, Datos
  <2>2. base'[s] # EnSwap
    BY <1>2, <1>3 DEF EnSwap
  <2>3. ram' = ram /\ disco' = disco /\ escrito' = escrito
    BY DEF datosVars
  <2> QED BY <1>1, <1>2, <1>4, <1>6, <2>1, <2>2, <2>3, DatosSalvo
<1> QED BY <1>7, <1>8, <1>9 DEF JInv

LEMMA JSolicitarSegmento ==
  ASSUME IInv, JInv, NEW c \in Cpus, NEW i \in Ids, NEW t \in Tamanios,
         SolicitarSegmento(c, i, t)
  PROVE  JInv'
<1> DEFINE s == <<cpid[c], i>>
<1>1. /\ rpc = "libre" /\ modo[c] = "pide" /\ base[s] = Nada
      /\ UNCHANGED <<siguiente, spc, susp, datosVars>>
  BY DEF SolicitarSegmento, Pedido
<1>2. s \in Segs
  BY <1>1 DEF IInv, EnCpus, TypeOK, TypeCpus, Segs
<1>3. \/ NegarSegmento(s, t)
      \/ \E b \in libres : Elegible(b, t) /\ CrearSegmento(s, t, b)
      \/ Sigue("anuncia", cpid[c], s, t, {}) /\ UNCHANGED <<tablaVars, libres, cpuVars>>
  BY DEF SolicitarSegmento
<1> HIDE DEF s
<1>4. CASE NegarSegmento(s, t)
  BY <1>1, <1>4, JNegado
<1>5. CASE \E b \in libres : Elegible(b, t) /\ CrearSegmento(s, t, b)
  BY <1>1, <1>2, <1>5, JCreado
<1>6. CASE Sigue("anuncia", cpid[c], s, t, {}) /\ UNCHANGED <<tablaVars, libres, cpuVars>>
  <2>1. /\ rpc' = "anuncia" /\ reservas' = reservas
        /\ UNCHANGED <<base, limite, bloque, libres, siguiente, datosVars>>
    BY <1>1, <1>6 DEF Sigue, tablaVars
  <2>2. reservas = {}
    BY <1>1, NadieVuelve DEF Volviendo
  <2> QED BY <1>1, <2>1, <2>2, JReposo DEF Volviendo, Techo
<1> QED BY <1>3, <1>4, <1>5, <1>6

LEMMA JReasigna ==
  ASSUME IInv, JInv, Reasigna
  PROVE  JInv'
<1>1. /\ rpc = "reasigna" /\ UNCHANGED <<siguiente, spc, susp, datosVars>>
      /\ \/ NegarSegmento(rs, rt)
         \/ \E b \in libres : Elegible(b, rt) /\ CrearSegmento(rs, rt, b)
  BY DEF Reasigna
<1>2. rs \in Segs /\ rt \in Tamanios /\ base[rs] = Nada
  BY <1>1 DEF IInv, Hilo, Compactando
<1>3. CASE NegarSegmento(rs, rt)
  BY <1>1, <1>2, <1>3, JNegado
<1>4. CASE \E b \in libres : Elegible(b, rt) /\ CrearSegmento(rs, rt, b)
  BY <1>1, <1>2, <1>4, JCreado
<1> QED BY <1>1, <1>3, <1>4

\* The segment s and its contents disappear.
LEMMA JBorrado ==
  ASSUME IInv, JInv, NEW s \in Segs,
         base'   = [base EXCEPT ![s] = Nada],
         limite' = [limite EXCEPT ![s] = 0],
         bloque' = [bloque EXCEPT ![s] = 0],
         libres' = (IF base[s] >= 0 THEN Liberar(base[s], limite[s]) ELSE libres),
         Olvida({s}), siguiente' = siguiente, spc' = spc, susp' = susp,
         rpc \in {"libre", "finaliza"}, rpc' = rpc, reservas' = {}
  PROVE  JInv'
<1>1. /\ base'[s] = Nada /\ limite'[s] = 0
      /\ \A u \in Segs : u # s => /\ base'[u] = base[u] /\ limite'[u] = limite[u]
                                  /\ bloque'[u] = bloque[u]
  BY DEF IInv, TypeOK, TypeTabla
<1>2. /\ reservas = {} /\ \A u \in Segs : ~Vuelve(u)
      /\ \A u \in Segs : u[1] \in susp => ~(base[u] >= 0)
  BY NadieVuelve DEF Volviendo
<1>3. \A u \in Segs : ~Vuelve(u)'
  BY DEF Vuelve
<1>4. Cubre'
  <2>1. CASE base[s] >= 0
    BY <1>1, <2>1, CubreSuelta
  <2>2. CASE ~(base[s] >= 0)
    <3>1. libres' = libres /\ Techo' = Techo
      BY <2>2 DEF Techo
    <3>2. \A u \in Segs : \A x : EnSegmento(x, u) => EnSegmento(x, u)'
      <4> SUFFICES ASSUME NEW u \in Segs, NEW x, EnSegmento(x, u)
                   PROVE  EnSegmento(x, u)'
        OBVIOUS
      <4>1. u # s
        BY <2>2, DondeEsta DEF EnSegmento
      <4> QED BY <1>1, <4>1 DEF EnSegmento
    <3> QED BY <3>1, <3>2 DEF JInv, Cubre, EnBloque
  <2> QED BY <2>1, <2>2
<1>5. Suspendidos'
  BY <1>1, <1>2 DEF Suspendidos, Suspendiendo, Nada
<1>6. Datos'
  <2>1. escrito' = escrito \ {s} /\ base'[s] # EnSwap
    BY <1>1 DEF Olvida, EnSwap, Nada
  <2>2. /\ \A u \in Segs, x \in Celdas : u # s /\ ram[x] = u => ram'[x] = u
        /\ \A u \in Segs, b \in NumBloques : u # s /\ disco[b] = u => disco'[b] = u
    BY DEF Olvida
  <2> QED BY <1>1, <1>2, <1>3, <2>1, <2>2, DatosSalvo
<1> QED BY <1>4, <1>5, <1>6 DEF JInv

LEMMA JEliminarSegmento ==
  ASSUME IInv, JInv, NEW c \in Cpus, NEW i \in Ids, EliminarSegmento(c, i)
  PROVE  JInv'
<1> DEFINE s == <<cpid[c], i>>
<1>1. /\ rpc = "libre" /\ modo[c] = "pide"
      /\ base'   = [base EXCEPT ![s] = Nada]
      /\ limite' = [limite EXCEPT ![s] = 0]
      /\ bloque' = [bloque EXCEPT ![s] = 0]
      /\ libres' = IF base[s] = Nada THEN libres ELSE Liberar(base[s], limite[s])
      /\ rpc' = "libre" /\ reservas' = {}
      /\ Olvida({s})
      /\ UNCHANGED <<existe, siguiente, spc, susp>>
  BY DEF EliminarSegmento, Contesta, Termina, Pedido
<1>2. s \in Segs /\ cpid[c] \notin susp /\ s[1] = cpid[c]
  BY <1>1 DEF IInv, EnCpus, TypeOK, TypeCpus, Segs
<1> HIDE DEF s
<1>3. base[s] # EnSwap
  BY <1>1, <1>2 DEF IInv, Segmentos, Suspendiendo
<1>4. base[s] = Nada \/ base[s] >= 0
  BY <1>2, <1>3, DondeEsta
<1>5. libres' = IF base[s] >= 0 THEN Liberar(base[s], limite[s]) ELSE libres
  BY <1>1, <1>4 DEF Nada
<1> QED BY <1>1, <1>2, <1>5, JBorrado

LEMMA JFinalizaSegmento ==
  ASSUME IInv, JInv, NEW s \in Segs, FinalizaSegmento(s)
  PROVE  JInv'
<1>1. /\ rpc = "finaliza" /\ s \in pend /\ rpc' = rpc
      /\ libres' = IF base[s] # EnSwap THEN Liberar(base[s], limite[s]) ELSE libres
      /\ base'   = [base EXCEPT ![s] = Nada]
      /\ limite' = [limite EXCEPT ![s] = 0]
      /\ bloque' = [bloque EXCEPT ![s] = 0]
      /\ Olvida({s}) /\ reservas' = reservas
      /\ siguiente' = siguiente /\ spc' = spc /\ susp' = susp
  BY DEF FinalizaSegmento
<1>2. base[s] # Nada /\ reservas = {}
  BY <1>1 DEF IInv, Hilo, Reservado, Volviendo
<1>3. libres' = IF base[s] >= 0 THEN Liberar(base[s], limite[s]) ELSE libres
  <2>1. base[s] = EnSwap \/ base[s] >= 0
    BY <1>2, DondeEsta
  <2> QED BY <1>1, <2>1 DEF EnSwap
<1> QED BY <1>1, <1>2, <1>3, JBorrado

-----------------------------------------------------------------------------
(* The steps between RAM and swap.                                         *)

\* Reservation and rollback: s moves between its blocks of swap and some cells of
\* RAM that do not hold it yet, and its contents are in swap all along.
LEMMA DatosEnDisco ==
  ASSUME IInv, JInv, NEW s \in Segs,
         base[s] = EnSwap \/ Vuelve(s), (base'[s] = EnSwap \/ Vuelve(s)'),
         base'[s] # Nada,
         \A u \in Segs : u # s => base'[u] = base[u] /\ (Vuelve(u)' <=> Vuelve(u)),
         UNCHANGED <<limite, bloque, siguiente, datosVars>>,
         rpc' \notin {"vuelca", "vuelto"}, base'[s] >= 0 => Vuelve(s)'
  PROVE  Datos'
<1>1. escrito \subseteq Segs /\ escrito' = escrito /\ ram' = ram /\ disco' = disco
  BY DEF IInv, TypeOK, TypeDatos, datosVars
<1>2. \A u \in Segs : (base'[u] = EnSwap \/ Vuelve(u)') => base[u] = EnSwap \/ Vuelve(u)
  OBVIOUS
<1>3. BloquesBajo(siguiente)'
  BY <1>2 DEF JInv, Datos, BloquesBajo
<1>4. \A u \in escrito' : base'[u] = EnSwap \/ Vuelve(u)' => EnDisco(u)'
  BY <1>1, <1>2 DEF JInv, Datos, EnDisco
<1>5. \A u \in escrito' : base'[u] # Nada
  BY <1>1 DEF JInv, Datos
<1>6. \A u \in escrito' : base'[u] >= 0 /\ ~Vuelve(u)' =>
        \A x \in Celdas : EnSegmento(x, u)' => ram'[x] = u
  BY <1>1 DEF JInv, Datos, EnSegmento
<1> QED BY <1>3, <1>4, <1>5, <1>6 DEF Datos

LEMMA JReservaSegmento ==
  ASSUME IInv, JInv, NEW s \in Segs, ReservaSegmento(s)
  PROVE  JInv'
<1>1. /\ rpc = "reserva" /\ s \in pend
      /\ reservas' = reservas \union {<<s, base[s]>>}
      /\ UNCHANGED <<limite, bloque, siguiente, rpc, rp, spc, susp, datosVars>>
  BY DEF ReservaSegmento
<1>2. PICK b \in libres : /\ Elegible(b, limite[s])
                          /\ base' = [base EXCEPT ![s] = b.base]
                          /\ libres' = Asignar(b, limite[s])
  BY DEF ReservaSegmento
<1>3. /\ s[1] = rp /\ base[s] # Nada /\ rp \in susp /\ ~Vuelve(s)
  BY <1>1 DEF IInv, Hilo, Volviendo, Reservado, Vuelve
<1>4. base[s] = EnSwap
  <2>1. ~(base[s] >= 0)
    BY <1>3 DEF JInv, Suspendidos
  <2> QED BY <1>3, <2>1, DondeEsta
<1>5. limite[s] \in Tamanios /\ limite[s] <= b.tam /\ b.base \in Nat
  BY <1>2, <1>3, DondeEsta, TiposBloque DEF Elegible, Alcanza, IInv, TypeOK, TypeTabla
<1>6. /\ base'[s] = b.base
      /\ \A u \in Segs : u # s => base'[u] = base[u]
  BY <1>2 DEF IInv, TypeOK, TypeTabla
<1>7. Cubre'
  <2>1. base[s] < 0
    BY <1>4 DEF EnSwap
  <2> QED BY <1>1, <1>2, <1>5, <1>6, <2>1, CubreColoca
<1>8. /\ Vuelve(s)' /\ \A u \in Segs : u # s => (Vuelve(u)' <=> Vuelve(u))
      /\ \A r \in reservas' : r[2] = EnSwap
  <2>1. <<s, base[s]>>[1] = s /\ <<s, base[s]>>[2] = EnSwap
    BY <1>4
  <2>2. \A r \in reservas : r[2] = EnSwap
    BY DEF JInv, Suspendidos
  <2> QED BY <1>1, <2>1, <2>2 DEF Vuelve
<1>9. Suspendidos'
  BY <1>1, <1>3, <1>6, <1>8 DEF JInv, Suspendidos, Suspendiendo, Volviendo
<1>10. Datos'
  <2>1. base'[s] # Nada
    BY <1>5, <1>6 DEF Nada
  <2> QED BY <1>1, <1>4, <1>6, <1>8, <2>1, DatosEnDisco
<1> QED BY <1>7, <1>9, <1>10 DEF JInv

LEMMA JDeshaceReserva ==
  ASSUME IInv, JInv, NEW r \in reservas, DeshaceReserva(r)
  PROVE  JInv'
<1> DEFINE s == r[1]
<1>1. /\ rpc = "deshace"
      /\ libres' = Liberar(base[s], limite[s])
      /\ base' = [base EXCEPT ![s] = r[2]]
      /\ reservas' = reservas \ {r}
      /\ UNCHANGED <<limite, bloque, siguiente, rpc, rp, spc, susp, datosVars>>
  BY DEF DeshaceReserva
<1>2. s \in Segs /\ Vuelve(s) /\ r[2] = EnSwap
  BY DEF IInv, TypeOK, TypeHilo, Vuelve, JInv, Suspendidos
<1>3. base[s] >= 0 /\ \A q \in reservas : q[1] = s => q = r
  BY DEF IInv, Reservado
<1>4. \A u : Vuelve(u)' <=> Vuelve(u) /\ u # s
  BY <1>1, <1>3 DEF Vuelve
<1> HIDE DEF s
<1>5. /\ base'[s] = EnSwap
      /\ \A u \in Segs : u # s => base'[u] = base[u]
  BY <1>1, <1>2 DEF IInv, TypeOK, TypeTabla
<1>6. Cubre'
  BY <1>1, <1>2, <1>3, <1>5, CubreSuelta
<1>7. Suspendidos'
  BY <1>1, <1>4, <1>5 DEF JInv, Suspendidos, Suspendiendo, Volviendo, EnSwap
<1>8. Datos'
  <2>1. base'[s] # Nada /\ ~(base'[s] >= 0)
    BY <1>5 DEF EnSwap, Nada
  <2> QED BY <1>1, <1>2, <1>4, <1>5, <2>1, DatosEnDisco
<1> QED BY <1>6, <1>7, <1>8 DEF JInv

\* swap_reservar_bloques gives blocks above all those in use.
LEMMA JSuspenderReserva ==
  ASSUME IInv, JInv, NEW s \in Segs, SuspenderReserva(s)
  PROVE  JInv'
<1> DEFINE n == BloquesDe(limite[s])
<1>1. /\ rpc = "suspende" /\ rpc' = "vuelca" /\ s \in pend /\ rs' = s
      /\ siguiente' = siguiente + n
      /\ bloque' = [bloque EXCEPT ![s] = siguiente]
      /\ UNCHANGED <<base, limite, libres, rp, pend, reservas, spc, susp, datosVars>>
  BY DEF SuspenderReserva
<1>2. base[s] >= 0 /\ \A u \in Segs : ~Vuelve(u)
  BY <1>1, NadieVuelve DEF IInv, Hilo, Suspendiendo, Volviendo
<1>3. \A u : Vuelve(u)' <=> Vuelve(u)
  BY <1>1 DEF Vuelve
<1>4. n \in Nat /\ siguiente \in Nat /\ \A u \in Segs : bloque[u] + BloquesDe(limite[u]) \in Nat
  BY DondeEsta, MemoryAssumption DEF BloquesDe, IInv, TypeOK, TypeTabla
<1>5. bloque'[s] = siguiente /\ \A u \in Segs : u # s => bloque'[u] = bloque[u]
  BY <1>1 DEF IInv, TypeOK, TypeTabla
<1> HIDE DEF n
<1>6. Techo' = Techo
  BY <1>1 DEF Techo
<1>7. Cubre'
  BY <1>1, <1>6, CubreIgual
<1>8. Suspendidos'
  BY <1>1, <1>3 DEF JInv, Suspendidos, Suspendiendo, Volviendo
<1>9. /\ escrito \subseteq Segs /\ escrito' = escrito /\ ram' = ram /\ disco' = disco
      /\ s \notin {u \in Segs : base[u] = EnSwap}
  BY <1>1, <1>2 DEF IInv, TypeOK, TypeDatos, datosVars, EnSwap
<1>10. BloquesBajo(bloque[rs])' /\ BloquesBajo(siguiente)'
  <2>1. \A u \in Segs : (base'[u] = EnSwap \/ Vuelve(u)') =>
          bloque'[u] + BloquesDe(limite'[u]) <= siguiente
    BY <1>1, <1>2, <1>3, <1>5, <1>9 DEF JInv, Datos, BloquesBajo
  <2>2. \A u \in Segs : (base'[u] = EnSwap \/ Vuelve(u)') =>
          bloque'[u] + BloquesDe(limite'[u]) <= siguiente'
    BY <1>1, <1>2, <1>3, <1>4, <1>5, <1>9 DEF JInv, Datos, BloquesBajo
  <2> QED BY <1>1, <1>5, <2>1, <2>2 DEF BloquesBajo, BloquesDe
<1>11. bloque'[rs'] + BloquesDe(limite'[rs']) = siguiente'
  BY <1>1, <1>5 DEF n
<1>12. \A u \in escrito' : base'[u] = EnSwap \/ Vuelve(u)' => EnDisco(u)'
  BY <1>1, <1>2, <1>3, <1>5, <1>9 DEF JInv, Datos, EnDisco
<1>13. /\ \A u \in escrito' : base'[u] # Nada
       /\ \A u \in escrito' : base'[u] >= 0 /\ ~Vuelve(u)' =>
            \A x \in Celdas : EnSegmento(x, u)' => ram'[x] = u
  BY <1>1, <1>3, <1>9 DEF JInv, Datos, EnSegmento
<1>14. Datos'
  BY <1>1, <1>10, <1>11, <1>12, <1>13 DEF Datos
<1> QED BY <1>7, <1>8, <1>14 DEF JInv

\* With no stick half way in, kernel_memory reaches all that is in use.
LEMMA Llegan ==
  ASSUME IInv, NEW s \in Segs, base[s] >= 0
  PROVE  /\ spc \in {"espera", "fin"} => Rango(base[s], limite[s]) \subseteq Alcanzable
         /\ Rango(base[s], limite[s]) \subseteq Celdas
         /\ \A x \in Celdas : x \in Rango(base[s], limite[s]) <=> EnSegmento(x, s)
<1>1. base[s] \in Celdas /\ Reclama(s, base[s]) /\ base[s] \in Int
  BY DondeEsta DEF Reclama
<1>2. limite[s] \in Nat /\ limite[s] > 0 /\ base[s] \in Nat /\ base[s] + limite[s] <= Techo
  BY <1>1, TamanoReclamado
<1>3. Techo \in Nat /\ Techo <= Ram + Nuevo /\ (spc = "espera" => Techo = Ram)
  BY MemoryAssumption DEF Techo
<1>4. Rango(base[s], limite[s]) \subseteq Celdas
  BY <1>2, <1>3, MemoryAssumption DEF Rango, Celdas
<1>5. spc \in {"espera", "fin"} => Rango(base[s], limite[s]) \subseteq Alcanzable
  BY <1>2, <1>3, <1>4, MemoryAssumption DEF Rango, Alcanzable
<1>6. \A x \in Celdas : x \in Rango(base[s], limite[s]) <=> EnSegmento(x, s)
  BY <1>2, Celda DEF Rango, EnSegmento
<1> QED BY <1>4, <1>5, <1>6

\* The blocks of a segment are blocks of swap.
LEMMA BloquesValidos ==
  ASSUME IInv, JInv, NEW s \in Segs, bloque[s] + BloquesDe(limite[s]) <= siguiente
  PROVE  /\ Rango(bloque[s], BloquesDe(limite[s])) \subseteq NumBloques
         /\ bloque[s] \in Nat /\ BloquesDe(limite[s]) \in Nat
<1>1. bloque[s] \in Nat /\ BloquesDe(limite[s]) \in Nat /\ siguiente \in 0 .. Bloques
  BY DondeEsta, MemoryAssumption DEF BloquesDe, IInv, TypeOK, TypeTabla
<1> QED BY <1>1, MemoryAssumption DEF Rango, NumBloques

\* volcar_segmento_a_swap writes no block of another segment.
LEMMA JVolcar ==
  ASSUME IInv, JInv, Volcar
  PROVE  JInv'
<1> DEFINE R == Rango(bloque[rs], BloquesDe(limite[rs]))
           trozo(b) == Trozo(base[rs], limite[rs], b - bloque[rs])
<1>1. /\ rpc = "vuelca" /\ rpc' = "vuelto"
      /\ disco' = [b \in NumBloques |->
           IF b \in R
           THEN IF \A x \in trozo(b) : ram[x] = rs THEN rs ELSE Nulo
           ELSE disco[b]]
      /\ UNCHANGED <<tablaVars, libres, siguiente, rp, rs, pend, reservas,
                     spc, susp, ram, escrito>>
  BY DEF Volcar
<1>2. rs \in Segs /\ base[rs] >= 0 /\ \A u \in Segs : ~Vuelve(u)
  BY <1>1, NadieVuelve DEF IInv, Hilo, TypeOK, TypeHilo, Suspendiendo, Volviendo
<1>3. /\ bloque[rs] + BloquesDe(limite[rs]) = siguiente /\ BloquesBajo(bloque[rs])
      /\ BloquesBajo(siguiente)
  BY <1>1 DEF JInv, Datos
<1>4. /\ R \subseteq NumBloques /\ bloque[rs] \in Nat /\ BloquesDe(limite[rs]) \in Nat
      /\ siguiente \in Nat
  <2>1. siguiente \in Nat
    BY MemoryAssumption DEF IInv, TypeOK, TypeTabla
  <2>2. bloque[rs] + BloquesDe(limite[rs]) <= siguiente
    BY <1>3, <2>1
  <2> QED BY <1>2, <2>1, <2>2, BloquesValidos
<1>5. rs \in escrito => \A b \in R : disco'[b] = rs
  <2> SUFFICES ASSUME rs \in escrito, NEW b \in R PROVE disco'[b] = rs
    OBVIOUS
  <2>1. \A x \in trozo(b) : ram[x] = rs
    BY <1>2, Llegan DEF Trozo, JInv, Datos
  <2> QED BY <1>1, <1>4, <2>1
<1>6. \A u \in Segs : base[u] = EnSwap =>
        \A b \in Rango(bloque[u], BloquesDe(limite[u])) : b \in NumBloques /\ b \notin R
  <2> SUFFICES ASSUME NEW u \in Segs, base[u] = EnSwap,
                      NEW b \in Rango(bloque[u], BloquesDe(limite[u]))
               PROVE  b \in NumBloques /\ b \notin R
    OBVIOUS
  <2>1. /\ bloque[u] + BloquesDe(limite[u]) <= bloque[rs]
        /\ bloque[u] + BloquesDe(limite[u]) <= siguiente
    BY <1>3 DEF BloquesBajo
  <2>2. /\ Rango(bloque[u], BloquesDe(limite[u])) \subseteq NumBloques
        /\ bloque[u] \in Nat /\ BloquesDe(limite[u]) \in Nat
    BY <2>1, BloquesValidos
  <2> QED BY <1>4, <2>1, <2>2 DEF Rango
<1> HIDE DEF R
<1>7. /\ \A u : Vuelve(u)' <=> Vuelve(u)
      /\ Techo' = Techo /\ escrito \subseteq Segs
      /\ base' = base /\ limite' = limite /\ bloque' = bloque
  BY <1>1 DEF Vuelve, Techo, tablaVars, IInv, TypeOK, TypeDatos
<1>8. Cubre'
  BY <1>1, <1>7, CubreIgual
<1>9. Suspendidos'
  BY <1>1, <1>7 DEF JInv, Suspendidos, Suspendiendo, Volviendo
<1>10. \A u \in escrito : base[u] = EnSwap => EnDisco(u)'
  <2> SUFFICES ASSUME NEW u \in escrito, base[u] = EnSwap,
                      NEW b \in Rango(bloque[u], BloquesDe(limite[u]))
               PROVE  disco'[b] = u
    BY <1>7 DEF EnDisco
  <2>1. b \in NumBloques /\ b \notin R /\ disco[b] = u
    BY <1>6, <1>7 DEF JInv, Datos, EnDisco
  <2> QED BY <1>1, <2>1
<1>11. Datos'
  <2>1. rs \in escrito => EnDisco(rs)'
    BY <1>1, <1>5, <1>7 DEF EnDisco, R
  <2>2. BloquesBajo(siguiente)'
    BY <1>1, <1>3, <1>7 DEF BloquesBajo
  <2>3. \A u \in escrito : base[u] >= 0 /\ ~Vuelve(u) =>
          \A x \in Celdas : EnSegmento(x, u)' => ram'[x] = u
    BY <1>1, <1>7 DEF JInv, Datos, EnSegmento
  <2>4. \A u \in escrito : base[u] # Nada
    BY DEF JInv, Datos
  <2> QED BY <1>1, <1>2, <1>3, <1>7, <1>10, <2>1, <2>2, <2>3, <2>4 DEF Datos
<1> QED BY <1>8, <1>9, <1>11 DEF JInv

\* The RAM of a segment is given back once its contents are in swap.
LEMMA JSuspenderLibera ==
  ASSUME IInv, JInv, SuspenderLibera
  PROVE  JInv'
<1>1. /\ rpc = "vuelto"
      /\ libres' = Liberar(base[rs], limite[rs])
      /\ base' = [base EXCEPT ![rs] = EnSwap]
      /\ pend' = pend \ {rs}
      /\ rpc' = "suspende"
      /\ UNCHANGED <<limite, bloque, siguiente, rp, reservas, spc, susp, datosVars>>
  BY DEF SuspenderLibera
<1>2. rs \in Segs /\ base[rs] >= 0 /\ \A u \in Segs : ~Vuelve(u)
  BY <1>1, NadieVuelve DEF IInv, Hilo, TypeOK, TypeHilo, Suspendiendo, Volviendo
<1>3. /\ base'[rs] = EnSwap
      /\ \A u \in Segs : u # rs => base'[u] = base[u]
  BY <1>1, <1>2 DEF IInv, TypeOK, TypeTabla
<1>4. \A u : Vuelve(u)' <=> Vuelve(u)
  BY <1>1 DEF Vuelve
<1>5. Cubre'
  BY <1>1, <1>2, <1>3, CubreSuelta
<1>6. Suspendidos'
  BY <1>1, <1>2, <1>3, <1>4 DEF JInv, Suspendidos, Suspendiendo, Volviendo, EnSwap
<1>7. /\ escrito \subseteq Segs /\ escrito' = escrito /\ ram' = ram /\ disco' = disco
      /\ siguiente \in Nat
  BY <1>1, MemoryAssumption DEF IInv, TypeOK, TypeDatos, TypeTabla, datosVars
<1>8. Datos'
  <2>1. \A u \in escrito' : base'[u] = EnSwap \/ Vuelve(u)' => EnDisco(u)'
    <3>1. \A u : EnDisco(u)' <=> EnDisco(u)
      BY <1>1, <1>7 DEF EnDisco
    <3> QED BY <1>1, <1>2, <1>3, <1>4, <1>7, <3>1 DEF JInv, Datos
  <2>2. BloquesBajo(siguiente)'
    <3>1. bloque[rs] + BloquesDe(limite[rs]) <= siguiente
      BY <1>1, <1>7 DEF JInv, Datos
    <3> QED BY <1>1, <1>2, <1>3, <1>4, <3>1 DEF JInv, Datos, BloquesBajo
  <2>3. \A u \in escrito' : base'[u] # Nada
    BY <1>3, <1>7 DEF JInv, Datos, EnSwap, Nada
  <2>4. \A u \in escrito' : base'[u] >= 0 /\ ~Vuelve(u)' =>
          \A x \in Celdas : EnSegmento(x, u)' => ram'[x] = u
    BY <1>1, <1>3, <1>4, <1>7 DEF JInv, Datos, EnSegmento, EnSwap
  <2> QED BY <1>1, <2>1, <2>2, <2>3, <2>4 DEF Datos
<1> QED BY <1>5, <1>6, <1>8 DEF JInv

\* Two segments in RAM have no cell in common.
LEMMA UnoSolo ==
  ASSUME IInv, NEW s \in Segs, NEW u \in Segs, NEW x \in Celdas,
         EnSegmento(x, s), EnSegmento(x, u)
  PROVE  s = u
<1> SUFFICES ASSUME s # u PROVE FALSE
  OBVIOUS
<1>1. /\ base[s] \in Celdas /\ base[u] \in Celdas /\ base[s] \in Int /\ base[u] \in Int
      /\ limite[s] \in Nat /\ limite[u] \in Nat /\ x \in Int
  BY DondeEsta, Celda DEF EnSegmento
<1>2. Aparte(base[s], limite[s], base[u], limite[u])
  BY <1>1 DEF IInv, Disjuntos, Reclama
<1> QED BY <1>1, <1>2 DEF Aparte, EnSegmento

\* transferir_swap_a_ram reads each cell from the block that holds it.
LEMMA JTransferir ==
  ASSUME IInv, JInv, Transferir
  PROVE  JInv'
<1> DEFINE deQuien(x) == {s \in SegsDe(rp) : x \in Rango(base[s], limite[s])}
           bloqueDe(s, x) == bloque[s] + (x - base[s]) \div TamBloque
           leido(s, x) == IF bloqueDe(s, x) \in NumBloques THEN disco[bloqueDe(s, x)]
                                                           ELSE Nulo
<1>1. /\ rpc = "transfiere" /\ susp' = susp \ {rp} /\ rpc' = "libre" /\ reservas' = {}
      /\ UNCHANGED <<tablaVars, libres, siguiente, spc, disco, escrito>>
  BY DEF Transferir, Contesta, Termina
<1>2. ram' = [x \in Celdas |->
        IF x \in Alcanzable /\ deQuien(x) # {}
        THEN leido(CHOOSE s \in deQuien(x) : TRUE, x)
        ELSE ram[x]]
  BY DEF Transferir
<1>3. /\ spc \in {"espera", "fin"} /\ rp \in Procs /\ rp \in susp
      /\ \A s \in Segs : s[1] = rp => base[s] # EnSwap
  BY <1>1 DEF IInv, Hilo, TypeOK, TypeTabla, Volviendo
<1>4. /\ base' = base /\ limite' = limite /\ bloque' = bloque /\ Techo' = Techo
      /\ escrito' = escrito /\ disco' = disco /\ escrito \subseteq Segs
      /\ \A u : ~Vuelve(u)'
  BY <1>1 DEF tablaVars, Techo, Vuelve, IInv, TypeOK, TypeDatos
<1>5. \A x \in Celdas, s \in SegsDe(rp) :
        /\ s \in Segs /\ s[1] = rp /\ base[s] >= 0
        /\ x \in Rango(base[s], limite[s]) <=> EnSegmento(x, s)
  <2> SUFFICES ASSUME NEW x \in Celdas, NEW s \in SegsDe(rp)
               PROVE  /\ s \in Segs /\ s[1] = rp /\ base[s] >= 0
                      /\ x \in Rango(base[s], limite[s]) <=> EnSegmento(x, s)
    OBVIOUS
  <2>1. s \in Segs /\ s[1] = rp /\ base[s] # Nada
    BY <1>3 DEF SegsDe, Segs
  <2>2. base[s] >= 0
    BY <1>3, <2>1, DondeEsta
  <2> QED BY <2>1, <2>2, Llegan
<1>6. ASSUME NEW s \in escrito, base[s] >= 0, NEW x \in Celdas, EnSegmento(x, s)
      PROVE  ram'[x] = s
  <2>1. s \in Segs
    BY <1>4
  <2>2. CASE s[1] = rp
    <3>1. Vuelve(s)
      BY <1>3, <1>6, <2>1, <2>2 DEF JInv, Suspendidos
    <3>2. s \in SegsDe(rp)
      BY <1>6, <2>1, <2>2 DEF SegsDe, Segs, Nada
    <3>3. s \in deQuien(x) /\ \A u \in deQuien(x) : u = s
      BY <1>5, <1>6, <2>1, <3>2, UnoSolo
    <3>4. (CHOOSE u \in deQuien(x) : TRUE) = s
      BY <3>3
    <3>5. x \in Alcanzable
      BY <1>3, <1>6, <2>1, Llegan
    <3>6. bloque[s] + BloquesDe(limite[s]) <= siguiente /\ EnDisco(s)
      BY <1>6, <2>1, <3>1 DEF JInv, Datos, BloquesBajo
    <3>7. /\ Rango(bloque[s], BloquesDe(limite[s])) \subseteq NumBloques
          /\ bloque[s] \in Nat /\ BloquesDe(limite[s]) \in Nat
      BY <2>1, <3>6, BloquesValidos
    <3>8. bloqueDe(s, x) \in Rango(bloque[s], BloquesDe(limite[s]))
      <4> DEFINE y == x - base[s]
                 q == y \div TamBloque
      <4>1. y \in Nat /\ y < limite[s] /\ limite[s] \in Nat
        BY <1>6, <2>1, DondeEsta, Celda DEF EnSegmento
      <4> HIDE DEF y
      <4>2. q \in Nat /\ q < BloquesDe(limite[s])
        BY <4>1, MemoryAssumption DEF BloquesDe
      <4>3. bloqueDe(s, x) = bloque[s] + q
        BY DEF y
      <4> HIDE DEF q, bloqueDe
      <4> QED BY <3>7, <4>2, <4>3 DEF Rango
    <3>9. leido(s, x) = s
      BY <3>6, <3>7, <3>8 DEF EnDisco
    <3> HIDE DEF deQuien, leido
    <3> QED BY <1>2, <3>3, <3>4, <3>5, <3>9
  <2>3. CASE s[1] # rp
    <3>1. deQuien(x) = {}
      BY <1>5, <1>6, <2>1, <2>3, UnoSolo
    <3>2. ~Vuelve(s)
      BY <2>3 DEF IInv, Reservado, Vuelve
    <3>3. ram[x] = s
      BY <1>6, <3>2 DEF JInv, Datos
    <3> HIDE DEF deQuien, leido
    <3> QED BY <1>2, <3>1, <3>3
  <2> QED BY <2>2, <2>3
<1> HIDE DEF deQuien, bloqueDe, leido
<1>7. Cubre'
  BY <1>1, <1>4, CubreIgual
<1>8. Suspendidos'
  BY <1>1, <1>4 DEF JInv, Suspendidos, Suspendiendo
<1>9. Datos'
  <2>1. BloquesBajo(siguiente)'
    BY <1>1, <1>4 DEF JInv, Datos, BloquesBajo
  <2>2. \A u \in escrito' : base'[u] = EnSwap \/ Vuelve(u)' => EnDisco(u)'
    BY <1>4 DEF JInv, Datos, EnDisco
  <2>3. \A u \in escrito' : base'[u] >= 0 /\ ~Vuelve(u)' =>
          \A x \in Celdas : EnSegmento(x, u)' => ram'[x] = u
    BY <1>4, <1>6 DEF EnSegmento
  <2>4. \A u \in escrito' : base'[u] # Nada
    BY <1>4 DEF JInv, Datos
  <2> QED BY <1>1, <2>1, <2>2, <2>3, <2>4 DEF Datos
<1> QED BY <1>7, <1>8, <1>9 DEF JInv

-----------------------------------------------------------------------------
(* The steps that write.                                                   *)

\* s is written all over its cells; nobody else has one of them.
LEMMA DatosEscribe ==
  ASSUME IInv, JInv, NEW s \in Segs, base[s] >= 0, ~Vuelve(s),
         NEW C, C \subseteq Celdas, \A x \in Celdas : x \in C <=> EnSegmento(x, s),
         Escribe(s, C), UNCHANGED <<base, limite, bloque, siguiente, reservas, rpc>>,
         rpc \in {"vuelca", "vuelto"} => rs' = rs /\ rs # s
  PROVE  Datos'
<1>1. escrito \subseteq Segs /\ escrito' = escrito \union {s}
  BY DEF IInv, TypeOK, TypeDatos, Escribe
<1>2. \A u : Vuelve(u)' <=> Vuelve(u)
  BY DEF Vuelve
<1>3. \A u \in Segs, x \in Celdas : EnSegmento(x, u) /\ u # s /\ ram[x] = u => ram'[x] = u
  <2>1. \A u \in Segs, x \in Celdas : EnSegmento(x, u) /\ u # s => x \notin C
    BY UnoSolo
  <2> QED BY <2>1 DEF Escribe
<1>4. \A x \in Celdas : EnSegmento(x, s) => ram'[x] = s
  BY DEF Escribe
<1>5. \A u \in Segs, b \in NumBloques : u # s /\ disco[b] = u => disco'[b] = u
  BY DEF Escribe
<1>6. ASSUME NEW u \in Segs, u # s, EnDisco(u),
             bloque[u] + BloquesDe(limite[u]) <= siguiente
      PROVE  EnDisco(u)'
  <2>1. Rango(bloque[u], BloquesDe(limite[u])) \subseteq NumBloques
    BY <1>6, BloquesValidos
  <2> QED BY <1>5, <1>6, <2>1 DEF EnDisco
<1>7. \A u \in escrito' : base'[u] # Nada
  BY <1>1 DEF JInv, Datos, Nada
<1>8. \A u \in escrito' : base'[u] >= 0 /\ ~Vuelve(u)' =>
          \A x \in Celdas : EnSegmento(x, u)' => ram'[x] = u
  <2>1. \A u, x : EnSegmento(x, u)' <=> EnSegmento(x, u)
    BY DEF EnSegmento
  <2> QED BY <1>1, <1>2, <1>3, <1>4, <2>1 DEF JInv, Datos
<1>9. \A u \in escrito' : base'[u] = EnSwap \/ Vuelve(u)' => EnDisco(u)'
  <2> SUFFICES ASSUME NEW u \in escrito', base[u] = EnSwap \/ Vuelve(u)
               PROVE  EnDisco(u)'
    BY <1>2
  <2>1. u # s /\ u \in escrito /\ u \in Segs
    BY <1>1 DEF EnSwap
  <2>2. EnDisco(u) /\ bloque[u] + BloquesDe(limite[u]) <= siguiente
    BY <2>1 DEF JInv, Datos, BloquesBajo
  <2> QED BY <1>6, <2>1, <2>2
<1>10. BloquesBajo(siguiente)'
  BY <1>2 DEF JInv, Datos, BloquesBajo
<1>11. /\ rpc' \in {"vuelca", "vuelto"} =>
            bloque'[rs'] + BloquesDe(limite'[rs']) = siguiente'
       /\ rpc' = "vuelca" => BloquesBajo(bloque[rs])'
  BY <1>2 DEF JInv, Datos, BloquesBajo
<1>12. rpc' = "vuelto" /\ rs' \in escrito' => EnDisco(rs)'
  <2> SUFFICES ASSUME rpc = "vuelto", rs \in escrito PROVE EnDisco(rs)'
    BY <1>1
  <2>1. rs \in Segs /\ rs # s /\ EnDisco(rs) /\ rs' = rs
    BY <1>1 DEF JInv, Datos
  <2>2. bloque[rs] + BloquesDe(limite[rs]) <= siguiente
    <3>1. bloque[rs] + BloquesDe(limite[rs]) = siguiente /\ siguiente \in Nat
      BY MemoryAssumption DEF JInv, Datos, IInv, TypeOK, TypeTabla
    <3> QED BY <3>1
  <2> QED BY <1>6, <2>1, <2>2 DEF EnDisco
<1> QED BY <1>7, <1>8, <1>9, <1>10, <1>11, <1>12 DEF Datos

LEMMA JEscrituraMemoria ==
  ASSUME IInv, JInv, Sosegado, NEW s \in Segs, EscrituraMemoria(s)
  PROVE  JInv'
<1>1. /\ rpc = "libre" /\ spc \in {"espera", "fin"} /\ rpc' = "libre" /\ reservas' = {}
      /\ UNCHANGED <<tablaVars, libres, siguiente, spc, susp>>
  BY DEF EscrituraMemoria, Contesta, Termina, Pedido, Sosegado
<1>2. /\ base' = base /\ limite' = limite /\ bloque' = bloque /\ Techo' = Techo
  BY <1>1 DEF tablaVars, Techo
<1>3. /\ reservas = {} /\ ~Vuelve(s)
      /\ \A u \in Segs : u[1] \in susp => ~(base[u] >= 0)
  BY <1>1, NadieVuelve DEF Volviendo
<1>4. CASE UNCHANGED datosVars
  BY <1>1, <1>2, <1>4, JReposo DEF Volviendo
<1>5. CASE base[s] >= 0 /\ Escribe(s, Rango(base[s], limite[s]) \cap Alcanzable)
  <2> DEFINE C == Rango(base[s], limite[s]) \cap Alcanzable
  <2>1. C \subseteq Celdas /\ \A x \in Celdas : x \in C <=> EnSegmento(x, s)
    BY <1>1, <1>5, Llegan
  <2> HIDE DEF C
  <2>2. Escribe(s, C)
    BY <1>5 DEF C
  <2>3. Datos'
    BY <1>1, <1>2, <1>3, <1>5, <2>1, <2>2, DatosEscribe
  <2>4. Cubre'
    BY <1>1, <1>2, CubreIgual
  <2>5. Suspendidos'
    BY <1>1, <1>2, <1>3 DEF Suspendidos, Suspendiendo
  <2> QED BY <2>3, <2>4, <2>5 DEF JInv
<1> QED BY <1>4, <1>5 DEF EscrituraMemoria

\* A CPU writes where the table says, as long as nothing moves under it.
LEMMA JCpuEscribe ==
  ASSUME IInv, JInv, Sosegado, NEW c \in Cpus, NEW i \in Ids, CpuEscribe(c, i)
  PROVE  JInv'
<1> DEFINE s == <<cpid[c], i>>
<1>1. /\ modo[c] = "corre" /\ ctx[c][i] >= 0 /\ Escribe(s, Rango(ctx[c][i], limite[s]))
      /\ UNCHANGED <<tablaVars, libres, siguiente, rxVars, spc, susp>>
  BY DEF CpuEscribe
<1>2. s \in Segs /\ s[1] # rp /\ ctx[c][i] = base[s]
  BY <1>1 DEF IInv, EnCpus, TypeOK, TypeCpus, Segs
<1> HIDE DEF s
<1>3. ~Vuelve(s) /\ (rpc \in {"vuelca", "vuelto"} => rs # s)
  BY <1>2 DEF IInv, Reservado, Hilo, Vuelve
<1>4. rpc # "compacta"
  BY <1>1, NadieCorre DEF Compactando
<1>5. /\ base' = base /\ limite' = limite /\ bloque' = bloque /\ Techo' = Techo
      /\ reservas' = reservas /\ rpc' = rpc /\ rp' = rp /\ rs' = rs /\ pend' = pend
      /\ \A u : Vuelve(u)' <=> Vuelve(u)
  BY <1>1 DEF tablaVars, rxVars, Techo, Vuelve
<1> DEFINE C == Rango(base[s], limite[s])
<1>6. C \subseteq Celdas /\ \A x \in Celdas : x \in C <=> EnSegmento(x, s)
  BY <1>1, <1>2, Llegan
<1> HIDE DEF C
<1>7. Escribe(s, C)
  BY <1>1, <1>2 DEF C
<1>8. Datos'
  BY <1>1, <1>2, <1>3, <1>5, <1>6, <1>7, DatosEscribe
<1>9. Cubre'
  BY <1>1, <1>4, <1>5, CubreIgual
<1>10. Suspendidos'
  BY <1>1, <1>5 DEF JInv, Suspendidos, Suspendiendo, Volviendo
<1> QED BY <1>8, <1>9, <1>10 DEF JInv

-----------------------------------------------------------------------------
(* Compaction.                                                             *)

\* The data in the steps that touch neither the tables nor the bytes.
LEMMA DatosIgual ==
  ASSUME JInv, UNCHANGED <<base, limite, bloque, siguiente, reservas, datosVars>>,
         rpc' \notin {"vuelca", "vuelto"}
  PROVE  Datos'
<1>1. escrito' = escrito /\ ram' = ram /\ disco' = disco
  BY DEF datosVars
<1>2. \A u : Vuelve(u)' <=> Vuelve(u)
  BY DEF Vuelve
<1>3. /\ \A u \in escrito' : base'[u] # Nada
      /\ \A u \in escrito' : base'[u] >= 0 /\ ~Vuelve(u)' =>
           \A x \in Celdas : EnSegmento(x, u)' => ram'[x] = u
  BY <1>1, <1>2 DEF JInv, Datos, EnSegmento
<1>4. \A u \in escrito' : base'[u] = EnSwap \/ Vuelve(u)' => EnDisco(u)'
  BY <1>1, <1>2 DEF JInv, Datos, EnDisco
<1>5. BloquesBajo(siguiente)'
  BY <1>2 DEF JInv, Datos, BloquesBajo
<1> QED BY <1>3, <1>4, <1>5 DEF Datos

\* When no process has a segment, the list is one block.
LEMMA TodoLibre ==
  ASSUME IInv, JInv, rpc # "compacta", \A s \in Segs : base[s] = Nada,
         NEW a \in libres, NEW b \in libres
  PROVE  a = b
<1>1. /\ \A c \in libres : c.base \in Nat /\ c.tam \in Nat /\ c.tam > 0
      /\ \A c \in libres : c.base + c.tam <= Techo
      /\ Separados(libres) /\ Techo \in Nat
  BY TiposBloque, MemoryAssumption DEF IInv, TypeOK, TypeTabla, Libres, Separados, Techo
<1>2. \A x \in 0 .. (Techo - 1) : \E c \in libres : EnBloque(x, c)
  BY DEF JInv, Cubre, EnSegmento, Nada
<1>3. ASSUME NEW d \in libres, NEW e \in libres, d.base + d.tam < e.base
      PROVE  FALSE
  <2> DEFINE x == d.base + d.tam
  <2>1. x \in 0 .. (Techo - 1)
    BY <1>1, <1>3
  <2>2. PICK c \in libres : EnBloque(x, c)
    BY <1>2, <2>1
  <2>3. c # d
    BY <1>1, <2>2 DEF EnBloque
  <2>4. c.base + c.tam < d.base \/ d.base + d.tam < c.base
    BY <1>1, <2>3 DEF Separados
  <2> QED BY <1>1, <2>2, <2>4 DEF EnBloque
<1> QED BY <1>1, <1>3 DEF Separados

LEMMA JCompactaEmpieza ==
  ASSUME IInv, JInv, CompactaEmpieza
  PROVE  JInv'
<1>1. /\ rpc = "pausado" /\ rpc' \in {"reasigna", "compacta"}
      /\ rpc' = "reasigna" => \A s \in Segs : base[s] = Nada
      /\ UNCHANGED <<tablaVars, libres, siguiente, rp, reservas, cursor, spc, susp,
                     datosVars>>
  BY DEF CompactaEmpieza
<1>2. /\ cursor = 0 /\ reservas = {}
      /\ \A s \in Segs : s[1] \in susp => ~(base[s] >= 0)
  BY <1>1, NadieVuelve DEF IInv, Hilo, Volviendo
<1>3. /\ base' = base /\ limite' = limite /\ bloque' = bloque /\ Techo' = Techo
  BY <1>1 DEF tablaVars, Techo
<1>4. Cubre'
  <2>1. CASE rpc' = "reasigna"
    BY <1>1, <1>3, <2>1, CubreIgual
  <2>2. CASE rpc' = "compacta"
    <3>1. 0 .. (cursor' - 1) = {}
      BY <1>1, <1>2
    <3> QED BY <2>2, <3>1 DEF Cubre
  <2> QED BY <1>1, <2>1, <2>2
<1>5. Suspendidos'
  <2>1. rpc' = "reasigna" => \A a, b \in libres : a = b
    BY <1>1, TodoLibre
  <2> QED BY <1>1, <1>2, <1>3, <2>1 DEF Suspendidos, Suspendiendo
<1>6. Datos'
  BY <1>1, <1>3, DatosIgual
<1> QED BY <1>4, <1>5, <1>6 DEF JInv

\* One turn of the loop copies the segment onto cells that nobody has.
LEMMA JCompactaSegmento ==
  ASSUME IInv, JInv, Sosegado, NEW s \in Segs, CompactaSegmento(s)
  PROVE  JInv'
<1> DEFINE viejo == Rango(base[s], limite[s])
           nuevo == Rango(cursor, limite[s])
<1>1. /\ rpc = "compacta" /\ s \in pend /\ \A u \in pend : base[s] <= base[u]
      /\ base'   = [base EXCEPT ![s] = cursor]
      /\ cursor' = cursor + limite[s]
      /\ pend'   = pend \ {s}
      /\ UNCHANGED <<limite, bloque, siguiente, rpc, rp, reservas, spc, susp,
                     disco, escrito>>
  BY DEF CompactaSegmento
<1>2. ram' = IF base[s] # cursor /\ viejo \subseteq Alcanzable
             THEN [x \in Celdas |-> IF x \in nuevo \cap Alcanzable
                                    THEN ram[base[s] + (x - cursor)] ELSE ram[x]]
             ELSE ram
  BY DEF CompactaSegmento
<1>3. /\ base[s] \in Nat /\ base[s] \in Celdas
      /\ limite[s] \in Nat /\ limite[s] > 0 /\ reservas = {}
      /\ cursor \in Nat /\ cursor <= base[s] /\ base[s] + limite[s] <= Techo
      /\ \A u \in pend : u # s => base[s] + limite[s] <= base[u]
      /\ \A u \in Segs : base[u] >= 0 /\ u \notin pend => base[u] + limite[u] <= cursor
  BY <1>1, Orden
<1>4. /\ base'[s] = cursor
      /\ \A u \in Segs : u # s => base'[u] = base[u]
  BY <1>1 DEF IInv, TypeOK, TypeTabla
<1>5. /\ \A u \in Segs : ~Vuelve(u) /\ ~Vuelve(u)'
      /\ \A u \in Segs : u[1] \in susp => ~(base[u] >= 0)
  BY <1>1, <1>3, NadieVuelve DEF Volviendo, Vuelve
<1>6. /\ spc \in {"espera", "fin"} /\ escrito \subseteq Segs
      /\ s[1] \notin susp
  BY <1>1, <1>3, <1>5 DEF IInv, Hilo, TypeOK, TypeDatos
<1>7. /\ viejo \subseteq Alcanzable /\ viejo \subseteq Celdas
      /\ \A x \in Celdas : x \in viejo <=> EnSegmento(x, s)
  BY <1>3, <1>6, Llegan
<1>8. nuevo \subseteq Alcanzable
  <2>1. \A x \in nuevo : x \in Celdas /\ x <= base[s] + limite[s] - 1
                         /\ base[s] + limite[s] - 1 \in viejo
    BY <1>3, <1>7, MemoryAssumption DEF Rango, Celdas
  <2>2. base[s] + limite[s] - 1 \in viejo
    BY <1>3 DEF Rango
  <2>3. base[s] + limite[s] - 1 \in Alcanzable
    BY <1>7, <2>2
  <2> QED BY <1>3, <2>1, <2>3, MemoryAssumption DEF Alcanzable, Celdas
<1>9. ASSUME NEW u \in escrito, base'[u] >= 0, NEW x \in Celdas, EnSegmento(x, u)'
      PROVE  ram'[x] = u
  <2>1. u \in Segs /\ x \in Nat
    BY <1>6, Celda
  <2>2. CASE u = s
    <3>1. cursor <= x /\ x < cursor + limite[s] /\ x \in nuevo
      BY <1>1, <1>3, <1>4, <1>9, <2>1, <2>2 DEF EnSegmento, Rango
    <3>2. base[s] + (x - cursor) \in viejo
      BY <1>3, <2>1, <3>1 DEF Rango
    <3>3. \A y \in Celdas : EnSegmento(y, s) => ram[y] = s
      BY <1>3, <1>5, <2>2 DEF JInv, Datos
    <3>4. ram[base[s] + (x - cursor)] = s
      BY <1>7, <3>2, <3>3
    <3>5. CASE base[s] # cursor
      BY <1>2, <1>7, <1>8, <2>2, <3>1, <3>4, <3>5
    <3>6. CASE base[s] = cursor
      <4>1. base[s] + (x - cursor) = x /\ ram' = ram
        BY <1>2, <1>3, <2>1, <3>6
      <4> QED BY <2>2, <3>4, <4>1
    <3> QED BY <3>5, <3>6
  <2>3. CASE u # s
    <3>1. base[u] >= 0 /\ EnSegmento(x, u)
      BY <1>1, <1>4, <1>9, <2>1, <2>3 DEF EnSegmento
    <3>2. base[u] \in Int /\ limite[u] \in Nat
      BY <2>1, DondeEsta
    <3>3. ram[x] = u
      BY <1>5, <2>1, <3>1 DEF JInv, Datos
    <3>4. x \notin nuevo
      BY <1>3, <2>1, <2>3, <3>1, <3>2 DEF EnSegmento, Rango
    <3> QED BY <1>2, <3>3, <3>4
  <2> QED BY <2>2, <2>3
<1> HIDE DEF viejo, nuevo
<1>10. Cubre'
  <2> SUFFICES ASSUME NEW x \in 0 .. (cursor' - 1)
               PROVE  \E u \in Segs \ pend' : EnSegmento(x, u)'
    BY <1>1 DEF Cubre
  <2>1. x \in Nat /\ x < cursor + limite[s]
    BY <1>1, <1>3
  <2>2. CASE x < cursor
    <3>1. PICK u \in Segs \ pend : EnSegmento(x, u)
      BY <1>1, <1>3, <2>1, <2>2 DEF JInv, Cubre
    <3>2. u # s /\ EnSegmento(x, u)' /\ u \notin pend'
      BY <1>1, <1>4, <3>1 DEF EnSegmento
    <3> QED BY <3>2
  <2>3. CASE ~(x < cursor)
    <3>1. EnSegmento(x, s)' /\ s \notin pend'
      BY <1>1, <1>3, <1>4, <2>1, <2>3 DEF EnSegmento
    <3> QED BY <3>1
  <2> QED BY <2>2, <2>3
<1>11. Suspendidos'
  BY <1>1, <1>3, <1>4, <1>5, <1>6 DEF Suspendidos, Suspendiendo
<1>12. Datos'
  <2>1. BloquesBajo(siguiente)'
    BY <1>1, <1>3, <1>4, <1>5 DEF JInv, Datos, BloquesBajo, EnSwap
  <2>2. \A u \in escrito' : base'[u] = EnSwap \/ Vuelve(u)' => EnDisco(u)'
    BY <1>1, <1>3, <1>4, <1>5, <1>6 DEF JInv, Datos, EnDisco, EnSwap
  <2>3. \A u \in escrito' : base'[u] # Nada
    BY <1>1, <1>3, <1>4, <1>6 DEF JInv, Datos, Nada
  <2> QED BY <1>1, <1>9, <2>1, <2>2, <2>3 DEF Datos
<1> QED BY <1>10, <1>11, <1>12 DEF JInv

LEMMA JCompactaTermina ==
  ASSUME IInv, JInv, CompactaTermina
  PROVE  JInv'
<1>1. /\ rpc = "compacta" /\ pend = {} /\ rpc' = "reasigna"
      /\ libres' = Unico(cursor, TotalRam - cursor)
      /\ UNCHANGED <<tablaVars, siguiente, rp, reservas, spc, susp, datosVars>>
  BY DEF CompactaTermina
<1>2. /\ TotalRam = Techo /\ Techo' = Techo /\ Techo \in Nat
      /\ cursor \in Nat /\ cursor <= Techo
  BY <1>1, MemoryAssumption DEF IInv, Hilo, TotalRam, Techo, Cursor, TypeOK, TypeHilo
<1>3. /\ reservas = {} /\ \A s \in Segs : s[1] \in susp => ~(base[s] >= 0)
  BY <1>1, NadieVuelve DEF Volviendo
<1>4. /\ base' = base /\ limite' = limite /\ bloque' = bloque
  BY <1>1 DEF tablaVars
<1> DEFINE n == [base |-> cursor, tam |-> Techo - cursor]
<1>5. libres' = IF Techo - cursor > 0 THEN {n} ELSE {}
  BY <1>1, <1>2 DEF Unico
<1>6. n.base = cursor /\ n.base + n.tam = Techo
  BY <1>2
<1> HIDE DEF n
<1>7. Cubre'
  <2> SUFFICES ASSUME NEW x \in 0 .. (Techo - 1)
               PROVE  \/ \E a \in libres' : EnBloque(x, a)
                      \/ \E u \in Segs : EnSegmento(x, u)'
    BY <1>1, <1>2 DEF Cubre, EnBloque
  <2>1. x \in Nat /\ x < Techo
    BY <1>2
  <2>2. CASE x < cursor
    <3>1. PICK u \in Segs : EnSegmento(x, u)
      BY <1>1, <1>2, <2>1, <2>2 DEF JInv, Cubre
    <3> QED BY <1>4, <3>1 DEF EnSegmento
  <2>3. CASE ~(x < cursor)
    BY <1>2, <1>5, <1>6, <2>1, <2>3 DEF EnBloque
  <2> QED BY <2>2, <2>3
<1>8. Suspendidos'
  BY <1>1, <1>3, <1>4, <1>5 DEF Suspendidos, Suspendiendo
<1>9. Datos'
  BY <1>1, <1>4, DatosIgual
<1> QED BY <1>7, <1>8, <1>9 DEF JInv

-----------------------------------------------------------------------------
(* The second invariant holds.                                             *)

LEMMA JInicio ==
  ASSUME Init
  PROVE  JInv
<1> USE DEF Init
<1>1. Cubre
  <2> SUFFICES ASSUME NEW x \in 0 .. (Techo - 1)
               PROVE  \E a \in libres : EnBloque(x, a)
    BY DEF Cubre
  <2>1. Techo = Ram
    <3>1. Nuevo > 0 => spc = "espera"
      OBVIOUS
    <3>2. ~(Nuevo > 0) => Ram + Nuevo = Ram
      BY MemoryAssumption
    <3> QED BY <3>1, <3>2 DEF Techo
  <2> DEFINE a == [base |-> 0, tam |-> Ram]
  <2>2. a \in libres /\ a.base = 0 /\ a.tam = Ram
    OBVIOUS
  <2> QED BY <2>1, <2>2, MemoryAssumption DEF EnBloque
<1>2. Suspendidos /\ Datos
  BY DEF Suspendidos, Datos, Suspendiendo, BloquesBajo, Vuelve, EnSwap, Nada
<1> QED BY <1>1, <1>2 DEF JInv

\* The steps a healthy swap never takes.
LEMMA SinFallas ==
  ASSUME IInv, JInv, SwapSano
  PROVE  /\ ~VolcarFalla /\ ~VenceEspera /\ ~TransferirFalla
         /\ \A s \in Segs : ~SuspenderSinSwap(s)
<1>1. ~VolcarFalla
  <2> SUFFICES ASSUME VolcarFalla PROVE FALSE
    OBVIOUS
  <2>1. rpc = "vuelca" /\ ~(Rango(base[rs], limite[rs]) \subseteq Alcanzable)
    BY DEF VolcarFalla, SwapSano
  <2>2. rs \in Segs /\ base[rs] >= 0 /\ spc \in {"espera", "fin"}
    BY <2>1 DEF IInv, Hilo, TypeOK, TypeHilo, Suspendiendo
  <2> QED BY <2>1, <2>2, Llegan
<1>2. ~VenceEspera
  BY DEF VenceEspera, JInv, Suspendidos
<1> QED BY <1>1, <1>2 DEF TransferirFalla, SuspenderSinSwap, SwapSano

LEMMA JPaso ==
  ASSUME IInv, JInv, Sosegado, SwapSano, Next
  PROVE  JInv'
<1>1. CASE Atiende
  BY <1>1, SinFallas, JIniciarCompactacion, JCompactaEmpieza, JCompactaTermina,
     JReasigna, JCompactaSegmento, JFinalizaSegmento, JSuspenderReserva,
     JReservaSegmento, JReservaNoAlcanza, JFinalizaTermina, JVolcar,
     JSuspenderLibera, JSuspenderTermina, JDeshaceReserva,
     JDeshaceTermina, JReservaTermina, JTransferir
     DEF Atiende
<1>2. CASE Recibe
  BY <1>2, JCrearProceso, JFinalizarProceso, JSuspender, JDesSuspender,
     JEliminarSegmento, JSolicitarSegmento, JEscrituraMemoria DEF Recibe
<1>3. CASE Cpu
  BY <1>3, JDespachar, JCpuEscribe, JCpuDevuelve DEF Cpu
<1>4. CASE Stick
  BY <1>4, JRegistraStick, JAgregaBloque, JConectaStick DEF Stick
<1> QED BY <1>1, <1>2, <1>3, <1>4 DEF Next

LEMMA JQuieto ==
  ASSUME IInv, JInv, UNCHANGED vars
  PROVE  JInv'
<1>1. /\ UNCHANGED <<tablaVars, libres, siguiente, rxVars, spc, susp, datosVars>>
  BY DEF vars
<1>2. UNCHANGED <<base, limite, bloque, libres, siguiente, ram, disco, escrito, rpc, rp,
                  rs, pend, reservas, cursor, spc, susp>>
  BY <1>1 DEF tablaVars, rxVars, datosVars
<1>3. Cubre'
  BY <1>2 DEF JInv, Cubre, Techo, EnBloque, EnSegmento
<1>4. Suspendidos'
  BY <1>2 DEF JInv, Suspendidos, Suspendiendo, Volviendo, Vuelve
<1>5. Datos'
  BY <1>2 DEF JInv, Datos, EnDisco, EnSegmento, BloquesBajo, Vuelve
<1> QED BY <1>3, <1>4, <1>5 DEF JInv

\* With a healthy swap as well, no cell and no byte is lost.
THEOREM MemoriaSana == Sosegado /\ SwapSano /\ Spec => [](IInv /\ JInv)
<1>1. Init => IInv /\ JInv
  BY Inicio, JInicio
<1>2. Sosegado /\ SwapSano /\ IInv /\ JInv /\ [Next]_vars => (IInv /\ JInv)'
  BY Paso, Quieto, JPaso, JQuieto
<1>3. Sosegado => []Sosegado
  BY DEF Sosegado
<1>4. SwapSano => []SwapSano
  BY DEF SwapSano
<1> QED BY <1>1, <1>2, <1>3, <1>4, PTL DEF Spec

LEMMA NingunaFuga ==
  ASSUME IInv, JInv
  PROVE  SinFugas
<1> SUFFICES ASSUME rpc # "compacta", spc # "agrega"
             PROVE  0 .. (TotalRam - 1) = CeldasLibres \union UNION {Ocupa(s) : s \in Segs}
  BY DEF SinFugas
<1>1. TotalRam = Techo /\ Techo \in Nat
  BY MemoryAssumption DEF TotalRam, Techo, IInv, TypeOK, TypeCpus
<1>2. \A a \in libres : a.base \in Nat /\ a.tam \in Nat /\ a.base + a.tam <= Techo
  BY TiposBloque DEF IInv, TypeOK, TypeTabla, Libres
<1>3. \A s \in Segs : base[s] >= 0 =>
        base[s] \in Nat /\ limite[s] \in Nat /\ base[s] + limite[s] <= Techo
  <2> SUFFICES ASSUME NEW s \in Segs, base[s] >= 0
               PROVE  base[s] \in Nat /\ limite[s] \in Nat /\ base[s] + limite[s] <= Techo
    OBVIOUS
  <2>1. base[s] \in Celdas /\ Reclama(s, base[s])
    BY DondeEsta DEF Reclama
  <2> QED BY <2>1, TamanoReclamado
<1>4. ASSUME NEW x \in 0 .. (Techo - 1)
      PROVE  x \in CeldasLibres \union UNION {Ocupa(s) : s \in Segs}
  <2>1. CASE \E a \in libres : EnBloque(x, a)
    BY <1>1, <1>2, <2>1 DEF EnBloque, CeldasLibres, Rango
  <2>2. CASE \E s \in Segs : EnSegmento(x, s)
    <3>1. PICK s \in Segs : EnSegmento(x, s)
      BY <2>2
    <3>2. x \in Ocupa(s)
      BY <1>1, <1>3, <3>1, DondeEsta DEF EnSegmento, Ocupa, Rango
    <3> QED BY <3>2
  <2> QED BY <2>1, <2>2 DEF JInv, Cubre
<1>5. ASSUME NEW x \in CeldasLibres
      PROVE  x \in 0 .. (Techo - 1)
  <2>1. PICK a \in libres : x \in Rango(a.base, a.tam)
    BY DEF CeldasLibres
  <2> QED BY <1>1, <1>2, <2>1 DEF Rango
<1>6. ASSUME NEW s \in Segs, NEW x \in Ocupa(s)
      PROVE  x \in 0 .. (Techo - 1)
  BY <1>1, <1>3 DEF Ocupa, Rango
<1> QED BY <1>1, <1>4, <1>5, <1>6

\* Every cell below the top of RAM is free or in a segment, for ever.
THEOREM NadaSePierde == Sosegado /\ SwapSano /\ Spec => []SinFugas
  BY NingunaFuga, MemoriaSana, PTL

LEMMA BytesEnSuLugar ==
  ASSUME IInv, JInv
  PROVE  DatosIntactos
<1> SUFFICES ASSUME NEW s \in escrito
             PROVE  IF base[s] = EnSwap \/ \E r \in reservas : r[1] = s
                    THEN \A b \in Rango(bloque[s], BloquesDe(limite[s])) : disco[b] = s
                    ELSE \A x \in Ocupa(s) : ram[x] = s
  BY DEF DatosIntactos
<1>1. s \in Segs
  BY DEF IInv, TypeOK, TypeDatos
<1>2. CASE base[s] = EnSwap \/ Vuelve(s)
  BY <1>2 DEF JInv, Datos, EnDisco, Vuelve
<1>3. CASE ~(base[s] = EnSwap \/ Vuelve(s))
  <2>1. base[s] >= 0
    BY <1>1, <1>3, DondeEsta DEF JInv, Datos
  <2>2. \A x \in Ocupa(s) : x \in Celdas /\ EnSegmento(x, s)
    BY <1>1, <2>1, Llegan DEF Ocupa
  <2> QED BY <1>3, <2>1, <2>2 DEF JInv, Datos, Vuelve
<1> QED BY <1>2, <1>3

\* What a process wrote is where its table says, in RAM or in swap.
THEOREM NadaSeCorrompe == Sosegado /\ SwapSano /\ Spec => []DatosIntactos
  BY BytesEnSuLugar, MemoriaSana, PTL

-----------------------------------------------------------------------------
(* What bloques_calcular_espacio_libre says of a list of one block.        *)

LEMMA EspacioDeUno ==
  ASSUME NEW a, a.tam \in Nat, libres \subseteq {a}
  PROVE  EspacioLibre = IF libres = {} THEN 0 ELSE a.tam
<1> DEFINE g == [s \in SUBSET libres |-> IF s = {} THEN 0 ELSE a.tam]
           suma(f, s) == IF s = {} THEN 0
                         ELSE LET x == CHOOSE x \in s : TRUE IN x.tam + f[s \ {x}]
           ec(f) == f = [s \in SUBSET libres |-> suma(f, s)]
           h == CHOOSE f : ec(f)
<1>1. \A s \in SUBSET libres : s = {} \/ (s = {a} /\ libres = {a})
  OBVIOUS
<1>2. (CHOOSE x \in {a} : TRUE) = a /\ {a} \ {a} = {}
  OBVIOUS
<1>3. g[{}] = 0 /\ (libres = {a} => g[{a}] = a.tam)
  OBVIOUS
<1>4. \A s \in SUBSET libres : g[s] = suma(g, s)
  <2> SUFFICES ASSUME NEW s \in SUBSET libres PROVE g[s] = suma(g, s)
    OBVIOUS
  <2>1. CASE s = {}
    BY <1>3, <2>1
  <2>2. CASE s = {a} /\ libres = {a}
    <3> HIDE DEF g
    <3>1. suma(g, {a}) = a.tam + g[{a} \ {a}]
      BY <1>2
    <3> QED BY <1>2, <1>3, <2>2, <3>1
  <2> QED BY <1>1, <2>1, <2>2
<1>5. ec(g)
  BY <1>4
<1>6. ec(h)
  BY <1>5
<1>7. EspacioLibre = h[libres]
  BY DEF EspacioLibre, MapThenSumSet, MapThenFoldSet
<1> HIDE DEF h
<1>8. \A s \in SUBSET libres : h[s] = suma(h, s)
  BY <1>6
<1>9. h[{}] = 0
  BY <1>8
<1>10. CASE libres = {}
  BY <1>7, <1>9, <1>10
<1>11. CASE libres = {a}
  <2>1. h[{a}] = suma(h, {a})
    BY <1>8, <1>11
  <2>2. suma(h, {a}) = a.tam + h[{a} \ {a}]
    BY <1>2
  <2>3. h[{a}] = a.tam
    BY <1>2, <1>9, <2>1, <2>2
  <2> QED BY <1>7, <1>11, <2>3
<1> QED BY <1>1, <1>10, <1>11

\* After a compaction, or with no segment at all, what is free is in one block.
LEMMA NiegaPorEspacio ==
  ASSUME IInv, JInv, rpc = "reasigna", Alcanza(rt) = {}
  PROVE  EspacioLibre < rt
<1>1. rt \in Nat /\ rt > 0
  BY MemoryAssumption DEF IInv, Hilo, Compactando
<1>2. \A a, b \in libres : a = b
  BY DEF JInv, Suspendidos
<1>3. CASE libres = {}
  <2> DEFINE a == [base |-> 0, tam |-> 0]
  <2>1. a.tam \in Nat /\ libres \subseteq {a}
    BY <1>3
  <2>2. EspacioLibre = 0
    BY <1>3, <2>1, EspacioDeUno
  <2> QED BY <1>1, <2>2
<1>4. CASE libres # {}
  <2>1. PICK a \in libres : TRUE
    BY <1>4
  <2>2. a.tam \in Nat /\ libres \subseteq {a}
    BY <1>2, TiposBloque DEF IInv, TypeOK, TypeTabla
  <2>3. EspacioLibre = a.tam
    BY <1>4, <2>2, EspacioDeUno
  <2>4. ~(a.tam >= rt)
    BY DEF Alcanza
  <2> QED BY <1>1, <2>2, <2>3, <2>4
<1> QED BY <1>3, <1>4

\* The only steps that condemn a process in a syscall refuse it memory.
LEMMA SoloNiega ==
  ASSUME IInv, JInv, Next, NEW c \in Cpus, modo[c] = "pide", modo'[c] = "cae"
  PROVE  rt' > MaxSeg \/ EspacioLibre < rt'
<1> USE DEF cpuVars
<1>1. modo \in [Cpus -> {"libre", "corre", "pide", "cae"}]
  BY DEF IInv, TypeOK, TypeCpus
<1>2. modo' # modo
  OBVIOUS
<1>3. ASSUME NEW s, NEW t, NEW b, CrearSegmento(s, t, b) PROVE FALSE
  <2>1. PICK d \in Cpus : Reanudar(d)
    BY <1>3 DEF CrearSegmento
  <2> QED BY <1>1, <2>1 DEF Reanudar
<1>4. CASE Reasigna
  <2>1. rpc = "reasigna" /\ Alcanza(rt) = {} /\ rt' = rt
    BY <1>3, <1>4 DEF Reasigna, NegarSegmento, Termina
  <2> QED BY <2>1, NiegaPorEspacio
<1>5. ASSUME NEW d \in Cpus, NEW i \in Ids, NEW t \in Tamanios, SolicitarSegmento(d, i, t)
      PROVE  rt' > MaxSeg \/ EspacioLibre < rt'
  <2> DEFINE s == <<cpid[d], i>>
  <2>1. \/ t > MaxSeg /\ NegarSegmento(s, t)
        \/ EspacioLibre < t /\ NegarSegmento(s, t)
    BY <1>2, <1>3, <1>5 DEF SolicitarSegmento
  <2>2. NegarSegmento(s, t) => rt' = t
    BY DEF NegarSegmento, Termina
  <2> QED BY <2>1, <2>2
<1>6. ASSUME NEW d \in Cpus, NEW i \in Ids, EliminarSegmento(d, i) PROVE FALSE
  BY <1>1, <1>6 DEF EliminarSegmento, Reanudar
<1>7. ASSUME FinalizaTermina PROVE FALSE
  BY <1>1, <1>7 DEF FinalizaTermina
<1>8. CASE Cpu
  <2>1. ASSUME NEW d \in Cpus, NEW p \in Procs, Despachar(d, p) PROVE FALSE
    BY <1>1, <2>1 DEF Despachar
  <2>2. ASSUME NEW d \in Cpus, NEW m \in {"libre", "pide", "cae"}, CpuDevuelve(d, m)
        PROVE FALSE
    BY <1>1, <2>2 DEF CpuDevuelve
  <2>3. ASSUME NEW d \in Cpus, NEW i \in Ids, CpuEscribe(d, i) PROVE FALSE
    BY <1>2, <2>3 DEF CpuEscribe
  <2> QED BY <1>8, <2>1, <2>2, <2>3 DEF Cpu
<1>9. CASE Stick
  BY <1>2, <1>9 DEF Stick, RegistraStick, AgregaBloque, ConectaStick
<1>10. CASE Recibe
  <2>1. \A p \in Procs : /\ ~CrearProceso(p) /\ ~FinalizarProceso(p) /\ ~Suspender(p)
                         /\ ~DesSuspender(p)
    BY <1>2 DEF CrearProceso, FinalizarProceso, Suspender, DesSuspender
  <2>2. \A s \in Segs : ~EscrituraMemoria(s)
    BY <1>2 DEF EscrituraMemoria
  <2> QED BY <1>5, <1>6, <1>10, <2>1, <2>2 DEF Recibe
<1>11. CASE Atiende
  <2>1. ~IniciarCompactacion /\ ~CompactaEmpieza /\ ~CompactaTermina
    BY <1>2 DEF IniciarCompactacion, CompactaEmpieza, CompactaTermina
  <2>2. \A s \in Segs : /\ ~CompactaSegmento(s) /\ ~FinalizaSegmento(s)
                        /\ ~SuspenderReserva(s) /\ ~SuspenderSinSwap(s)
                        /\ ~ReservaSegmento(s) /\ ~ReservaNoAlcanza(s)
    BY <1>2 DEF CompactaSegmento, FinalizaSegmento, SuspenderReserva,
                SuspenderSinSwap, ReservaSegmento, ReservaNoAlcanza
  <2>3. /\ ~Volcar /\ ~VolcarFalla /\ ~VenceEspera /\ ~SuspenderLibera
        /\ ~SuspenderTermina /\ ~DeshaceTermina /\ ~ReservaTermina /\ ~Transferir
        /\ ~TransferirFalla
    BY <1>2 DEF Volcar, VolcarFalla, VenceEspera, SuspenderLibera, SuspenderTermina,
                DeshaceTermina, ReservaTermina, Transferir, TransferirFalla
  <2>4. \A r \in reservas : ~DeshaceReserva(r)
    BY <1>2 DEF DeshaceReserva
  <2> QED BY <1>4, <1>7, <1>11, <2>1, <2>2, <2>3, <2>4 DEF Atiende
<1> QED BY <1>8, <1>9, <1>10, <1>11 DEF Next

\* Fragmentation alone never kills a process.
THEOREM SoloSinEspacio == Sosegado /\ SwapSano /\ Spec => NiegaSoloSinEspacio
<1>1. IInv /\ JInv /\ [Next]_vars =>
        [\A c \in Cpus : (modo[c] = "pide" /\ modo'[c] = "cae") =>
           rt' > MaxSeg \/ EspacioLibre < rt']_vars
  BY SoloNiega
<1> QED BY <1>1, MemoriaSana, PTL DEF Spec, NiegaSoloSinEspacio

=============================================================================
