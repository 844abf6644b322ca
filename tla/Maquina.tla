------------------------------ MODULE Maquina ------------------------------
(***************************************************************************)
(* What the CPUs, kernel_memory and the Memory Sticks promise a program:   *)
(* a machine of its own.  Each process has registers, a pc and a list of   *)
(* segments with their bytes, executes one instruction of its program at a *)
(* time, and nothing else changes what it sees: neither context switches,  *)
(* nor the CPU it runs on, nor where its segments are, nor other           *)
(* processes.  An access is legal when it lies inside of the segment; the  *)
(* sum is over the naturals, without wrap-around.                          *)
(***************************************************************************)
EXTENDS Instrucciones

CONSTANTS Procs, Programa

VARIABLES
  est,    \* "vivo", "pide" (a syscall the kernel has not answered) or "fin"
  regs,   \* registers of each process
  pc,     \* its program counter
  mem     \* its segments: a list of [id, datos]

mvars == <<est, regs, pc, mem>>

Init ==
  /\ est  = [p \in Procs |-> "vivo"]
  /\ regs = [p \in Procs |-> [r \in Regs |-> 0]]
  /\ pc   = [p \in Procs |-> 0]
  /\ mem  = [p \in Procs |-> <<>>]

Termina(p) ==
  /\ est' = [est EXCEPT ![p] = "fin"]
  /\ mem' = [mem EXCEPT ![p] = <<>>]
  /\ UNCHANGED regs

\* t bytes from the logical address dir belong to one segment of p.
Legal(p, dir, t) ==
  LET d == Descomponer(dir)
      k == BuscarSegmento(mem[p], d.seg)
  IN  k # 0 /\ d.desp + t <= Len(mem[p][k].datos)

\* Those bytes, and the segments of p once bs is written there.
Lectura(p, dir, t) ==
  LET d == Descomponer(dir)
      k == BuscarSegmento(mem[p], d.seg)
  IN  SubSeq(mem[p][k].datos, d.desp + 1, d.desp + t)

Escritura(p, dir, bs) ==
  LET d == Descomponer(dir)
      k == BuscarSegmento(mem[p], d.seg)
      nuevo == [j \in DOMAIN mem[p][k].datos |->
                  IF j \in (d.desp + 1) .. (d.desp + Len(bs))
                  THEN bs[j - d.desp] ELSE mem[p][k].datos[j]]
  IN  [mem[p] EXCEPT ![k].datos = nuevo]

Paso(p) ==
  LET i == Linea(Programa[p], pc[p])
      r == regs[p]
      t == Tamanio(r, i)
  IN
  /\ est[p] = "vivo"
  /\ \/ /\ i.op \in RegOps
        /\ regs' = [regs EXCEPT ![p] = RegPaso(r, pc[p], i).regs]
        /\ pc'   = [pc EXCEPT ![p] = RegPaso(r, pc[p], i).pc]
        /\ UNCHANGED <<est, mem>>
     \/ /\ i.op \in Syscalls
        /\ est' = [est EXCEPT ![p] = "pide"]
        /\ pc'  = [pc EXCEPT ![p] = SigPc(@)]
        /\ UNCHANGED <<regs, mem>>
     \/ /\ i.op \notin RegOps \union Syscalls \union MmuOps
        /\ Termina(p)
        /\ pc' = [pc EXCEPT ![p] = IF i.op = "" THEN @ ELSE SigPc(@)]
     \/ /\ i.op \in MmuOps
        /\ pc' = [pc EXCEPT ![p] = SigPc(@)]
        /\ IF (Lee(i) => Legal(p, r["SI"], t)) /\ (Escribe(i) => Legal(p, r["DI"], t))
           THEN /\ regs' = [regs EXCEPT ![p] =
                     IF i.op = "MOV_IN"
                     THEN Asignar(r, i.reg, DeBytes(Lectura(p, r["SI"], t))) ELSE r]
                /\ mem' = [mem EXCEPT ![p] =
                     CASE i.op = "MOV_IN" -> @
                       [] i.op = "MOV_OUT" ->
                            Escritura(p, r["DI"], ABytes(Obtener(r, i.reg), t))
                       [] i.op = "COPY_MEM" ->
                            Escritura(p, r["DI"], Lectura(p, r["SI"], t))]
                /\ UNCHANGED est
           ELSE Termina(p)

\* The kernel answers a syscall: the process goes on, perhaps with a new segment
\* of arbitrary contents or without an old one, or it is ended.
Atender(p) ==
  LET i == Linea(Programa[p], pc[p] - 1) IN
  /\ est[p] = "pide"
  /\ UNCHANGED <<regs, pc>>
  /\ \/ /\ i.op = "MEM_ALLOC"
        /\ est' = [est EXCEPT ![p] = "vivo"]
        /\ \E bs \in [1 .. i.val -> Bytes] :
             mem' = [mem EXCEPT ![p] = Append(@, [id |-> i.id, datos |-> bs])]
     \/ /\ i.op = "MEM_ALLOC"
        /\ est' = [est EXCEPT ![p] = "fin"]
        /\ mem' = [mem EXCEPT ![p] = <<>>]
     \/ /\ i.op = "MEM_FREE"
        /\ est' = [est EXCEPT ![p] = "vivo"]
        /\ LET k == BuscarSegmento(mem[p], i.id)
           IN  mem' = [mem EXCEPT ![p] =
                 SubSeq(@, 1, k - 1) \o SubSeq(@, k + 1, Len(@))]
     \/ /\ i.op \notin MemSyscalls
        /\ est' = [est EXCEPT ![p] = "vivo"]
        /\ UNCHANGED mem

Next == \E p \in Procs : Paso(p) \/ Atender(p)

Spec == Init /\ [][Next]_mvars
=============================================================================
