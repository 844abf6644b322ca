--------------------------- MODULE Instrucciones ---------------------------
(***************************************************************************)
(* Registers, bytes and the instructions that touch registers only         *)
(* (cpu_ciclo.c).  The widths are constants: the code has Byte = 256 and   *)
(* BytesReg = 4; every wrap-around is kept, at the scale of the constants. *)
(***************************************************************************)
EXTENDS Integers, Sequences

CONSTANTS
  Byte,       \* values of a byte, 2^8 in the code
  BytesReg,   \* bytes of EAX .. EDX, SI and DI, 4 in the code
  Regs8,      \* the registers of one byte: AX, BX, CX, DX
  Regs32,     \* the registers of BytesReg bytes
  MaxSeg      \* SEGMENT_MAX_SIZE

ASSUME AnchoAssumption ==
  /\ Byte \in Nat \ {0, 1} /\ BytesReg \in Nat \ {0} /\ MaxSeg \in Nat \ {0}
  /\ Regs8 \intersect Regs32 = {} /\ {"SI", "DI"} \subseteq Regs32

Palabra == Byte ^ BytesReg      \* 2^32

\* Arithmetic: this follows from the types above, but provers know nothing of powers.
ASSUME PotenciaAssumption ==
  Byte <= Palabra /\ \A n \in 0 .. BytesReg : Byte ^ n \in Nat \ {0}

Regs == Regs8 \union Regs32
Bytes == 0 .. (Byte - 1)

\* An instruction after decode_instruccion: reg and orig are its parameters when
\* they are registers (orig = "" if the second one is the number val), id the
\* segment of MEM_ALLOC and MEM_FREE.
Instr(op, reg, orig, val, id) ==
  [op |-> op, reg |-> reg, orig |-> orig, val |-> val, id |-> id]

\* What fetch gets for a pc outside of the program: the empty line, whose
\* name is no instruction.
Vacia == Instr("", "", "", 0, 0)

MmuOps     == {"MOV_IN", "MOV_OUT", "COPY_MEM"}
Syscalls   == {"SLEEP", "STDIN", "STDOUT", "INIT_PROC", "MEM_ALLOC", "MEM_FREE",
               "MUTEX_CREATE", "MUTEX_LOCK", "MUTEX_UNLOCK"}
MemSyscalls == {"MEM_ALLOC", "MEM_FREE"}
RegOps     == {"NOOP", "SET", "SUM", "SUB", "JNZ"}

\* The line pc of a program, counted from 0.
Linea(programa, pc) == IF pc < Len(programa) THEN programa[pc + 1] ELSE Vacia

Obtener(r, nombre) == IF nombre \in Regs THEN r[nombre] ELSE 0

\* Mutant: the byte registers are not truncated.
AsignarSinTruncar(r, nombre, v) ==
  IF nombre \in Regs THEN [r EXCEPT ![nombre] = v % Palabra] ELSE r

\* asignar_valor_registro: a byte register keeps the low byte of a 32 bit value.
Asignar(r, nombre, v) ==
  IF nombre \in Regs8 THEN [r EXCEPT ![nombre] = v % Byte]
  ELSE IF nombre \in Regs32 THEN [r EXCEPT ![nombre] = v % Palabra]
  ELSE r

Sizeof(nombre) == IF nombre \in Regs8 THEN 1 ELSE BytesReg

\* Value of the second operand of SUM and SUB.
Operando(r, i) == IF i.orig = "" THEN i.val ELSE Obtener(r, i.orig)

\* The sum of the first n values of f.
Suma(f, n) ==
  LET s[k \in 0 .. n] == IF k = 0 THEN 0 ELSE s[k - 1] + f[k]
  IN  s[n]

\* Little-endian bytes of a register, and the register that memcpy fills.
ABytes(v, n) == [k \in 1 .. n |-> (v \div (Byte ^ (k - 1))) % Byte]

DeBytes(bs) == Suma([k \in 1 .. Len(bs) |-> bs[k] * (Byte ^ (k - 1))], Len(bs))

SigPc(pc) == (pc + 1) % Palabra

\* The registers an instruction of RegOps leaves, with the next pc.
RegPaso(r, pc, i) ==
  CASE i.op = "SET" /\ i.reg = "PC" -> [regs |-> r, pc |-> i.val % Palabra]
    [] i.op = "SET" /\ i.reg # "PC" ->
         [regs |-> Asignar(r, i.reg, i.val), pc |-> SigPc(pc)]
    [] i.op = "SUM" ->
         [regs |-> Asignar(r, i.reg, (Obtener(r, i.reg) + Operando(r, i)) % Palabra),
          pc |-> SigPc(pc)]
    [] i.op = "SUB" ->
         [regs |-> Asignar(r, i.reg, (Obtener(r, i.reg) - Operando(r, i)) % Palabra),
          pc |-> SigPc(pc)]
    [] i.op = "JNZ" ->
         [regs |-> r,
          pc |-> IF Obtener(r, i.reg) # 0 THEN i.val % Palabra ELSE SigPc(pc)]
    [] i.op = "NOOP" -> [regs |-> r, pc |-> SigPc(pc)]

\* Segment and offset of a logical address.
Descomponer(dir) == [seg |-> dir \div MaxSeg, desp |-> dir % MaxSeg]

\* Index of the first entry with that id in a list of segments, 0 if none.
BuscarSegmento(segs, id) ==
  LET hay == {k \in 1 .. Len(segs) : segs[k].id = id}
  IN  IF hay = {} THEN 0 ELSE CHOOSE k \in hay : \A j \in hay : k <= j

\* Size and addresses of the accesses of an instruction of MmuOps: MOV_IN reads
\* at SI, MOV_OUT writes at DI, COPY_MEM does both with the size in its register.
Tamanio(r, i) == IF i.op = "COPY_MEM" THEN Obtener(r, i.reg) ELSE Sizeof(i.reg)
Lee(i)     == i.op \in {"MOV_IN", "COPY_MEM"}
Escribe(i) == i.op \in {"MOV_OUT", "COPY_MEM"}
=============================================================================
