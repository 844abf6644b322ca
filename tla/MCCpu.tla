------------------------------- MODULE MCCpu -------------------------------
(* Instances of Cpu for TLC: bytes of two bits, registers of two bytes.    *)
EXTENDS Cpu

CONSTANTS p1, p2, c1, c2, s1, s2

\* p1 gets a segment that may span both sticks, writes a word in it (over the
\* border of the sticks if it does) and spins reading it back.  p2 copies from its
\* segment with a size that makes offset + size wrap around.
MCPrograma ==
  p1 :> << Instr("MEM_ALLOC", "", "", 3, 0),
           Instr("SUM", "DI", "", 1, 0),
           Instr("MOV_OUT", "DI", "", 0, 0),
           Instr("MOV_IN", "EAX", "", 0, 0),
           Instr("JNZ", "EAX", "", 3, 0) >>
  @@
  p2 :> << Instr("MEM_ALLOC", "", "", 2, 3),
           Instr("SUB", "SI", "", 1, 0),
           Instr("COPY_MEM", "SI", "", 0, 0) >>

\* While CPUs and sticks connect: p1 uses what it gets and gives it back, p2 asks
\* for more than there is.
MCProgramaAltas ==
  p1 :> << Instr("MEM_ALLOC", "", "", 3, 0),
           Instr("SUB", "AX", "", 1, 0),
           Instr("MOV_OUT", "AX", "", 0, 0),
           Instr("MEM_FREE", "", "", 0, 0),
           Instr("EXIT", "", "", 0, 0) >>
  @@
  p2 :> << Instr("MEM_ALLOC", "", "", 3, 0) >>

MCTam == s1 :> 2 @@ s2 :> 3
MCTodos == <<s1, s2>>
MCInicio == <<s1>>
=============================================================================
