---------------------------- MODULE MCSuspension ----------------------------
(* Instances of Suspension for TLC.                                        *)
EXTENDS Suspension, TLC

CONSTANTS p1, p2, teclado, pantalla, reloj

TipoMC == [i \in Ios |-> CASE i = teclado -> "STDIN" [] i = pantalla -> "STDOUT"
                            [] i = reloj -> "SLEEP"]

PrioridadIgual == [p \in Procs |-> 0]

PrioridadMC == [p \in Procs |-> IF p = p1 THEN 0 ELSE 1]

\* Any set of at most one process fits; or every set does.
CabeUno   == {S \in SUBSET Procs : Cardinality(S) <= 1}
Simetria == Permutations(Procs)

CabeTodos == SUBSET Procs
=============================================================================
