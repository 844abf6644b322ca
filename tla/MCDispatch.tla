----------------------------- MODULE MCDispatch -----------------------------
(* Instances of Dispatch for TLC.                                          *)
EXTENDS Dispatch, TLC

CONSTANTS Alto, Bajo   \* processes of the first and of the last level

MCProcs     == Alto \union Bajo
MCPrioridad == [p \in MCProcs |-> IF p \in Alto THEN 0 ELSE Niveles - 1]

\* Processes of a level are interchangeable, and so are CPUs.
Simetria == Permutations(Cpus) \union Permutations(Alto) \union Permutations(Bajo)
=============================================================================
