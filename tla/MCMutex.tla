------------------------------ MODULE MCMutex ------------------------------
(* Instances of SystemMutex for TLC.                                       *)
EXTENDS SystemMutex, TLC

CONSTANTS Alto, Medio, Bajo   \* processes of the first, a middle and the last level

MCProcs     == Alto \union Medio \union Bajo
MCPrioridad == [p \in MCProcs |-> IF p \in Alto THEN 0
                                  ELSE IF p \in Medio THEN 1 ELSE Niveles - 1]

\* Mutex names are interchangeable, and so are CPUs and processes of a level.
Simetria == Permutations(Nombres) \union Permutations(Cpus) \union
            Permutations(Alto) \union Permutations(Medio) \union Permutations(Bajo)
=============================================================================
