------------------------------ MODULE MCMemory ------------------------------
(* Instances of KernelMemory for TLC.  Processes, segment numbers and CPUs *)
(* are interchangeable.                                                    *)
EXTENDS KernelMemory, TLC

Simetria     == Permutations(Procs) \union Permutations(Ids)
SimetriaCpus == Simetria \union Permutations(Cpus)
=============================================================================
