---------------------------- MODULE CicloProceso ----------------------------
(***************************************************************************)
(* The life cycle kernel_scheduler promises for a process: the states of   *)
(* t_estado and where the segments of the process may be in each of them.  *)
(* Threads, queues, timers and messages do not appear.                     *)
(***************************************************************************)
CONSTANTS
  Procs,
  SwapFalla   \* TRUE if swap may be missing, fill up or fail

VARIABLES
  vida,   \* t_estado of each process, "LIBERADO" once its PCB is freed
  lugar   \* where its segments are: "nada", "ram" or "swap"

Init ==
  /\ vida  = [p \in Procs |-> "NEW"]
  /\ lugar = [p \in Procs |-> "nada"]

Pasa(p, de, a) ==
  /\ vida[p] \in de
  /\ vida' = [vida EXCEPT ![p] = a]
  /\ UNCHANGED lugar

Mueve(p, de, a) ==
  /\ lugar[p] \in de
  /\ lugar' = [lugar EXCEPT ![p] = a]
  /\ UNCHANGED vida

\* Execution.  A program allocates and frees while it runs.
Admite(p)     == Pasa(p, {"NEW"}, "READY")
Despacha(p)   == Pasa(p, {"READY"}, "EXEC")
Desaloja(p)   == Pasa(p, {"EXEC"}, "READY")
Bloquea(p)    == Pasa(p, {"EXEC"}, "BLOCK")
Desbloquea(p) == Pasa(p, {"BLOCK"}, "READY")
Asigna(p)     == vida[p] = "EXEC" /\ Mueve(p, {"nada", "ram"}, "ram")

\* Suspension.  The dump happens in SUSP_BLOCK and is over before SUSP_READY,
\* unless swap fails it; the segments are back before READY in any case.
Suspende(p)   == Pasa(p, {"BLOCK"}, "SUSP_BLOCK")
Vuelca(p)     == vida[p] = "SUSP_BLOCK" /\ Mueve(p, {"ram"}, "swap")
Completa(p)   == (SwapFalla \/ lugar[p] # "ram")
                   /\ Pasa(p, {"SUSP_BLOCK"}, "SUSP_READY")
Restaura(p)   == vida[p] = "SUSP_READY" /\ Mueve(p, {"swap"}, "ram")
Reanuda(p)    == lugar[p] # "swap" /\ Pasa(p, {"SUSP_READY"}, "READY")

\* The end.  A suspended process ends only with its segments back in RAM, and
\* its PCB is freed after memory has let go of everything it had.
Termina(p)    == lugar[p] # "swap" /\ Pasa(p, {"EXEC", "BLOCK", "SUSP_READY"},
                                           "EXIT")
Devuelve(p)   == vida[p] \in {"EXEC", "EXIT"}
                   /\ Mueve(p, {"nada", "ram"}, "nada")
Libera(p)     == lugar[p] = "nada" /\ Pasa(p, {"EXIT"}, "LIBERADO")

Next ==
  \E p \in Procs :
    \/ Admite(p) \/ Despacha(p) \/ Desaloja(p) \/ Bloquea(p) \/ Desbloquea(p)
    \/ Asigna(p) \/ Suspende(p) \/ Vuelca(p) \/ Completa(p) \/ Restaura(p)
    \/ Reanuda(p) \/ Termina(p) \/ Devuelve(p) \/ Libera(p)

Spec == Init /\ [][Next]_<<vida, lugar>>
=============================================================================
