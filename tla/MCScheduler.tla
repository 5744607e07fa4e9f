---------------------------- MODULE MCScheduler ----------------------------
(***************************************************************************)
(* The instance of the scheduler: the goroutine that starts it and one for *)
(* internal commands, two jobs of which one prefix names one, two bodies.  *)
(***************************************************************************)
EXTENDS SchedulerProperties, TLC

CONSTANTS other, j1, j2, k1, k2, k3, v1, v2

OnePrefix == {{j1}}
Symmetry == Permutations(Crons) \cup Permutations(Versions)
=============================================================================
